------------------------------ MODULE Cookies -------------------------------
(***************************************************************************)
(* The cookie texts of core/cookies.go.                                    *)
(*                                                                         *)
(* A text is a sequence of tokens: the characters the parser looks for     *)
(* (space, tab, line ends, ; = and quotes), #HttpOnly_, and words between  *)
(* them.  A JSON document is one token, and what it decodes to is the      *)
(* second part of the text.  Names, values, domains and paths are          *)
(* sequences of tokens too, empty for "".                                  *)
(***************************************************************************)
EXTENDS Naturals, Sequences, SequencesExt, FiniteSetsExt, Functions

Space  == {"SP", "TAB", "CR", "NL"}
Quotes == {"'", "DQ"}
Google == <<".google.com">>
Root   == <<"/">>

\* What TrimSpace, Split, and \s+ on a trimmed line do.
Trim(text) ==
  LET solid == {i \in DOMAIN text : text[i] \notin Space}
  IN IF solid = {} THEN <<>> ELSE SubSeq(text, Min(solid), Max(solid))

Split(text, separators) ==
  LET places == [i \in DOMAIN text |-> i]
      cuts   == <<0>> \o SelectSeq(places, LAMBDA i : text[i] \in separators)
                      \o <<Len(text) + 1>>
  IN [k \in 1 .. Len(cuts) - 1 |-> SubSeq(text, cuts[k] + 1, cuts[k + 1] - 1)]

Words(line) ==
  SelectSeq(Split(line, Space), LAMBDA part : part # <<>>)

\* Of an expiry, 0 (a session cookie) and one other time are told apart.
Digits(n) == IF n = 0 THEN <<"0">> ELSE <<"1893456000">>
ParseInt(column) == IF column = <<"1893456000">> THEN 1893456000 ELSE 0

\* A cookie of a text that gives no more than name and value.
Plain(name, value) ==
  [name |-> name, value |-> value, domain |-> Google, path |-> Root,
   secure |-> TRUE, httpOnly |-> FALSE, expires |-> 0]

\* The value not looked at.
HasName(cookie) == cookie.name # <<>>

HasNameAndValue(cookie) == cookie.name # <<>> /\ cookie.value # <<>>

\* The entries that count, at the places they have in the text.
Kept(cookies) ==
  Restrict(cookies, {i \in DOMAIN cookies : HasNameAndValue(cookies[i])})

-----------------------------------------------------------------------------
(* JSON: a list of objects, an object with such a list, or a dictionary, at *)
(* the places they have in the document.                                   *)

NoJSON == [none |-> TRUE]

Field(object, key, default) ==
  IF key \in DOMAIN object THEN object[key] ELSE default

FromObject(o) ==
  LET path == Field(o, "path", <<>>)
  IN [name     |-> Trim(Field(o, "name", <<>>)),
      value    |-> Trim(Field(o, "value", <<>>)),
      domain   |-> Field(o, "domain", <<>>),
      path     |-> IF path = <<>> THEN Root ELSE path,
      secure   |-> Field(o, "secure", FALSE),
      httpOnly |-> Field(o, "httpOnly", FALSE) \/ Field(o, "http_only", FALSE),
      expires  |-> Field(o, "expirationDate", Field(o, "expires", 0))]

\* A dictionary is written in one order and read in any: names differ in it.
ExtractFromJSON(clean, json) ==
  LET cookies ==
        IF clean # <<"JSON">> \/ "none" \in DOMAIN json THEN <<>>
        ELSE IF "list" \in DOMAIN json
        THEN [i \in DOMAIN json.list |-> FromObject(json.list[i])]
        ELSE IF "cookies" \in DOMAIN json
        THEN [i \in DOMAIN json.cookies |-> FromObject(json.cookies[i])]
        ELSE [i \in DOMAIN json.flat |->
                Plain(Trim(json.flat[i].name), Trim(json.flat[i].value))]
  IN Kept(cookies)

-----------------------------------------------------------------------------
(* Netscape: seven columns a line, the second and fourth TRUE or FALSE.    *)

\* Every line that begins with # a comment, those of HttpOnly cookies too.
IsCommentStrict(line) == line[1] \in {"#", "#HttpOnly_"}

IsComment(line) == line[1] = "#"

Columns(line) ==
  IF Contains(line, "TAB")
  THEN LET parts == Split(line, {"TAB"})
       IN [i \in DOMAIN parts |-> Trim(parts[i])]
  ELSE Words(line)

IsNetscapeLine(parts) ==
  /\ Len(parts) >= 7
  /\ {parts[2], parts[4]} \subseteq {<<"TRUE">>, <<"FALSE">>}

ExtractFromNetscape(clean) ==
  LET trimmed == LET lines == Split(clean, {"NL"})
                 IN [i \in DOMAIN lines |-> Trim(lines[i])]
      kept    == SelectSeq(trimmed, LAMBDA l : l # <<>> /\ ~IsComment(l))
      bare(l) == IF l[1] = "#HttpOnly_" THEN Tail(l) ELSE l
      valid   == SelectSeq(kept, LAMBDA l : IsNetscapeLine(Columns(bare(l))))
      cookies == [i \in 1 .. Len(valid) |->
                    LET parts == Columns(bare(valid[i]))
                    IN [domain   |-> parts[1],
                        path     |-> parts[3],
                        secure   |-> parts[4] = <<"TRUE">>,
                        expires  |-> ParseInt(parts[5]),
                        name     |-> parts[6],
                        value    |-> parts[7],
                        httpOnly |-> valid[i][1] = "#HttpOnly_"]]
  IN Kept(cookies)

\* A domain that is dropped is taken for .google.com by the next reader.
ToNetscapeNoDomain(cookies) ==
  FoldLeft(LAMBDA text, c :
      text \o Google \o <<"TAB", "TRUE", "TAB">> \o c.path
           \o <<"TAB", IF c.secure THEN "TRUE" ELSE "FALSE", "TAB">>
           \o Digits(c.expires) \o <<"TAB">> \o c.name
           \o <<"TAB">> \o c.value \o <<"NL">>,
    <<"#", "Netscape", "NL">>, cookies)

\* The first three lines of the file are comments.
ToNetscape(cookies) ==
  LET orElse(text, default) == IF text = <<>> THEN default ELSE text
  IN FoldLeft(LAMBDA text, c :
      text \o (IF c.httpOnly THEN <<"#HttpOnly_">> ELSE <<>>)
           \o orElse(c.domain, Google) \o <<"TAB", "TRUE", "TAB">>
           \o orElse(c.path, Root)
           \o <<"TAB", IF c.secure THEN "TRUE" ELSE "FALSE", "TAB">>
           \o Digits(c.expires) \o <<"TAB">> \o c.name
           \o <<"TAB">> \o c.value \o <<"NL">>,
    <<"#", "Netscape", "NL">>, cookies)

-----------------------------------------------------------------------------
(* A Cookie header: name=value; name=value                                 *)

ExtractFromHeader(clean) ==
  LET parts   == SelectSeq(Split(clean, {";"}),
                           LAMBDA p : Contains(p, "="))
      pair(p) == LET eq == Min({i \in DOMAIN p : p[i] = "="})
                 IN Plain(Trim(SubSeq(p, 1, eq - 1)),
                          Trim(SubSeq(p, eq + 1, Len(p))))
  IN Kept([i \in 1 .. Len(parts) |-> pair(parts[i])])

BuildCookieHeader(cookies) ==
  LET full == SelectSeq(cookies, HasNameAndValue)
      pair(c) == c.name \o <<"=">> \o c.value
  IN FlattenSeq([i \in DOMAIN full |->
       IF i = 1 THEN pair(full[i]) ELSE <<";", "SP">> \o pair(full[i])])

-----------------------------------------------------------------------------
(* ParseCookies: quotes around the text go, then the formats in turn.  No  *)
(* cookie at all is the error.                                             *)

Unquote(text) ==
  IF /\ Len(text) >= 2
     /\ text[1] \in Quotes
     /\ text[Len(text)] = text[1]
  THEN Trim(SubSeq(text, 2, Len(text) - 1))
  ELSE text

\* Layer after layer.  Bound: three layers.
Clean(chars) == Unquote(Unquote(Unquote(Trim(chars))))

ParseCookies(text) ==
  LET clean    == Clean(text.chars)
      json     == ExtractFromJSON(clean, text.json)
      netscape == ExtractFromNetscape(clean)
  IN IF json # <<>> THEN json
     ELSE IF netscape # <<>> THEN netscape
     ELSE ExtractFromHeader(clean)

-----------------------------------------------------------------------------
(* The session's jar: for each name, domain and path the last cookie.      *)

LoadIntoSession(cookies) ==
  LET whole  == [i \in DOMAIN cookies |->
                   [cookies[i] EXCEPT !.domain = IF @ = <<>> THEN Google ELSE @,
                                      !.path = IF @ = <<>> THEN Root ELSE @]]
      key(i) == <<whole[i].name, whole[i].domain, whole[i].path>>
  IN {whole[i] : i \in {j \in DOMAIN whole :
                          \A k \in DOMAIN whole : k > j => key(k) # key(j)}}

\* The jar lists its cookies in any order.
CookiesFromSession(jar) == SetToSeqs(jar)
=============================================================================
