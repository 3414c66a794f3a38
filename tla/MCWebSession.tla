---------------------------- MODULE MCWebSession ----------------------------
(***************************************************************************)
(* Two files, one login renewed once, and cookies with the attributes,     *)
(* domains and values that tell the formats apart.                         *)
(***************************************************************************)
EXTENDS WebSession

MCCookie(name, value, domain, httpOnly, expires) ==
  [name |-> name, value |-> value, domain |-> domain, path |-> <<"/">>,
   secure |-> httpOnly, httpOnly |-> httpOnly, expires |-> expires]

MCSid == MCCookie(<<"SID">>, <<"LOGIN">>, <<".google.com">>, TRUE, 1893456000)
MCEmpty == MCCookie(<<"NID">>, <<>>, <<".google.com">>, FALSE, 0)

MCBrowser ==
  {<<MCSid>>,
   <<MCCookie(<<"SID">>, <<"y">>, <<".youtube.com">>, TRUE, 1893456000),
     MCSid,
     MCCookie(<<"OSID">>, <<"a", "=", "b">>, <<"photos.google.com">>, FALSE,
              0)>>,
   <<MCEmpty, MCSid>>,
   <<MCEmpty>>,
   <<MCCookie(<<"NID">>, <<"n">>, <<".google.com">>, FALSE, 0)>>}

MCSize(tenths, unit) == [tenths |-> tenths, unit |-> unit]

MCStorages ==
  {[used |-> MCSize(93, "GB"), total |-> MCSize(150, "GB")],
   [used |-> MCSize(5120, "MB"), total |-> MCSize(150, "GB")],
   [used |-> MCSize(0, "MB"), total |-> MCSize(150, "GB")],
   [used |-> MCSize(150, "GB"), total |-> MCSize(150, "GB")]}

MCLogins == <<"one", "two">>
=============================================================================
