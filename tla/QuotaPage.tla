----------------------------- MODULE QuotaPage ------------------------------
(***************************************************************************)
(* How parseStorageQuotaHTML of core/web_client.go reads a page.           *)
(*                                                                         *)
(* A page is what its expressions look for: the text "9.3 GB of 15 GB      *)
(* used", in the link to quotamanagement or elsewhere, and the widths of   *)
(* the bars of used and free space.  A size is a number of tenths and a    *)
(* unit; sizes are counted in tenths of a MB, percentages in tenths.       *)
(***************************************************************************)
EXTENDS Integers

None == [none |-> TRUE]

ParseSizeToBytes(size) ==
  size.tenths * [MB |-> 1, GB |-> 1024, TB |-> 1024 * 1024][size.unit]

\* Half up, of a fraction of natural numbers.
Round(n, d) == (2 * n + d) \div (2 * d)

\* A percentage that is missing, or 0, is computed from the other one or from
\* the text.  None is the error that the page has none of it.
ParseStorageQuotaHTML(page) ==
  LET size(of) ==
        IF page.text = None THEN 0 ELSE ParseSizeToBytes(page.text[of])
      used  == size("used")
      total == size("total")
      bar   == IF page.usedBar = None THEN 0 ELSE page.usedBar.width
      free  == IF page.freeBar = None THEN 0 ELSE page.freeBar.width
      percent == IF bar > 0 THEN bar
                 ELSE IF free > 0 THEN 1000 - free
                 ELSE IF total > 0 THEN Round(1000 * used, total)
                 ELSE 0
  IN IF page.text = None /\ percent = 0 THEN None
     ELSE [used |-> used, total |-> total, usedPercent |-> percent,
           freePercent |-> IF free > 0 THEN free ELSE 1000 - percent]
=============================================================================
