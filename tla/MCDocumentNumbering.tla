------------------------- MODULE MCDocumentNumbering -------------------------
(* Instances of DocumentNumbering for TLC.                                  *)
EXTENDS DocumentNumbering, TLC

CONSTANTS d1, d2, d3, r1, r2, day1, day2, prefix, text

\* Three rows under the handlers that choose a number, two under those that copy one.
NumberingScopes ==
  {[ops |-> {"create", "custom", "duplicate"}, docs |-> 3, days |-> Days, typed |-> Typed],
   [ops |-> {"create", "duplicate", "update"}, docs |-> 2, days |-> {day1}, typed |-> {<<prefix, 0>>}]}

Symmetry == Permutations(Docs) \cup Permutations(Requests) \cup Permutations(Days)
=============================================================================
