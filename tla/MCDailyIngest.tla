---------------------------- MODULE MCDailyIngest ----------------------------
(* DailyIngest on the lists a run may resolve to: none, one symbol, and an      *)
(* override with more entries than permits that names a symbol twice.           *)
EXTENDS DailyIngest

CONSTANTS s1, s2

MCSymbols == {s1, s2}
MCOne == {<<s1>>}
MCPair == {<<>>, <<s1, s2, s1>>}
=============================================================================
