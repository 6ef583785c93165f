--------------------------- MODULE MCSymbolTables ---------------------------
(* SymbolTables on one security that changes its ticker and another of the      *)
(* same index: histories that can be moved, one the new ticker already has bars  *)
(* beside, and one that collides.                                                *)
EXTENDS SymbolTables, TLC

CONSTANTS BANPU, BANPUU, PTT, refresh, loader, reader

MCSymbols == {BANPU, BANPUU, PTT}
MCKeys == [ohlcv |-> {1, 2}, corporate_actions |-> {1}, universe_membership |-> {1, 2}]

Bar(k, s) == <<"ohlcv", k, s>>
Action(s) == <<"corporate_actions", 1, s>>
Member(date, s) == <<"universe_membership", date, s>>

\* The committed tables that hold these cells.
Holding(S) == [c \in Cells |-> IF c \in S THEN "seed" ELSE NoRow]
Index == {Member(1, BANPU), Member(1, PTT)}
MCSeeds == {
    Holding(Index \cup {Bar(1, BANPU), Bar(2, BANPU), Action(BANPU)}),
    Holding(Index \cup {Bar(1, BANPU), Bar(2, BANPUU), Action(BANPU)}),
    Holding(Index \cup {Bar(1, BANPU), Action(BANPU), Action(BANPUU)})}

MCRequests == {<<BANPU, BANPUU>>, <<BANPU, BANPU>>}
MCBatches == [w \in {refresh, loader} |->
    IF w = refresh
    THEN {<<>>} \cup {<<Bar(1, s), Bar(2, s)>> : s \in {BANPU, BANPUU}}
    ELSE {<<Action(BANPU)>>, <<Member(2, PTT), Member(2, BANPU)>>}]
=============================================================================
