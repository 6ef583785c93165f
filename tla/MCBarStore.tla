----------------------------- MODULE MCBarStore -----------------------------
(* BarStore with a window shorter than the history that cuts a session of two    *)
(* hours, a directory with two files to store, one that cannot be read and one   *)
(* without a valid row, seeds that meet a 1h bar, and stamps around the hours    *)
(* where the UTC and the Bangkok date part.                                      *)
EXTENDS BarStore

CONSTANTS PTT, AOT, CPALL, BANPU, refresh, admin, p1, p2

MCSchedules == {{<<PTT, "1d">>}, {<<PTT, "1h">>}}

MCWindow == [bars |-> 2, from |-> 1, to |-> 3]

MCRanges == {[bars |-> 9, from |-> 1, to |-> 1]}

MCDir == <<
    [symbol |-> AOT, bars |-> Unreadable],
    [symbol |-> BANPU, bars |-> {[session |-> 1, hour |-> 9, price |-> p1]}],
    [symbol |-> CPALL, bars |-> {[session |-> 1, hour |-> 9, price |-> Unusable]}],
    [symbol |-> PTT, bars |-> {[session |-> 1, hour |-> 14, price |-> p2],
                               [session |-> 2, hour |-> 9, price |-> Unusable]}]>>
=============================================================================
