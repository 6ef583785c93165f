--------------------------- MODULE MCSingleFlight ---------------------------
(* SingleFlight on two keys and four calls, one of them without a client.  *)
EXTENDS SingleFlight

CONSTANTS c1, c2, c3, c4, k1, k2

MCKeys == {k1, k2}
MCCalls == {c1, c2, c3, c4}
MCConnected == {c1, c2, c3}
=============================================================================
