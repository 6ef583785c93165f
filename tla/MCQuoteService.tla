--------------------------- MODULE MCQuoteService ---------------------------
(* QuoteService with three concurrent requests. *)
EXTENDS QuoteService

CONSTANTS c1, c2, c3, s1
=============================================================================
