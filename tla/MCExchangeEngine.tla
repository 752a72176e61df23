--------------------------- MODULE MCExchangeEngine ---------------------------
(***************************************************************************)
(* ExchangeEngine for TLC.  The times keep the order of the real ones      *)
(* (proto_timing.h): a try that hears nothing is shorter than the budget,  *)
(* the budget shorter than the transmit timeout, and the third try may or  *)
(* may not still find some of it.                                          *)
(***************************************************************************)
EXTENDS ExchangeEngine

\* The two arguments callers pass (1 and 3) and the two the clamp is for.
MCMaxTries == {0, 1, 3, 4}
=============================================================================
