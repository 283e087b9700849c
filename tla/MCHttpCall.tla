------------------------------ MODULE MCHttpCall ----------------------------
(***************************************************************************)
(* The instance of HttpCall for TLC: two exchanges, a request timeout that *)
(* is longer than the connect timeout, as with the default of 120 s.       *)
(***************************************************************************)
EXTENDS HttpCall

CONSTANTS c1, c2

TwoCalls == {c1, c2}
=============================================================================
