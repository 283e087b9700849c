------------------------------- MODULE MCRunCli -----------------------------
(***************************************************************************)
(* Instances of RunCli for TLC: two concurrent calls where they could get  *)
(* in each other's way, one where the answer does not depend on it.  No    *)
(* symmetry, which liveness would not survive.                             *)
(***************************************************************************)
EXTENDS RunCli

CONSTANTS c1, c2

TwoCalls == {c1, c2}
OneCall  == {c1}

BothWaits == BOOLEAN
=============================================================================
