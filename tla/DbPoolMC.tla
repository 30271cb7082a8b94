------------------------------ MODULE DbPoolMC ------------------------------
(***************************************************************************)
(* DbPool with three callers that pin their jobs as they please.           *)
(***************************************************************************)
EXTENDS DbPool

CONSTANTS c1, c2, c3, w1, w2

ThreeCallers == {c1, c2, c3}
TwoWorkers   == {w1, w2}
=============================================================================
