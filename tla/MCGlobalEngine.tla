--------------------------- MODULE MCGlobalEngine ---------------------------
(***************************************************************************)
(* Clients a and b are applications, keys is a client named "fake...".  In *)
(* "focus" they compete for the focus with one registered component, in    *)
(* "loss" only a exists and two registered components come and go.         *)
(***************************************************************************)
EXTENDS GlobalEngine, TLC

CONSTANTS a, b, keys, r1, r2, anthy

VARIABLE part

mcVars == <<vars, part>>

MCRequests == {r1, r2}
MCPaths    == 1..4
Symmetry   == Permutations(MCRequests)

MCInit == Init /\ part \in {"focus", "loss"}

MCNext ==
  /\ Next
  /\ UNCHANGED part
  /\ part = "focus" => anthy \notin ToSet(register_engine_list')
  /\ part = "loss" => \A c \in Clients \ {a} : status'[c] = "free"

MCSpec == MCInit /\ [][MCNext]_mcVars

MCFairSpec == MCSpec /\ Fairness
=============================================================================
