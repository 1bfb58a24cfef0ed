---------------------------- MODULE MCComponents ----------------------------
(***************************************************************************)
(* The components of engines.  In "engines", one component, its process    *)
(* and two others that come later or that somebody else starts, and two    *)
(* requests; a restart may fail, so that a component that is not restarted *)
(* is seen too.  In "registry", the files that describe the components.    *)
(* Each behaviour is one of the two.                                       *)
(***************************************************************************)
EXTENDS EngineRequest, Registry

CONSTANTS pinyin, p1, p2, p3, r1, r2, f1, f2

VARIABLE part

mcVars == <<vars, registryVars, part>>

MCInit ==
  /\ Init /\ RegistryInit
  /\ \/ part = "engines" /\ ~frozen /\ Names = {}
     \/ part = "registry"

MCNext ==
  \/ part = "engines" /\ Next /\ UNCHANGED <<registryVars, part>>
  \/ part = "registry" /\ RegistryNext /\ UNCHANGED <<vars, part>>

MCSpec == MCInit /\ [][MCNext]_mcVars

MCFairSpec == MCSpec /\ Fairness /\ RegistryFairness

(***************************************************************************)
(* Every step that fairness speaks of can be taken when something waits    *)
(* for it: what the proofs of AnsweredOnce and ChangeAnnounced assume.     *)
(***************************************************************************)
StepsEnabled == WakersEnabled /\ MonitorsEnabled
=============================================================================
