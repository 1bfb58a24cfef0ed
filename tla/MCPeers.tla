------------------------------ MODULE MCPeers ------------------------------
(***************************************************************************)
(* The peers of the daemon: a synchronous client and the key events of its *)
(* context, a client's connection to daemons that come and go, panel       *)
(* processes that replace each other while the focus moves, and the input  *)
(* method of a Wayland compositor.  Each behaviour is one of the four.     *)
(***************************************************************************)
EXTENDS KeyEvents, ClientBus, Panels, WaylandIM

CONSTANTS gedit, panel, emoji1, emoji2, ka, kb

VARIABLE part

mcVars == <<vars, busVars, panelVars, waylandVars, part>>

MCInit ==
  /\ Init /\ BusInit /\ PanelsInit /\ WaylandInit
  /\ part \in {"keys", "bus", "panels", "wayland"}
  /\ part # "wayland" => ~hybrid

MCNext ==
  /\ UNCHANGED part
  /\ \/ part = "keys" /\ Next /\ UNCHANGED <<busVars, panelVars, waylandVars>>
     \/ part = "bus" /\ BusNext /\ UNCHANGED <<vars, panelVars, waylandVars>>
     \/ part = "panels" /\ PanelsNext /\ UNCHANGED <<vars, busVars, waylandVars>>
     \/ part = "wayland" /\ WaylandNext /\ UNCHANGED <<vars, busVars, panelVars>>

MCSpec == MCInit /\ [][MCNext]_mcVars

\* What the theorems about liveness assume: the steps that are due can be taken.
StepsEnabled == RepliesEnabled /\ BusStepsEnabled

MCFairSpec == MCSpec /\ Fairness /\ BusFairness /\ WaylandFairness
=============================================================================
