------------------------------- MODULE Panels -------------------------------
(***************************************************************************)
(* The panel and the emoji extension of the daemon (src/bus/panelproxy.c   *)
(* and their part of src/bus/ibusimpl.c).  Both are told which context has *)
(* the focus, and the focused context may send its keys and its preedit to *)
(* the extension.  Panel processes start, replace each other, give up      *)
(* their names and die while the focus and the engines move.               *)
(*                                                                         *)
(* All contexts have IBUS_CAP_FOCUS.  How the focus and the engines move   *)
(* is GlobalEngine's; here any context may gain or lose either at any time.*)
(***************************************************************************)
EXTENDS Naturals

CONSTANTS
  Clients,         \* input contexts, reused when destroyed
  Fake,            \* ibus->fake_context
  PanelProcesses,  \* processes for IBUS_SERVICE_PANEL
  EmojiProcesses,  \* processes for IBUS_SERVICE_PANEL_EXTENSION_EMOJI
  MaxProxies,      \* bound: the BusPanelProxy objects ever made
  NoPanel          \* NULL

Contexts  == Clients \cup {Fake}
Processes == PanelProcesses \cup EmojiProcesses
Proxies   == 1..MaxProxies
Kinds     == {"panel", "emoji"}

ASSUME PanelsAssumption ==
  /\ Fake \notin Clients
  /\ PanelProcesses \cap EmojiProcesses = {}
  /\ MaxProxies \in Nat
  /\ NoPanel \notin Contexts \cup Processes \cup Proxies

VARIABLES
  focused_ic,  \* ibus->focused_context
  live,        \* the contexts of clients that exist
  holders,     \* the contexts that have an engine
  extension,   \* context->emoji_extension
  conn,        \* the connections of processes; "closed": no handler ran yet
  panels       \* what follows, changed by several functions in one handler:
               \*   slot      ibus->panel and ibus->emoji_extension
               \*   enabled   ibus->enable_emoji_extension
               \*   alive     the proxies that are not destroyed
               \*   process   of a proxy
               \*   focus     panel->focused_context
               \*   sees      what a process was told

panelVars == <<focused_ic, live, holders, extension, conn, panels>>

PanelsTypeOK ==
  /\ focused_ic \in Contexts
  /\ live \subseteq Clients
  /\ holders \subseteq Contexts
  /\ extension \in [Contexts -> Proxies \cup {NoPanel}]
  /\ conn \in [Processes -> {"none", "open", "closed"}]
  /\ panels \in [slot : [Kinds -> Proxies \cup {NoPanel}],
                 enabled : BOOLEAN,
                 alive : SUBSET Proxies,
                 process : [Proxies -> Processes \cup {NoPanel}],
                 focus : [Proxies -> Contexts \cup {NoPanel}],
                 sees : [Processes -> Contexts \cup {NoPanel}]]

PanelsInit ==
  /\ focused_ic = Fake
  /\ live = {}
  /\ holders = {}
  /\ extension = [c \in Contexts |-> NoPanel]
  /\ conn = [p \in Processes |-> "none"]
  /\ panels = [slot |-> [k \in Kinds |-> NoPanel],
               enabled |-> FALSE,
               alive |-> {},
               process |-> [i \in Proxies |-> NoPanel],
               focus |-> [i \in Proxies |-> NoPanel],
               sees |-> [p \in Processes |-> NoPanel]]

-----------------------------------------------------------------------------
(* A proxy.  S is panels as it is when the function is called. *)

KindOf(p) == IF p \in EmojiProcesses THEN "emoji" ELSE "panel"

\* bus_panel_proxy_focus_out, with the message FocusOut.
ProxyFocusOut(S, i) ==
  [S EXCEPT !.focus[i] = NoPanel, !.sees[S.process[i]] = NoPanel]

\* bus_panel_proxy_focus_in, with the message FocusIn.
ProxyFocusIn(S, i, c) ==
  LET T == IF S.focus[i] = NoPanel THEN S ELSE ProxyFocusOut(S, i)
  IN IF S.focus[i] = c THEN S
     ELSE [T EXCEPT !.focus[i] = c, !.sees[S.process[i]] = c]

\* _panel_destroy_cb
LeaveSlot(S, i) ==
  [S EXCEPT !.alive = @ \ {i},
            !.slot = [k \in Kinds |-> IF @[k] = i THEN NoPanel ELSE @[k]]]

\* MUTANT: the parent's destroy only.
DestroyWithoutFocusOut(S, i) == LeaveSlot(S, i)

\* bus_panel_proxy_real_destroy, and its "destroy" handler.
DestroyProxy(S, i) ==
  LeaveSlot(IF S.focus[i] = NoPanel THEN S ELSE ProxyFocusOut(S, i), i)

Unmade(S) == {i \in Proxies : S.process[i] = NoPanel}

\* bus_panel_proxy_new, with the proxy's first focus.
Installed(S, i, p) ==
  ProxyFocusIn([S EXCEPT !.process[i] = p,
                         !.alive = @ \cup {i},
                         !.slot[KindOf(p)] = i,
                         !.enabled = @ /\ KindOf(p) # "emoji"],
               i, focused_ic)

\* _dbus_name_owner_changed_cb with the new owner p.
Replaced(S, i, p) ==
  LET old == S.slot[KindOf(p)]
      T == IF old = NoPanel THEN S ELSE DestroyProxy(S, old)
  IN IF conn[p] = "open" THEN Installed(T, i, p) ELSE T

-----------------------------------------------------------------------------
(* The processes. *)

ProcessStarts(p) ==
  /\ conn[p] = "none"
  /\ conn' = [conn EXCEPT ![p] = "open"]
  /\ panels' = [panels EXCEPT !.sees[p] = NoPanel]
  /\ UNCHANGED <<focused_ic, live, holders, extension>>

\* A name that is given up without a next owner changes nothing here.
NameAcquired(p) ==
  /\ conn[p] # "none"
  /\ \E i \in Unmade(panels) :
       /\ \A j \in Unmade(panels) : i <= j
       /\ panels' = Replaced(panels, i, p)
  /\ UNCHANGED <<focused_ic, live, holders, extension, conn>>

LinkCloses(p) ==
  /\ conn[p] = "open"
  /\ conn' = [conn EXCEPT ![p] = "closed"]
  /\ UNCHANGED <<focused_ic, live, holders, extension, panels>>

(* "closed": the names of p go to those that wait for them, then the proxy *)
(* is destroyed if it was not replaced.                                    *)
ProcessGone(p) ==
  LET Of(S) == {i \in S.alive : S.process[i] = p}
      Without(S) == IF Of(S) = {} THEN S ELSE DestroyProxy(S, CHOOSE i \in Of(S) : TRUE)
  IN /\ conn[p] = "closed"
     /\ conn' = [conn EXCEPT ![p] = "none"]
     /\ \/ panels' = Without(panels)
        \/ \E q \in Processes \ {p}, i \in Unmade(panels) :
             /\ KindOf(q) = KindOf(p) /\ conn[q] # "none"
             /\ \A j \in Unmade(panels) : i <= j
             /\ panels' = Without(Replaced(panels, i, q))
     /\ UNCHANGED <<focused_ic, live, holders, extension>>

-----------------------------------------------------------------------------
(* The focus, and the engines. *)

ExtensionInUse == IF panels.enabled THEN panels.slot["emoji"] ELSE NoPanel

\* The extension leaves the old context, and comes to c with the engine.
ExtensionMoves(c) ==
  [extension EXCEPT ![focused_ic] = NoPanel,
                    ![c] = IF focused_ic \in holders THEN ExtensionInUse ELSE @]

\* bus_panel_proxy_focus_out and _in for the proxies there are.
RefocusedPanels(c) ==
  LET Refocus(S, k) ==
        IF S.slot[k] = NoPanel THEN S
        ELSE ProxyFocusIn(ProxyFocusOut(S, S.slot[k]), S.slot[k], c)
  IN Refocus(Refocus(panels, "panel"), "emoji")

\* bus_ibus_impl_set_focused_context; gone is a context that is destroyed.
SetFocusedIc(c, gone) ==
  /\ focused_ic' = c
  /\ extension' = ExtensionMoves(c)
  /\ holders' = (IF focused_ic \in holders
                 THEN (holders \ {focused_ic}) \cup {c} ELSE holders) \ gone
  /\ panels' = RefocusedPanels(c)

CreateContext(c) ==
  /\ c \notin live
  /\ live' = live \cup {c}
  /\ holders' = holders \ {c}
  /\ UNCHANGED <<focused_ic, extension, conn, panels>>

ContextFocusIn(c) ==
  /\ c \in live \ {focused_ic}
  /\ SetFocusedIc(c, {})
  /\ UNCHANGED <<live, conn>>

ContextFocusOut ==
  /\ focused_ic # Fake
  /\ SetFocusedIc(Fake, {})
  /\ UNCHANGED <<live, conn>>

ContextDestroyed(c) ==
  /\ c \in live
  /\ live' = live \ {c}
  /\ IF c = focused_ic
     THEN SetFocusedIc(Fake, {c})
     ELSE /\ holders' = holders \ {c}
          /\ UNCHANGED <<focused_ic, extension, panels>>
  /\ UNCHANGED conn

\* An engine is set for a context, also for one that was destroyed meanwhile.
EngineComes(c) ==
  /\ c \notin holders
  /\ holders' = holders \cup {c}
  /\ UNCHANGED <<focused_ic, live, extension, conn, panels>>

EngineGoes(c) ==
  /\ c \in holders
  /\ holders' = holders \ {c}
  /\ UNCHANGED <<focused_ic, live, extension, conn, panels>>

\* bus_ibus_impl_set_global_engine (ibus, NULL)
GlobalEngineCleared ==
  /\ holders' = holders \ {focused_ic}
  /\ extension' = [extension EXCEPT ![focused_ic] = ExtensionInUse]
  /\ UNCHANGED <<focused_ic, live, conn, panels>>

(* _ibus_set_global_engine_ready_cb: the engine has come to a context that *)
(* lost the focus meanwhile.                                               *)
GlobalEngineReady(c) ==
  /\ c \in holders \ {focused_ic}
  /\ holders' = (holders \ {c}) \cup {focused_ic}
  /\ extension' = [extension EXCEPT ![c] = NoPanel, ![focused_ic] = ExtensionInUse]
  /\ UNCHANGED <<focused_ic, live, conn, panels>>

\* bus_ibus_impl_set_panel_extension_mode
SetExtensionMode(enabled) ==
  /\ panels.slot["emoji"] # NoPanel
  /\ panels' = [panels EXCEPT !.enabled = enabled]
  /\ extension' = [extension EXCEPT ![focused_ic] =
                     IF enabled THEN panels.slot["emoji"] ELSE NoPanel]
  /\ UNCHANGED <<focused_ic, live, holders, conn>>

PanelsNext ==
  \/ \E p \in Processes : \/ ProcessStarts(p) \/ NameAcquired(p)
                          \/ LinkCloses(p) \/ ProcessGone(p)
  \/ \E c \in Clients : CreateContext(c) \/ ContextFocusIn(c) \/ ContextDestroyed(c)
  \/ ContextFocusOut
  \/ \E c \in Contexts : EngineComes(c) \/ EngineGoes(c) \/ GlobalEngineReady(c)
  \/ GlobalEngineCleared
  \/ \E e \in BOOLEAN : SetExtensionMode(e)

PanelsSpec == PanelsInit /\ [][PanelsNext]_panelVars

-----------------------------------------------------------------------------
Current == {panels.slot[k] : k \in Kinds} \ {NoPanel}

(***************************************************************************)
(* The daemon and the panel processes agree about the focus.  The proxies  *)
(* ibus refers to are the ones not destroyed, and their focused_context is *)
(* ibus->focused_context (the assertion of panelproxy.c:1073); a process   *)
(* with a connection was told just that, and one that was replaced was     *)
(* told that it lost the focus.                                            *)
(***************************************************************************)
PanelsFollow ==
  /\ panels.alive = Current
  /\ \A i \in Current : panels.focus[i] = focused_ic
  /\ \A p \in Processes : conn[p] = "open" =>
       panels.sees[p] = IF \E i \in Current : panels.process[i] = p
                        THEN focused_ic ELSE NoPanel

(***************************************************************************)
(* Only the focused context sends its keys to an extension, and only to    *)
(* the one in use; what else it may still refer to is an extension that    *)
(* was destroyed since (_panel_destroy_cb does not tell the context).      *)
(***************************************************************************)
ExtensionOfFocus ==
  \A c \in Contexts : extension[c] # NoPanel =>
    /\ c = focused_ic
    /\ extension[c] \in panels.alive => extension[c] = ExtensionInUse

(***************************************************************************)
(* Who is told about the focus, and who gets its keys, agree with ibus.    *)
(***************************************************************************)
PanelsServeFocus == PanelsFollow /\ ExtensionOfFocus
=============================================================================
