-------------------------- MODULE Displays_proofs ---------------------------
(***************************************************************************)
(* Proofs about what shows: the panels, the Wayland input method and the   *)
(* XIM server.                                                             *)
(*                                                                         *)
(* The panels record is changed by functions that call each other in one   *)
(* handler; for each there is a lemma that says what it does to every      *)
(* field, and one that it keeps the invariant, for any state it may be     *)
(* called in.  The invariants of the Wayland input method rest on what the *)
(* numbers of requests say: a request is used once, so that a context that *)
(* is there, or that a repetition was started in, is none that is still to *)
(* come.  Those of timers are reused: there are as many free ones as there *)
(* are delay callbacks on the stack, each of which starts a timer when it  *)
(* ends.                                                                   *)
(***************************************************************************)
EXTENDS Panels, WaylandIM, XimServer, FiniteSetTheorems, TLAPS

PanelsRecord ==
  [slot : [Kinds -> Proxies \cup {NoPanel}],
   enabled : BOOLEAN,
   alive : SUBSET Proxies,
   process : [Proxies -> Processes \cup {NoPanel}],
   focus : [Proxies -> Contexts \cup {NoPanel}],
   sees : [Processes -> Contexts \cup {NoPanel}]]

Reachable == {p \in Processes : conn[p] = "open"}

(* The proxies that exist are those in the slots, each in the slot of its  *)
(* process's kind; all others have no focus.                               *)
Slots(S) ==
  /\ \A i \in Proxies : i \in S.alive <=> \E k \in Kinds : S.slot[k] = i
  /\ \A k \in Kinds : S.slot[k] # NoPanel =>
       S.process[S.slot[k]] \in Processes /\ KindOf(S.process[S.slot[k]]) = k

(* Proxies and processes were told that the focus is f.                    *)
Told(S, f) ==
  /\ \A i \in Proxies : S.focus[i] = IF i \in S.alive THEN f ELSE NoPanel
  /\ \A p \in Reachable :
       S.sees[p] = IF \E i \in S.alive : S.process[i] = p THEN f ELSE NoPanel

Agreed(S, f) == S \in PanelsRecord /\ Slots(S) /\ Told(S, f)

-----------------------------------------------------------------------------
(* What the functions of a proxy do to the record. *)

\* bus_panel_proxy_focus_out changes the proxy's focus and what its process sees.
LEMMA FocusOutFields ==
  ASSUME NEW S \in PanelsRecord, NEW i \in Proxies, S.process[i] \in Processes
  PROVE  LET T == ProxyFocusOut(S, i)
         IN /\ T \in PanelsRecord
            /\ T.slot = S.slot /\ T.enabled = S.enabled
            /\ T.alive = S.alive /\ T.process = S.process
            /\ T.focus = [S.focus EXCEPT ![i] = NoPanel]
            /\ T.sees = [S.sees EXCEPT ![S.process[i]] = NoPanel]
BY DEF PanelsRecord, ProxyFocusOut

\* bus_panel_proxy_focus_in of a proxy without focus gives it c.
LEMMA FocusInFields ==
  ASSUME NEW S \in PanelsRecord, NEW i \in Proxies, NEW c \in Contexts,
         S.process[i] \in Processes, S.focus[i] = NoPanel, NoPanel \notin Contexts
  PROVE  LET T == ProxyFocusIn(S, i, c)
         IN /\ T \in PanelsRecord
            /\ T.slot = S.slot /\ T.enabled = S.enabled
            /\ T.alive = S.alive /\ T.process = S.process
            /\ T.focus = [S.focus EXCEPT ![i] = c]
            /\ T.sees = [S.sees EXCEPT ![S.process[i]] = c]
BY DEF PanelsRecord, ProxyFocusIn

\* _panel_destroy_cb empties the slots of the proxy.
LEMMA LeaveSlotFields ==
  ASSUME NEW S \in PanelsRecord, NEW i \in Proxies
  PROVE  LET T == LeaveSlot(S, i)
         IN /\ T \in PanelsRecord
            /\ T.slot = [k \in Kinds |-> IF S.slot[k] = i THEN NoPanel ELSE S.slot[k]]
            /\ T.enabled = S.enabled /\ T.process = S.process
            /\ T.alive = S.alive \ {i}
            /\ T.focus = S.focus /\ T.sees = S.sees
BY DEF PanelsRecord, LeaveSlot

-----------------------------------------------------------------------------
(* They keep what the invariant says. *)

LEMMA NoPanelIsNone ==
  /\ NoPanel \notin Contexts /\ NoPanel \notin Processes /\ NoPanel \notin Proxies
  /\ Fake \in Contexts /\ Clients \subseteq Contexts /\ Fake \notin Clients
  /\ Kinds = {"panel", "emoji"}
  /\ \A p \in Processes : KindOf(p) \in Kinds
BY PanelsAssumption DEF Contexts, Kinds, KindOf

\* Destroying the proxy in a slot empties just that slot, and tells its process.
LEMMA DestroyKeeps ==
  ASSUME NEW S, NEW f \in Contexts, NEW k \in Kinds,
         Agreed(S, f), S.slot[k] # NoPanel
  PROVE  LET T == DestroyProxy(S, S.slot[k])
         IN /\ Agreed(T, f)
            /\ \A n \in Kinds : T.slot[n] = IF n = k THEN NoPanel ELSE S.slot[n]
            /\ T.process = S.process /\ T.enabled = S.enabled
<1> DEFINE i == S.slot[k]
           U == ProxyFocusOut(S, i)
           T == LeaveSlot(U, i)
<1>1. S \in PanelsRecord /\ i \in Proxies /\ i \in S.alive /\ S.process[i] \in Processes
      /\ KindOf(S.process[i]) = k
  BY DEF Agreed, Slots, PanelsRecord
<1>2. S.focus[i] = f /\ f # NoPanel
  BY <1>1, NoPanelIsNone DEF Agreed, Told
<1>3. DestroyProxy(S, i) = T
  BY <1>2 DEF DestroyProxy
<1>4. /\ U \in PanelsRecord
      /\ U.slot = S.slot /\ U.enabled = S.enabled
      /\ U.alive = S.alive /\ U.process = S.process
      /\ U.focus = [S.focus EXCEPT ![i] = NoPanel]
      /\ U.sees = [S.sees EXCEPT ![S.process[i]] = NoPanel]
  BY <1>1, FocusOutFields
<1> HIDE DEF U
<1>5. /\ T \in PanelsRecord
      /\ T.slot = [j \in Kinds |-> IF S.slot[j] = i THEN NoPanel ELSE S.slot[j]]
      /\ T.enabled = S.enabled /\ T.process = S.process
      /\ T.alive = S.alive \ {i}
      /\ T.focus = [S.focus EXCEPT ![i] = NoPanel]
      /\ T.sees = [S.sees EXCEPT ![S.process[i]] = NoPanel]
  BY <1>1, <1>4, LeaveSlotFields
<1> HIDE DEF T
<1>6. /\ S.slot \in [Kinds -> Proxies \cup {NoPanel}]
      /\ S.focus \in [Proxies -> Contexts \cup {NoPanel}]
      /\ S.sees \in [Processes -> Contexts \cup {NoPanel}]
  BY <1>1 DEF PanelsRecord
<1>7. \A j \in Kinds : S.slot[j] = i => j = k
  BY <1>1 DEF Agreed, Slots
<1>8. T.slot = [S.slot EXCEPT ![k] = NoPanel]
  BY <1>5, <1>6, <1>7
<1>9. Slots(T)
  <2>1. ASSUME NEW j \in Proxies
        PROVE  j \in T.alive <=> \E n \in Kinds : T.slot[n] = j
    BY <1>1, <1>5, NoPanelIsNone DEF Agreed, Slots
  <2>2. ASSUME NEW n \in Kinds, T.slot[n] # NoPanel
        PROVE  T.process[T.slot[n]] \in Processes /\ KindOf(T.process[T.slot[n]]) = n
    BY <2>2, <1>5 DEF Agreed, Slots
  <2>3. QED
    BY <2>1, <2>2 DEF Slots
<1>10. Told(T, f)
  <2>1. ASSUME NEW j \in Proxies
        PROVE  T.focus[j] = IF j \in T.alive THEN f ELSE NoPanel
    BY <1>5, <1>6 DEF Agreed, Told
  <2>2. ASSUME NEW p \in Reachable
        PROVE  T.sees[p] = IF \E j \in T.alive : T.process[j] = p THEN f ELSE NoPanel
    <3>1. ASSUME NEW j \in S.alive, S.process[j] = S.process[i]
          PROVE  j = i
      <4>1. j \in Proxies
        BY <1>1 DEF PanelsRecord
      <4>2. PICK n \in Kinds : S.slot[n] = j
        BY <4>1 DEF Agreed, Slots
      <4>3. j # NoPanel
        BY <4>1, NoPanelIsNone
      <4>4. KindOf(S.process[j]) = n
        BY <4>2, <4>3 DEF Agreed, Slots
      <4>5. n = k
        BY <4>4, <3>1, <1>1
      <4>6. QED
        BY <4>2, <4>5
    <3>2. S.sees[p] = IF \E j \in S.alive : S.process[j] = p THEN f ELSE NoPanel
      BY DEF Agreed, Told
    <3>3. CASE p = S.process[i]
      BY <3>1, <3>3, <1>1, <1>5, <1>6
    <3>4. CASE p # S.process[i]
      <4>1. T.sees[p] = S.sees[p]
        BY <3>4, <1>5, <1>6
      <4>2. (\E j \in T.alive : T.process[j] = p) <=> (\E j \in S.alive : S.process[j] = p)
        BY <3>4, <1>5
      <4>3. QED
        BY <4>1, <4>2, <3>2
    <3>5. QED
      BY <3>3, <3>4
  <2>3. QED
    BY <2>1, <2>2 DEF Told
<1>11. QED
  BY <1>3, <1>5, <1>6, <1>8, <1>9, <1>10 DEF Agreed

\* A new proxy for p fills the empty slot of its kind, and p is told the focus.
LEMMA InstalledKeeps ==
  ASSUME NEW S, NEW i \in Unmade(S), NEW p \in Processes,
         focused_ic \in Contexts, Agreed(S, focused_ic), S.slot[KindOf(p)] = NoPanel
  PROVE  LET T == Installed(S, i, p)
         IN /\ Agreed(T, focused_ic)
            /\ \A n \in Kinds : T.slot[n] = IF n = KindOf(p) THEN i ELSE S.slot[n]
            /\ \A j \in Proxies : T.process[j] = IF j = i THEN p ELSE S.process[j]
            /\ T.enabled <=> S.enabled /\ KindOf(p) # "emoji"
<1> DEFINE k == KindOf(p)
           f == focused_ic
           U == [S EXCEPT !.process[i] = p, !.alive = @ \cup {i}, !.slot[k] = i,
                          !.enabled = @ /\ k # "emoji"]
           T == ProxyFocusIn(U, i, f)
<1>1. S \in PanelsRecord /\ i \in Proxies /\ S.process[i] = NoPanel /\ k \in Kinds
  BY NoPanelIsNone DEF Agreed, Unmade
<1>2. Installed(S, i, p) = T
  BY DEF Installed
<1>3. i \notin S.alive /\ S.focus[i] = NoPanel
  BY <1>1, NoPanelIsNone DEF Agreed, Slots, Told
<1>4. /\ U \in PanelsRecord
      /\ U.slot = [S.slot EXCEPT ![k] = i] /\ (U.enabled <=> S.enabled /\ k # "emoji")
      /\ U.alive = S.alive \cup {i} /\ U.process = [S.process EXCEPT ![i] = p]
      /\ U.focus = S.focus /\ U.sees = S.sees
  BY <1>1 DEF PanelsRecord
<1> HIDE DEF U
<1>5. U.process[i] \in Processes /\ U.focus[i] = NoPanel
  BY <1>1, <1>3, <1>4 DEF PanelsRecord
<1>6. /\ T \in PanelsRecord
      /\ T.slot = U.slot /\ T.enabled = U.enabled /\ T.alive = U.alive /\ T.process = U.process
      /\ T.focus = [S.focus EXCEPT ![i] = f] /\ T.sees = [S.sees EXCEPT ![p] = f]
  <2>1. U.process[i] = p
    BY <1>1, <1>4 DEF PanelsRecord
  <2>2. QED
    BY <1>1, <1>4, <1>5, <2>1, NoPanelIsNone, FocusInFields
<1> HIDE DEF T
<1>7. /\ S.slot \in [Kinds -> Proxies \cup {NoPanel}]
      /\ S.process \in [Proxies -> Processes \cup {NoPanel}]
      /\ S.focus \in [Proxies -> Contexts \cup {NoPanel}]
      /\ S.sees \in [Processes -> Contexts \cup {NoPanel}]
  BY <1>1 DEF PanelsRecord
<1>8. Slots(T)
  <2>1. ASSUME NEW j \in Proxies
        PROVE  j \in T.alive <=> \E n \in Kinds : T.slot[n] = j
    BY <1>1, <1>4, <1>6, <1>7, NoPanelIsNone DEF Agreed, Slots
  <2>2. ASSUME NEW n \in Kinds, T.slot[n] # NoPanel
        PROVE  T.process[T.slot[n]] \in Processes /\ KindOf(T.process[T.slot[n]]) = n
    <3>1. CASE n = k
      BY <3>1, <1>1, <1>4, <1>6, <1>7
    <3>2. CASE n # k
      <4>1. T.slot[n] = S.slot[n] /\ S.slot[n] \in S.alive /\ S.slot[n] \in Proxies
        BY <3>2, <2>2, <1>1, <1>4, <1>6, <1>7, NoPanelIsNone DEF Agreed, Slots
      <4>2. T.process[S.slot[n]] = S.process[S.slot[n]]
        BY <4>1, <1>3, <1>4, <1>6, <1>7
      <4>3. QED
        BY <4>1, <4>2, <2>2 DEF Agreed, Slots
    <3>3. QED
      BY <3>1, <3>2
  <2>3. QED
    BY <2>1, <2>2 DEF Slots
<1>9. Told(T, f)
  <2>1. ASSUME NEW j \in Proxies
        PROVE  T.focus[j] = IF j \in T.alive THEN f ELSE NoPanel
    BY <1>1, <1>4, <1>6, <1>7 DEF Agreed, Told
  <2>2. ASSUME NEW q \in Reachable
        PROVE  T.sees[q] = IF \E j \in T.alive : T.process[j] = q THEN f ELSE NoPanel
    <3>1. CASE q = p
      BY <3>1, <1>1, <1>4, <1>6, <1>7
    <3>2. CASE q # p
      <4>1. T.sees[q] = S.sees[q]
        BY <3>2, <1>6, <1>7
      <4>2. \A j \in S.alive : T.process[j] = S.process[j]
        BY <1>1, <1>3, <1>4, <1>6, <1>7 DEF PanelsRecord
      <4>3. T.process[i] = p
        BY <1>1, <1>4, <1>6, <1>7
      <4>4. (\E j \in T.alive : T.process[j] = q) <=> (\E j \in S.alive : S.process[j] = q)
        BY <3>2, <4>2, <4>3, <1>4, <1>6
      <4>5. QED
        BY <4>1, <4>4 DEF Agreed, Told
    <3>3. QED
      BY <3>1, <3>2
  <2>3. QED
    BY <2>1, <2>2 DEF Told
<1>10. QED
  BY <1>1, <1>2, <1>4, <1>6, <1>7, <1>8, <1>9 DEF Agreed

\* _dbus_name_owner_changed_cb: the old proxy of the kind goes, p's comes if it can.
LEMMA ReplacedKeeps ==
  ASSUME NEW S, NEW i \in Unmade(S), NEW p \in Processes,
         focused_ic \in Contexts, Agreed(S, focused_ic)
  PROVE  LET k == KindOf(p)
             T == Replaced(S, i, p)
         IN /\ Agreed(T, focused_ic)
            /\ \A n \in Kinds \ {k} : T.slot[n] = S.slot[n]
            /\ \A j \in Proxies \ {i} : T.process[j] = S.process[j]
            /\ \/ T.slot[k] = NoPanel /\ T.process[i] = NoPanel /\ T.enabled = S.enabled
               \/ /\ T.slot[k] = i /\ T.process[i] = p /\ conn[p] = "open"
                  /\ T.enabled <=> S.enabled /\ k # "emoji"
<1> DEFINE k == KindOf(p)
           old == S.slot[k]
           U == IF old = NoPanel THEN S ELSE DestroyProxy(S, old)
           T == Installed(U, i, p)
<1>1. k \in Kinds /\ i \in Proxies /\ S.process[i] = NoPanel /\ S \in PanelsRecord
  BY NoPanelIsNone DEF Agreed, Unmade
<1>2. Replaced(S, i, p) = IF conn[p] = "open" THEN T ELSE U
  BY DEF Replaced
<1>3. /\ Agreed(U, focused_ic)
      /\ \A n \in Kinds : U.slot[n] = IF n = k THEN NoPanel ELSE S.slot[n]
      /\ U.process = S.process /\ U.enabled = S.enabled
  <2>1. S.slot \in [Kinds -> Proxies \cup {NoPanel}]
    BY <1>1 DEF PanelsRecord
  <2>2. CASE old = NoPanel
    BY <2>1, <2>2, <1>1
  <2>3. CASE old # NoPanel
    BY <2>3, <1>1, DestroyKeeps
  <2>4. QED
    BY <2>2, <2>3
<1> HIDE DEF U
<1>4. S.slot \in [Kinds -> Proxies \cup {NoPanel}] /\ S.process \in [Proxies -> Processes \cup {NoPanel}]
  BY <1>1 DEF PanelsRecord
<1>5. i \in Unmade(U) /\ U.slot[k] = NoPanel
  BY <1>1, <1>3, <1>4 DEF Unmade
<1>6. /\ Agreed(T, focused_ic)
      /\ \A n \in Kinds : T.slot[n] = IF n = k THEN i ELSE U.slot[n]
      /\ \A j \in Proxies : T.process[j] = IF j = i THEN p ELSE U.process[j]
      /\ T.enabled <=> U.enabled /\ k # "emoji"
  BY <1>3, <1>5, InstalledKeeps
<1> HIDE DEF T
<1>7. CASE conn[p] = "open"
  BY <1>7, <1>1, <1>2, <1>3, <1>4, <1>6
<1>8. CASE conn[p] # "open"
  BY <1>8, <1>1, <1>2, <1>3, <1>4
<1>9. QED
  BY <1>7, <1>8

-----------------------------------------------------------------------------
(* The invariant.  Proxies speak to processes that are not forgotten, and  *)
(* only the focused context has an extension, the one in use or a dead one.*)

Connected(S) == \A i \in S.alive : conn[S.process[i]] # "none"

Extended(S) ==
  \A c \in Contexts : extension[c] # NoPanel =>
    /\ c = focused_ic
    /\ S.process[extension[c]] # NoPanel
    /\ extension[c] \in S.alive => S.enabled /\ extension[c] = S.slot["emoji"]

Steady(S) == Agreed(S, focused_ic) /\ Connected(S) /\ Extended(S)

PanelsInv == PanelsTypeOK /\ Steady(panels)

\* The proxy of p is destroyed, if there is one.
LeftBy(S, p) ==
  LET of == {i \in S.alive : S.process[i] = p}
  IN IF of = {} THEN S ELSE DestroyProxy(S, CHOOSE i \in of : TRUE)

\* Whoever is alive is in a slot, and of its kind.
LEMMA AliveInSlot ==
  ASSUME NEW S, NEW f, Agreed(S, f), NEW i \in S.alive
  PROVE  /\ i \in Proxies /\ i # NoPanel /\ S.process[i] \in Processes
         /\ S.slot[KindOf(S.process[i])] = i
<1>1. i \in Proxies /\ i # NoPanel
  BY NoPanelIsNone DEF Agreed, PanelsRecord
<1>2. PICK n \in Kinds : S.slot[n] = i
  BY <1>1 DEF Agreed, Slots
<1>3. QED
  BY <1>1, <1>2 DEF Agreed, Slots

LEMMA DestroySteady ==
  ASSUME NEW S, NEW k \in Kinds, PanelsTypeOK, Steady(S), S.slot[k] # NoPanel
  PROVE  LET T == DestroyProxy(S, S.slot[k])
         IN /\ Steady(T)
            /\ T.process = S.process
            /\ \A n \in Kinds : T.slot[n] = IF n = k THEN NoPanel ELSE S.slot[n]
<1> DEFINE T == DestroyProxy(S, S.slot[k])
<1>0. focused_ic \in Contexts /\ Agreed(S, focused_ic)
  BY DEF Steady, PanelsTypeOK
<1>1. /\ Agreed(T, focused_ic)
      /\ \A n \in Kinds : T.slot[n] = IF n = k THEN NoPanel ELSE S.slot[n]
      /\ T.process = S.process /\ T.enabled = S.enabled
  BY <1>0, DestroyKeeps
<1> HIDE DEF T
<1>2. \A i \in T.alive : i \in S.alive /\ T.slot[KindOf(T.process[i])] = S.slot[KindOf(T.process[i])]
  <2>1. SUFFICES ASSUME NEW i \in T.alive
                 PROVE  i \in S.alive /\ T.slot[KindOf(T.process[i])] = S.slot[KindOf(T.process[i])]
    OBVIOUS
  <2>2. /\ i \in Proxies /\ i # NoPanel /\ T.process[i] \in Processes
        /\ T.slot[KindOf(T.process[i])] = i
    BY <1>1, AliveInSlot
  <2>3. KindOf(T.process[i]) \in Kinds
    BY <2>2, NoPanelIsNone
  <2>4. QED
    BY <2>2, <2>3, <1>1 DEF Steady, Agreed, Slots
<1>3. Connected(T)
  BY <1>1, <1>2 DEF Steady, Connected
<1>4. Extended(T)
  <2>1. SUFFICES ASSUME NEW c \in Contexts, extension[c] # NoPanel
                 PROVE  /\ c = focused_ic /\ T.process[extension[c]] # NoPanel
                        /\ extension[c] \in T.alive => T.enabled /\ extension[c] = T.slot["emoji"]
    BY DEF Extended
  <2>2. /\ c = focused_ic /\ S.process[extension[c]] # NoPanel
        /\ extension[c] \in S.alive => S.enabled /\ extension[c] = S.slot["emoji"]
    BY <2>1 DEF Steady, Extended
  <2>3. extension[c] \in T.alive => T.enabled /\ extension[c] = T.slot["emoji"]
    <3> HAVE extension[c] \in T.alive
    <3>1. extension[c] \in S.alive /\ T.slot[KindOf(T.process[extension[c]])] = extension[c]
      BY <1>1, <1>2, AliveInSlot
    <3>2. /\ extension[c] \in Proxies /\ S.process[extension[c]] \in Processes
          /\ extension[c] = S.slot["emoji"] /\ S.enabled
      BY <3>1, <2>2, AliveInSlot DEF Steady
    <3>3. KindOf(S.process[extension[c]]) = "emoji"
      BY <3>2, NoPanelIsNone DEF Steady, Agreed, Slots
    <3>4. QED
      BY <1>1, <3>1, <3>2, <3>3
  <2>4. T.process[extension[c]] # NoPanel
    BY <1>1, <2>2
  <2>5. QED
    BY <2>2, <2>3, <2>4
<1>5. QED
  BY <1>1, <1>3, <1>4 DEF Steady, T

\* Replacing a proxy keeps the invariant ...
LEMMA ReplacedSteady ==
  ASSUME NEW S, NEW i \in Unmade(S), NEW p \in Processes, PanelsTypeOK, Steady(S)
  PROVE  Steady(Replaced(S, i, p))
<1> DEFINE k == KindOf(p)
           T == Replaced(S, i, p)
<1>0. /\ focused_ic \in Contexts /\ Agreed(S, focused_ic) /\ k \in Kinds
      /\ i \in Proxies /\ S.process[i] = NoPanel /\ "emoji" \in Kinds
  BY NoPanelIsNone DEF Steady, PanelsTypeOK, Unmade
<1>1. /\ Agreed(T, focused_ic)
      /\ \A n \in Kinds \ {k} : T.slot[n] = S.slot[n]
      /\ \A j \in Proxies \ {i} : T.process[j] = S.process[j]
      /\ \/ T.slot[k] = NoPanel /\ T.process[i] = NoPanel /\ T.enabled = S.enabled
         \/ /\ T.slot[k] = i /\ T.process[i] = p /\ conn[p] = "open"
            /\ T.enabled <=> S.enabled /\ k # "emoji"
  BY <1>0, ReplacedKeeps
<1> HIDE DEF T
\* A proxy that is alive is the new one, or it was alive in the other slot.
<1>2. ASSUME NEW j \in T.alive
      PROVE  \/ j = i /\ T.process[i] = p /\ conn[p] = "open"
             \/ /\ j # i /\ j \in S.alive /\ T.process[j] = S.process[j]
                /\ KindOf(S.process[j]) # k /\ S.slot[KindOf(S.process[j])] = j
  <2>1. /\ j \in Proxies /\ j # NoPanel /\ T.process[j] \in Processes
        /\ T.slot[KindOf(T.process[j])] = j
    BY <1>1, AliveInSlot
  <2>2. KindOf(T.process[j]) \in Kinds
    BY <2>1, NoPanelIsNone
  <2>3. CASE j = i
    <3>1. T.process[i] # NoPanel
      BY <2>1, <2>3, NoPanelIsNone
    <3>2. QED
      BY <2>3, <3>1, <1>1
  <2>4. CASE j # i
    <3>1. T.process[j] = S.process[j]
      BY <2>1, <2>4, <1>1
    <3>2. KindOf(T.process[j]) # k
      BY <2>1, <2>4, <1>1
    <3>3. S.slot[KindOf(S.process[j])] = j
      BY <2>1, <2>2, <3>1, <3>2, <1>1
    <3>4. j \in S.alive
      BY <2>1, <2>2, <3>1, <3>3, <1>0 DEF Agreed, Slots
    <3>5. QED
      BY <2>4, <3>1, <3>2, <3>3, <3>4
  <2>5. QED
    BY <2>3, <2>4
<1>3. Connected(T)
  BY <1>2 DEF Steady, Connected
<1>4. Extended(T)
  <2>1. SUFFICES ASSUME NEW c \in Contexts, extension[c] # NoPanel
                 PROVE  /\ c = focused_ic /\ T.process[extension[c]] # NoPanel
                        /\ extension[c] \in T.alive => T.enabled /\ extension[c] = T.slot["emoji"]
    BY DEF Extended
  <2>2. /\ c = focused_ic /\ S.process[extension[c]] # NoPanel
        /\ extension[c] \in S.alive => S.enabled /\ extension[c] = S.slot["emoji"]
    BY <2>1 DEF Steady, Extended
  <2>3. extension[c] \in Proxies /\ extension[c] # i
    BY <2>1, <2>2, <1>0 DEF PanelsTypeOK
  <2>4. extension[c] \in T.alive => T.enabled /\ extension[c] = T.slot["emoji"]
    <3> HAVE extension[c] \in T.alive
    <3>1. /\ extension[c] \in S.alive /\ KindOf(S.process[extension[c]]) # k
          /\ S.slot[KindOf(S.process[extension[c]])] = extension[c]
      BY <1>2, <2>3
    <3>2. S.enabled /\ extension[c] = S.slot["emoji"]
      BY <2>2, <3>1
    <3>3. k # "emoji"
      BY <3>1, <3>2, <2>1, <1>0 DEF Agreed, Slots
    <3>4. QED
      BY <3>2, <3>3, <1>0, <1>1
  <2>5. T.process[extension[c]] # NoPanel
    BY <2>2, <2>3, <1>1
  <2>6. QED
    BY <2>2, <2>4, <2>5
<1>5. QED
  BY <1>1, <1>3, <1>4 DEF Steady, T

\* ... and so does the end of a process, which leaves no proxy of it.
LEMMA LeftBySteady ==
  ASSUME NEW S, NEW p \in Processes, PanelsTypeOK, Steady(S)
  PROVE  Steady(LeftBy(S, p)) /\ \A i \in LeftBy(S, p).alive : LeftBy(S, p).process[i] # p
<1> DEFINE of == {i \in S.alive : S.process[i] = p}
           j == CHOOSE i \in of : TRUE
           k == KindOf(p)
           T == DestroyProxy(S, j)
<1>1. CASE of = {}
  BY <1>1 DEF LeftBy
<1>2. CASE of # {}
  <2>1. j \in of
    BY <1>2
  <2> HIDE DEF j
  <2>2. j = S.slot[k] /\ k \in Kinds /\ S.slot[k] # NoPanel /\ Agreed(S, focused_ic)
    BY <2>1, AliveInSlot, NoPanelIsNone DEF Steady
  <2>3. /\ Steady(T) /\ T.process = S.process
        /\ \A n \in Kinds : T.slot[n] = IF n = k THEN NoPanel ELSE S.slot[n]
    BY <2>2, DestroySteady
  <2>4. LeftBy(S, p) = T
    BY <1>2 DEF LeftBy, j
  <2> HIDE DEF T
  <2>5. ASSUME NEW i \in T.alive, T.process[i] = p
        PROVE  FALSE
    BY <2>2, <2>3, <2>5, AliveInSlot DEF Steady
  <2>6. QED
    BY <2>3, <2>4, <2>5
<1>3. QED
  BY <1>1, <1>2

-----------------------------------------------------------------------------
(* A change of the focus. *)

Refocused(S, k, c) ==
  IF S.slot[k] = NoPanel THEN S
  ELSE ProxyFocusIn(ProxyFocusOut(S, S.slot[k]), S.slot[k], c)

\* The proxy in slot k, and its process, are told c.
LEMMA RefocusedFields ==
  ASSUME NEW S \in PanelsRecord, NEW k \in Kinds, NEW c \in Contexts, Slots(S)
  PROVE  LET T == Refocused(S, k, c)
         IN /\ T \in PanelsRecord
            /\ T.slot = S.slot /\ (T.enabled <=> S.enabled)
            /\ T.alive = S.alive /\ T.process = S.process
            /\ \A j \in Proxies : T.focus[j] = IF j = S.slot[k] THEN c ELSE S.focus[j]
            /\ \A q \in Processes :
                 T.sees[q] = IF S.slot[k] # NoPanel /\ S.process[S.slot[k]] = q
                             THEN c ELSE S.sees[q]
<1> DEFINE i == S.slot[k]
           U == ProxyFocusOut(S, i)
           V == ProxyFocusIn(U, i, c)
<1>0. /\ S.slot \in [Kinds -> Proxies \cup {NoPanel}]
      /\ S.focus \in [Proxies -> Contexts \cup {NoPanel}]
      /\ S.sees \in [Processes -> Contexts \cup {NoPanel}]
  BY DEF PanelsRecord
<1>1. CASE i = NoPanel
  BY <1>1, NoPanelIsNone DEF Refocused
<1>2. CASE i # NoPanel
  <2>1. i \in Proxies /\ S.process[i] \in Processes
    BY <1>0, <1>2 DEF Slots
  <2>2. /\ U \in PanelsRecord
        /\ U.slot = S.slot /\ U.enabled = S.enabled
        /\ U.alive = S.alive /\ U.process = S.process
        /\ U.focus = [S.focus EXCEPT ![i] = NoPanel]
        /\ U.sees = [S.sees EXCEPT ![S.process[i]] = NoPanel]
    BY <2>1, FocusOutFields
  <2>3. Refocused(S, k, c) = V
    BY <1>2 DEF Refocused
  <2> HIDE DEF U
  <2>4. U.focus[i] = NoPanel /\ U.process[i] \in Processes
    BY <1>0, <2>1, <2>2
  <2>5. /\ V \in PanelsRecord
        /\ V.slot = U.slot /\ V.enabled = U.enabled
        /\ V.alive = U.alive /\ V.process = U.process
        /\ V.focus = [U.focus EXCEPT ![i] = c]
        /\ V.sees = [U.sees EXCEPT ![U.process[i]] = c]
    <3>1. U \in PanelsRecord /\ i \in Proxies /\ NoPanel \notin Contexts
      BY <2>1, <2>2, NoPanelIsNone
    <3> HIDE DEF i
    <3>2. QED
      BY <3>1, <2>4, FocusInFields
  <2> HIDE DEF V
  <2>6. \A j \in Proxies : V.focus[j] = IF j = i THEN c ELSE S.focus[j]
    BY <1>0, <2>1, <2>2, <2>5
  <2>7. \A r \in Processes : V.sees[r] = IF S.process[i] = r THEN c ELSE S.sees[r]
    BY <1>0, <2>1, <2>2, <2>5
  <2>8. QED
    BY <1>2, <2>2, <2>3, <2>5, <2>6, <2>7
<1>3. QED
  BY <1>1, <1>2

\* All that agreed on the old focus agree on the new one.
LEMMA RefocusedKeeps ==
  ASSUME NEW c \in Contexts, Agreed(panels, focused_ic)
  PROVE  LET T == RefocusedPanels(c)
         IN /\ Agreed(T, c)
            /\ T.slot = panels.slot /\ (T.enabled <=> panels.enabled)
            /\ T.alive = panels.alive /\ T.process = panels.process
<1> DEFINE A == Refocused(panels, "panel", c)
           B == Refocused(A, "emoji", c)
<1>0. panels \in PanelsRecord /\ Slots(panels) /\ "panel" \in Kinds /\ "emoji" \in Kinds
  BY NoPanelIsNone DEF Agreed
<1>1. /\ A \in PanelsRecord
      /\ A.slot = panels.slot /\ (A.enabled <=> panels.enabled)
      /\ A.alive = panels.alive /\ A.process = panels.process
      /\ \A j \in Proxies : A.focus[j] = IF j = panels.slot["panel"] THEN c ELSE panels.focus[j]
      /\ \A q \in Processes :
           A.sees[q] = IF panels.slot["panel"] # NoPanel /\ panels.process[panels.slot["panel"]] = q
                       THEN c ELSE panels.sees[q]
  BY <1>0, RefocusedFields
<1>2. RefocusedPanels(c) = B
  BY DEF RefocusedPanels, Refocused
<1> HIDE DEF A
<1>3. Slots(A)
  BY <1>0, <1>1 DEF Slots
<1>4. /\ B \in PanelsRecord
      /\ B.slot = panels.slot /\ (B.enabled <=> panels.enabled)
      /\ B.alive = panels.alive /\ B.process = panels.process
      /\ \A j \in Proxies : B.focus[j] = IF j = panels.slot["emoji"] THEN c ELSE A.focus[j]
      /\ \A q \in Processes :
           B.sees[q] = IF panels.slot["emoji"] # NoPanel /\ panels.process[panels.slot["emoji"]] = q
                       THEN c ELSE A.sees[q]
  BY <1>0, <1>1, <1>3, RefocusedFields
<1> HIDE DEF B
<1>5. Slots(B)
  BY <1>0, <1>4 DEF Slots
<1>6. ASSUME NEW j \in Proxies
      PROVE  B.focus[j] = IF j \in B.alive THEN c ELSE NoPanel
  <2>1. j \in panels.alive <=> j = panels.slot["panel"] \/ j = panels.slot["emoji"]
    BY <1>0, NoPanelIsNone DEF Slots
  <2>2. QED
    BY <2>1, <1>1, <1>4 DEF Agreed, Told
<1>7. ASSUME NEW q \in Reachable
      PROVE  B.sees[q] = IF \E j \in B.alive : B.process[j] = q THEN c ELSE NoPanel
  <2>1. q \in Processes
    BY DEF Reachable
  <2>2. (\E j \in panels.alive : panels.process[j] = q)
          <=> \E n \in Kinds : panels.slot[n] # NoPanel /\ panels.process[panels.slot[n]] = q
    <3>1. ASSUME NEW j \in panels.alive, panels.process[j] = q
          PROVE  \E n \in Kinds : panels.slot[n] # NoPanel /\ panels.process[panels.slot[n]] = q
      <4>1. j \in Proxies /\ j # NoPanel
        BY <1>0, NoPanelIsNone DEF PanelsRecord
      <4>2. QED
        BY <3>1, <4>1, <1>0 DEF Slots
    <3>2. ASSUME NEW n \in Kinds, panels.slot[n] # NoPanel, panels.process[panels.slot[n]] = q
          PROVE  \E j \in panels.alive : panels.process[j] = q
      <4>1. panels.slot[n] \in Proxies
        BY <3>2, <1>0 DEF PanelsRecord
      <4>2. panels.slot[n] \in panels.alive
        BY <4>1, <1>0 DEF Slots
      <4>3. QED
        BY <3>2, <4>2
    <3>3. QED
      BY <3>1, <3>2
  <2>3. panels.sees[q] = IF \E j \in panels.alive : panels.process[j] = q THEN focused_ic ELSE NoPanel
    BY DEF Agreed, Told
  <2>4. CASE \E j \in panels.alive : panels.process[j] = q
    <3>1. PICK n \in Kinds : panels.slot[n] # NoPanel /\ panels.process[panels.slot[n]] = q
      BY <2>2, <2>4
    <3>2. n = "panel" \/ n = "emoji"
      BY NoPanelIsNone
    <3>3. B.sees[q] = c
      BY <2>1, <3>1, <3>2, <1>1, <1>4
    <3>4. QED
      BY <2>4, <3>3, <1>4
  <2>5. CASE ~ \E j \in panels.alive : panels.process[j] = q
    <3>1. B.sees[q] = panels.sees[q]
      BY <2>1, <2>2, <2>5, <1>0, <1>1, <1>4
    <3>2. QED
      BY <2>3, <2>5, <3>1, <1>4
  <2>6. QED
    BY <2>4, <2>5
<1>8. Agreed(B, c)
  BY <1>4, <1>5, <1>6, <1>7 DEF Agreed, Told
<1>9. QED
  BY <1>2, <1>4, <1>8

-----------------------------------------------------------------------------
(* The invariant holds initially, and every step keeps it. *)

LEMMA PanelsInitially == PanelsInit => PanelsInv
<1> SUFFICES ASSUME PanelsInit PROVE PanelsInv
  OBVIOUS
<1>1. PanelsTypeOK
  BY NoPanelIsNone DEF PanelsInit, PanelsTypeOK
<1>2. panels \in PanelsRecord
  BY <1>1 DEF PanelsTypeOK, PanelsRecord
<1>3. Slots(panels)
  BY NoPanelIsNone DEF PanelsInit, Slots
<1>4. Told(panels, focused_ic)
  BY NoPanelIsNone DEF PanelsInit, Told, Reachable
<1>5. Connected(panels) /\ Extended(panels)
  BY DEF PanelsInit, Connected, Extended
<1>6. QED
  BY <1>1, <1>2, <1>3, <1>4, <1>5 DEF PanelsInv, Steady, Agreed

\* A step that keeps the focus and the extension, and reaches no new process.
LEMMA QuietStep ==
  ASSUME PanelsInv, Steady(panels'), panels' \in PanelsRecord,
         UNCHANGED <<focused_ic, extension>>, live' \subseteq Clients, holders' \subseteq Contexts,
         conn' \in [Processes -> {"none", "open", "closed"}],
         \A p \in Processes : conn'[p] = "open" => conn[p] = "open",
         \A i \in panels'.alive : conn'[panels'.process[i]] # "none"
  PROVE  PanelsInv'
<1>1. PanelsTypeOK'
  BY DEF PanelsInv, PanelsTypeOK, PanelsRecord
<1>2. Told(panels, focused_ic)'
  BY DEF Steady, Agreed, Told, Reachable
<1>3. (panels \in PanelsRecord)' /\ Slots(panels)'
  BY DEF Steady, Agreed, Slots
<1>4. Extended(panels)'
  BY DEF Steady, Extended
<1>5. Connected(panels)'
  BY DEF Connected
<1>6. QED
  BY <1>1, <1>2, <1>3, <1>4, <1>5 DEF PanelsInv, Steady, Agreed

\* A step that gives the focus, or the extension, to a context.
LEMMA ExtensionStep ==
  ASSUME PanelsInv, UNCHANGED conn, Agreed(panels', focused_ic'),
         panels'.alive = panels.alive, panels'.process = panels.process,
         focused_ic' \in Contexts, live' \subseteq Clients, holders' \subseteq Contexts,
         extension' \in [Contexts -> Proxies \cup {NoPanel}],
         \A c \in Contexts : extension'[c] # NoPanel =>
           c = focused_ic' /\ panels'.enabled /\ extension'[c] = panels'.slot["emoji"]
  PROVE  PanelsInv'
<1>1. panels' \in PanelsRecord /\ Slots(panels') /\ Told(panels', focused_ic')
  BY DEF Agreed
<1>2. PanelsTypeOK'
  BY <1>1 DEF PanelsInv, PanelsTypeOK, PanelsRecord
<1>3. Told(panels, focused_ic)'
  BY <1>1 DEF Told, Reachable
<1>4. (panels \in PanelsRecord)' /\ Slots(panels)'
  BY <1>1 DEF Slots
<1>5. Connected(panels)'
  BY DEF PanelsInv, Steady, Connected
<1>6. Extended(panels)'
  BY <1>1, NoPanelIsNone DEF Extended, Slots
<1>7. QED
  BY <1>2, <1>3, <1>4, <1>5, <1>6 DEF PanelsInv, Steady, Agreed

\* bus_ibus_impl_set_focused_context.
LEMMA FocusStep ==
  ASSUME PanelsInv, NEW c \in Contexts, NEW gone, SetFocusedIc(c, gone),
         UNCHANGED conn, live' \subseteq Clients
  PROVE  PanelsInv'
<1>1. PanelsTypeOK /\ Agreed(panels, focused_ic) /\ Extended(panels)
  BY DEF PanelsInv, Steady
<1>2. /\ Agreed(panels', focused_ic')
      /\ panels'.slot = panels.slot /\ (panels'.enabled <=> panels.enabled)
      /\ panels'.alive = panels.alive /\ panels'.process = panels.process
      /\ focused_ic' = c
  BY <1>1, RefocusedKeeps DEF SetFocusedIc
<1>3. ExtensionInUse \in Proxies \cup {NoPanel}
  BY <1>1, NoPanelIsNone DEF PanelsTypeOK, ExtensionInUse
<1>4. extension' \in [Contexts -> Proxies \cup {NoPanel}] /\ holders' \subseteq Contexts
  BY <1>1, <1>3 DEF SetFocusedIc, ExtensionMoves, PanelsTypeOK
<1>5. \A d \in Contexts : extension'[d] # NoPanel => d = c /\ extension'[d] = ExtensionInUse
  BY <1>1 DEF SetFocusedIc, ExtensionMoves, Extended, PanelsTypeOK
<1>6. \A d \in Contexts : extension'[d] # NoPanel =>
        d = focused_ic' /\ panels'.enabled /\ extension'[d] = panels'.slot["emoji"]
  BY <1>2, <1>5 DEF ExtensionInUse
<1>7. QED
  BY <1>2, <1>4, <1>6, ExtensionStep

\* A new process knows nothing, and no proxy speaks to it.
LEMMA StartStep ==
  ASSUME PanelsInv, NEW p \in Processes, ProcessStarts(p)
  PROVE  PanelsInv'
<1>1. PanelsTypeOK /\ Agreed(panels, focused_ic) /\ Connected(panels) /\ Extended(panels)
  BY DEF PanelsInv, Steady
<1>2. /\ panels' = [panels EXCEPT !.sees[p] = NoPanel]
      /\ conn' = [conn EXCEPT ![p] = "open"] /\ conn[p] = "none"
      /\ UNCHANGED <<focused_ic, live, holders, extension>>
  BY DEF ProcessStarts
<1>3. panels \in PanelsRecord /\ conn \in [Processes -> {"none", "open", "closed"}]
  BY <1>1 DEF PanelsTypeOK, PanelsRecord
<1>4. /\ panels' \in PanelsRecord
      /\ panels'.slot = panels.slot /\ (panels'.enabled <=> panels.enabled)
      /\ panels'.alive = panels.alive /\ panels'.process = panels.process
      /\ panels'.focus = panels.focus
      /\ \A q \in Processes : panels'.sees[q] = IF q = p THEN NoPanel ELSE panels.sees[q]
  BY <1>2, <1>3 DEF PanelsRecord
<1>5. \A q \in Processes : conn'[q] = IF q = p THEN "open" ELSE conn[q]
  BY <1>2, <1>3
<1>6. PanelsTypeOK'
  BY <1>1, <1>2, <1>3, <1>4 DEF PanelsTypeOK, PanelsRecord
<1>7. \A i \in panels.alive : panels.process[i] \in Processes
  BY <1>1, AliveInSlot
<1>8. Told(panels, focused_ic)'
  <2>1. ASSUME NEW i \in Proxies
        PROVE  panels'.focus[i] = IF i \in panels'.alive THEN focused_ic' ELSE NoPanel
    BY <1>1, <1>2, <1>4 DEF Agreed, Told
  <2>2. ASSUME NEW q \in Processes, conn'[q] = "open"
        PROVE  panels'.sees[q] = IF \E i \in panels'.alive : panels'.process[i] = q
                                 THEN focused_ic' ELSE NoPanel
    <3>1. CASE q = p
      BY <3>1, <1>1, <1>2, <1>4 DEF Connected
    <3>2. CASE q # p
      BY <3>2, <2>2, <1>1, <1>2, <1>4, <1>5 DEF Agreed, Told, Reachable
    <3>3. QED
      BY <3>1, <3>2
  <2>3. QED
    BY <2>1, <2>2 DEF Told, Reachable
<1>9. Slots(panels)'
  BY <1>1, <1>4 DEF Agreed, Slots
<1>10. Connected(panels)'
  BY <1>1, <1>2, <1>4, <1>5, <1>7 DEF Connected
<1>11. Extended(panels)'
  BY <1>1, <1>2, <1>4 DEF Extended
<1>12. QED
  BY <1>4, <1>6, <1>8, <1>9, <1>10, <1>11 DEF PanelsInv, Steady, Agreed

\* The end of a process, with or without another that waited for its name.
LEMMA GoneStep ==
  ASSUME PanelsInv, NEW p \in Processes, ProcessGone(p)
  PROVE  PanelsInv'
<1>1. PanelsTypeOK /\ Steady(panels)
  BY DEF PanelsInv
<1>2. /\ conn[p] = "closed" /\ conn' = [conn EXCEPT ![p] = "none"]
      /\ UNCHANGED <<focused_ic, live, holders, extension>>
  BY DEF ProcessGone
<1>3. \/ panels' = LeftBy(panels, p)
      \/ \E q \in Processes, i \in Unmade(panels) : panels' = LeftBy(Replaced(panels, i, q), p)
  BY DEF ProcessGone, LeftBy
<1>4. Steady(panels') /\ \A i \in panels'.alive : panels'.process[i] # p
  <2>1. CASE panels' = LeftBy(panels, p)
    BY <2>1, <1>1, LeftBySteady
  <2>2. CASE \E q \in Processes, i \in Unmade(panels) : panels' = LeftBy(Replaced(panels, i, q), p)
    <3>1. PICK q \in Processes, i \in Unmade(panels) : panels' = LeftBy(Replaced(panels, i, q), p)
      BY <2>2
    <3>2. Steady(Replaced(panels, i, q))
      BY <1>1, ReplacedSteady
    <3>3. QED
      BY <3>1, <3>2, <1>1, LeftBySteady
  <2>3. QED
    BY <1>3, <2>1, <2>2
<1>5. conn \in [Processes -> {"none", "open", "closed"}] /\ live \subseteq Clients /\ holders \subseteq Contexts
  BY <1>1 DEF PanelsTypeOK
<1>6. \A i \in panels'.alive : conn'[panels'.process[i]] # "none"
  <2>1. ASSUME NEW i \in panels'.alive
        PROVE  conn'[panels'.process[i]] # "none"
    <3>1. panels'.process[i] \in Processes /\ panels'.process[i] # p
      BY <1>4, AliveInSlot DEF Steady
    <3>2. conn[panels'.process[i]] # "none"
      BY <1>4 DEF Steady, Connected
    <3>3. QED
      BY <3>1, <3>2, <1>2, <1>5
  <2>2. QED
    BY <2>1
<1>7. QED
  BY <1>2, <1>4, <1>5, <1>6, QuietStep DEF Steady, Agreed

LEMMA PanelsStep ==
  ASSUME PanelsInv, [PanelsNext]_panelVars
  PROVE  PanelsInv'
<1>0. /\ PanelsTypeOK /\ Agreed(panels, focused_ic) /\ Connected(panels) /\ Extended(panels)
      /\ Steady(panels) /\ panels \in PanelsRecord
  BY DEF PanelsInv, Steady, Agreed
<1>1. /\ focused_ic \in Contexts /\ live \subseteq Clients /\ holders \subseteq Contexts
      /\ extension \in [Contexts -> Proxies \cup {NoPanel}]
      /\ conn \in [Processes -> {"none", "open", "closed"}]
      /\ Fake \in Contexts /\ Clients \subseteq Contexts
  BY <1>0, NoPanelIsNone DEF PanelsTypeOK
\* A step that changes neither the focus, the extension nor the panels.
<1>2. ASSUME UNCHANGED <<focused_ic, extension, panels, conn>>,
             live' \subseteq Clients, holders' \subseteq Contexts
      PROVE  PanelsInv'
  <2>1. Steady(panels') /\ panels' \in PanelsRecord
    BY <1>0, <1>2
  <2>2. \A i \in panels'.alive : conn'[panels'.process[i]] # "none"
    BY <1>0, <1>2 DEF Connected
  <2>3. QED
    BY <1>1, <1>2, <2>1, <2>2, QuietStep
\* A step that gives the extension to the focused context, or takes it.
<1>3. ASSUME UNCHANGED <<focused_ic, live, conn, panels>>, holders' \subseteq Contexts,
             NEW e,
             extension' = [c \in Contexts |-> IF c = e THEN NoPanel ELSE
                             IF c = focused_ic THEN ExtensionInUse ELSE extension[c]]
      PROVE  PanelsInv'
  <2>1. ExtensionInUse \in Proxies \cup {NoPanel}
    BY <1>0, NoPanelIsNone DEF PanelsTypeOK, ExtensionInUse
  <2>2. extension' \in [Contexts -> Proxies \cup {NoPanel}]
    BY <1>1, <1>3, <2>1
  <2>3. \A c \in Contexts : extension'[c] # NoPanel =>
          c = focused_ic' /\ panels'.enabled /\ extension'[c] = panels'.slot["emoji"]
    BY <1>0, <1>3 DEF ExtensionInUse, Extended
  <2>4. Agreed(panels', focused_ic')
    BY <1>0, <1>3
  <2>5. QED
    BY <1>1, <1>3, <2>2, <2>3, <2>4, ExtensionStep
<1>4. ASSUME NEW p \in Processes, ProcessStarts(p)
      PROVE  PanelsInv'
  BY <1>4, StartStep
<1>5. ASSUME NEW p \in Processes, NameAcquired(p)
      PROVE  PanelsInv'
  <2>1. Steady(panels')
    BY <1>0, <1>5, ReplacedSteady DEF NameAcquired
  <2>2. QED
    BY <1>1, <1>5, <2>1, QuietStep DEF NameAcquired, Steady, Agreed, Connected
<1>6. ASSUME NEW p \in Processes, LinkCloses(p)
      PROVE  PanelsInv'
  <2>1. Steady(panels') /\ panels' \in PanelsRecord
    BY <1>0, <1>6 DEF LinkCloses
  <2>2. \A i \in panels'.alive : conn'[panels'.process[i]] # "none"
    <3>1. ASSUME NEW i \in panels.alive
          PROVE  panels.process[i] \in Processes /\ conn[panels.process[i]] # "none"
      BY <1>0, AliveInSlot DEF Connected
    <3>2. QED
      BY <1>1, <1>6, <3>1 DEF LinkCloses
  <2>3. QED
    BY <1>1, <1>6, <2>1, <2>2, QuietStep DEF LinkCloses
<1>7. ASSUME NEW p \in Processes, ProcessGone(p)
      PROVE  PanelsInv'
  BY <1>7, GoneStep
<1>8. ASSUME NEW c \in Clients, CreateContext(c)
      PROVE  PanelsInv'
  BY <1>1, <1>2, <1>8 DEF CreateContext
<1>9. ASSUME NEW c \in Clients, ContextFocusIn(c)
      PROVE  PanelsInv'
  BY <1>1, <1>9, FocusStep DEF ContextFocusIn
<1>10. ASSUME NEW c \in Clients, ContextDestroyed(c)
       PROVE  PanelsInv'
  <2>1. CASE c = focused_ic
    BY <1>1, <1>10, <2>1, FocusStep DEF ContextDestroyed
  <2>2. CASE c # focused_ic
    BY <1>1, <1>2, <1>10, <2>2 DEF ContextDestroyed
  <2>3. QED
    BY <2>1, <2>2
<1>11. ASSUME ContextFocusOut
       PROVE  PanelsInv'
  BY <1>1, <1>11, FocusStep DEF ContextFocusOut
<1>12. ASSUME NEW c \in Contexts, EngineComes(c)
       PROVE  PanelsInv'
  BY <1>1, <1>2, <1>12 DEF EngineComes
<1>13. ASSUME NEW c \in Contexts, EngineGoes(c)
       PROVE  PanelsInv'
  BY <1>1, <1>2, <1>13 DEF EngineGoes
<1>14. ASSUME NEW c \in Contexts, GlobalEngineReady(c)
       PROVE  PanelsInv'
  <2>1. extension' = [d \in Contexts |-> IF d = c THEN NoPanel ELSE
                        IF d = focused_ic THEN ExtensionInUse ELSE extension[d]]
    BY <1>1, <1>14 DEF GlobalEngineReady
  <2>2. QED
    BY <1>1, <1>3, <1>14, <2>1 DEF GlobalEngineReady
<1>15. ASSUME GlobalEngineCleared
       PROVE  PanelsInv'
  <2>1. extension' = [d \in Contexts |-> IF d = NoPanel THEN NoPanel ELSE
                        IF d = focused_ic THEN ExtensionInUse ELSE extension[d]]
    BY <1>1, <1>15, NoPanelIsNone DEF GlobalEngineCleared
  <2>2. QED
    BY <1>1, <1>3, <1>15, <2>1 DEF GlobalEngineCleared
<1>16. ASSUME NEW enabled \in BOOLEAN, SetExtensionMode(enabled)
       PROVE  PanelsInv'
  <2>1. /\ panels' = [panels EXCEPT !.enabled = enabled]
        /\ extension' = [extension EXCEPT ![focused_ic] =
                           IF enabled THEN panels.slot["emoji"] ELSE NoPanel]
        /\ UNCHANGED <<focused_ic, live, holders, conn>>
    BY <1>16 DEF SetExtensionMode
  <2>2. panels.slot["emoji"] \in Proxies \cup {NoPanel}
    BY <1>0, NoPanelIsNone DEF PanelsRecord
  <2>3. extension' \in [Contexts -> Proxies \cup {NoPanel}]
    BY <1>1, <2>1, <2>2
  <2>4. /\ panels' \in PanelsRecord
        /\ panels'.slot = panels.slot /\ panels'.alive = panels.alive
        /\ panels'.process = panels.process
        /\ panels'.focus = panels.focus /\ panels'.sees = panels.sees
    BY <1>0, <2>1 DEF PanelsRecord
  <2>5. panels'.enabled <=> enabled
    BY <1>0, <2>1 DEF PanelsRecord
  <2>6. Agreed(panels', focused_ic')
    BY <1>0, <2>1, <2>4 DEF Agreed, Slots, Told
  <2>7. \A c \in Contexts : extension'[c] # NoPanel =>
          c = focused_ic /\ enabled /\ extension'[c] = panels.slot["emoji"]
    BY <1>0, <1>1, <2>1 DEF Extended
  <2>8. \A c \in Contexts : extension'[c] # NoPanel =>
          c = focused_ic' /\ panels'.enabled /\ extension'[c] = panels'.slot["emoji"]
    BY <2>1, <2>4, <2>5, <2>7
  <2>9. QED
    BY <1>1, <2>1, <2>3, <2>4, <2>6, <2>8, ExtensionStep
<1>17. CASE UNCHANGED panelVars
  BY <1>1, <1>2, <1>17 DEF panelVars
<1>18. QED
  BY <1>4, <1>5, <1>6, <1>7, <1>8, <1>9, <1>10, <1>11, <1>12, <1>13, <1>14, <1>15, <1>16,
     <1>17 DEF PanelsNext

THEOREM PanelsInvariant == PanelsSpec => []PanelsInv
<1>1. PanelsInit => PanelsInv
  BY PanelsInitially
<1>2. PanelsInv /\ [PanelsNext]_panelVars => PanelsInv'
  BY PanelsStep
<1>3. QED
  BY <1>1, <1>2, PTL DEF PanelsSpec

(* Every value stays in its range, for any number of contexts, panel       *)
(* processes and proxies.                                                  *)
THEOREM PanelsTypeCorrect == PanelsSpec => []PanelsTypeOK
<1>1. PanelsInv => PanelsTypeOK
  BY DEF PanelsInv
<1>2. QED
  BY <1>1, PanelsInvariant, PTL

(* The proxies ibus refers to are the ones that live, they and ibus agree  *)
(* about the focused context, and so does each connected process, whatever *)
(* the order in which processes, names, contexts and the focus move.       *)
THEOREM PanelsAlwaysFollow == PanelsSpec => []PanelsFollow
<1>1. PanelsInv => PanelsFollow
  <2> SUFFICES ASSUME PanelsInv PROVE PanelsFollow
    OBVIOUS
  <2>1. /\ Agreed(panels, focused_ic) /\ panels \in PanelsRecord
        /\ Slots(panels) /\ Told(panels, focused_ic)
    BY DEF PanelsInv, Steady, Agreed
  <2>2. panels.alive \subseteq Proxies /\ \A k \in Kinds : panels.slot[k] \in Proxies \cup {NoPanel}
    BY <2>1 DEF PanelsRecord
  <2>3. panels.alive = Current
    BY <2>1, <2>2, NoPanelIsNone DEF Slots, Current
  <2>4. \A i \in Current : panels.focus[i] = focused_ic
    BY <2>1, <2>2, <2>3 DEF Told
  <2>5. \A p \in Processes : conn[p] = "open" =>
          panels.sees[p] = IF \E i \in Current : panels.process[i] = p
                           THEN focused_ic ELSE NoPanel
    BY <2>1, <2>3 DEF Told, Reachable
  <2>6. QED
    BY <2>3, <2>4, <2>5 DEF PanelsFollow
<1>2. QED
  BY <1>1, PanelsInvariant, PTL

(* Only the focused context sends its keys to an extension: the one in use *)
(* or one that is gone.                                                    *)
THEOREM ExtensionIsOfFocus == PanelsSpec => []ExtensionOfFocus
<1>1. PanelsInv => ExtensionOfFocus
  BY DEF PanelsInv, Steady, Extended, ExtensionOfFocus, ExtensionInUse
<1>2. QED
  BY <1>1, PanelsInvariant, PTL

(* Both: who is told about the focus, and who gets its keys.               *)
THEOREM FocusIsServed == PanelsSpec => []PanelsServeFocus
<1>1. PanelsFollow /\ ExtensionOfFocus => PanelsServeFocus
  BY DEF PanelsServeFocus
<1>2. QED
  BY <1>1, PanelsAlwaysFollow, ExtensionIsOfFocus, PTL

-----------------------------------------------------------------------------
(* The Wayland input method. *)

USE WaylandAssumption

\* The fields the proofs are about, and the order in which requests are made
Shapes ==
  /\ ibuscontext \in Optional(ContextIds) /\ cancellable \in Optional(ContextIds)
  /\ creations \in [ContextIds -> {"unused", "running", "failed", "in", "out"}]
  /\ down \in [WaylandKeys -> Optional(ContextIds)]
  /\ seat = [bound |-> seat.bound, active |-> seat.active,
             activate |-> seat.activate, deactivate |-> seat.deactivate]
  /\ {seat.bound, seat.active, seat.activate, seat.deactivate} \subseteq BOOLEAN
  /\ repeating = [key |-> repeating.key, count |-> repeating.count, path |-> repeating.path,
                  delay |-> repeating.delay, rate |-> repeating.rate]
  /\ repeating.path \in Optional(ContextIds)
  /\ slipped \in BOOLEAN /\ missed \in BOOLEAN

Made(c) == creations[c] \in {"failed", "in", "out"}

(* The repetition is of a key that is down, unless its release was missed, *)
(* in a context that was made.                                             *)
HeldInv ==
  /\ ibuscontext # NoContext => Made(ibuscontext)
  /\ repeating.path # NoContext =>
       Made(repeating.path) /\ repeating.key \in WaylandKeys
  /\ SameContext => down[repeating.key] = ibuscontext \/ missed

InOrder ==
  /\ \A c, d \in ContextIds : c < d /\ creations[d] # "unused" => creations[c] # "unused"
  /\ \A c \in cancelled : c \in ContextIds /\ creations[c] # "unused"
  /\ cancellable # NoContext => creations[cancellable] # "unused"

(* What holds of requests as long as no callback reset the cancellable of  *)
(* another one: all that run are cancelled, but for the last, which the    *)
(* cancellable is for.                                                     *)
Followed ==
  /\ \A c \in ContextIds : creations[c] = "in" <=> c = ibuscontext
  /\ ibuscontext # NoContext => seat.active /\ Latest(ibuscontext) /\ cancellable = NoContext
  /\ cancellable # NoContext =>
       /\ seat.active /\ Latest(cancellable)
       /\ creations[cancellable] = "running" /\ cancellable \notin cancelled
  /\ \A c \in ContextIds : creations[c] = "running" => c \in cancelled \/ c = cancellable
  /\ seat.active /\ ibuscontext = NoContext =>
       \E c \in ContextIds :
         /\ Latest(c)
         /\ creations[c] = "running" => cancellable = c
         /\ creations[c] \in {"running", "failed"}

FollowInv == InOrder /\ (~slipped => Followed)

WaylandInv == Shapes /\ HeldInv /\ FollowInv

-----------------------------------------------------------------------------
LEMMA NoContextIsNone == NoContext \notin ContextIds
  BY DEF ContextIds

LEMMA WaylandInitHolds == WaylandInit => WaylandInv
<1> SUFFICES ASSUME WaylandInit PROVE WaylandInv
  OBVIOUS
<1>1. Shapes
  BY DEF WaylandInit, Shapes, Optional
<1>2. HeldInv
  BY DEF WaylandInit, HeldInv, SameContext
<1>3. \A c \in ContextIds : creations[c] = "unused"
  BY DEF WaylandInit
<1>4. InOrder /\ Followed
  BY <1>3, NoContextIsNone DEF WaylandInit, InOrder, Followed
<1>5. QED
  BY <1>1, <1>2, <1>4 DEF WaylandInv, FollowInv

-----------------------------------------------------------------------------
(* The actions, as what they change: of the contexts, of the seat, of the  *)
(* keys and their repetition.                                              *)

\* The events that wait, and the end of the input method, leave the rest alone.
LEMMA WaitingEvents ==
  ASSUME WaylandInv, InputMethodActivateV2 \/ InputMethodDeactivateV2
  PROVE  WaylandInv'
<1> USE NoContextIsNone
<1>1. Shapes'
  BY DEF WaylandInv, Shapes, InputMethodActivateV2, InputMethodDeactivateV2, repeatVars
<1>2. HeldInv'
  BY DEF WaylandInv, HeldInv, Made, SameContext, InputMethodActivateV2, InputMethodDeactivateV2, repeatVars
<1>3. seat'.active = seat.active
  BY DEF WaylandInv, Shapes, InputMethodActivateV2, InputMethodDeactivateV2
<1>4. FollowInv'
  BY <1>3 DEF WaylandInv, FollowInv, InOrder, Followed, Latest, InputMethodActivateV2, InputMethodDeactivateV2
<1>5. QED
  BY <1>1, <1>2, <1>4 DEF WaylandInv

\* input_method_deactivate, of a text input that was active.
LEMMA Deactivated ==
  ASSUME WaylandInv, InputMethodDeactivate, UNCHANGED <<slipped, repeatVars>>,
         seat'.active = FALSE,
         seat' = [bound |-> seat'.bound, active |-> seat'.active,
                  activate |-> seat'.activate, deactivate |-> seat'.deactivate],
         {seat'.bound, seat'.active, seat'.activate, seat'.deactivate} \subseteq BOOLEAN
  PROVE  WaylandInv'
<1> USE NoContextIsNone
<1>1. Shapes'
  BY DEF WaylandInv, Shapes, InputMethodDeactivate, LeftContext, repeatVars, Optional
<1>2. \A c \in ContextIds : creations'[c] = LeftContext(c)
  BY DEF InputMethodDeactivate
<1>3. HeldInv'
  BY <1>2 DEF WaylandInv, Shapes, HeldInv, Made, SameContext, InputMethodDeactivate, LeftContext,
     repeatVars, Optional
<1>4. \A c \in ContextIds : creations'[c] = "unused" <=> creations[c] = "unused"
  BY <1>2 DEF LeftContext, WaylandInv, HeldInv, Made
<1>5. InOrder'
  BY <1>4 DEF WaylandInv, Shapes, FollowInv, InOrder, InputMethodDeactivate, Cancelling,
     Followed, Latest, Optional, ContextIds
<1>6. ASSUME ~slipped PROVE Followed'
  <2>1. \A c \in ContextIds : creations'[c] # "in"
    BY <1>2, <1>6 DEF WaylandInv, FollowInv, Followed, LeftContext
  <2>2. \A c \in ContextIds : creations'[c] = "running" => c \in cancelled'
    BY <1>2, <1>6 DEF WaylandInv, FollowInv, Followed, LeftContext, InputMethodDeactivate, Cancelling
  <2>3. QED
    BY <2>1, <2>2 DEF Followed, InputMethodDeactivate
<1>7. QED
  BY <1>1, <1>3, <1>5, <1>6 DEF WaylandInv, FollowInv

-----------------------------------------------------------------------------
(* input_method_activate, of a text input that was not active *)

LEMMA Activated ==
  ASSUME WaylandInv, NEW new \in ContextIds, InputMethodActivate(new),
         UNCHANGED <<slipped, repeatVars>>, ~seat.active, seat'.active = TRUE,
         seat' = [bound |-> seat'.bound, active |-> seat'.active,
                  activate |-> seat'.activate, deactivate |-> seat'.deactivate],
         {seat'.bound, seat'.active, seat'.activate, seat'.deactivate} \subseteq BOOLEAN
  PROVE  WaylandInv'
<1> USE NoContextIsNone
<1>1. Shapes'
  BY DEF WaylandInv, Shapes, InputMethodActivate, LeftContext, repeatVars, Optional
<1>2. \A c \in ContextIds : creations'[c] = IF c = new THEN "running" ELSE LeftContext(c)
  BY DEF InputMethodActivate
<1>3. creations[new] = "unused"
  BY DEF InputMethodActivate, IsNew
<1>4. HeldInv'
  <2>1. ibuscontext' = NoContext /\ UNCHANGED repeating
    BY DEF InputMethodActivate, repeatVars
  <2>2. repeating.path # NoContext => Made(repeating.path)'
    BY <1>2, <1>3, <2>1 DEF WaylandInv, Shapes, HeldInv, Made, LeftContext, Optional
  <2>3. QED
    BY <2>1, <2>2 DEF WaylandInv, HeldInv, SameContext
<1>5. \A c \in ContextIds : c # new => (creations'[c] = "unused" <=> creations[c] = "unused")
  BY <1>2 DEF LeftContext, WaylandInv, HeldInv, Made
<1>6. \A c \in ContextIds : creations[c] # "unused" <=> c < new
  BY <1>3 DEF WaylandInv, FollowInv, InOrder, InputMethodActivate, IsNew, ContextIds
<1>7. \A c \in ContextIds : creations'[c] # "unused" <=> c <= new
  BY <1>2, <1>5, <1>6 DEF ContextIds
<1>8. new \notin cancelled' /\ \A c \in cancelled' : c \in ContextIds /\ creations[c] # "unused"
  BY <1>3 DEF WaylandInv, Shapes, FollowInv, InOrder, InputMethodActivate, Cancelling, Optional
<1>9. InOrder'
  <2>1. cancellable' = new
    BY DEF InputMethodActivate
  <2>2. \A c, d \in ContextIds : c < d /\ creations'[d] # "unused" => creations'[c] # "unused"
    BY <1>7 DEF ContextIds
  <2>3. \A c \in cancelled' : c \in ContextIds /\ creations'[c] # "unused"
    BY <1>5, <1>8
  <2>4. QED
    BY <1>2, <2>1, <2>2, <2>3 DEF InOrder
<1>10. ASSUME ~slipped PROVE Followed'
  <2>1. ibuscontext = NoContext /\ cancellable = NoContext
    BY <1>10 DEF WaylandInv, FollowInv, Followed
  <2>2. ibuscontext' = NoContext /\ cancellable' = new /\ cancelled' = cancelled
    BY <2>1 DEF InputMethodActivate
  <2>3. \A c \in ContextIds : creations'[c] # "in"
    BY <1>2, <1>10, <2>1 DEF WaylandInv, FollowInv, Followed, LeftContext
  <2>4. \A c \in ContextIds : creations'[c] = "running" => c \in cancelled \/ c = new
    BY <1>2, <1>10, <2>1 DEF WaylandInv, FollowInv, Followed, LeftContext
  <2>5. Latest(new)' /\ creations'[new] = "running"
    BY <1>2, <1>7 DEF Latest, ContextIds
  <2>6. QED
    BY <1>8, <2>2, <2>3, <2>4, <2>5 DEF Followed
<1>11. QED
  BY <1>1, <1>4, <1>9, <1>10 DEF WaylandInv, FollowInv

-----------------------------------------------------------------------------
(* _create_input_context_done *)

LEMMA Created ==
  ASSUME WaylandInv, NEW c \in ContextIds, CreateInputContextDone(c)
  PROVE  WaylandInv'
<1> USE NoContextIsNone
<1>1. /\ creations[c] = "running" /\ cancellable' = NoContext
      /\ UNCHANGED <<seat, cancelled, down, repeating, missed>>
  BY DEF CreateInputContextDone, repeatVars
<1>2. \/ c \notin cancelled /\ creations' = [creations EXCEPT ![c] = "in"] /\ ibuscontext' = c
      \/ creations' = [creations EXCEPT ![c] = "failed"] /\ ibuscontext' = ibuscontext
  BY DEF CreateInputContextDone
<1>3. Shapes'
  BY <1>1, <1>2 DEF WaylandInv, Shapes, CreateInputContextDone, Optional
<1>4. Made(c)' /\ \A d \in ContextIds \ {c} : creations'[d] = creations[d]
  BY <1>2 DEF WaylandInv, Shapes, Made
<1>5. HeldInv'
  <2>1. ibuscontext' # NoContext => Made(ibuscontext)'
    BY <1>2, <1>4 DEF WaylandInv, Shapes, HeldInv, Made, Optional
  <2>2. repeating.path # NoContext => repeating.path # c /\ Made(repeating.path)'
    BY <1>1, <1>4 DEF WaylandInv, Shapes, HeldInv, Made, Optional
  <2>3. SameContext' => SameContext /\ ibuscontext' = ibuscontext
    BY <1>1, <1>2, <2>2 DEF SameContext
  <2>4. QED
    BY <1>1, <2>1, <2>2, <2>3 DEF WaylandInv, HeldInv
<1>6. \A d \in ContextIds : creations'[d] = "unused" <=> creations[d] = "unused"
  BY <1>1, <1>4 DEF Made
<1>7. InOrder'
  BY <1>1, <1>6 DEF WaylandInv, FollowInv, InOrder
<1>8. ASSUME ~slipped' PROVE Followed'
  <2>1. Followed /\ cancellable \in {c, NoContext}
    BY <1>8 DEF CreateInputContextDone, WaylandInv, FollowInv, Shapes
  <2>2. \A d \in ContextIds : Latest(d)' <=> Latest(d)
    BY <1>6 DEF Latest, ContextIds
  <2>3. \A d \in ContextIds : creations'[d] = "running" => d \in cancelled
    BY <1>4, <2>1 DEF Followed, Made
  <2>4. CASE creations' = [creations EXCEPT ![c] = "failed"] /\ ibuscontext' = ibuscontext
    <3>1. creations'[c] = "failed"
      BY <2>4 DEF WaylandInv, Shapes
    <3>2. \A d \in ContextIds : creations'[d] = "in" <=> d = ibuscontext
      BY <1>1, <1>4, <2>1, <3>1 DEF Followed
    <3>3. ibuscontext # NoContext => seat.active /\ Latest(ibuscontext)'
      BY <2>1, <2>2, <2>4 DEF Followed, WaylandInv, Shapes, Optional
    <3>4. ASSUME seat.active, ibuscontext = NoContext
          PROVE  \E d \in ContextIds : Latest(d)' /\ creations'[d] = "failed"
      <4>1. PICK d \in ContextIds :
              /\ Latest(d) /\ creations[d] \in {"running", "failed"}
              /\ creations[d] = "running" => cancellable = d
        BY <2>1, <3>4 DEF Followed
      <4>2. d = c \/ creations'[d] = "failed"
        BY <1>4, <2>1, <4>1
      <4>3. QED
        BY <2>2, <3>1, <4>1, <4>2
    <3>5. QED
      BY <1>1, <2>3, <2>4, <3>2, <3>3, <3>4 DEF Followed
  <2>5. CASE c \notin cancelled /\ creations' = [creations EXCEPT ![c] = "in"] /\ ibuscontext' = c
    <3>1. cancellable = c
      BY <1>1, <2>1, <2>5 DEF Followed
    <3>2. seat.active /\ Latest(c) /\ ibuscontext = NoContext
      BY <2>1, <3>1 DEF Followed
    <3>3. \A d \in ContextIds : creations'[d] = "in" <=> d = c
      BY <1>4, <2>1, <2>5, <3>2 DEF Followed, WaylandInv, Shapes
    <3>4. QED
      BY <1>1, <2>2, <2>3, <2>5, <3>2, <3>3 DEF Followed
  <2>6. QED
    BY <1>2, <2>4, <2>5
<1>9. QED
  BY <1>3, <1>5, <1>7, <1>8 DEF WaylandInv, FollowInv

-----------------------------------------------------------------------------
(* Keys and timers change neither contexts nor requests; no timer changes  *)
(* the key or, but to nothing, the context of the repetition.              *)

LEMMA KeysLeaveContexts ==
  ASSUME WaylandInv, UNCHANGED contextVars, Shapes', HeldInv'
  PROVE  WaylandInv'
BY DEF WaylandInv, FollowInv, InOrder, Followed, Latest, contextVars

LEMMA Pressed ==
  ASSUME WaylandInv, NEW k \in WaylandKeys, KeyPressed(k)
  PROVE  WaylandInv'
<1> USE NoContextIsNone
<1>1. ibuscontext # NoContext /\ down[k] = NoContext /\ down' = [down EXCEPT ![k] = ibuscontext]
  BY DEF KeyPressed
<1>2. UNCHANGED contextVars /\ UNCHANGED <<ibuscontext, creations, seat, cancellable, slipped>>
  BY DEF KeyPressed, contextVars
<1>3. \/ UNCHANGED <<repeating, missed>>
      \/ StopRepeating
      \/ StartRepeating(k)
  BY DEF KeyPressed, repeatVars
<1>4. Shapes'
  <2>1. /\ repeating' = [key |-> repeating'.key, count |-> repeating'.count,
                         path |-> repeating'.path, delay |-> repeating'.delay,
                         rate |-> repeating'.rate]
        /\ repeating'.path \in Optional(ContextIds) /\ missed' \in BOOLEAN
    <3>1. CASE UNCHANGED <<repeating, missed>>
      BY <3>1 DEF WaylandInv, Shapes
    <3>2. CASE StopRepeating
      BY <3>2 DEF WaylandInv, Shapes, StopRepeating, Optional
    <3>3. CASE StartRepeating(k)
      BY <3>3 DEF WaylandInv, Shapes, StartRepeating
    <3>4. QED
      BY <1>3, <3>1, <3>2, <3>3
  <2>2. down' \in [WaylandKeys -> Optional(ContextIds)]
    BY <1>1 DEF WaylandInv, Shapes
  <2>3. QED
    BY <1>2, <2>1, <2>2 DEF WaylandInv, Shapes
<1>5. \A key \in WaylandKeys : down[key] = ibuscontext => down'[key] = ibuscontext
  BY <1>1 DEF WaylandInv, Shapes
<1>6. HeldInv'
  <2>1. CASE UNCHANGED <<repeating, missed>>
    BY <1>2, <1>5, <2>1 DEF WaylandInv, HeldInv, Made, SameContext
  <2>2. CASE StopRepeating
    BY <1>2, <2>2 DEF WaylandInv, Shapes, HeldInv, Made, SameContext, StopRepeating
  <2>3. CASE StartRepeating(k)
    <3>1. repeating'.path = ibuscontext /\ repeating'.key = k /\ down'[k] = ibuscontext
      BY <1>1, <2>3 DEF WaylandInv, Shapes, StartRepeating
    <3>2. QED
      BY <1>1, <1>2, <2>3, <3>1 DEF WaylandInv, HeldInv, Made, SameContext
  <2>4. QED
    BY <1>3, <2>1, <2>2, <2>3
<1>7. QED
  BY <1>2, <1>4, <1>6, KeysLeaveContexts

LEMMA Released ==
  ASSUME WaylandInv, NEW k \in WaylandKeys, KeyReleased(k)
  PROVE  WaylandInv'
<1> USE NoContextIsNone
<1>1. down' = [down EXCEPT ![k] = NoContext]
  BY DEF KeyReleased
<1>2. UNCHANGED contextVars /\ UNCHANGED <<ibuscontext, creations, seat, cancellable, slipped>>
  BY DEF KeyReleased, contextVars
<1>3. ReleaseIgnored(k) \/ StopRepeating
  BY DEF KeyReleased
<1>4. Shapes'
  BY <1>1, <1>2, <1>3 DEF WaylandInv, Shapes, ReleaseIgnored, StopRepeating, Optional
<1>5. HeldInv'
  <2>1. CASE ReleaseIgnored(k)
    <3>0. missed' = (missed \/ k = repeating.key) /\ UNCHANGED repeating
      BY <2>1 DEF ReleaseIgnored
    <3>1. SameContext => down'[repeating.key] = down[repeating.key] \/ missed'
      BY <1>1, <3>0 DEF WaylandInv, Shapes, HeldInv, SameContext
    <3>2. QED
      BY <1>2, <3>0, <3>1 DEF WaylandInv, Shapes, HeldInv, Made, SameContext
  <2>2. CASE StopRepeating
    BY <1>2, <2>2 DEF WaylandInv, Shapes, HeldInv, Made, SameContext, StopRepeating
  <2>3. QED
    BY <1>3, <2>1, <2>2
<1>6. QED
  BY <1>2, <1>4, <1>5, KeysLeaveContexts

LEMMA TimersKeep ==
  ASSUME WaylandInv, UNCHANGED <<contextVars, down, missed>>,
         repeating' = [key |-> repeating'.key, count |-> repeating'.count,
                       path |-> repeating'.path, delay |-> repeating'.delay,
                       rate |-> repeating'.rate],
         repeating'.key = repeating.key, repeating'.path \in {repeating.path, NoContext}
  PROVE  WaylandInv'
<1> USE NoContextIsNone
<1>1. UNCHANGED <<ibuscontext, creations, seat, cancellable, slipped, down, missed>>
  BY DEF contextVars
<1>2. Shapes'
  BY <1>1 DEF WaylandInv, Shapes, Optional
<1>3. HeldInv'
  BY <1>1 DEF WaylandInv, HeldInv, Made, SameContext
<1>4. QED
  BY <1>2, <1>3, KeysLeaveContexts

LEMMA Repeated ==
  ASSUME WaylandInv, (\E id \in 1..MaxSources : TimerExpires(id)) \/ KeyAnswered
  PROVE  WaylandInv'
<1>1. UNCHANGED <<contextVars, down, missed>>
  BY DEF TimerExpires, DelayExpires, RateExpires, KeyAnswered, StartRate, repeatVars
<1> DEFINE Keeps ==
      /\ repeating' = [key |-> repeating'.key, count |-> repeating'.count,
                       path |-> repeating'.path, delay |-> repeating'.delay,
                       rate |-> repeating'.rate]
      /\ repeating'.key = repeating.key /\ repeating'.path \in {repeating.path, NoContext}
<1>2. Keeps
  <2> USE DEF WaylandInv, Shapes
  <2>1. ASSUME NEW s, DelayExpires(s) PROVE Keeps
    BY <2>1 DEF DelayExpires, StartRate
  <2>2. ASSUME NEW s, RateExpires(s) PROVE Keeps
    BY <2>2 DEF RateExpires, repeatVars
  <2>3. ASSUME KeyAnswered PROVE Keeps
    BY <2>3 DEF KeyAnswered, StartRate, repeatVars
  <2>4. QED
    BY <2>1, <2>2, <2>3 DEF TimerExpires
<1>3. QED
  BY <1>1, <1>2, TimersKeep

-----------------------------------------------------------------------------
LEMMA WaylandStep == WaylandInv /\ [WaylandNext]_waylandVars => WaylandInv'
<1> SUFFICES ASSUME WaylandInv, [WaylandNext]_waylandVars PROVE WaylandInv'
  OBVIOUS
<1>1. CASE InputMethodActivateV2 \/ InputMethodDeactivateV2
  BY <1>1, WaitingEvents
<1>2. CASE InputMethodDoneV2
  <2>1. UNCHANGED <<slipped, repeatVars>>
    BY <1>2 DEF InputMethodDoneV2
  <2> USE DEF WaylandInv, Shapes
  <2>2. ASSUME seat.activate, ~seat.active,
               seat' = [seat EXCEPT !.active = TRUE, !.activate = FALSE, !.deactivate = FALSE],
               NEW new \in ContextIds, InputMethodActivate(new)
        PROVE  WaylandInv'
    BY <2>1, <2>2, Activated
  <2>3. ASSUME seat.active,
               seat' = [seat EXCEPT !.active = FALSE, !.activate = FALSE, !.deactivate = FALSE],
               InputMethodDeactivate
        PROVE  WaylandInv'
    BY <2>1, <2>3, Deactivated
  <2>4. ASSUME seat' = [seat EXCEPT !.activate = FALSE, !.deactivate = FALSE],
               UNCHANGED <<ibuscontext, cancellable, creations, cancelled, down>>
        PROVE  WaylandInv'
    <3>1. seat'.active = seat.active /\ Shapes'
      BY <2>1, <2>4 DEF repeatVars
    <3>2. HeldInv'
      BY <2>1, <2>4 DEF HeldInv, Made, SameContext, repeatVars
    <3>3. FollowInv'
      BY <2>1, <2>4, <3>1 DEF FollowInv, InOrder, Followed, Latest
    <3>4. QED
      BY <3>1, <3>2, <3>3
  <2>5. QED
    BY <1>2, <2>2, <2>3, <2>4 DEF InputMethodDoneV2
<1>3. CASE InputMethodUnavailableV2
  <2>1. UNCHANGED <<slipped, repeatVars>> /\ seat' = [seat EXCEPT !.bound = FALSE, !.active = FALSE]
    BY <1>3 DEF InputMethodUnavailableV2
  <2>2. CASE InputMethodDeactivate
    BY <2>1, <2>2, Deactivated DEF WaylandInv, Shapes
  <2>3. CASE ~seat.active /\ UNCHANGED <<ibuscontext, cancellable, creations, cancelled, down>>
    <3>1. seat'.active = seat.active /\ Shapes'
      BY <2>1, <2>3 DEF repeatVars, WaylandInv, Shapes
    <3>2. HeldInv'
      BY <2>1, <2>3 DEF WaylandInv, HeldInv, Made, SameContext, repeatVars
    <3>3. FollowInv'
      BY <2>1, <2>3, <3>1 DEF WaylandInv, FollowInv, InOrder, Followed, Latest
    <3>4. QED
      BY <3>1, <3>2, <3>3 DEF WaylandInv
  <2>4. QED
    BY <1>3, <2>2, <2>3 DEF InputMethodUnavailableV2
<1>4. ASSUME NEW c \in ContextIds, CreateInputContextDone(c) PROVE WaylandInv'
  BY <1>4, Created
<1>5. ASSUME NEW k \in WaylandKeys, KeyPressed(k) \/ KeyReleased(k) PROVE WaylandInv'
  BY <1>5, Pressed, Released
<1>6. CASE (\E id \in 1..MaxSources : TimerExpires(id)) \/ KeyAnswered
  BY <1>6, Repeated
<1>7. CASE UNCHANGED waylandVars
  BY <1>7 DEF waylandVars, contextVars, repeatVars, WaylandInv, Shapes, HeldInv, Made, SameContext,
     FollowInv, InOrder, Followed, Latest
<1>8. QED
  BY <1>1, <1>2, <1>3, <1>4, <1>5, <1>6, <1>7 DEF WaylandNext

LEMMA WaylandInvariance == WaylandSpec => []WaylandInv
BY WaylandInitHolds, WaylandStep, PTL DEF WaylandSpec

-----------------------------------------------------------------------------
\* However the timers, the nested loops, the answers to requests and the
\* events of the compositor interleave, and for any number of each: a timer
\* never sends a key that is up, or that another context was typed, unless the
\* key was released with a sym that is ignored.
THEOREM HeldKeysRepeat == WaylandSpec => []RepeatsHeldKey
<1>1. WaylandInv => RepeatsHeldKey
  BY DEF WaylandInv, HeldInv, RepeatsHeldKey
<1>2. QED
  BY <1>1, WaylandInvariance, PTL

\* As long as no callback has reset the cancellable of another request, the
\* context is that of the last request and of an active text input.
THEOREM ContextIsOfText == WaylandSpec => []ContextFollowsText
<1>1. WaylandInv => ContextFollowsText
  BY DEF WaylandInv, FollowInv, Followed, ContextFollowsText
<1>2. QED
  BY <1>1, WaylandInvariance, PTL

-----------------------------------------------------------------------------
(***************************************************************************)
(* The timers.  A number that a timer once had is used again as soon as    *)
(* nothing has it; there is always one for each handler of a delay that is *)
(* still to start the timer of the rate.                                   *)
(***************************************************************************)
Frames == Timers \cup {Compositor}

Repetitions ==
  [key : Optional(WaylandKeys), count : 0..1, path : Optional(ContextIds),
   delay : 0..MaxSources, rate : 0..MaxSources]

DelayFrames == {i \in DOMAIN stack : stack[i].kind = "delay"}

TimerTypes ==
  /\ hybrid \in BOOLEAN
  /\ repeating \in Repetitions
  /\ sources \subseteq Timers
  /\ stack \in Seq(Frames)

EnoughIds == Cardinality(FreeIds) >= Cardinality(DelayFrames)

TimersInv == TimerTypes /\ EnoughIds

LEMMA SetOfIds ==
  ASSUME NEW F, F \subseteq 1..MaxSources
  PROVE  IsFiniteSet(F) /\ Cardinality(F) \in Nat
<1>1. IsFiniteSet(1..MaxSources)
  BY FS_Interval
<1>2. IsFiniteSet(F)
  BY <1>1, FS_Subset
<1> QED BY <1>2, FS_CardinalityType

LEMMA RepetitionUpdates ==
  ASSUME NEW r \in Repetitions
  PROVE  /\ [r EXCEPT !.delay = 0, !.rate = 0, !.path = NoContext] \in Repetitions
         /\ [r EXCEPT !.rate = 0] \in Repetitions
         /\ \A p \in Optional(ContextIds) : [r EXCEPT !.delay = 0, !.path = p] \in Repetitions
         /\ \A n \in 0..1, i \in 0..MaxSources : [r EXCEPT !.count = n, !.rate = i] \in Repetitions
<1>1. /\ r = [key |-> r.key, count |-> r.count, path |-> r.path, delay |-> r.delay, rate |-> r.rate]
      /\ r.key \in Optional(WaylandKeys) /\ r.count \in 0..1 /\ r.path \in Optional(ContextIds)
      /\ r.delay \in 0..MaxSources /\ r.rate \in 0..MaxSources /\ 0 \in 0..MaxSources
  BY DEF Repetitions
<1>2. [r EXCEPT !.delay = 0, !.rate = 0, !.path = NoContext] \in Repetitions
  BY <1>1 DEF Repetitions, Optional
<1>3. [r EXCEPT !.rate = 0] \in Repetitions
  BY <1>1 DEF Repetitions
<1>4. \A p \in Optional(ContextIds) : [r EXCEPT !.delay = 0, !.path = p] \in Repetitions
  BY <1>1 DEF Repetitions
<1>5. \A n \in 0..1, i \in 0..MaxSources : [r EXCEPT !.count = n, !.rate = i] \in Repetitions
  BY <1>1 DEF Repetitions
<1> QED BY <1>2, <1>3, <1>4, <1>5

LEMMA FreeIdsAre ==
  /\ \A i : i \in FreeIds <=> /\ i \in 1..MaxSources
                              /\ \A s \in sources : s.id # i
                              /\ \A j \in DOMAIN stack : stack[j].id # i
  /\ IsFiniteSet(FreeIds) /\ Cardinality(FreeIds) \in Nat
<1>1. \A i : i \in FreeIds <=> /\ i \in 1..MaxSources
                               /\ \A s \in sources : s.id # i
                               /\ \A j \in DOMAIN stack : stack[j].id # i
  BY DEF FreeIds
<1>2. FreeIds \subseteq 1..MaxSources
  BY <1>1
<1> QED BY <1>1, <1>2, SetOfIds

LEMMA DelayFramesAre ==
  ASSUME stack \in Seq(Frames)
  PROVE  DelayFrames \subseteq 1..Len(stack) /\ IsFiniteSet(DelayFrames) /\ Cardinality(DelayFrames) \in Nat
<1>1. DelayFrames \subseteq 1..Len(stack)
  BY DEF DelayFrames
<1>2. IsFiniteSet(1..Len(stack))
  BY FS_Interval
<1>3. IsFiniteSet(DelayFrames)
  BY <1>1, <1>2, FS_Subset
<1> QED BY <1>1, <1>3, FS_CardinalityType

\* With a number left the next timer gets one.
LEMMA NewIdIsFree ==
  ASSUME Cardinality(FreeIds) > 0 PROVE NewId \in FreeIds /\ NewId \in 1..MaxSources
<1>1. FreeIds # {}
  BY FS_EmptySet
<1> QED BY <1>1, FreeIdsAre DEF NewId

\* What a handler that begins or ends does to the frames.
LEMMA FrameBegins ==
  ASSUME stack \in Seq(Frames), NEW s \in Frames, stack' = Append(stack, s)
  PROVE  /\ stack' \in Seq(Frames)
         /\ Cardinality(DelayFrames') =
              IF s.kind = "delay" THEN Cardinality(DelayFrames) + 1 ELSE Cardinality(DelayFrames)
         /\ \A j \in DOMAIN stack' :
              \/ j \in DOMAIN stack /\ stack'[j] = stack[j]
              \/ stack'[j] = s
<1>1. /\ stack' \in Seq(Frames) /\ Len(stack') = Len(stack) + 1 /\ stack'[Len(stack) + 1] = s
      /\ DOMAIN stack' = 1..(Len(stack) + 1) /\ DOMAIN stack = 1..Len(stack) /\ Len(stack) \in Nat
      /\ \A j \in 1..Len(stack) : stack'[j] = stack[j]
  OBVIOUS
<1>2. CASE s.kind # "delay"
  <2>1. DelayFrames' = DelayFrames
    BY <1>1, <1>2 DEF DelayFrames
  <2> QED BY <1>1, <1>2, <2>1
<1>3. CASE s.kind = "delay"
  <2>1. DelayFrames' = DelayFrames \cup {Len(stack) + 1}
    BY <1>1, <1>3 DEF DelayFrames
  <2>2. Len(stack) + 1 \notin DelayFrames
    BY <1>1, DelayFramesAre
  <2>3. Cardinality(DelayFrames') = Cardinality(DelayFrames) + 1
    BY <2>1, <2>2, DelayFramesAre, FS_AddElement
  <2> QED BY <1>1, <1>3, <2>3
<1> QED BY <1>2, <1>3

LEMMA FrameEnds ==
  ASSUME stack \in Seq(Frames), stack # <<>>, stack' = SubSeq(stack, 1, Len(stack) - 1)
  PROVE  /\ stack' \in Seq(Frames)
         /\ Cardinality(DelayFrames') = IF stack[Len(stack)].kind = "delay"
                                          THEN Cardinality(DelayFrames) - 1 ELSE Cardinality(DelayFrames)
         /\ \A j \in DOMAIN stack' : j \in DOMAIN stack /\ stack'[j] = stack[j]
<1>0. Len(stack) \in Nat \ {0} /\ DOMAIN stack = 1..Len(stack)
  OBVIOUS
<1>1. /\ stack' \in Seq(Frames) /\ Len(stack') = Len(stack) - 1
      /\ DOMAIN stack' = 1..(Len(stack) - 1) /\ DOMAIN stack = 1..Len(stack)
      /\ \A j \in 1..(Len(stack) - 1) : stack'[j] = stack[j]
  BY <1>0
<1>2. CASE stack[Len(stack)].kind # "delay"
  <2>1. DelayFrames' = DelayFrames
    BY <1>0, <1>1, <1>2 DEF DelayFrames
  <2> QED BY <1>0, <1>1, <1>2, <2>1
<1>3. CASE stack[Len(stack)].kind = "delay"
  <2>1. DelayFrames' = DelayFrames \ {Len(stack)} /\ Len(stack) \in DelayFrames
    BY <1>0, <1>1, <1>3 DEF DelayFrames
  <2>2. Cardinality(DelayFrames') = Cardinality(DelayFrames) - 1
    BY <2>1, DelayFramesAre, FS_RemoveElement
  <2> QED BY <1>0, <1>1, <1>3, <2>2
<1> QED BY <1>2, <1>3

\* What a step leaves of the free numbers.
LEMMA FreeIdsKept ==
  ASSUME \A s \in sources' : s \in sources,
         \A j \in DOMAIN stack' : (\E i \in DOMAIN stack : stack'[j] = stack[i])
                                  \/ stack'[j] \in sources \cup {Compositor}
  PROVE  Cardinality(FreeIds') \in Nat /\ Cardinality(FreeIds') >= Cardinality(FreeIds)
<1>1. FreeIds \subseteq FreeIds'
  <2>1. \A i \in FreeIds : \A j \in DOMAIN stack' : stack'[j].id # i
    BY FreeIdsAre DEF Compositor
  <2> QED BY <2>1, FreeIdsAre DEF FreeIds
<1>2. IsFiniteSet(FreeIds')
  <2>1. FreeIds' \subseteq 1..MaxSources
    BY DEF FreeIds
  <2> QED BY <2>1, SetOfIds
<1> QED BY <1>1, <1>2, FS_Subset, FS_CardinalityType

LEMMA FreeIdTaken ==
  ASSUME \A s \in sources' : s \in sources \/ s.id = NewId,
         \A j \in DOMAIN stack' : (\E i \in DOMAIN stack : stack'[j] = stack[i])
                                  \/ stack'[j] \in sources \cup {Compositor},
         NewId \in FreeIds
  PROVE  Cardinality(FreeIds') \in Nat /\ Cardinality(FreeIds') >= Cardinality(FreeIds) - 1
<1>1. FreeIds \ {NewId} \subseteq FreeIds'
  <2>1. \A i \in FreeIds : \A j \in DOMAIN stack' : stack'[j].id # i
    BY FreeIdsAre DEF Compositor
  <2> QED BY <2>1, FreeIdsAre DEF FreeIds
<1>2. IsFiniteSet(FreeIds')
  <2>1. FreeIds' \subseteq 1..MaxSources
    BY DEF FreeIds
  <2> QED BY <2>1, SetOfIds
<1>3. Cardinality(FreeIds \ {NewId}) = Cardinality(FreeIds) - 1
  BY FreeIdsAre, FS_RemoveElement
<1> QED BY <1>1, <1>2, <1>3, FS_Subset, FS_CardinalityType

LEMMA SendsFrom ==
  ASSUME stack \in Seq(Frames), NEW s \in Frames, SendKeyFrom(s)
  PROVE  /\ stack' \in Seq(Frames)
         /\ Cardinality(DelayFrames') \in Nat
         /\ Cardinality(DelayFrames') <= Cardinality(DelayFrames) + 1
         /\ s.kind # "delay" \/ ~hybrid => Cardinality(DelayFrames') = Cardinality(DelayFrames)
         /\ \A j \in DOMAIN stack' : (\E i \in DOMAIN stack : stack'[j] = stack[i]) \/ stack'[j] = s
<1>1. CASE hybrid
  <2>1. stack' = Append(stack, s)
    BY <1>1 DEF SendKeyFrom
  <2> QED BY <1>1, <2>1, FrameBegins, DelayFramesAre
<1>2. CASE ~hybrid
  <2>1. stack' = stack
    BY <1>2 DEF SendKeyFrom
  <2>2. DelayFrames' = DelayFrames
    BY <2>1 DEF DelayFrames
  <2> QED BY <2>1, <2>2, DelayFramesAre
<1> QED BY <1>1, <1>2

\* A timer starts, and a number is left for each handler that will start another.
LEMMA RateStarts ==
  ASSUME TimerTypes, NEW n \in 0..1, StartRate(n), UNCHANGED hybrid, stack' \in Seq(Frames),
         \A j \in DOMAIN stack' : \E i \in DOMAIN stack : stack'[j] = stack[i],
         Cardinality(DelayFrames') \in Nat, Cardinality(FreeIds) > Cardinality(DelayFrames')
  PROVE  TimersInv'
<1>1. NewId \in FreeIds /\ NewId \in 1..MaxSources
  BY FreeIdsAre, NewIdIsFree
<1>2. TimerTypes'
  <2>1. sources' \subseteq Timers
    BY <1>1 DEF StartRate, TimerTypes, Timers
  <2>2. repeating' = [repeating EXCEPT !.count = n, !.rate = NewId] /\ NewId \in 0..MaxSources
    BY <1>1 DEF StartRate
  <2>3. repeating' \in Repetitions
    BY <2>2, RepetitionUpdates DEF TimerTypes
  <2> QED BY <2>1, <2>3 DEF TimerTypes
<1>3. \A s \in sources' : s \in sources \/ s.id = NewId
  BY DEF StartRate
<1>4. Cardinality(FreeIds') \in Nat /\ Cardinality(FreeIds') >= Cardinality(FreeIds) - 1
  BY <1>1, <1>3, FreeIdTaken
<1> QED BY <1>2, <1>4, FreeIdsAre DEF TimersInv, EnoughIds

LEMMA TimersPressed ==
  ASSUME WaylandInv, TimersInv, NEW k \in WaylandKeys, KeyPressed(k) \/ KeyReleased(k)
  PROVE  TimersInv'
<1>0. /\ UNCHANGED hybrid /\ SendKeyFrom(Compositor)
      /\ (KeyPressed(k) /\ RoomForTimer /\ StartRepeating(k))
         \/ StopRepeating \/ UNCHANGED <<repeating, sources>>
  BY DEF KeyPressed, KeyReleased, ReleaseIgnored, repeatVars
<1>1. Compositor \in Frames /\ Compositor.kind # "delay"
  BY DEF Frames, Compositor
<1>2. /\ stack' \in Seq(Frames)
      /\ Cardinality(DelayFrames') \in Nat /\ Cardinality(DelayFrames') = Cardinality(DelayFrames)
      /\ \A j \in DOMAIN stack' : (\E i \in DOMAIN stack : stack'[j] = stack[i]) \/ stack'[j] = Compositor
  BY <1>0, <1>1, SendsFrom, DelayFramesAre DEF TimersInv, TimerTypes
<1>3. CASE StopRepeating \/ UNCHANGED <<repeating, sources>>
  <2>1. sources' \subseteq sources /\ repeating' \in Repetitions
    BY <1>3, RepetitionUpdates DEF StopRepeating, SourcesWithout, TimersInv, TimerTypes
  <2>2. Cardinality(FreeIds') \in Nat /\ Cardinality(FreeIds') >= Cardinality(FreeIds)
    BY <1>2, <2>1, FreeIdsKept
  <2> QED BY <1>0, <1>2, <2>1, <2>2, FreeIdsAre DEF TimersInv, TimerTypes, EnoughIds
<1>4. CASE KeyPressed(k) /\ RoomForTimer /\ StartRepeating(k)
  <2>1. Cardinality(FreeIds) > Cardinality(DelayFrames)
    BY <1>4 DEF RoomForTimer, DelayFrames
  <2>2. NewId \in FreeIds /\ NewId \in 1..MaxSources
    BY <1>2, <2>1, FreeIdsAre, NewIdIsFree
  <2>3. repeating' \in Repetitions
    BY <1>4, <2>2 DEF StartRepeating, Repetitions, WaylandInv, Shapes, Optional
  <2>4. sources' \subseteq Timers /\ \A s \in sources' : s \in sources \/ s.id = NewId
    BY <1>4, <2>2 DEF StartRepeating, SourcesWithout, Timers, TimersInv, TimerTypes
  <2>5. Cardinality(FreeIds') \in Nat /\ Cardinality(FreeIds') >= Cardinality(FreeIds) - 1
    BY <1>2, <2>2, <2>4, FreeIdTaken
  <2> QED BY <1>0, <1>2, <2>1, <2>3, <2>4, <2>5, FreeIdsAre DEF TimersInv, TimerTypes, EnoughIds
<1> QED BY <1>0, <1>3, <1>4

LEMMA TimersExpire ==
  ASSUME TimersInv, NEW s, DelayExpires(s) \/ RateExpires(s)
  PROVE  TimersInv'
<1>0. s \in sources /\ s \in Frames /\ UNCHANGED hybrid
  BY DEF DelayExpires, RateExpires, TimersInv, TimerTypes, Frames
<1>1. ASSUME UNCHANGED stack, sources' = sources \ {s}, repeating' \in Repetitions
      PROVE  TimersInv'
  <2>1. Cardinality(FreeIds') \in Nat /\ Cardinality(FreeIds') >= Cardinality(FreeIds)
    BY <1>1, FreeIdsKept
  <2>2. DelayFrames' = DelayFrames /\ Cardinality(DelayFrames) \in Nat
    BY <1>1, DelayFramesAre DEF DelayFrames, TimersInv, TimerTypes
  <2> QED BY <1>0, <1>1, <2>1, <2>2, FreeIdsAre DEF TimersInv, TimerTypes, EnoughIds
<1>2. ASSUME SendKeyFrom(s), sources' = sources, repeating' \in Repetitions,
             s.kind = "delay" => RoomForTimer
      PROVE  TimersInv'
  <2>1. /\ stack' \in Seq(Frames)
        /\ Cardinality(DelayFrames') \in Nat
        /\ Cardinality(DelayFrames') <= Cardinality(DelayFrames) + 1
        /\ s.kind # "delay" => Cardinality(DelayFrames') = Cardinality(DelayFrames)
        /\ \A j \in DOMAIN stack' : (\E i \in DOMAIN stack : stack'[j] = stack[i]) \/ stack'[j] = s
    BY <1>0, <1>2, SendsFrom DEF TimersInv, TimerTypes
  <2>2. Cardinality(FreeIds') \in Nat /\ Cardinality(FreeIds') >= Cardinality(FreeIds)
    BY <1>0, <1>2, <2>1, FreeIdsKept
  <2>3. Cardinality(DelayFrames) \in Nat
    BY DelayFramesAre DEF TimersInv, TimerTypes
  <2>4. s.kind = "delay" => Cardinality(FreeIds) > Cardinality(DelayFrames)
    BY <1>2 DEF RoomForTimer, DelayFrames
  <2>5. EnoughIds'
    BY <2>1, <2>2, <2>3, <2>4, FreeIdsAre DEF TimersInv, EnoughIds
  <2> QED BY <1>0, <1>2, <2>1, <2>5 DEF TimersInv, TimerTypes
<1>3. ASSUME RoomForTimer, SendKeyFrom(s), ~hybrid, StartRate(1)
      PROVE  TimersInv'
  <2>1. /\ stack' = stack
        /\ Cardinality(DelayFrames') \in Nat /\ Cardinality(DelayFrames') = Cardinality(DelayFrames)
    BY <1>0, <1>3, SendsFrom DEF SendKeyFrom, TimersInv, TimerTypes
  <2>2. Cardinality(FreeIds) > Cardinality(DelayFrames)
    BY <1>3 DEF RoomForTimer, DelayFrames
  <2> QED BY <1>0, <1>3, <2>1, <2>2, RateStarts DEF TimersInv, TimerTypes
<1>4. repeating \in Repetitions /\ repeating.path \in Optional(ContextIds)
  BY DEF TimersInv, TimerTypes, Repetitions
<1>5. CASE DelayExpires(s)
  <2>1. [repeating EXCEPT !.count = 1] \in Repetitions
    BY <1>4 DEF Repetitions
  <2>2. CASE ~SameContext
    <3>1. PICK p \in Optional(ContextIds) : repeating' = [repeating EXCEPT !.delay = 0, !.path = p]
      <4>1. CASE ibuscontext = NoContext
        <5>1. repeating' = [repeating EXCEPT !.delay = 0, !.path = repeating.path]
          BY <1>4, <1>5, <2>2, <4>1 DEF DelayExpires, Repetitions
        <5> QED BY <1>4, <5>1
      <4>2. CASE ibuscontext # NoContext
        BY <1>5, <2>2, <4>2 DEF DelayExpires, Optional
      <4> QED BY <4>1, <4>2
    <3> QED BY <1>1, <1>4, <1>5, <2>2, <3>1, RepetitionUpdates DEF DelayExpires
  <2>3. CASE SameContext
    BY <1>2, <1>3, <1>5, <2>1, <2>3 DEF DelayExpires
  <2> QED BY <2>2, <2>3
<1>6. CASE RateExpires(s)
  BY <1>1, <1>2, <1>4, <1>6, RepetitionUpdates DEF RateExpires, repeatVars
<1> QED BY <1>5, <1>6

LEMMA TimersAnswered == ASSUME TimersInv, KeyAnswered PROVE TimersInv'
<1>1. /\ stack' \in Seq(Frames) /\ UNCHANGED hybrid
      /\ Cardinality(DelayFrames') = IF stack[Len(stack)].kind = "delay"
                                       THEN Cardinality(DelayFrames) - 1 ELSE Cardinality(DelayFrames)
      /\ \A j \in DOMAIN stack' : j \in DOMAIN stack /\ stack'[j] = stack[j]
  BY FrameEnds DEF KeyAnswered, TimersInv, TimerTypes
<1>2. Cardinality(DelayFrames) \in Nat
  BY DelayFramesAre DEF TimersInv, TimerTypes
<1>3. CASE stack[Len(stack)].kind = "delay"
  <2>1. Len(stack) \in DelayFrames
    BY <1>3 DEF DelayFrames, KeyAnswered, TimersInv, TimerTypes
  <2>2. Cardinality(DelayFrames) > 0
    BY <1>2, <2>1, DelayFramesAre, FS_EmptySet DEF TimersInv, TimerTypes
  <2>3. StartRate(repeating.count) /\ repeating.count \in 0..1
    BY <1>3 DEF KeyAnswered, TimersInv, TimerTypes, Repetitions
  <2>4. Cardinality(DelayFrames') \in Nat /\ Cardinality(FreeIds) > Cardinality(DelayFrames')
    BY <1>1, <1>2, <1>3, <2>2, FreeIdsAre DEF TimersInv, EnoughIds
  <2> QED BY <1>1, <2>3, <2>4, RateStarts DEF TimersInv
<1>4. CASE stack[Len(stack)].kind # "delay"
  <2>1. UNCHANGED <<repeating, sources>>
    BY <1>4 DEF KeyAnswered, repeatVars
  <2>2. Cardinality(FreeIds') \in Nat /\ Cardinality(FreeIds') >= Cardinality(FreeIds)
    BY <1>1, <2>1, FreeIdsKept
  <2> QED BY <1>1, <1>2, <1>4, <2>1, <2>2, FreeIdsAre DEF TimersInv, TimerTypes, EnoughIds
<1> QED BY <1>3, <1>4

LEMMA TimersStep ==
  ASSUME WaylandInv, TimersInv, [WaylandNext]_waylandVars PROVE TimersInv'
<1>1. ASSUME UNCHANGED <<hybrid, repeating, sources, stack>> PROVE TimersInv'
  BY <1>1 DEF TimersInv, TimerTypes, EnoughIds, FreeIds, DelayFrames
<1>2. CASE InputMethodActivateV2 \/ InputMethodDeactivateV2 \/ InputMethodDoneV2
           \/ InputMethodUnavailableV2 \/ (\E c \in ContextIds : CreateInputContextDone(c))
           \/ UNCHANGED waylandVars
  BY <1>1, <1>2 DEF InputMethodActivateV2, InputMethodDeactivateV2, InputMethodDoneV2,
     InputMethodUnavailableV2, CreateInputContextDone, waylandVars, repeatVars
<1>3. CASE \E k \in WaylandKeys : KeyPressed(k) \/ KeyReleased(k)
  BY <1>3, TimersPressed
<1>4. CASE \E id \in 1..MaxSources : TimerExpires(id)
  BY <1>4, TimersExpire DEF TimerExpires
<1>5. CASE KeyAnswered
  BY <1>5, TimersAnswered
<1> QED BY <1>2, <1>3, <1>4, <1>5 DEF WaylandNext

\* The state of the input method is well formed: above all, each timer that
\* starts gets a number no other one has, also the one that the handler of a delay
\* starts when its nested main loop ends, whatever started in between.
THEOREM WaylandTypeCorrect == WaylandSpec => []WaylandTypeOK
<1>1. WaylandInit => TimersInv
  <2> SUFFICES ASSUME WaylandInit PROVE TimersInv
    OBVIOUS
  <2>1. TimerTypes
    BY DEF WaylandInit, TimerTypes, Repetitions, Optional
  <2>2. DelayFrames = {}
    BY DEF WaylandInit, DelayFrames
  <2> QED BY <2>1, <2>2, FreeIdsAre, FS_EmptySet DEF TimersInv, EnoughIds
<1>2. WaylandInv /\ TimersInv => WaylandTypeOK
  <2> SUFFICES ASSUME WaylandInv, TimersInv PROVE WaylandTypeOK
    OBVIOUS
  <2>1. cancelled \subseteq ContextIds
    BY DEF WaylandInv, FollowInv, InOrder
  <2>2. seat \in [bound : BOOLEAN, active : BOOLEAN, activate : BOOLEAN, deactivate : BOOLEAN]
    BY DEF WaylandInv, Shapes
  <2> QED BY <2>1, <2>2 DEF WaylandInv, Shapes, TimersInv, TimerTypes, Repetitions, Frames, WaylandTypeOK
<1>3. WaylandInv /\ TimersInv /\ [WaylandNext]_waylandVars => TimersInv'
  BY TimersStep
<1> QED BY <1>1, <1>2, <1>3, WaylandInvariance, PTL DEF WaylandSpec

-----------------------------------------------------------------------------
(***************************************************************************)
(* Proofs about the XIM server, for any number of connections, contexts,   *)
(* keys and nested loops.                                                  *)
(***************************************************************************)

USE XimAssumption

Tables ==
  /\ connections \subseteq ConnectIds
  /\ clients \in [ConnectIds -> SUBSET ICs]
  /\ x11_ic_table \subseteq ICs
  /\ owner \in [ICs -> ConnectIds \cup {0}]
  /\ TablesAgree

Answered(n) == xkeys[n].answer # "none"

(* The key events: they belong to the connection of their context, those   *)
(* of a context are answered in turn, and one whose answer found the       *)
(* connection closed is of a context that is gone for good.                *)
KeysInv ==
  /\ mode \in {"sync", "async", "hybrid"}
  /\ xkeys \in Seq(XKeys) /\ Len(xkeys) <= MaxXKeys
  /\ \A n \in DOMAIN xkeys :
       /\ owner[xkeys[n].ic] = xkeys[n].connect_id
       /\ Answered(n) /\ xkeys[n].count = 1 => xkeys[n].ic \notin x11_ic_table
       /\ mode = "sync" => Answered(n)
  /\ \A m, n \in DOMAIN xkeys :
       m < n /\ xkeys[m].ic = xkeys[n].ic /\ Answered(n) => Answered(m)

LoopsInv ==
  /\ loops \in Seq(1..MaxXKeys)
  /\ \A i \in DOMAIN loops : loops[i] \in DOMAIN xkeys

\* Only keys that were answered have been sent back.
ForwardedInv ==
  /\ forwarded \in Seq([key : 1..MaxXKeys, to : ICs \cup {Lost}])
  /\ \A i \in DOMAIN forwarded : forwarded[i].key \in DOMAIN xkeys /\ Answered(forwarded[i].key)
  /\ KeysInOrder

XimInv == Tables /\ KeysInv /\ LoopsInv /\ ForwardedInv

-----------------------------------------------------------------------------
LEMMA NoOwnerYet == Lost \notin ICs /\ ICs \subseteq Nat
  BY DEF ICs

LEMMA XimInitHolds == XimInit => XimInv
<1> SUFFICES ASSUME XimInit PROVE XimInv
  OBVIOUS
<1>1. Tables
  BY DEF XimInit, Tables, TablesAgree
<1>2. KeysInv /\ LoopsInv
  BY DEF XimInit, KeysInv, LoopsInv, XKeys
<1>3. ForwardedInv
  BY DEF XimInit, ForwardedInv, KeysInOrder
<1>4. QED
  BY <1>1, <1>2, <1>3 DEF XimInv

-----------------------------------------------------------------------------
(* Connections and contexts come and go. *)

TableStep ==
  \/ \E c \in ConnectIds : XimOpen(c) \/ XimClose(c)
  \/ \E c \in ConnectIds, ic \in ICs : XimCreateIc(c, ic)
  \/ \E ic \in ICs : XimDestroyIc(ic)

LEMMA TablesStep == ASSUME Tables, TableStep PROVE Tables'
<1>1. ASSUME NEW c \in ConnectIds, XimOpen(c) PROVE Tables'
  BY <1>1 DEF Tables, TablesAgree, XimOpen
<1>2. ASSUME NEW c \in ConnectIds, XimClose(c) PROVE Tables'
  BY <1>2 DEF Tables, TablesAgree, XimClose
<1>3. ASSUME NEW c \in ConnectIds, NEW ic \in ICs, XimCreateIc(c, ic) PROVE Tables'
  <2>1. owner' = [owner EXCEPT ![ic] = c] /\ x11_ic_table' = x11_ic_table \cup {ic}
        /\ clients' = [clients EXCEPT ![c] = @ \cup {ic}] /\ connections' = connections
        /\ c \in connections /\ owner[ic] = 0
    BY <1>3 DEF XimCreateIc
  <2>2. ic \notin x11_ic_table
    BY <2>1 DEF Tables, TablesAgree
  <2>3. \A d \in ConnectIds : clients'[d] = {x \in x11_ic_table' : owner'[x] = d}
    BY <2>1, <2>2 DEF Tables, TablesAgree
  <2>4. \A x \in x11_ic_table' : owner'[x] \in connections'
    BY <2>1, <2>2 DEF Tables, TablesAgree
  <2>5. QED
    BY <2>1, <2>3, <2>4 DEF Tables, TablesAgree
<1>4. ASSUME NEW ic \in ICs, XimDestroyIc(ic) PROVE Tables'
  BY <1>4 DEF Tables, TablesAgree, XimDestroyIc
<1>5. QED
  BY <1>1, <1>2, <1>3, <1>4 DEF TableStep

\* A context that comes is none that a key was typed in.
LEMMA TablesKeepKeys == ASSUME XimInv, TableStep PROVE XimInv'
<1>1. UNCHANGED <<mode, xkeys, loops, forwarded>>
  BY DEF TableStep, XimOpen, XimClose, XimCreateIc, XimDestroyIc
<1>2. \A n \in DOMAIN xkeys :
        /\ owner'[xkeys[n].ic] = owner[xkeys[n].ic]
        /\ xkeys[n].ic \in x11_ic_table' => xkeys[n].ic \in x11_ic_table
  <2> SUFFICES ASSUME NEW n \in DOMAIN xkeys
               PROVE  /\ owner'[xkeys[n].ic] = owner[xkeys[n].ic]
                      /\ xkeys[n].ic \in x11_ic_table' => xkeys[n].ic \in x11_ic_table
    OBVIOUS
  <2>1. xkeys[n].ic \in ICs /\ owner[xkeys[n].ic] # 0
    <3>1. xkeys[n] \in XKeys /\ owner[xkeys[n].ic] = xkeys[n].connect_id
      BY DEF XimInv, KeysInv
    <3>2. QED
      BY <3>1 DEF XKeys
  <2>2. ASSUME NEW c \in ConnectIds, NEW ic \in ICs, XimCreateIc(c, ic)
        PROVE  owner[ic] = 0 /\ owner' = [owner EXCEPT ![ic] = c]
               /\ x11_ic_table' = x11_ic_table \cup {ic}
    BY <2>2 DEF XimCreateIc
  <2>3. CASE UNCHANGED owner /\ x11_ic_table' \subseteq x11_ic_table
    BY <2>3
  <2>4. CASE \E c \in ConnectIds, ic \in ICs : XimCreateIc(c, ic)
    BY <2>1, <2>2, <2>4 DEF XimInv, Tables
  <2>5. QED
    BY <2>3, <2>4 DEF TableStep, XimOpen, XimClose, XimDestroyIc
<1>3. KeysInv'
  BY <1>1, <1>2 DEF XimInv, KeysInv, Answered
<1>4. LoopsInv' /\ ForwardedInv'
  BY <1>1 DEF XimInv, LoopsInv, ForwardedInv, KeysInOrder, Answered
<1>5. QED
  BY <1>3, <1>4, TablesStep DEF XimInv

-----------------------------------------------------------------------------
(* Keys *)

\* What _xim_forward_key_event_done may do with a key of context ic
Sends(n, ic) ==
  \/ UNCHANGED forwarded
  \/ \E to \in ICs \cup {Lost} :
       /\ to = ic => ic \in x11_ic_table
       /\ forwarded' = Append(forwarded, [key |-> n, to |-> to])

LEMMA SendsBack ==
  ASSUME XimInv, NEW n, NEW ic \in ICs, NEW processed \in BOOLEAN,
         ForwardKeyEventDone(n, ic, processed)
  PROVE  Sends(n, ic)
BY NoOwnerYet DEF ForwardKeyEventDone, Sends, XimInv, Tables

\* The order of two keys that went back to the context they were typed in
Ordered(i, j) ==
  /\ i < j
  /\ forwarded[i].to = xkeys[forwarded[i].key].ic
  /\ forwarded[j].to = xkeys[forwarded[j].key].ic
  /\ forwarded[i].to = forwarded[j].to
  => forwarded[i].key < forwarded[j].key

LEMMA OrderOfTwo == KeysInOrder <=> \A i, j \in DOMAIN forwarded : Ordered(i, j)
  BY DEF KeysInOrder, Ordered

LEMMA NoneSent ==
  ASSUME ForwardedInv, UNCHANGED forwarded,
         \A m \in DOMAIN xkeys :
           /\ m \in DOMAIN xkeys' /\ xkeys'[m].ic = xkeys[m].ic
           /\ Answered(m) => Answered(m)'
  PROVE  ForwardedInv'
<1>1. /\ \A i \in DOMAIN forwarded : forwarded[i].key \in DOMAIN xkeys /\ Answered(forwarded[i].key)
      /\ \A i, j \in DOMAIN forwarded : Ordered(i, j)
  BY OrderOfTwo DEF ForwardedInv
<1>2. \A i \in DOMAIN forwarded :
        /\ forwarded[i].key \in DOMAIN xkeys' /\ xkeys'[forwarded[i].key].answer # "none"
        /\ xkeys'[forwarded[i].key].ic = xkeys[forwarded[i].key].ic
  BY <1>1 DEF Answered
<1>3. ASSUME NEW i \in DOMAIN forwarded, NEW j \in DOMAIN forwarded PROVE Ordered(i, j)'
  <2>1. xkeys'[forwarded[i].key].ic = xkeys[forwarded[i].key].ic
        /\ xkeys'[forwarded[j].key].ic = xkeys[forwarded[j].key].ic
    BY <1>2
  <2>2. Ordered(i, j)
    BY <1>1
  <2>3. QED
    BY <2>1, <2>2 DEF Ordered
<1>4. (\A i, j \in DOMAIN forwarded : Ordered(i, j))'
  BY <1>3
<1>5. KeysInOrder'
  BY <1>4, OrderOfTwo, PTL
<1>6. QED
  BY <1>2, <1>5 DEF ForwardedInv, Answered

(* A key that is sent back to its own context comes after all that went    *)
(* there; one whose context is gone is not sent there at all.              *)
LEMMA OrderKept ==
  ASSUME XimInv, xkeys' \in Seq(XKeys), Len(xkeys) <= Len(xkeys'), Len(xkeys') <= MaxXKeys,
         \A m \in DOMAIN xkeys : xkeys'[m].ic = xkeys[m].ic /\ (Answered(m) => Answered(m)'),
         NEW n \in DOMAIN xkeys', Answered(n)', Sends(n, xkeys'[n].ic),
         xkeys'[n].ic \in x11_ic_table =>
           \A m \in DOMAIN xkeys : Answered(m) /\ xkeys[m].ic = xkeys'[n].ic => m < n
  PROVE  ForwardedInv'
<1>0. /\ forwarded \in Seq([key : 1..MaxXKeys, to : ICs \cup {Lost}])
      /\ \A i \in DOMAIN forwarded : forwarded[i].key \in DOMAIN xkeys /\ Answered(forwarded[i].key)
      /\ \A i, j \in DOMAIN forwarded : Ordered(i, j)
  BY OrderOfTwo DEF XimInv, ForwardedInv
<1>d. /\ DOMAIN xkeys = 1..Len(xkeys) /\ DOMAIN xkeys' = 1..Len(xkeys')
      /\ Len(xkeys) \in Nat /\ Len(xkeys') \in Nat
      /\ DOMAIN xkeys \subseteq DOMAIN xkeys' /\ n \in 1..MaxXKeys
  BY DEF XimInv, KeysInv
<1>1. CASE UNCHANGED forwarded
  BY <1>d, <1>1, NoneSent DEF XimInv
<1>2. ASSUME NEW to \in ICs \cup {Lost}, to = xkeys'[n].ic => to \in x11_ic_table,
             forwarded' = Append(forwarded, [key |-> n, to |-> to])
      PROVE  ForwardedInv'
  <2> DEFINE last == Len(forwarded) + 1
  <2>2. /\ DOMAIN forwarded' = 1..last /\ forwarded'[last] = [key |-> n, to |-> to]
        /\ \A i \in DOMAIN forwarded : forwarded'[i] = forwarded[i] /\ i < last
        /\ \A i \in DOMAIN forwarded' : i \in DOMAIN forwarded \/ i = last
        /\ \A i \in DOMAIN forwarded' : i <= last /\ i \in Nat
    BY <1>0, <1>2
  <2>3. forwarded' \in Seq([key : 1..MaxXKeys, to : ICs \cup {Lost}])
    BY <1>0, <1>2, <1>d
  <2>4. \A i \in DOMAIN forwarded' :
          forwarded'[i].key \in DOMAIN xkeys' /\ xkeys'[forwarded'[i].key].answer # "none"
    <3>1. ASSUME NEW i \in DOMAIN forwarded
          PROVE  forwarded'[i].key \in DOMAIN xkeys' /\ xkeys'[forwarded'[i].key].answer # "none"
      <4>1. forwarded'[i] = forwarded[i]
        BY <2>2
      <4>2. forwarded[i].key \in DOMAIN xkeys /\ Answered(forwarded[i].key)
        BY <1>0
      <4>3. QED
        BY <1>d, <4>1, <4>2 DEF Answered
    <3>2. forwarded'[last].key \in DOMAIN xkeys' /\ xkeys'[forwarded'[last].key].answer # "none"
      BY <2>2 DEF Answered
    <3>3. QED
      BY <2>2, <3>1, <3>2
  <2>5. ASSUME NEW i \in DOMAIN forwarded', NEW j \in DOMAIN forwarded', i < j,
               forwarded'[i].to = xkeys'[forwarded'[i].key].ic,
               forwarded'[j].to = xkeys'[forwarded'[j].key].ic,
               forwarded'[i].to = forwarded'[j].to
        PROVE  forwarded'[i].key < forwarded'[j].key
    <3>1. i \in DOMAIN forwarded
      BY <2>2, <2>5
    <3>2. forwarded'[i] = forwarded[i] /\ forwarded[i].key \in DOMAIN xkeys
          /\ xkeys'[forwarded[i].key].ic = xkeys[forwarded[i].key].ic
      BY <1>0, <2>2, <3>1
    <3>3. CASE j \in DOMAIN forwarded
      <4>1. forwarded'[j] = forwarded[j] /\ forwarded[j].key \in DOMAIN xkeys
            /\ xkeys'[forwarded[j].key].ic = xkeys[forwarded[j].key].ic
        BY <1>0, <2>2, <3>3
      <4>2. QED
        BY <1>0, <2>5, <3>1, <3>2, <3>3, <4>1 DEF Ordered
    <3>4. CASE j = last
      <4>1. xkeys'[n].ic \in x11_ic_table /\ xkeys[forwarded[i].key].ic = xkeys'[n].ic
        <5>1. forwarded'[j].key = n /\ forwarded'[j].to = to
          BY <2>2, <3>4
        <5>2. to = xkeys'[n].ic /\ xkeys'[forwarded[i].key].ic = to
          BY <2>5, <3>2, <5>1
        <5>3. QED
          BY <1>2, <3>2, <5>2
      <4>2. Answered(forwarded[i].key)
        BY <1>0, <3>1
      <4>3. forwarded[i].key < n
        BY <3>2, <4>1, <4>2
      <4>4. QED
        BY <2>2, <3>2, <3>4, <4>3
    <3>5. QED
      BY <2>2, <3>3, <3>4
  <2>6. KeysInOrder'
    <3>1. \A i, j \in DOMAIN forwarded' : Ordered(i, j)'
      BY <2>5 DEF Ordered
    <3>2. (\A i, j \in DOMAIN forwarded : Ordered(i, j))'
      BY <3>1
    <3>3. QED
      BY <3>2, OrderOfTwo, PTL
  <2>7. QED
    BY <2>3, <2>4, <2>6 DEF ForwardedInv, Answered
<1>3. QED
  BY <1>1, <1>2 DEF Sends

LEMMA KeyTyped ==
  ASSUME XimInv, NEW ic \in ICs, XimForwardEvent(ic)
  PROVE  XimInv'
<1>n. PICK n \in Nat : n = Len(xkeys) + 1
  BY DEF XimInv, KeysInv
<1>1. ic \in x11_ic_table /\ Len(xkeys) < MaxXKeys /\ UNCHANGED tableVars /\ UNCHANGED mode
  BY DEF XimForwardEvent
<1>2. UNCHANGED <<connections, clients, x11_ic_table, owner>> /\ Tables'
  BY <1>1 DEF tableVars, XimInv, Tables, TablesAgree
<1>3. xkeys \in Seq(XKeys) /\ Len(xkeys) \in Nat /\ DOMAIN xkeys = 1..Len(xkeys)
  BY DEF XimInv, KeysInv
<1>4. owner[ic] \in ConnectIds
  BY <1>1 DEF XimInv, Tables, TablesAgree
<1>5. PICK count \in 0..1, answer \in {"none", "processed", "unprocessed"} :
        /\ xkeys' = Append(xkeys, Key(ic, count, answer))
        /\ mode = "sync" <=> answer # "none"
        /\ answer # "none" => count = 0
  <2>1. CASE mode = "sync"
    BY <2>1 DEF XimForwardEvent, Answers
  <2>2. CASE mode = "async"
    BY <2>2 DEF XimForwardEvent
  <2>3. CASE mode = "hybrid"
    BY <2>3 DEF XimForwardEvent
  <2>4. QED
    BY <2>1, <2>2, <2>3 DEF XimInv, KeysInv
<1>6. Key(ic, count, answer) \in XKeys /\ Key(ic, count, answer).ic = ic
      /\ Key(ic, count, answer).connect_id = owner[ic]
      /\ Key(ic, count, answer).answer = answer /\ Key(ic, count, answer).count = count
  BY <1>4 DEF Key, XKeys
<1>7. /\ xkeys' \in Seq(XKeys) /\ Len(xkeys') = n /\ DOMAIN xkeys' = 1..n
      /\ xkeys'[n] = Key(ic, count, answer)
      /\ \A m \in DOMAIN xkeys : xkeys'[m] = xkeys[m] /\ m \in 1..n /\ m < n
  BY <1>n, <1>3, <1>5, <1>6
<1>8. \A m \in DOMAIN xkeys' : m \in DOMAIN xkeys \/ m = n
  BY <1>n, <1>3, <1>7
<1>9. KeysInv'
  <2>1. \A m \in DOMAIN xkeys' :
          /\ owner'[xkeys'[m].ic] = xkeys'[m].connect_id
          /\ xkeys'[m].answer # "none" /\ xkeys'[m].count = 1 => xkeys'[m].ic \notin x11_ic_table'
          /\ mode' = "sync" => xkeys'[m].answer # "none"
    BY <1>1, <1>2, <1>5, <1>6, <1>7, <1>8 DEF XimInv, KeysInv, Answered
  <2>2. ASSUME NEW l \in DOMAIN xkeys', NEW m \in DOMAIN xkeys', l < m,
               xkeys'[l].ic = xkeys'[m].ic, xkeys'[m].answer # "none"
        PROVE  xkeys'[l].answer # "none"
    <3>1. l \in DOMAIN xkeys
      BY <1>n, <1>3, <1>7, <2>2
    <3>2. CASE m \in DOMAIN xkeys
      BY <1>7, <2>2, <3>1, <3>2 DEF XimInv, KeysInv, Answered
    <3>3. CASE m = n
      <4>1. mode = "sync"
        BY <1>5, <1>6, <1>7, <2>2, <3>3
      <4>2. QED
        BY <1>7, <3>1, <4>1 DEF XimInv, KeysInv, Answered
    <3>4. QED
      BY <1>8, <3>2, <3>3
  <2>3. mode' \in {"sync", "async", "hybrid"} /\ xkeys' \in Seq(XKeys) /\ Len(xkeys') <= MaxXKeys
    BY <1>n, <1>1, <1>3, <1>7 DEF XimInv, KeysInv
  <2>4. QED
    BY <2>1, <2>2, <2>3 DEF KeysInv, Answered
<1>10. LoopsInv'
  <2>1. CASE UNCHANGED loops
    BY <1>3, <1>7, <2>1 DEF XimInv, LoopsInv
  <2>2. CASE loops' = Append(loops, n)
    <3>1. n \in 1..MaxXKeys
      BY <1>n, <1>1, <1>3
    <3>2. loops' \in Seq(1..MaxXKeys)
      BY <2>2, <3>1 DEF XimInv, LoopsInv
    <3>3. \A i \in DOMAIN loops' : loops'[i] \in DOMAIN xkeys \/ loops'[i] = n
      BY <2>2 DEF XimInv, LoopsInv
    <3>4. QED
      BY <1>3, <1>7, <3>2, <3>3 DEF LoopsInv
  <2>3. QED
    BY <1>n, <2>1, <2>2 DEF XimForwardEvent
<1>11. ForwardedInv'
  <2>1. CASE UNCHANGED forwarded
    <3>1. \A m \in DOMAIN xkeys : m \in DOMAIN xkeys' /\ xkeys'[m] = xkeys[m]
      BY <1>n, <1>3, <1>7
    <3>2. QED
      BY <2>1, <3>1, NoneSent DEF XimInv, Answered
  <2>2. CASE mode = "sync"
    <3>1. PICK processed \in BOOLEAN : ForwardKeyEventDone(n, ic, processed)
      BY <1>n, <2>2 DEF XimForwardEvent
    <3>2. Sends(n, xkeys'[n].ic)
      BY <1>6, <1>7, <3>1, SendsBack
    <3>3. Answered(n)'
      BY <1>5, <1>6, <1>7, <2>2 DEF Answered
    <3>4. QED
      BY <1>n, <1>1, <1>3, <1>7, <3>2, <3>3, OrderKept DEF Answered
  <2>3. QED
    BY <2>1, <2>2 DEF XimForwardEvent
<1>12. QED
  BY <1>2, <1>9, <1>10, <1>11 DEF XimInv

(* An answer: the keys of its context before it have theirs, so those that *)
(* have one are just these.                                                *)
LEMMA KeyDone ==
  ASSUME XimInv, NEW n \in DOMAIN xkeys, KeyEventReplyDone(n)
  PROVE  XimInv'
<1>1. xkeys \in Seq(XKeys) /\ n \in 1..Len(xkeys) /\ Len(xkeys) \in Nat /\ xkeys[n] \in XKeys
  BY DEF XimInv, KeysInv
<1>2. UNCHANGED <<mode, connections, clients, x11_ic_table, owner, loops>> /\ Tables'
  BY DEF KeyEventReplyDone, tableVars, XimInv, Tables, TablesAgree
<1>3. PICK answer \in Answers :
        \/ /\ xkeys[n].connect_id \in connections
           /\ xkeys' = [xkeys EXCEPT ![n].answer = answer, ![n].count = 0]
           /\ ForwardKeyEventDone(n, xkeys[n].ic, answer = "processed")
        \/ /\ xkeys[n].connect_id \notin connections
           /\ xkeys' = [xkeys EXCEPT ![n].answer = answer]
           /\ UNCHANGED forwarded
  BY DEF KeyEventReplyDone
<1>4. ~Answered(n) /\ \A m \in 1..(n - 1) : xkeys[m].ic = xkeys[n].ic => Answered(m)
  BY DEF KeyEventReplyDone, IsAnsweredNext, Answered
<1>5. /\ DOMAIN xkeys' = DOMAIN xkeys /\ Len(xkeys') = Len(xkeys)
      /\ \A m \in DOMAIN xkeys : m # n => xkeys'[m] = xkeys[m]
      /\ xkeys'[n].ic = xkeys[n].ic /\ xkeys'[n].connect_id = xkeys[n].connect_id
      /\ xkeys'[n].answer = answer /\ xkeys'[n].count \in {0, xkeys[n].count}
      /\ xkeys[n].connect_id \in connections => xkeys'[n].count = 0
      /\ xkeys' \in Seq(XKeys)
  <2>1. CASE xkeys' = [xkeys EXCEPT ![n].answer = answer, ![n].count = 0]
    <3> DEFINE key == [xkeys[n] EXCEPT !.answer = answer]
               answered == [key EXCEPT !.count = 0]
    <3>1. key \in XKeys /\ key.answer = answer /\ key.ic = xkeys[n].ic
          /\ key.connect_id = xkeys[n].connect_id
      BY <1>1 DEF XKeys, Answers
    <3> HIDE DEF key
    <3>2. answered \in XKeys /\ answered.answer = answer /\ answered.ic = xkeys[n].ic
          /\ answered.connect_id = xkeys[n].connect_id /\ answered.count = 0
      BY <3>1 DEF XKeys
    <3>3. xkeys' = [xkeys EXCEPT ![n] = answered]
      BY <1>1, <2>1 DEF key
    <3> HIDE DEF answered
    <3>4. QED
      BY <1>1, <3>2, <3>3
  <2>2. CASE xkeys[n].connect_id \notin connections /\ xkeys' = [xkeys EXCEPT ![n].answer = answer]
    BY <1>1, <2>2 DEF XKeys, Answers
  <2>3. QED
    BY <1>3, <2>1, <2>2
<1>6. answer # "none"
  BY DEF Answers
<1>7. xkeys[n].connect_id \notin connections => xkeys[n].ic \notin x11_ic_table
  BY DEF XimInv, Tables, TablesAgree, KeysInv
<1>8. KeysInv'
  <2>1. \A m \in DOMAIN xkeys' :
          /\ owner'[xkeys'[m].ic] = xkeys'[m].connect_id
          /\ xkeys'[m].answer # "none" /\ xkeys'[m].count = 1 => xkeys'[m].ic \notin x11_ic_table'
          /\ mode' = "sync" => xkeys'[m].answer # "none"
    BY <1>2, <1>5, <1>6, <1>7 DEF XimInv, KeysInv, Answered
  <2>2. ASSUME NEW l \in DOMAIN xkeys', NEW m \in DOMAIN xkeys', l < m,
               xkeys'[l].ic = xkeys'[m].ic, xkeys'[m].answer # "none"
        PROVE  xkeys'[l].answer # "none"
    <3>1. l \in 1..Len(xkeys) /\ m \in 1..Len(xkeys)
      BY <1>1, <1>5
    <3>2. CASE l = n
      BY <1>5, <1>6, <3>2
    <3>3. CASE l # n /\ m = n
      BY <1>1, <1>4, <1>5, <2>2, <3>1, <3>3 DEF Answered
    <3>4. CASE l # n /\ m # n
      <4>1. xkeys[l].ic = xkeys[m].ic /\ Answered(m)
        BY <1>5, <2>2, <3>4 DEF Answered
      <4>2. QED
        BY <1>5, <2>2, <3>4, <4>1 DEF XimInv, KeysInv, Answered
    <3>5. QED
      BY <3>2, <3>3, <3>4
  <2>3. QED
    BY <1>2, <1>5, <2>1, <2>2 DEF XimInv, KeysInv, Answered
<1>9. LoopsInv'
  BY <1>2, <1>5 DEF XimInv, LoopsInv
<1>10. ForwardedInv'
  <2>1. \A m \in DOMAIN xkeys : xkeys'[m].ic = xkeys[m].ic /\ (Answered(m) => Answered(m)')
    BY <1>5, <1>6 DEF Answered
  <2>2. CASE UNCHANGED forwarded
    BY <1>5, <2>1, <2>2, NoneSent DEF XimInv
  <2>3. CASE ForwardKeyEventDone(n, xkeys[n].ic, answer = "processed")
    <3>1. Sends(n, xkeys'[n].ic)
      BY <1>1, <1>5, <2>3, SendsBack DEF XKeys
    <3>2. \A m \in DOMAIN xkeys : Answered(m) /\ xkeys[m].ic = xkeys'[n].ic => m < n
      <4> SUFFICES ASSUME NEW m \in DOMAIN xkeys, Answered(m), xkeys[m].ic = xkeys[n].ic
                   PROVE  m < n
        BY <1>5
      <4>1. m # n /\ m \in 1..Len(xkeys) /\ n \in 1..Len(xkeys)
        BY <1>1, <1>4
      <4>2. ~(n < m)
        BY <1>4 DEF XimInv, KeysInv
      <4>3. QED
        BY <4>1, <4>2
    <3>3. Answered(n)'
      BY <1>5, <1>6 DEF Answered
    <3>4. Len(xkeys) <= Len(xkeys') /\ Len(xkeys') <= MaxXKeys /\ n \in DOMAIN xkeys'
      BY <1>1, <1>5 DEF XimInv, KeysInv
    <3>5. QED
      BY <1>5, <2>1, <3>1, <3>2, <3>3, <3>4, OrderKept
  <2>4. QED
    BY <1>3, <2>2, <2>3
<1>11. QED
  BY <1>2, <1>8, <1>9, <1>10 DEF XimInv

\* A loop that goes on sends nothing to a context that exists.
LEMMA LoopDone == ASSUME XimInv, LoopEnds PROVE XimInv'
<1> DEFINE n == loops[Len(loops)]
<1>1. UNCHANGED <<mode, connections, clients, x11_ic_table, owner, xkeys>> /\ Tables'
  BY DEF LoopEnds, tableVars, XimInv, Tables, TablesAgree
<1>2. KeysInv'
  BY <1>1 DEF XimInv, KeysInv, Answered
<1>3. loops \in Seq(1..MaxXKeys) /\ loops # <<>> /\ n \in DOMAIN xkeys /\ Answered(n)
  BY DEF LoopEnds, XimInv, LoopsInv, Answered
<1>4. LoopsInv'
  <2>1. loops' = SubSeq(loops, 1, Len(loops) - 1)
    BY DEF LoopEnds
  <2>2. loops' \in Seq(1..MaxXKeys) /\ \A i \in DOMAIN loops' : i \in DOMAIN loops /\ loops'[i] = loops[i]
    BY <1>3, <2>1
  <2>3. QED
    BY <1>1, <2>2 DEF XimInv, LoopsInv
<1>5. ForwardedInv'
  <2>1. CASE UNCHANGED forwarded
    BY <1>1, <2>1, NoneSent DEF XimInv, Answered
  <2>2. ASSUME xkeys[n].count = 1,
               ForwardKeyEventDone(n, xkeys[n].ic, xkeys[n].answer = "processed")
        PROVE  ForwardedInv'
    <3>1. xkeys[n] \in XKeys /\ xkeys[n].ic \notin x11_ic_table /\ xkeys \in Seq(XKeys)
          /\ Len(xkeys) <= MaxXKeys /\ Len(xkeys) \in Nat
      BY <1>3, <2>2 DEF XimInv, KeysInv
    <3>2. PICK key \in DOMAIN xkeys : key = n
      BY <1>3
    <3>3. xkeys[key].ic \in ICs
      BY <3>1, <3>2 DEF XKeys
    <3>4. Sends(key, xkeys'[key].ic)
      BY <1>1, <2>2, <3>2, <3>3, SendsBack
    <3>5. Answered(key)' /\ \A m \in DOMAIN xkeys : Answered(m) => Answered(m)'
      BY <1>1, <1>3, <3>2 DEF Answered
    <3>6. QED
      BY <1>1, <3>1, <3>2, <3>4, <3>5, OrderKept
  <2>3. QED
    BY <2>1, <2>2 DEF LoopEnds
<1>6. QED
  BY <1>1, <1>2, <1>4, <1>5 DEF XimInv

-----------------------------------------------------------------------------
LEMMA XimStep == XimInv /\ [XimNext]_ximVars => XimInv'
<1> SUFFICES ASSUME XimInv, [XimNext]_ximVars PROVE XimInv'
  OBVIOUS
<1>1. CASE TableStep
  BY <1>1, TablesKeepKeys
<1>2. ASSUME NEW ic \in ICs, XimForwardEvent(ic) PROVE XimInv'
  BY <1>2, KeyTyped
<1>3. ASSUME NEW n \in DOMAIN xkeys, KeyEventReplyDone(n) PROVE XimInv'
  BY <1>3, KeyDone
<1>4. CASE LoopEnds
  BY <1>4, LoopDone
<1>5. CASE UNCHANGED ximVars
  <2>1. UNCHANGED <<mode, connections, clients, x11_ic_table, owner, xkeys, loops, forwarded>>
    BY <1>5 DEF ximVars, tableVars
  <2>2. Tables' /\ KeysInv' /\ LoopsInv'
    BY <2>1 DEF XimInv, Tables, TablesAgree, KeysInv, LoopsInv, Answered
  <2>3. ForwardedInv'
    BY <2>1, NoneSent DEF XimInv, Answered
  <2>4. QED
    BY <2>2, <2>3 DEF XimInv
<1>6. QED
  BY <1>1, <1>2, <1>3, <1>4, <1>5 DEF XimNext, TableStep

LEMMA XimInvariance == XimSpec => []XimInv
BY XimInitHolds, XimStep, PTL DEF XimSpec

-----------------------------------------------------------------------------
\* Every variable keeps to its values.
THEOREM XimTypeCorrect == XimSpec => []XimTypeOK
<1>1. XimInv => XimTypeOK
  BY DEF XimInv, Tables, KeysInv, LoopsInv, ForwardedInv, XimTypeOK
<1>2. QED
  BY <1>1, XimInvariance, PTL

\* The table of contexts and the lists of the connections have the same
\* contexts, whatever clients open, create, destroy and close.
THEOREM ContextsOwned == XimSpec => []TablesAgree
<1>1. XimInv => TablesAgree
  BY DEF XimInv, Tables
<1>2. QED
  BY <1>1, XimInvariance, PTL

\* However the handlers of keys nest, and though connections close and their
\* ids are used again meanwhile, a context gets its keys back in order.
THEOREM KeysComeBackInOrder == XimSpec => []KeysInOrder
<1>1. XimInv => KeysInOrder
  BY DEF XimInv, ForwardedInv
<1>2. QED
  BY <1>1, XimInvariance, PTL
=============================================================================
