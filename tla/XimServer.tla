----------------------------- MODULE XimServer -----------------------------
(***************************************************************************)
(* The XIM server (src/client/x11/main.c): the connections of X clients,   *)
(* their input contexts, and their key events, each of which goes to the   *)
(* daemon and, if no engine takes it, back to the client.  In the hybrid   *)
(* mode the handler of a key awaits the answer in a nested main loop, in   *)
(* which all other requests of clients are handled, keys included.         *)
(*                                                                         *)
(* XIM_DISCONNECT is XIM_CLOSE; focus, attributes and preedit are left     *)
(* out.  Ids of connections are used again, those of contexts are not.     *)
(* The daemon answers the keys of one context in their order, or the call  *)
(* fails, long before a nested loop gives up.                              *)
(***************************************************************************)
EXTENDS Integers, Sequences

CONSTANTS
  ConnectIds,   \* the ids IMdkit gives to connections
  MaxICs,       \* bound: the contexts created
  MaxXKeys,     \* bound: the key events
  Lost          \* where a key goes that is sent to no context

ICs == 1..MaxICs

ASSUME XimAssumption ==
  /\ 0 \notin ConnectIds  \* (IMdkit counts from 1)
  /\ MaxICs \in Nat /\ MaxXKeys \in Nat /\ Lost \notin Nat

VARIABLES
  mode,          \* _use_sync_mode
  connections,   \* _connections
  clients,       \* conn->clients
  x11_ic_table,  \* _x11_ic_table
  owner,         \* x11ic->conn and connect_id, 0 for a context not yet created
  xkeys,         \* the key events: their context and connection, and the answer
  loops,         \* the keys whose handlers run nested main loops, innermost last
  forwarded      \* history: the keys sent back, and the context each went to

tableVars == <<connections, clients, x11_ic_table, owner>>
ximVars == <<mode, tableVars, xkeys, loops, forwarded>>

XKeys == [ic : ICs, connect_id : ConnectIds, count : 0..1,
          answer : {"none", "processed", "unprocessed"}]

XimTypeOK ==
  /\ mode \in {"sync", "async", "hybrid"}
  /\ connections \subseteq ConnectIds
  /\ clients \in [ConnectIds -> SUBSET ICs]
  /\ x11_ic_table \subseteq ICs
  /\ owner \in [ICs -> ConnectIds \cup {0}]
  /\ xkeys \in Seq(XKeys)
  /\ loops \in Seq(1..MaxXKeys)
  /\ forwarded \in Seq([key : 1..MaxXKeys, to : ICs \cup {Lost}])

XimInit ==
  /\ mode \in {"sync", "async", "hybrid"}
  /\ connections = {} /\ clients = [c \in ConnectIds |-> {}]
  /\ x11_ic_table = {} /\ owner = [ic \in ICs |-> 0]
  /\ xkeys = <<>> /\ loops = <<>> /\ forwarded = <<>>

-----------------------------------------------------------------------------
(* Connections and contexts *)

XimOpen(c) ==
  /\ c \notin connections
  /\ connections' = connections \cup {c}
  /\ clients' = [clients EXCEPT ![c] = {}]
  /\ UNCHANGED <<mode, x11_ic_table, owner, xkeys, loops, forwarded>>

\* xim_create_ic, when the daemon makes a context
XimCreateIc(c, ic) ==
  /\ c \in connections
  /\ owner[ic] = 0 /\ \A other \in 1..(ic - 1) : owner[other] # 0
  /\ owner' = [owner EXCEPT ![ic] = c]
  /\ x11_ic_table' = x11_ic_table \cup {ic}
  /\ clients' = [clients EXCEPT ![c] = @ \cup {ic}]
  /\ UNCHANGED <<mode, connections, xkeys, loops, forwarded>>

\* MUTANT: the context stays in the list of its connection.
XimDestroyIcKeepsClient(ic) ==
  /\ ic \in x11_ic_table
  /\ x11_ic_table' = x11_ic_table \ {ic}
  /\ UNCHANGED <<mode, connections, clients, owner, xkeys, loops, forwarded>>

XimDestroyIc(ic) ==
  /\ ic \in x11_ic_table
  /\ x11_ic_table' = x11_ic_table \ {ic}
  /\ clients' = [clients EXCEPT ![owner[ic]] = @ \ {ic}]
  /\ UNCHANGED <<mode, connections, owner, xkeys, loops, forwarded>>

\* xim_close, xim_disconnect_ic: _free_x11_iconn_from_id
XimClose(c) ==
  /\ c \in connections
  /\ x11_ic_table' = x11_ic_table \ clients[c]
  /\ clients' = [clients EXCEPT ![c] = {}]
  /\ connections' = connections \ {c}
  /\ UNCHANGED <<mode, owner, xkeys, loops, forwarded>>

-----------------------------------------------------------------------------
(* Key events *)

(* _xim_forward_key_event_done: the X11IC of a context that is destroyed   *)
(* has been freed; its memory may be that of a later one by now.           *)
ForwardKeyEventDone(n, ic, processed) ==
  IF processed
  THEN UNCHANGED forwarded
  ELSE \E to \in IF ic \in x11_ic_table
                 THEN {ic}
                 ELSE {later \in x11_ic_table : later > ic} \cup {Lost} :
         forwarded' = Append(forwarded, [key |-> n, to |-> to])

Answers == {"processed", "unprocessed"}

Key(ic, count, answer) ==
  [ic |-> ic, connect_id |-> owner[ic], count |-> count, answer |-> answer]

XimForwardEvent(ic) ==
  /\ ic \in x11_ic_table /\ Len(xkeys) < MaxXKeys
  /\ \/ /\ mode = "sync"
        /\ \E answer \in Answers :
             /\ xkeys' = Append(xkeys, Key(ic, 0, answer))
             /\ ForwardKeyEventDone(Len(xkeys) + 1, ic, answer = "processed")
        /\ UNCHANGED loops
     \/ /\ mode = "async"
        /\ xkeys' = Append(xkeys, Key(ic, 0, "none"))
        /\ UNCHANGED <<loops, forwarded>>
     \/ /\ mode = "hybrid"
        /\ xkeys' = Append(xkeys, Key(ic, 1, "none"))
        /\ loops' = Append(loops, Len(xkeys) + 1)
        /\ UNCHANGED forwarded
  /\ UNCHANGED <<mode, tableVars>>

IsAnsweredNext(n) ==
  /\ xkeys[n].answer = "none"
  /\ \A m \in 1..(n - 1) : xkeys[m].ic = xkeys[n].ic => xkeys[m].answer # "none"

\* MUTANT: the key is sent back when its handler goes on.
KeyEventReplyDoneForwardsLater(n) ==
  /\ IsAnsweredNext(n)
  /\ \E answer \in Answers : xkeys' = [xkeys EXCEPT ![n].answer = answer]
  /\ UNCHANGED <<mode, tableVars, loops, forwarded>>

\* _process_key_event_done, _process_key_event_reply_done: a key whose
\* connection is gone is dropped, and its nested loop goes on.
KeyEventReplyDone(n) ==
  /\ IsAnsweredNext(n)
  /\ \E answer \in Answers :
       IF xkeys[n].connect_id \in connections
       THEN /\ xkeys' = [xkeys EXCEPT ![n].answer = answer, ![n].count = 0]
            /\ ForwardKeyEventDone(n, xkeys[n].ic, answer = "processed")
       ELSE /\ xkeys' = [xkeys EXCEPT ![n].answer = answer]
            /\ UNCHANGED forwarded
  /\ UNCHANGED <<mode, tableVars, loops>>

(* _process_key_event_hybrid_async, after its loop: the innermost one ends *)
(* with the answer, or after MAX_WAIT_KEY_TIME.                            *)
LoopEnds ==
  /\ loops # <<>>
  /\ LET n == loops[Len(loops)]
     IN /\ xkeys[n].answer # "none"
        /\ IF xkeys[n].count = 1 /\ xkeys[n].connect_id \in connections
           THEN ForwardKeyEventDone(n, xkeys[n].ic, xkeys[n].answer = "processed")
           ELSE UNCHANGED forwarded
  /\ loops' = SubSeq(loops, 1, Len(loops) - 1)
  /\ UNCHANGED <<mode, tableVars, xkeys>>

XimNext ==
  \/ \E c \in ConnectIds : XimOpen(c) \/ XimClose(c)
  \/ \E c \in ConnectIds, ic \in ICs : XimCreateIc(c, ic)
  \/ \E ic \in ICs : XimDestroyIc(ic) \/ XimForwardEvent(ic)
  \/ \E n \in DOMAIN xkeys : KeyEventReplyDone(n)
  \/ LoopEnds

XimSpec == XimInit /\ [][XimNext]_ximVars

-----------------------------------------------------------------------------
(* Properties *)

\* xim_create_ic, xim_destroy_ic, _free_x11_iconn_from_id: the table holds
\* just the contexts in the lists of the open connections, each in the list of
\* its owner, so that none is freed twice and none outlives its connection.
TablesAgree ==
  /\ \A c \in ConnectIds : clients[c] = {ic \in x11_ic_table : owner[ic] = c}
  /\ \A ic \in x11_ic_table : owner[ic] \in connections

\* _process_key_event_reply_done, "the key events order can be swapped": a
\* context gets its own keys back in the order of typing, each at most once,
\* however the handlers nest and whatever has become of its connection.
KeysInOrder ==
  LET Returned(i) == forwarded[i].to = xkeys[forwarded[i].key].ic
  IN \A i, j \in DOMAIN forwarded :
       /\ i < j /\ Returned(i) /\ Returned(j)
       /\ forwarded[i].to = forwarded[j].to
       => forwarded[i].key < forwarded[j].key
=============================================================================
