---------------------------- MODULE MessageRouter ----------------------------
(***************************************************************************)
(* How ibus-daemon moves D-Bus messages between the connections it serves  *)
(* (src/bus/dbusimpl.c).  The GDBus threads run the connection filter on   *)
(* every message read from or written to a connection.  A message for      *)
(* another service goes to forward_queue, every other one to               *)
(* dispatch_queue, from which copies go to the connections whose match     *)
(* rules fit.  Each queue is drained by an idle source of the main loop:   *)
(* the thread that appends to an empty queue attaches the source, outside  *)
(* the lock, and the source removes itself when it took the last message.  *)
(*                                                                         *)
(* The code assumes of GDBus only that the messages of one connection are  *)
(* filtered one after the other, so every connection is a thread here.     *)
(* Connections do not close while messages are on their way, so            *)
(* g_dbus_connection_send_message does not fail.                           *)
(***************************************************************************)
EXTENDS Sequences, FiniteSets, Naturals

CONSTANTS
  Conns,     \* connections, each filtered by a thread of its own
  Main,      \* the thread of the main loop
  Msgs,      \* messages sent by peers and signals emitted by the daemon
  Calls,     \* the method calls among them
  Dest,      \* Dest[m]: a connection, or one of the next three
  Daemon,    \* a destination the daemon itself serves, or no destination
  Absent,    \* a bus name nobody owns
  Outgoing,  \* Outgoing[t]: what the peer of connection t, or Main, sends
  Watching,  \* Watching[m][c]: how many match rules of connection c fit m
  None       \* the C NULL

Threads == Conns \cup {Main}

Sent(t) == {Outgoing[t][i] : i \in DOMAIN Outgoing[t]}

Queues  == {"forward", "dispatch"}

\* The error that answers a method call which cannot be forwarded.
ErrorReply(m) == [errorFor |-> m]
Replies       == {ErrorReply(m) : m \in Calls}
Items         == [msg : Msgs \cup Replies, conn : Threads \cup {None}]

(***************************************************************************)
(* A thread inside bus_dbus_impl_forward_message or                        *)
(* bus_dbus_impl_dispatch_message_by_rule holds a job: the queue, the item *)
(* to append, and whether the message is then written to the connection.   *)
(***************************************************************************)
Jobs      == [queue : Queues, item : Items, write : BOOLEAN]
Callbacks == [queue : Queues, item : Items, more : BOOLEAN]

RouterAssumption ==
  /\ Main \notin Conns
  /\ Calls \subseteq Msgs
  /\ Dest \in [Msgs -> Conns \cup {Daemon, Absent}]
  /\ {Daemon, Absent} \cap Conns = {}
  /\ Daemon # Absent
  /\ Msgs \cap Replies = {}
  /\ Outgoing \in [Threads -> Seq(Msgs)]
  /\ \A t, u \in Threads : t # u => Sent(t) \cap Sent(u) = {}
  /\ \A t \in Threads : \A i, j \in DOMAIN Outgoing[t] : Outgoing[t][i] = Outgoing[t][j] => i = j
  /\ Watching \in [Msgs \cup Replies -> [Conns -> Nat]]
  /\ None \notin Threads \cup Jobs \cup Callbacks

ASSUME RouterAssumption

VARIABLES
  inbox,     \* messages a thread has still to read (Main: to emit)
  outbox,    \* messages handed to GDBus to be written to a connection
  wire,      \* messages the peer of a connection has received
  pc,        \* where a thread is in the enqueueing function
  job,       \* what it is enqueueing there
  queue,     \* forward_queue and dispatch_queue
  sources,   \* idle sources attached for a queue, a running one included
  callback,  \* the idle callback in progress, after its critical section
  tagged     \* messages that carry the DISPATCHED qdata

vars == <<inbox, outbox, wire, pc, job, queue, sources, callback, tagged>>

Init ==
  /\ inbox = Outgoing
  /\ outbox = [c \in Conns |-> <<>>]
  /\ wire = [c \in Conns |-> <<>>]
  /\ pc = [t \in Threads |-> "idle"]
  /\ job = [t \in Threads |-> None]
  /\ queue = [q \in Queues |-> <<>>]
  /\ sources = [q \in Queues |-> 0]
  /\ callback = None
  /\ tagged = {}

----------------------------------------------------------------------------
(* Entering the enqueueing functions.                                      *)

Enqueue(t, q, item, write) ==
  /\ pc' = [pc EXCEPT ![t] = "append"]
  /\ job' = [job EXCEPT ![t] = [queue |-> q, item |-> item, write |-> write]]

\* bus_dbus_impl_dispatch_message_by_rule up to its lock: a message is
\* dispatched once, so one that was tagged before is left alone.
DispatchByRule(t, m, skip, write) ==
  /\ m \notin tagged
  /\ tagged' = tagged \cup {m}
  /\ Enqueue(t, "dispatch", [msg |-> m, conn |-> skip], write)

ForwardedTo(m) == Dest[m] # Daemon

\* The filter on a message read from connection c.
FilterIncoming(c) ==
  /\ pc[c] = "idle"
  /\ inbox[c] # <<>>
  /\ inbox' = [inbox EXCEPT ![c] = Tail(@)]
  /\ LET m == Head(inbox[c])
     IN IF ForwardedTo(m)
        THEN Enqueue(c, "forward", [msg |-> m, conn |-> c], FALSE) /\ UNCHANGED tagged
        ELSE DispatchByRule(c, m, None, FALSE)
  /\ UNCHANGED <<outbox, wire, queue, sources, callback>>

\* The filter on a message about to be written to connection c; GDBus writes
\* it when the filter returns.  What was dispatched before is only written.
FilterOutgoing(c) ==
  /\ pc[c] = "idle"
  /\ outbox[c] # <<>>
  /\ outbox' = [outbox EXCEPT ![c] = Tail(@)]
  /\ LET m == Head(outbox[c])
     IN \/ DispatchByRule(c, m, c, TRUE) /\ UNCHANGED wire
        \/ /\ m \in tagged
           /\ wire' = [wire EXCEPT ![c] = Append(@, m)]
           /\ UNCHANGED <<pc, job, tagged>>
  /\ UNCHANGED <<inbox, queue, sources, callback>>

\* The main thread broadcasts a signal (NameOwnerChanged, RegistryChanged,
\* PropertiesChanged) or forwards one to a connection (NameLost,
\* NameAcquired).  It does so between two idle callbacks.
EmitSignal ==
  /\ callback = None
  /\ pc[Main] = "idle"
  /\ inbox[Main] # <<>>
  /\ inbox' = [inbox EXCEPT ![Main] = Tail(@)]
  /\ LET m == Head(inbox[Main])
     IN IF ForwardedTo(m)
        THEN Enqueue(Main, "forward", [msg |-> m, conn |-> Main], FALSE) /\ UNCHANGED tagged
        ELSE DispatchByRule(Main, m, None, FALSE)
  /\ UNCHANGED <<outbox, wire, queue, sources, callback>>

----------------------------------------------------------------------------
(* The enqueueing functions from their lock on.                            *)

\* The thread leaves the function; a filter on its way out lets GDBus write
\* the message.
Leave(t) ==
  /\ pc' = [pc EXCEPT ![t] = "idle"]
  /\ job' = [job EXCEPT ![t] = None]
  /\ wire' = IF job[t].write THEN [wire EXCEPT ![t] = Append(@, job[t].item.msg)]
                             ELSE wire

\* MUTANT: is_running is read after the append, so nobody attaches the source.
RunningAfterAppend(q) == TRUE

\* is_running: whoever made the queue non-empty attached its source.
IsRunning(q) == queue[q] # <<>>

\* MUTANT: g_list_prepend for g_list_append.
Prepended(q, item) == <<item>> \o queue[q]

\* g_list_append
Appended(q, item) == Append(queue[q], item)

\* The critical section: read is_running, append.
AppendToQueue(t) ==
  /\ pc[t] = "append"
  /\ LET q == job[t].queue
     IN /\ queue' = [queue EXCEPT ![q] = Appended(q, job[t].item)]
        /\ IF IsRunning(q) THEN Leave(t)
           ELSE /\ pc' = [pc EXCEPT ![t] = "wake"]
                /\ UNCHANGED <<job, wire>>
  /\ UNCHANGED <<inbox, outbox, sources, callback, tagged>>

\* g_idle_add_full, after the unlock.
AttachSource(t) ==
  /\ pc[t] = "wake"
  /\ sources' = [sources EXCEPT ![job[t].queue] = @ + 1]
  /\ Leave(t)
  /\ UNCHANGED <<inbox, outbox, queue, callback, tagged>>

----------------------------------------------------------------------------
(* The idle callbacks.                                                     *)

\* has_message, read in the same critical section after the head is unlinked.
HasMessage(s) == Tail(s) # <<>>

\* The loop runs the source of queue q up to the end of its critical section.
\* The code refuses an empty queue, g_return_val_if_fail (queue != NULL);
\* SourceHasWork below says that it never comes to that.
StartCallback(q) ==
  /\ callback = None
  /\ pc[Main] = "idle"
  /\ sources[q] > 0
  /\ queue[q] # <<>>
  /\ callback' = [queue |-> q, item |-> Head(queue[q]), more |-> HasMessage(queue[q])]
  /\ queue' = [queue EXCEPT ![q] = Tail(@)]
  /\ UNCHANGED <<inbox, outbox, wire, pc, job, sources, tagged>>

\* The callback returns has_message; GLib removes the source on FALSE.
ReturnFromCallback ==
  /\ callback' = None
  /\ sources' = IF callback.more THEN sources
                ELSE [sources EXCEPT ![callback.queue] = @ - 1]
  /\ UNCHANGED <<inbox, wire, pc, job, queue, tagged>>

\* g_dbus_connection_send_message to connection d.
SendTo(d, m) == [c \in Conns |-> IF c = d THEN Append(outbox[c], m) ELSE outbox[c]]

\* The same to every connection, as often as copies says.
SendCopies(copies, m) == [c \in Conns |-> outbox[c] \o [i \in 1..copies[c] |-> m]]

\* bus_dbus_impl_forward_message_idle_cb after the unlock.  A message nobody
\* can take is dropped; if it is a call, its sender gets an error.
FinishForward ==
  /\ callback # None
  /\ callback.queue = "forward"
  /\ LET m == callback.item.msg
     IN outbox' = CASE Dest[m] \in Conns -> SendTo(Dest[m], m)
                    [] Dest[m] \notin Conns /\ m \in Calls ->
                         SendTo(callback.item.conn, ErrorReply(m))
                    [] OTHER -> outbox
  /\ ReturnFromCallback

\* MUTANT: the connection the message was written to is not skipped.
AllRecipients(item) == Watching[item.msg]

\* The lists of recipients of all match rules, one after the other and less
\* skip_connection: a connection gets a copy for each of its rules that fits.
Recipients(item) == [c \in Conns |-> IF c = item.conn THEN 0 ELSE Watching[item.msg][c]]

\* bus_dbus_impl_dispatch_message_by_rule_idle_cb after the unlock.
FinishDispatch ==
  /\ callback # None
  /\ callback.queue = "dispatch"
  /\ outbox' = SendCopies(Recipients(callback.item), callback.item.msg)
  /\ ReturnFromCallback

----------------------------------------------------------------------------
Step(t) == AppendToQueue(t) \/ AttachSource(t)

Callback ==
  \/ \E q \in Queues : StartCallback(q)
  \/ FinishForward
  \/ FinishDispatch

Next ==
  \/ \E c \in Conns : FilterIncoming(c)
  \/ \E c \in Conns : FilterOutgoing(c)
  \/ EmitSignal
  \/ \E t \in Threads : Step(t)
  \/ Callback

Spec == Init /\ [][Next]_vars

(***************************************************************************)
(* Every GDBus thread and the main loop keep running: no action below      *)
(* waits for anything but its own guard.                                   *)
(***************************************************************************)
Fairness ==
  /\ \A c \in Conns : WF_vars(FilterIncoming(c)) /\ WF_vars(FilterOutgoing(c))
  /\ WF_vars(EmitSignal)
  /\ \A t \in Threads : WF_vars(Step(t))
  /\ WF_vars(Callback)

FairSpec == Spec /\ Fairness

----------------------------------------------------------------------------
(* What the bus promises.                                                  *)

\* What is written to c because of its address: the messages sent to c, and
\* the errors for the calls of c that nobody can take.
Addressed(c) ==
  {m \in Msgs : Dest[m] = c}
  \cup {ErrorReply(m) : m \in {n \in Calls : n \in Sent(c) /\ Dest[n] = Absent}}

\* What the match rules get to see: all but what nobody can take, and the
\* errors in its place.
Dispatched ==
  {m \in Msgs : Dest[m] # Absent} \cup {ErrorReply(m) : m \in {n \in Calls : Dest[n] = Absent}}

\* A connection gets what is addressed to it once, rules or not, and else a
\* copy for each of its rules that fits.
Expected ==
  [c \in Conns |-> [m \in Msgs \cup Replies |->
     IF m \in Addressed(c) THEN 1 ELSE IF m \in Dispatched THEN Watching[m][c] ELSE 0]]

SentBefore(m, n) ==
  \E t \in Threads : \E i, j \in DOMAIN Outgoing[t] :
    i < j /\ Outgoing[t][i] = m /\ Outgoing[t][j] = n

Earlier ==
  [m \in Msgs \cup Replies |-> {n \in Msgs : SentBefore(n, m) /\ Dest[n] = Dest[m]}]

Promise == INSTANCE BusDelivery

(***************************************************************************)
(* The queues implement the bus: every message the code accepts reaches    *)
(* the connections it is meant for, as often as it should and in its       *)
(* sender's order, through the two queues, the idle sources and the skip   *)
(* and DISPATCHED marks that keep copies from being copied again.          *)
(***************************************************************************)
Delivery == Promise!Spec

----------------------------------------------------------------------------
TypeOK ==
  /\ inbox \in [Threads -> Seq(Msgs)]
  /\ outbox \in [Conns -> Seq(Msgs \cup Replies)]
  /\ wire \in [Conns -> Seq(Msgs \cup Replies)]
  /\ pc \in [Threads -> {"idle", "append", "wake"}]
  /\ job \in [Threads -> Jobs \cup {None}]
  /\ \A t \in Threads : pc[t] = "idle" <=> job[t] = None
  /\ \A t \in Threads : job[t] # None /\ job[t].write => t \in Conns
  /\ queue \in [Queues -> Seq(Items)]
  /\ sources \in [Queues -> Nat]
  /\ callback \in Callbacks \cup {None}
  /\ tagged \subseteq Msgs \cup Replies

(***************************************************************************)
(* Who is responsible for draining a queue: a thread that found it empty   *)
(* and has not attached the source yet, or the attached source, unless it  *)
(* is running and is about to remove itself.                               *)
(***************************************************************************)
Waking(t, q) == pc[t] = "wake" /\ job[t].queue = q

Leaving(q) ==
  IF callback # None /\ callback.queue = q /\ ~callback.more THEN 1 ELSE 0

Lasting(q) == sources[q] - Leaving(q)

DrainerOf(q) ==
  /\ \A t, u \in Threads : Waking(t, q) /\ Waking(u, q) => t = u
  /\ (\E t \in Threads : Waking(t, q)) => Lasting(q) = 0
  /\ Lasting(q) \in {0, 1}
  /\ queue[q] # <<>> <=> Lasting(q) = 1 \/ \E t \in Threads : Waking(t, q)

(***************************************************************************)
(* A non-empty queue has exactly one party responsible for it and an empty *)
(* queue has none: no message is left behind without a source (a lost      *)
(* wake-up) and no second source is ever attached, although the source is  *)
(* attached and removed outside the lock that guards the queue.            *)
(***************************************************************************)
OneDrainer == \A q \in Queues : DrainerOf(q)

(***************************************************************************)
(* Nothing is lost, doubled or overtaken on the way between two            *)
(* connections: what d has received from s, what is on its way, from the   *)
(* writer back to the reader, and what s has still to send, put together,  *)
(* are what s sent to d.                                                   *)
(***************************************************************************)
InHand(t, q) ==
  IF pc[t] = "append" /\ job[t].queue = q THEN <<job[t].item.msg>> ELSE <<>>

BeingWritten(d) ==
  IF job[d] # None /\ job[d].write THEN <<job[d].item.msg>> ELSE <<>>

InCallback(q) ==
  IF callback # None /\ callback.queue = q THEN <<callback.item.msg>> ELSE <<>>

QueuedMsgs(q) == [i \in 1..Len(queue[q]) |-> queue[q][i].msg]

\* The members of ms that are in G, in their order.
Among(G, ms) ==
  LET among[i \in 0..Len(ms)] ==
        IF i = 0 THEN <<>>
        ELSE IF ms[i] \in G THEN Append(among[i - 1], ms[i]) ELSE among[i - 1]
  IN among[Len(ms)]

Between(s, d, ms) == Among({m \in Sent(s) : Dest[m] = d}, ms)

Conservation ==
  \A s \in Threads, d \in Conns :
    Between(s, d, wire[d] \o BeingWritten(d) \o outbox[d] \o InCallback("forward")
                  \o QueuedMsgs("forward") \o InHand(s, "forward") \o inbox[s])
      = Between(s, d, Outgoing[s])

\* A source that the loop may run finds a message: the g_return_val_if_fail
\* at the head of both idle callbacks never fails.
SourceHasWork ==
  \A q \in Queues : callback = None /\ sources[q] > 0 => queue[q] # <<>>
=============================================================================
