------------------------ MODULE MessageRouter_proofs ------------------------
(***************************************************************************)
(* Three things about MessageRouter, for any number of connections and     *)
(* messages and whatever the match rules ask for.                          *)
(*                                                                         *)
(* The queue discipline: a queue that is not empty has one party that will *)
(* drain it.                                                               *)
(*                                                                         *)
(* Conservation: the way from one connection to another is cut into seven  *)
(* segments, and a step moves the head of one to the end of the next.      *)
(*                                                                         *)
(* The implementation of BusDelivery: the copies that the match rules make *)
(* follow the message they are copied from, so the way from a sender to    *)
(* any connection that sees the message has ten places, all in the         *)
(* sender's order, and what is written next is the first of them.  All     *)
(* copies for a connection are made at once, so it has as many of them,    *)
(* received or on their last way, as it is meant to get, or none.          *)
(***************************************************************************)
EXTENDS MessageRouter, WellFoundedInduction, SequenceTheorems, FiniteSetTheorems, TLAPS

LEMMA HeadTail ==
  ASSUME NEW S, NEW s \in Seq(S), s # <<>>
  PROVE  Head(s) \in S /\ Tail(s) \in Seq(S)
  OBVIOUS

LEMMA AppendNotEmpty ==
  ASSUME NEW S, NEW s \in Seq(S), NEW e \in S
  PROVE  Append(s, e) # <<>>
<1>1. Len(Append(s, e)) = Len(s) + 1 /\ Len(s) \in Nat
  OBVIOUS
<1> QED BY <1>1

----------------------------------------------------------------------------
(* The two helpers through which threads enter and leave the enqueueing    *)
(* functions.                                                              *)

JobsOK ==
  /\ pc \in [Threads -> {"idle", "append", "wake"}]
  /\ job \in [Threads -> Jobs \cup {None}]
  /\ \A t \in Threads : pc[t] = "idle" <=> job[t] = None
  /\ \A t \in Threads : job[t] # None /\ job[t].write => t \in Conns

LEMMA EnqueueTyped ==
  ASSUME RouterAssumption, JobsOK,
         NEW t \in Threads, NEW q \in Queues, NEW i \in Items, NEW b \in BOOLEAN,
         b => t \in Conns, Enqueue(t, q, i, b)
  PROVE  JobsOK'
<1> DEFINE new == [queue |-> q, item |-> i, write |-> b]
<1>1. new \in Jobs /\ new # None
  BY DEF Jobs, RouterAssumption
<1>2. new.write = b
  OBVIOUS
<1>3. pc' = [pc EXCEPT ![t] = "append"] /\ job' = [job EXCEPT ![t] = new]
  BY DEF Enqueue
<1> HIDE DEF new
<1> QED BY <1>1, <1>2, <1>3 DEF JobsOK

LEMMA LeaveTyped ==
  ASSUME RouterAssumption, JobsOK, wire \in [Conns -> Seq(Msgs \cup Replies)],
         NEW t \in Threads, pc[t] # "idle", Leave(t)
  PROVE  JobsOK' /\ wire' \in [Conns -> Seq(Msgs \cup Replies)]
<1>1. job[t] \in Jobs
  BY DEF JobsOK
<1>2. job[t].item.msg \in Msgs \cup Replies
  BY <1>1 DEF Jobs, Items
<1>3. job[t].write => t \in Conns
  BY <1>1 DEF JobsOK, RouterAssumption
<1>4. JobsOK'
  BY DEF JobsOK, Leave
<1>5. wire' \in [Conns -> Seq(Msgs \cup Replies)]
  BY <1>2, <1>3 DEF Leave
<1> QED BY <1>4, <1>5

----------------------------------------------------------------------------
\* What a connection is sent by the callback for the dispatch queue.
Copies(m, n) == [i \in 1..n |-> m]

LEMMA SendCopiesIs ==
  ASSUME NEW copies, NEW m, outbox' = SendCopies(copies, m), NEW c \in Conns
  PROVE  outbox'[c] = outbox[c] \o Copies(m, copies[c])
BY DEF SendCopies, Copies

LEMMA CopiesTyped ==
  ASSUME NEW S, NEW m \in S, NEW n \in Nat, NEW s \in Seq(S)
  PROVE  /\ Copies(m, n) \in Seq(S) /\ Len(Copies(m, n)) = n
         /\ s \o Copies(m, n) \in Seq(S) /\ Len(s \o Copies(m, n)) = Len(s) + n
<1>1. Copies(m, n) \in Seq(S) /\ Len(Copies(m, n)) = n
  BY DEF Copies
<1> DEFINE t == Copies(m, n)
<1>2. t \in Seq(S) /\ Len(t) = n
  BY <1>1
<1> HIDE DEF t
<1>3. s \o t \in Seq(S) /\ Len(s \o t) = Len(s) + n
  BY <1>2
<1> QED BY <1>1, <1>3 DEF t

LEMMA CopiesEntries ==
  ASSUME NEW S, NEW m \in S, NEW n \in Nat, NEW s \in Seq(S)
  PROVE  /\ DOMAIN (s \o Copies(m, n)) = 1..(Len(s) + n)
         /\ \A i \in 1..Len(s) : (s \o Copies(m, n))[i] = s[i]
         /\ \A i \in (Len(s) + 1)..(Len(s) + n) : (s \o Copies(m, n))[i] = m
<1> DEFINE t == Copies(m, n)
<1>1. t \in Seq(S) /\ Len(t) = n /\ \A i \in 1..n : t[i] = m
  BY CopiesTyped DEF Copies
<1> HIDE DEF t
<1>2. /\ DOMAIN (s \o t) = 1..(Len(s) + n)
      /\ \A i \in 1..Len(s) : (s \o t)[i] = s[i]
      /\ \A i \in (Len(s) + 1)..(Len(s) + n) : (s \o t)[i] = t[i - Len(s)]
  BY <1>1
<1>3. \A i \in (Len(s) + 1)..(Len(s) + n) : i - Len(s) \in 1..n
  OBVIOUS
<1> QED BY <1>1, <1>2, <1>3 DEF t

LEMMA NoCopies ==
  ASSUME NEW S, NEW s \in Seq(S), NEW m
  PROVE  s \o Copies(m, 0) = s
<1>1. Copies(m, 0) = <<>>
  BY DEF Copies
<1> QED BY <1>1

LEMMA CopiesGrow ==
  ASSUME NEW m, NEW n \in Nat
  PROVE  /\ Copies(m, n + 1) = Append(Copies(m, n), m)
         /\ Copies(m, 0) = <<>>
<1> DEFINE S == {m}
           new == Copies(m, n + 1)
           c == Copies(m, n)
           old == Append(c, m)
<1>1. new \in Seq(S) /\ Len(new) = n + 1 /\ \A i \in 1..(n + 1) : new[i] = m
  BY DEF Copies
<1>2. c \in Seq(S) /\ Len(c) = n /\ \A i \in 1..n : c[i] = m
  BY DEF Copies
<1>3. m \in S
  OBVIOUS
<1> HIDE DEF S, new, c
<1>4. /\ old \in Seq(S) /\ Len(old) = n + 1
      /\ \A i \in 1..(n + 1) : old[i] = IF i = n + 1 THEN m ELSE c[i]
  BY <1>2, <1>3
<1>5. \A i \in 1..(n + 1) : i # n + 1 => i \in 1..n
  OBVIOUS
<1> HIDE DEF old
<1>6. \A i \in 1..Len(old) : new[i] = old[i]
  BY <1>1, <1>2, <1>4, <1>5
<1>7. new = old
  BY <1>1, <1>4, <1>6, SeqEqual
<1> QED BY <1>7 DEF new, old, c, Copies

LEMMA RecipientsTyped ==
  ASSUME RouterAssumption, TypeOK, callback # None, NEW c \in Conns
  PROVE  Recipients(callback.item)[c] \in Nat
<1>1. callback.item.msg \in Msgs \cup Replies
  BY DEF TypeOK, Callbacks, Items
<1>2. Watching[callback.item.msg][c] \in Nat
  BY <1>1 DEF RouterAssumption
<1> QED BY <1>2 DEF Recipients

\* Every step keeps the types; the sources never go below zero because the
\* queue discipline holds.
LEMMA TypeStep == RouterAssumption /\ TypeOK /\ OneDrainer /\ [Next]_vars => TypeOK'
<1> SUFFICES ASSUME RouterAssumption, TypeOK, OneDrainer, [Next]_vars PROVE TypeOK'
  OBVIOUS
<1>0. JobsOK
  BY DEF TypeOK, JobsOK
<1>1. ASSUME NEW t \in Threads, NEW m \in Msgs \cup Replies, NEW s \in Threads \cup {None},
             NEW b \in BOOLEAN, b => t \in Conns, DispatchByRule(t, m, s, b)
      PROVE  JobsOK' /\ tagged' \subseteq Msgs \cup Replies
  <2>1. [msg |-> m, conn |-> s] \in Items
    BY DEF Items
  <2>2. JobsOK'
    BY <1>0, <1>1, <2>1, EnqueueTyped DEF DispatchByRule, Queues
  <2> QED BY <1>1, <2>2 DEF DispatchByRule, TypeOK
<1>2. ASSUME NEW t \in Threads, inbox[t] # <<>>,
             inbox' = [inbox EXCEPT ![t] = Tail(@)],
             LET m == Head(inbox[t])
             IN IF ForwardedTo(m)
                THEN Enqueue(t, "forward", [msg |-> m, conn |-> t], FALSE) /\ UNCHANGED tagged
                ELSE DispatchByRule(t, m, None, FALSE),
             UNCHANGED <<outbox, wire, queue, sources, callback>>
      PROVE  TypeOK'
  <2> DEFINE m == Head(inbox[t])
  <2>1. m \in Msgs /\ Tail(inbox[t]) \in Seq(Msgs)
    BY <1>2, HeadTail DEF TypeOK
  <2>2. inbox' \in [Threads -> Seq(Msgs)]
    BY <1>2, <2>1 DEF TypeOK
  <2>3. CASE ForwardedTo(m)
    <3>1. [msg |-> m, conn |-> t] \in Items
      BY <2>1 DEF Items
    <3>2. Enqueue(t, "forward", [msg |-> m, conn |-> t], FALSE)
      BY <1>2, <2>3
    <3>3. JobsOK'
      BY <1>0, <3>1, <3>2, EnqueueTyped DEF Queues
    <3>4. tagged' = tagged
      BY <1>2, <2>3
    <3> QED BY <1>2, <2>2, <3>3, <3>4 DEF TypeOK, JobsOK
  <2>4. CASE ~ForwardedTo(m)
    <3>1. DispatchByRule(t, m, None, FALSE)
      BY <1>2, <2>4
    <3>2. JobsOK' /\ tagged' \subseteq Msgs \cup Replies
      BY <1>1, <2>1, <3>1
    <3> QED BY <1>2, <2>2, <3>2 DEF TypeOK, JobsOK
  <2> QED BY <2>3, <2>4
<1>3. ASSUME NEW c \in Conns, FilterIncoming(c) PROVE TypeOK'
  BY <1>2, <1>3 DEF FilterIncoming, Threads
<1>4. ASSUME EmitSignal PROVE TypeOK'
  BY <1>2, <1>4 DEF EmitSignal, Threads
<1>5. ASSUME NEW c \in Conns, FilterOutgoing(c) PROVE TypeOK'
  <2> DEFINE m == Head(outbox[c])
  <2>1. m \in Msgs \cup Replies /\ Tail(outbox[c]) \in Seq(Msgs \cup Replies)
    BY <1>5, HeadTail DEF FilterOutgoing, TypeOK
  <2>2. outbox' \in [Conns -> Seq(Msgs \cup Replies)]
    BY <1>5, <2>1 DEF FilterOutgoing, TypeOK
  <2>3. CASE DispatchByRule(c, m, c, TRUE) /\ UNCHANGED wire
    <3>1. JobsOK' /\ tagged' \subseteq Msgs \cup Replies
      BY <1>1, <2>1, <2>3 DEF Threads
    <3> QED BY <1>5, <2>2, <2>3, <3>1 DEF FilterOutgoing, TypeOK, JobsOK
  <2>4. CASE wire' = [wire EXCEPT ![c] = Append(@, m)] /\ UNCHANGED <<pc, job, tagged>>
    <3>1. wire' \in [Conns -> Seq(Msgs \cup Replies)]
      BY <2>1, <2>4 DEF TypeOK
    <3> QED BY <1>5, <2>2, <2>4, <3>1 DEF FilterOutgoing, TypeOK
  <2> QED BY <1>5, <2>3, <2>4 DEF FilterOutgoing
<1>6. ASSUME NEW t \in Threads, AppendToQueue(t) PROVE TypeOK'
  <2>1. job[t] \in Jobs
    BY <1>0, <1>6 DEF AppendToQueue, JobsOK
  <2>2. queue' \in [Queues -> Seq(Items)]
    BY <1>6, <2>1 DEF AppendToQueue, Appended, Jobs, TypeOK
  <2>3. JobsOK' /\ wire' \in [Conns -> Seq(Msgs \cup Replies)]
    <3>1. CASE Leave(t)
      BY <1>0, <1>6, <3>1, LeaveTyped DEF AppendToQueue, TypeOK
    <3>2. CASE pc' = [pc EXCEPT ![t] = "wake"] /\ UNCHANGED <<job, wire>>
      BY <1>0, <1>6, <3>2 DEF AppendToQueue, JobsOK, TypeOK
    <3> QED BY <1>6, <3>1, <3>2 DEF AppendToQueue
  <2> QED BY <1>6, <2>2, <2>3 DEF AppendToQueue, TypeOK, JobsOK
<1>7. ASSUME NEW t \in Threads, AttachSource(t) PROVE TypeOK'
  <2>1. JobsOK' /\ wire' \in [Conns -> Seq(Msgs \cup Replies)]
    BY <1>0, <1>7, LeaveTyped DEF AttachSource, TypeOK
  <2>2. sources' \in [Queues -> Nat]
    <3>1. job[t].queue \in Queues
      BY <1>0, <1>7 DEF AttachSource, JobsOK, Jobs
    <3>2. sources[job[t].queue] + 1 \in Nat
      BY <3>1 DEF TypeOK
    <3> QED BY <1>7, <3>1, <3>2 DEF AttachSource, TypeOK
  <2> QED BY <1>7, <2>1, <2>2 DEF AttachSource, TypeOK, JobsOK
<1>8. ASSUME NEW q \in Queues, StartCallback(q) PROVE TypeOK'
  <2>1. Head(queue[q]) \in Items /\ Tail(queue[q]) \in Seq(Items)
    BY <1>8, HeadTail DEF StartCallback, TypeOK
  <2>2. callback' \in Callbacks
    BY <1>8, <2>1 DEF StartCallback, HasMessage, Callbacks
  <2>3. queue' \in [Queues -> Seq(Items)]
    BY <1>8, <2>1 DEF StartCallback, TypeOK
  <2> QED BY <1>8, <2>2, <2>3 DEF StartCallback, TypeOK
<1>9. ASSUME callback # None, ReturnFromCallback,
             outbox' \in [Conns -> Seq(Msgs \cup Replies)]
      PROVE  TypeOK'
  <2>1. callback.queue \in Queues /\ callback.more \in BOOLEAN
    BY <1>9 DEF TypeOK, Callbacks
  <2>2. ~callback.more => sources[callback.queue] - 1 \in Nat
    <3>1. sources[callback.queue] \in Nat
      BY <2>1 DEF TypeOK
    <3>2. ~callback.more => Leaving(callback.queue) = 1
      BY <1>9 DEF Leaving
    <3>3. Lasting(callback.queue) \in {0, 1}
      BY <2>1 DEF OneDrainer, DrainerOf
    <3> QED BY <3>1, <3>2, <3>3 DEF Lasting
  <2>3. sources' \in [Queues -> Nat]
    BY <1>9, <2>1, <2>2 DEF ReturnFromCallback, TypeOK
  <2> QED BY <1>9, <2>3 DEF ReturnFromCallback, TypeOK
<1>10. ASSUME FinishForward PROVE TypeOK'
  <2>1. callback.item.msg \in Msgs \cup Replies
    BY <1>10 DEF FinishForward, Items, TypeOK, Callbacks
  <2>2. callback.item.msg \in Calls => ErrorReply(callback.item.msg) \in Replies
    BY DEF Replies
  <2>3. outbox' \in [Conns -> Seq(Msgs \cup Replies)]
    BY <1>10, <2>1, <2>2 DEF FinishForward, SendTo, TypeOK
  <2> QED BY <1>9, <1>10, <2>3 DEF FinishForward
<1>11. ASSUME FinishDispatch PROVE TypeOK'
  <2>1. callback.item.msg \in Msgs \cup Replies
    BY <1>11 DEF FinishDispatch, Items, TypeOK, Callbacks
  <2>2. outbox' \in [Conns -> Seq(Msgs \cup Replies)]
    <3>1. \A c \in Conns : outbox'[c] = outbox[c] \o Copies(callback.item.msg, Recipients(callback.item)[c])
      BY <1>11, SendCopiesIs DEF FinishDispatch
    <3>2. \A c \in Conns : outbox'[c] \in Seq(Msgs \cup Replies)
      <4> SUFFICES ASSUME NEW c \in Conns PROVE outbox'[c] \in Seq(Msgs \cup Replies)
        OBVIOUS
      <4> DEFINE n == Recipients(callback.item)[c]
                 m == callback.item.msg
                 o == outbox[c]
                 S == Msgs \cup Replies
      <4>1. n \in Nat
        BY <1>11, RecipientsTyped DEF FinishDispatch
      <4>2. o \in Seq(S) /\ m \in S
        BY <2>1 DEF TypeOK
      <4>3. outbox'[c] = o \o Copies(m, n)
        BY <3>1
      <4> HIDE DEF n, m, o, S
      <4>4. o \o Copies(m, n) \in Seq(S)
        BY <4>1, <4>2, CopiesTyped
      <4> QED BY <4>3, <4>4 DEF S
    <3>3. outbox' = [c \in Conns |-> outbox'[c]]
      BY <1>11 DEF FinishDispatch, SendCopies
    <3> QED BY <3>2, <3>3
  <2> QED BY <1>9, <1>11, <2>2 DEF FinishDispatch
<1>12. ASSUME UNCHANGED vars PROVE TypeOK'
  BY <1>12 DEF vars, TypeOK
<1> QED
  BY <1>3, <1>4, <1>5, <1>6, <1>7, <1>8, <1>10, <1>11, <1>12
  DEF Next, Step, Callback

\* A thread that leaves the enqueueing functions, or enters them, wakes nobody.
LEMMA DrainerStep ==
  RouterAssumption /\ TypeOK /\ OneDrainer /\ [Next]_vars => OneDrainer'
<1> SUFFICES ASSUME RouterAssumption, TypeOK, OneDrainer, [Next]_vars PROVE OneDrainer'
  OBVIOUS
<1>0. /\ \A t \in Threads : pc[t] # "idle" => job[t] \in Jobs /\ job[t].queue \in Queues
      /\ callback # None => callback.queue \in Queues /\ callback.more \in BOOLEAN
  BY DEF TypeOK, Jobs, Callbacks
<1>1. ASSUME NEW t \in Threads, pc[t] = "idle", pc' = [pc EXCEPT ![t] = "append"],
             \A u \in Threads \ {t} : job'[u] = job[u],
             UNCHANGED <<queue, sources, callback>>
      PROVE  OneDrainer'
  <2>1. \A u \in Threads, q \in Queues : Waking(u, q)' <=> Waking(u, q)
    BY <1>1 DEF Waking, TypeOK
  <2> QED BY <1>1, <2>1 DEF OneDrainer, DrainerOf, Lasting, Leaving
<1>2. ASSUME NEW t \in Threads, NEW q, NEW i, NEW b, pc[t] = "idle", Enqueue(t, q, i, b),
             UNCHANGED <<queue, sources, callback>>
      PROVE  OneDrainer'
  BY <1>1, <1>2 DEF Enqueue, TypeOK
<1>3. ASSUME NEW c \in Conns, FilterIncoming(c) PROVE OneDrainer'
  BY <1>2, <1>3 DEF FilterIncoming, DispatchByRule, Threads
<1>4. ASSUME NEW c \in Conns, FilterOutgoing(c) PROVE OneDrainer'
  <2>1. CASE DispatchByRule(c, Head(outbox[c]), c, TRUE)
    BY <1>2, <1>4, <2>1 DEF FilterOutgoing, DispatchByRule, Threads
  <2>2. CASE UNCHANGED <<pc, job>>
    BY <1>4, <2>2 DEF FilterOutgoing, OneDrainer, DrainerOf, Lasting, Leaving, Waking
  <2> QED BY <1>4, <2>1, <2>2 DEF FilterOutgoing
<1>5. ASSUME EmitSignal PROVE OneDrainer'
  BY <1>2, <1>5 DEF EmitSignal, DispatchByRule, Threads
<1>6. ASSUME NEW t \in Threads, AppendToQueue(t) PROVE OneDrainer'
  <2>1. PICK q \in Queues : q = job[t].queue
    BY <1>0, <1>6 DEF AppendToQueue
  <2>2. /\ queue'[q] # <<>>
        /\ \A p \in Queues \ {q} : queue'[p] = queue[p]
    <3>1. job[t].item \in Items
      BY <1>0, <1>6 DEF AppendToQueue, Jobs
    <3>2. queue[q] \in Seq(Items)
      BY <2>1 DEF TypeOK
    <3>3. Append(queue[q], job[t].item) # <<>>
      BY <3>1, <3>2, AppendNotEmpty
    <3>4. queue' = [queue EXCEPT ![q] = Append(queue[q], job[t].item)]
      BY <1>6, <2>1 DEF AppendToQueue, Appended
    <3> QED BY <2>1, <3>3, <3>4 DEF TypeOK
  <2>3. \A p \in Queues : Lasting(p)' = Lasting(p)
    BY <1>6 DEF AppendToQueue, Lasting, Leaving
  <2>4. CASE queue[q] # <<>>
    <3>1. \A u \in Threads, p \in Queues : Waking(u, p)' <=> Waking(u, p)
      BY <1>6, <2>1, <2>4 DEF AppendToQueue, IsRunning, Leave, Waking, TypeOK
    <3> QED BY <2>2, <2>3, <2>4, <3>1 DEF OneDrainer, DrainerOf
  <2>5. CASE queue[q] = <<>>
    <3>1. \A u \in Threads, p \in Queues :
             Waking(u, p)' <=> Waking(u, p) \/ (u = t /\ p = q)
      BY <1>6, <2>1, <2>5 DEF AppendToQueue, IsRunning, Waking, TypeOK
    <3>2. Lasting(q) = 0 /\ \A u \in Threads : ~Waking(u, q)
      BY <2>1, <2>5 DEF OneDrainer, DrainerOf
    <3> QED BY <2>1, <2>2, <2>3, <3>1, <3>2 DEF OneDrainer, DrainerOf
  <2> QED BY <2>4, <2>5
<1>7. ASSUME NEW t \in Threads, AttachSource(t) PROVE OneDrainer'
  <2>1. PICK q \in Queues : q = job[t].queue /\ Waking(t, q)
    <3>1. pc[t] = "wake" /\ job[t].queue \in Queues
      BY <1>0, <1>7 DEF AttachSource
    <3> QED BY <3>1 DEF Waking
  <2>2. \A u \in Threads, p \in Queues : Waking(u, p)' <=> Waking(u, p) /\ u # t
    BY <1>7 DEF AttachSource, Leave, Waking, TypeOK
  <2>3. Lasting(q) = 0 /\ \A u \in Threads : Waking(u, q) => u = t
    BY <2>1 DEF OneDrainer, DrainerOf
  <2>4. \A p \in Queues : Waking(t, p) => p = q
    BY <2>1 DEF Waking
  <2>5. /\ Lasting(q)' = 1
        /\ \A p \in Queues \ {q} : Lasting(p)' = Lasting(p)
    <3>1. \A p \in Queues : sources[p] \in Nat /\ Leaving(p) \in {0, 1}
      BY DEF TypeOK, Leaving
    <3>2. \A p \in Queues : sources'[p] = IF p = q THEN sources[p] + 1 ELSE sources[p]
      BY <1>7, <2>1 DEF AttachSource, TypeOK
    <3>3. \A p \in Queues : Leaving(p)' = Leaving(p)
      BY <1>7 DEF AttachSource, Leaving
    <3>4. sources[q] = Leaving(q)
      BY <2>1, <2>3, <3>1 DEF Lasting
    <3>5. Lasting(q)' = 1
      BY <2>1, <3>1, <3>2, <3>3, <3>4 DEF Lasting
    <3>6. ASSUME NEW p \in Queues \ {q} PROVE Lasting(p)' = Lasting(p)
      BY <3>2, <3>3 DEF Lasting
    <3> QED BY <3>5, <3>6
  <2>6. UNCHANGED queue
    BY <1>7 DEF AttachSource
  <2>7. queue[q] # <<>>
    BY <2>1 DEF OneDrainer, DrainerOf
  <2> SUFFICES ASSUME NEW p \in Queues PROVE DrainerOf(p)'
    BY DEF OneDrainer
  <2>8. CASE p = q
    <3>1. Lasting(p)' = 1
      BY <2>5, <2>8
    <3>2. \A u \in Threads : ~Waking(u, p)'
      BY <2>2, <2>3, <2>8
    <3>3. queue'[p] # <<>>
      BY <2>6, <2>7, <2>8
    <3> QED BY <3>1, <3>2, <3>3 DEF DrainerOf
  <2>9. CASE p # q
    <3>1. \A u \in Threads : Waking(u, p)' <=> Waking(u, p)
      BY <2>2, <2>4, <2>9
    <3> QED BY <2>5, <2>6, <2>9, <3>1 DEF OneDrainer, DrainerOf
  <2> QED BY <2>8, <2>9
<1>8. ASSUME NEW q \in Queues, StartCallback(q) PROVE OneDrainer'
  <2>1. \A u \in Threads, p \in Queues : Waking(u, p)' <=> Waking(u, p)
    BY <1>8 DEF StartCallback, Waking
  <2>2. Lasting(q) = 1 /\ \A u \in Threads : ~Waking(u, q)
    BY <1>8 DEF StartCallback, OneDrainer, DrainerOf, Lasting, Leaving, TypeOK
  <2>3. queue'[q] = Tail(queue[q]) /\ \A p \in Queues \ {q} : queue'[p] = queue[p]
    BY <1>8 DEF StartCallback, TypeOK
  <2>4. callback' # None /\ callback'.queue = q /\ (callback'.more <=> Tail(queue[q]) # <<>>)
    <3>1. Head(queue[q]) \in Items
      BY <1>8, HeadTail DEF StartCallback, TypeOK
    <3>2. callback' \in Callbacks
      BY <1>8, <3>1 DEF StartCallback, HasMessage, Callbacks
    <3> QED BY <1>8, <3>2 DEF StartCallback, HasMessage, RouterAssumption
  <2>5. /\ Lasting(q)' = IF Tail(queue[q]) # <<>> THEN 1 ELSE 0
        /\ \A p \in Queues \ {q} : Lasting(p)' = Lasting(p)
    BY <1>8, <2>2, <2>4 DEF StartCallback, Lasting, Leaving, TypeOK
  <2> SUFFICES ASSUME NEW p \in Queues PROVE DrainerOf(p)'
    BY DEF OneDrainer
  <2>6. CASE p = q
    <3>1. Lasting(p)' = IF Tail(queue[p]) # <<>> THEN 1 ELSE 0
      BY <2>5, <2>6
    <3>2. \A u \in Threads : ~Waking(u, p)'
      BY <2>1, <2>2, <2>6
    <3>3. queue'[p] = Tail(queue[p])
      BY <2>3, <2>6
    <3> QED BY <3>1, <3>2, <3>3 DEF DrainerOf
  <2>7. CASE p # q
    BY <2>1, <2>3, <2>5, <2>7 DEF OneDrainer, DrainerOf
  <2> QED BY <2>6, <2>7
<1>9. ASSUME callback # None, ReturnFromCallback PROVE OneDrainer'
  <2>1. \A u \in Threads, p \in Queues : Waking(u, p)' <=> Waking(u, p)
    BY <1>9 DEF ReturnFromCallback, Waking
  <2>2. \A p \in Queues : Lasting(p)' = Lasting(p)
    BY <1>0, <1>9 DEF ReturnFromCallback, Lasting, Leaving, TypeOK
  <2> QED BY <1>9, <2>1, <2>2 DEF ReturnFromCallback, OneDrainer, DrainerOf
<1>10. ASSUME UNCHANGED vars PROVE OneDrainer'
  BY <1>10 DEF vars, OneDrainer, DrainerOf, Lasting, Leaving, Waking
<1> QED
  BY <1>3, <1>4, <1>5, <1>6, <1>7, <1>8, <1>9, <1>10
  DEF Next, Step, Callback, FinishForward, FinishDispatch

----------------------------------------------------------------------------
LEMMA InitHolds == RouterAssumption /\ Init => TypeOK /\ OneDrainer
  BY DEF RouterAssumption, Init, TypeOK, OneDrainer, DrainerOf, Lasting, Leaving, Waking, Queues

\* A non-empty queue is always looked after by exactly one source or one
\* thread about to attach it, for any number of connections and messages.
THEOREM QueueDiscipline == Spec => [](TypeOK /\ OneDrainer)
<1>1. Init => TypeOK /\ OneDrainer
  BY InitHolds, RouterAssumption
<1>2. TypeOK /\ OneDrainer /\ [Next]_vars => (TypeOK /\ OneDrainer)'
  BY TypeStep, DrainerStep, RouterAssumption
<1> QED BY <1>1, <1>2, PTL DEF Spec

\* Threads, queues and callbacks keep their shape; a thread outside of the
\* enqueueing functions has nothing left to enqueue.
THEOREM TypeCorrect == Spec => []TypeOK
BY QueueDiscipline, PTL

\* The idle callbacks never meet an empty queue: the g_return_val_if_fail at
\* their head is never taken.
THEOREM CallbackHasMessage == Spec => []SourceHasWork
<1>1. TypeOK /\ OneDrainer => SourceHasWork
  BY DEF TypeOK, OneDrainer, DrainerOf, SourceHasWork, Lasting, Leaving
<1> QED BY <1>1, QueueDiscipline, PTL

----------------------------------------------------------------------------
(* Among, by induction over the length of a sequence.                      *)

LEMMA Smallest ==
  ASSUME NEW A \in SUBSET Nat, A # {}
  PROVE  \E k \in A : \A m \in A : k <= m
<1> DEFINE R == OpToRel(<, Nat)
<1>1. IsWellFoundedOn(R, Nat)
  BY NatLessThanWellFounded
<1>2. PICK x \in A : \A y \in A : ~ (<<y, x>> \in R)
  <2> HIDE DEF R
  <2> QED BY <1>1, WFMin
<1>3. \A y \in A : y \in Nat /\ x \in Nat /\ (<<y, x>> \in R <=> y < x)
  BY DEF OpToRel
<1> HIDE DEF R
<1>4. ASSUME NEW m \in A PROVE x <= m
  <2>1. ~(m < x) /\ m \in Nat /\ x \in Nat
    BY <1>2, <1>3
  <2> QED BY <2>1
<1> QED BY <1>4

LEMMA Induction ==
  ASSUME NEW A \in SUBSET Nat, 0 \in A, \A n \in A : n + 1 \in A
  PROVE  A = Nat
<1>1. SUFFICES ASSUME Nat \ A # {} PROVE FALSE
  OBVIOUS
<1>2. PICK k \in Nat \ A : \A m \in Nat \ A : k <= m
  BY <1>1, Smallest
<1>3. k # 0 /\ k - 1 \in Nat /\ k - 1 \in A
  BY <1>2
<1> QED BY <1>3

IsAmong(f, G, ms, n) ==
  f = [i \in 0..n |-> IF i = 0 THEN <<>>
                      ELSE IF ms[i] \in G THEN Append(f[i - 1], ms[i]) ELSE f[i - 1]]

LEMMA AmongExists ==
  ASSUME NEW G, NEW ms, NEW n \in Nat
  PROVE  \E f : IsAmong(f, G, ms, n)
<1> DEFINE A == {k \in Nat : \E f : IsAmong(f, G, ms, k)}
<1>1. 0 \in A
  <2> DEFINE f == [i \in 0..0 |-> <<>>]
  <2>1. IsAmong(f, G, ms, 0)
    BY DEF IsAmong
  <2> QED BY <2>1
<1>2. ASSUME NEW k \in A PROVE k + 1 \in A
  <2>1. PICK f : IsAmong(f, G, ms, k)
    OBVIOUS
  <2> DEFINE x == IF ms[k + 1] \in G THEN Append(f[k], ms[k + 1]) ELSE f[k]
             g == [i \in 0..(k + 1) |-> IF i = k + 1 THEN x ELSE f[i]]
  <2>2. \A i \in 0..k : f[i] = IF i = 0 THEN <<>>
                      ELSE IF ms[i] \in G THEN Append(f[i - 1], ms[i]) ELSE f[i - 1]
    BY <2>1 DEF IsAmong
  <2>3. ASSUME NEW i \in 0..(k + 1)
        PROVE  g[i] = IF i = 0 THEN <<>>
                      ELSE IF ms[i] \in G THEN Append(g[i - 1], ms[i]) ELSE g[i - 1]
    <3>1. CASE i = k + 1
      <4>1. g[i] = x /\ g[i - 1] = f[k] /\ i # 0
        BY <3>1
      <4> HIDE DEF g
      <4> QED BY <3>1, <4>1
    <3>2. CASE i \in 0..k
      <4>1. g[i] = f[i] /\ (i # 0 => g[i - 1] = f[i - 1])
        BY <3>2
      <4> HIDE DEF g
      <4> QED BY <2>2, <3>2, <4>1
    <3> QED BY <3>1, <3>2
  <2>4. DOMAIN g = 0..(k+1) /\ g = [i \in 0..(k + 1) |-> g[i]]
    OBVIOUS
  <2>5. IsAmong(g, G, ms, k + 1)
    <3> HIDE DEF g
    <3> QED BY <2>3, <2>4 DEF IsAmong
  <2> QED BY <2>5
<1>3. A = Nat
  <2>1. A \in SUBSET Nat
    OBVIOUS
  <2> HIDE DEF A
  <2> QED BY <1>1, <1>2, <2>1, Induction
<1> QED BY <1>3

LEMMA AmongIs ==
  ASSUME NEW G, NEW S, NEW ms \in Seq(S)
  PROVE  \E f : IsAmong(f, G, ms, Len(ms)) /\ Among(G, ms) = f[Len(ms)]
<1> DEFINE f == CHOOSE f : IsAmong(f, G, ms, Len(ms))
<1>1. IsAmong(f, G, ms, Len(ms))
  BY AmongExists
<1>2. Among(G, ms) = f[Len(ms)]
  BY DEF Among, IsAmong
<1> QED BY <1>1, <1>2

\* Two of them agree where the sequences do.
LEMMA AmongAgree ==
  ASSUME NEW G, NEW ms, NEW ns, NEW k \in Nat, NEW n \in Nat, k <= n,
         \A i \in 1..k : ms[i] = ns[i],
         NEW f, IsAmong(f, G, ms, k), NEW g, IsAmong(g, G, ns, n)
  PROVE  f[k] = g[k]
<1> DEFINE A == {i \in Nat : i <= k => f[i] = g[i]}
<1>1. \A i \in 0..k : f[i] = IF i = 0 THEN <<>>
                      ELSE IF ms[i] \in G THEN Append(f[i - 1], ms[i]) ELSE f[i - 1]
  BY DEF IsAmong
<1>2. \A i \in 0..n : g[i] = IF i = 0 THEN <<>>
                      ELSE IF ns[i] \in G THEN Append(g[i - 1], ns[i]) ELSE g[i - 1]
  BY DEF IsAmong
<1>3. 0 \in A
  BY <1>1, <1>2
<1>4. ASSUME NEW i \in A PROVE i + 1 \in A
  <2>1. SUFFICES ASSUME i + 1 <= k PROVE f[i + 1] = g[i + 1]
    OBVIOUS
  <2>2. i \in Nat /\ f[i] = g[i] /\ ms[i + 1] = ns[i + 1] /\ (i + 1) - 1 = i /\ i + 1 # 0
    BY <2>1
  <2>3. f[i + 1] = IF ms[i + 1] \in G THEN Append(f[i], ms[i + 1]) ELSE f[i]
    BY <1>1, <2>1, <2>2
  <2>4. g[i + 1] = IF ns[i + 1] \in G THEN Append(g[i], ns[i + 1]) ELSE g[i]
    BY <1>2, <2>1, <2>2
  <2> QED BY <2>2, <2>3, <2>4
<1>5. A = Nat
  <2>1. A \in SUBSET Nat
    OBVIOUS
  <2> HIDE DEF A
  <2> QED BY <1>3, <1>4, <2>1, Induction
<1> QED BY <1>5

LEMMA AmongEmpty ==
  ASSUME NEW G
  PROVE  Among(G, <<>>) = <<>>
<1>1. PICK f : IsAmong(f, G, <<>>, 0) /\ Among(G, <<>>) = f[0]
  <2>1. <<>> \in Seq({}) /\ Len(<<>>) = 0
    OBVIOUS
  <2> QED BY <2>1, AmongIs
<1> QED BY <1>1 DEF IsAmong

LEMMA AmongAppend ==
  ASSUME NEW G, NEW S, NEW ms \in Seq(S), NEW m \in S
  PROVE  Among(G, Append(ms, m)) =
           IF m \in G THEN Append(Among(G, ms), m) ELSE Among(G, ms)
<1> DEFINE n == Len(ms)
           ns == Append(ms, m)
<1>1. /\ n \in Nat /\ ns \in Seq(S) /\ Len(ns) = n + 1 /\ ns[n + 1] = m
      /\ \A i \in 1..n : ms[i] = ns[i]
  OBVIOUS
<1>2. PICK f : IsAmong(f, G, ms, n) /\ Among(G, ms) = f[n]
  BY AmongIs
<1> HIDE DEF n, ns
<1>3. PICK g : IsAmong(g, G, ns, n + 1) /\ Among(G, ns) = g[n + 1]
  BY <1>1, AmongIs
<1>4. f[n] = g[n]
  <2>1. n \in Nat /\ n + 1 \in Nat /\ n <= n + 1
    BY <1>1
  <2> QED BY <1>1, <1>2, <1>3, <2>1, AmongAgree
<1>5. g[n + 1] = IF ns[n + 1] \in G THEN Append(g[n], ns[n + 1]) ELSE g[n]
  <2>1. n + 1 \in 0..(n + 1) /\ n + 1 # 0 /\ (n + 1) - 1 = n
    BY <1>1
  <2> QED BY <1>3, <2>1 DEF IsAmong
<1> QED BY <1>1, <1>2, <1>3, <1>4, <1>5 DEF ns

LEMMA AmongTyped ==
  ASSUME NEW G, NEW S, NEW ms \in Seq(S)
  PROVE  Among(G, ms) \in Seq(S)
<1>1. PICK f : IsAmong(f, G, ms, Len(ms)) /\ Among(G, ms) = f[Len(ms)]
  BY AmongIs
<1> DEFINE n == Len(ms)
           A == {i \in Nat : i <= n => f[i] \in Seq(S)}
<1>2. n \in Nat /\ \A i \in 1..n : ms[i] \in S
  OBVIOUS
<1>3. \A i \in 0..n : f[i] = IF i = 0 THEN <<>>
                      ELSE IF ms[i] \in G THEN Append(f[i - 1], ms[i]) ELSE f[i - 1]
  BY <1>1 DEF IsAmong
<1> HIDE DEF n
<1>4. 0 \in A
  <2>1. f[0] = <<>>
    BY <1>2, <1>3
  <2>2. <<>> \in Seq(S)
    OBVIOUS
  <2> QED BY <2>1, <2>2
<1>5. ASSUME NEW i \in A PROVE i + 1 \in A
  <2>1. SUFFICES ASSUME i + 1 <= n PROVE f[i + 1] \in Seq(S)
    OBVIOUS
  <2>2. i \in Nat /\ f[i] \in Seq(S) /\ ms[i + 1] \in S /\ (i + 1) - 1 = i /\ i + 1 # 0
    BY <1>2, <2>1
  <2>3. f[i + 1] = IF ms[i + 1] \in G THEN Append(f[i], ms[i + 1]) ELSE f[i]
    BY <1>2, <1>3, <2>1, <2>2
  <2>4. Append(f[i], ms[i + 1]) \in Seq(S)
    BY <2>2
  <2> QED BY <2>2, <2>3, <2>4
<1>6. A = Nat
  <2>1. A \in SUBSET Nat
    OBVIOUS
  <2> HIDE DEF A
  <2> QED BY <1>4, <1>5, <2>1, Induction
<1>7. f[n] \in Seq(S)
  BY <1>2, <1>6
<1> QED BY <1>1, <1>7 DEF n

LEMMA AmongConcat ==
  ASSUME NEW G, NEW S, NEW ms \in Seq(S), NEW ns \in Seq(S)
  PROVE  Among(G, ms \o ns) = Among(G, ms) \o Among(G, ns)
<1> DEFINE first(i) == SubSeq(ns, 1, i)
           A == {i \in Nat : i <= Len(ns) =>
                   Among(G, ms \o first(i)) = Among(G, ms) \o Among(G, first(i))}
<1>1. 0 \in A
  <2>1. first(0) = <<>>
    OBVIOUS
  <2>2. ms \o <<>> = ms /\ Among(G, ms) \o <<>> = Among(G, ms)
    BY AmongTyped
  <2> QED BY <2>1, <2>2, AmongEmpty
<1>2. ASSUME NEW i \in A PROVE i + 1 \in A
  <2>1. SUFFICES ASSUME i + 1 <= Len(ns)
                 PROVE  Among(G, ms \o first(i + 1)) = Among(G, ms) \o Among(G, first(i + 1))
    OBVIOUS
  <2> DEFINE a == first(i)
             m == ns[i + 1]
  <2>2. i \in Nat /\ Len(ns) \in Nat /\ m \in S /\ a \in Seq(S)
    BY <2>1
  <2>3. first(i + 1) = Append(a, m)
    BY <2>1, <2>2
  <2>4. Among(G, ms \o a) = Among(G, ms) \o Among(G, a)
    BY <2>1, <2>2
  <2> HIDE DEF a, m, first
  <2>5. ms \o Append(a, m) = Append(ms \o a, m) /\ ms \o a \in Seq(S)
    BY <2>2
  <2>6. Among(G, Append(ms \o a, m)) =
          IF m \in G THEN Append(Among(G, ms \o a), m) ELSE Among(G, ms \o a)
    <3> DEFINE b == ms \o a
    <3>1. b \in Seq(S)
      BY <2>5
    <3> HIDE DEF b
    <3>2. Among(G, Append(b, m)) = IF m \in G THEN Append(Among(G, b), m) ELSE Among(G, b)
      BY <2>2, <3>1, AmongAppend
    <3> QED BY <3>2 DEF b
  <2>7. Among(G, Append(a, m)) = IF m \in G THEN Append(Among(G, a), m) ELSE Among(G, a)
    BY <2>2, AmongAppend
  <2>8. Among(G, ms) \in Seq(S) /\ Among(G, a) \in Seq(S)
    BY <2>2, AmongTyped
  <2>9. Among(G, ms) \o Append(Among(G, a), m) = Append(Among(G, ms) \o Among(G, a), m)
    BY <2>2, <2>8
  <2> QED BY <2>3, <2>4, <2>5, <2>6, <2>7, <2>9
<1>3. A = Nat
  <2>1. A \in SUBSET Nat
    OBVIOUS
  <2> HIDE DEF A
  <2> QED BY <1>1, <1>2, <2>1, Induction
<1>4. Among(G, ms \o first(Len(ns))) = Among(G, ms) \o Among(G, first(Len(ns)))
  <2>1. Len(ns) \in A /\ Len(ns) \in Nat
    BY <1>3
  <2> QED BY <2>1
<1>5. first(Len(ns)) = ns
  OBVIOUS
<1> HIDE DEF first
<1> QED BY <1>4, <1>5

----------------------------------------------------------------------------
(* Between, the part of a sequence that s sent to d.                       *)

Carried == Msgs \cup Replies

LEMMA BetweenParts ==
  ASSUME NEW s \in Threads, NEW d \in Conns
  PROVE  /\ Between(s, d, <<>>) = <<>>
         /\ \A x \in Seq(Carried) : Between(s, d, x) \in Seq(Carried)
         /\ \A x, y \in Seq(Carried) : Between(s, d, x \o y) = Between(s, d, x) \o Between(s, d, y)
BY AmongEmpty, AmongTyped, AmongConcat DEF Between

LEMMA BetweenOthers ==
  ASSUME NEW s \in Threads, NEW d \in Conns, NEW m \in Carried,
         ~(m \in Sent(s) /\ Dest[m] = d)
  PROVE  Between(s, d, <<m>>) = <<>>
<1> DEFINE G == {n \in Sent(s) : Dest[n] = d}
<1>1. m \notin G
  OBVIOUS
<1>2. Among(G, Append(<<>>, m)) = IF m \in G THEN Append(Among(G, <<>>), m) ELSE Among(G, <<>>)
  <2> DEFINE e == <<>>
  <2>1. e \in Seq(Carried)
    OBVIOUS
  <2> HIDE DEF G, e
  <2>2. Among(G, Append(e, m)) = IF m \in G THEN Append(Among(G, e), m) ELSE Among(G, e)
    BY <2>1, AmongAppend
  <2> QED BY <2>2 DEF e
<1>3. Append(<<>>, m) = <<m>>
  OBVIOUS
<1> QED BY <1>1, <1>2, <1>3, AmongEmpty DEF Between

LEMMA BetweenLast ==
  ASSUME NEW s \in Threads, NEW d \in Conns, NEW x \in Seq(Carried), NEW m \in Carried
  PROVE  Between(s, d, Append(x, m)) = Between(s, d, x) \o Between(s, d, <<m>>)
<1> DEFINE l == <<m>>
<1>1. Append(x, m) = x \o l /\ l \in Seq(Carried)
  OBVIOUS
<1> HIDE DEF l
<1>2. Between(s, d, x \o l) = Between(s, d, x) \o Between(s, d, l)
  BY <1>1, BetweenParts
<1> QED BY <1>1, <1>2 DEF l

\* However many copies of it.
LEMMA BetweenCopies ==
  ASSUME NEW s \in Threads, NEW d \in Conns, NEW m \in Carried, NEW n \in Nat,
         ~(m \in Sent(s) /\ Dest[m] = d)
  PROVE  Between(s, d, Copies(m, n)) = <<>>
<1> DEFINE A == {i \in Nat : Between(s, d, Copies(m, i)) = <<>>}
<1>1. 0 \in A
  <2>1. Copies(m, 0) = <<>>
    BY DEF Copies
  <2> QED BY <2>1, BetweenParts
<1>2. ASSUME NEW i \in A PROVE i + 1 \in A
  <2>1. Copies(m, i + 1) = Append(Copies(m, i), m)
    BY CopiesGrow
  <2>2. Copies(m, i) \in Seq(Carried) /\ Between(s, d, Copies(m, i)) = <<>>
    <3>1. <<>> \in Seq(Carried)
      OBVIOUS
    <3> QED BY <3>1, CopiesTyped
  <2> DEFINE c == Copies(m, i)
  <2> HIDE DEF c
  <2>3. Between(s, d, Append(c, m)) = Between(s, d, c) \o Between(s, d, <<m>>)
    BY <2>2, BetweenLast DEF c
  <2>4. Between(s, d, Append(c, m)) = <<>> \o <<>>
    BY <2>2, <2>3, BetweenOthers DEF c
  <2>5. <<>> \o <<>> = <<>>
    OBVIOUS
  <2>6. Between(s, d, Copies(m, i + 1)) = <<>>
    BY <2>1, <2>4, <2>5 DEF c
  <2>7. i + 1 \in Nat
    OBVIOUS
  <2> QED BY <2>6, <2>7
<1>3. A = Nat
  <2>1. A \in SUBSET Nat
    OBVIOUS
  <2> HIDE DEF A
  <2> QED BY <1>1, <1>2, <2>1, Induction
<1> QED BY <1>3

LEMMA BetweenHead ==
  ASSUME NEW s \in Threads, NEW d \in Conns, NEW x \in Seq(Carried), x # <<>>
  PROVE  Between(s, d, x) = Between(s, d, <<Head(x)>>) \o Between(s, d, Tail(x))
<1>1. x = <<Head(x)>> \o Tail(x) /\ Head(x) \in Carried /\ Tail(x) \in Seq(Carried)
  OBVIOUS
<1> DEFINE h == <<Head(x)>>
           r == Tail(x)
<1>2. h \in Seq(Carried) /\ r \in Seq(Carried) /\ x = h \o r
  BY <1>1
<1> HIDE DEF h, r
<1>3. Between(s, d, h \o r) = Between(s, d, h) \o Between(s, d, r)
  BY <1>2, BetweenParts
<1> QED BY <1>2, <1>3 DEF h, r

----------------------------------------------------------------------------
(* What the flow needs to know of the messages on their way.               *)

ItemOK(q, item, tg) ==
  /\ q = "forward" => item.msg \in Msgs
  /\ q = "dispatch" =>
       /\ item.msg \in tg
       /\ item.msg \in Msgs /\ Dest[item.msg] \in Conns => item.conn = Dest[item.msg]

InboxOK == \A t \in Threads : \A i \in DOMAIN inbox[t] : inbox[t][i] \in Sent(t)

JobOK(t) ==
  job[t] # None =>
    /\ ItemOK(job[t].queue, job[t].item, tagged)
    /\ job[t].queue = "forward" => job[t].item.msg \in Sent(t) /\ ~job[t].write

QueuesOK == \A q \in Queues : \A i \in DOMAIN queue[q] : ItemOK(q, queue[q][i], tagged)

CallbackOK == callback # None => ItemOK(callback.queue, callback.item, tagged)

\* Only what was dispatched is copied to a connection it is not addressed to.
CopyOK(c, m, tg) == m \in Msgs \ tg /\ Dest[m] \in Conns => c = Dest[m]

OutboxOK == \A c \in Conns : \A i \in DOMAIN outbox[c] : CopyOK(c, outbox[c][i], tagged)

CopiesOK ==
  /\ InboxOK
  /\ \A t \in Threads : JobOK(t)
  /\ QueuesOK
  /\ CallbackOK
  /\ OutboxOK

\* A property of every entry survives Append and Tail.
LEMMA EntriesAppend ==
  ASSUME NEW S, NEW s \in Seq(S), NEW e \in S, NEW i \in DOMAIN Append(s, e)
  PROVE  Append(s, e)[i] = e \/ (i \in DOMAIN s /\ Append(s, e)[i] = s[i])
OBVIOUS

LEMMA EntriesTail ==
  ASSUME NEW S, NEW s \in Seq(S), s # <<>>
  PROVE  /\ Head(s) = s[1] /\ 1 \in DOMAIN s
         /\ \A i \in DOMAIN Tail(s) : i + 1 \in DOMAIN s /\ Tail(s)[i] = s[i + 1]
OBVIOUS

----------------------------------------------------------------------------
(* The flow from s to d, one segment after the other from the receiver     *)
(* back to the sender: what a step takes from one segment it adds to the   *)
(* one before.                                                             *)

Received(s, d)  == Between(s, d, wire[d])
Writing(s, d)   == Between(s, d, BeingWritten(d))
ToWrite(s, d)   == Between(s, d, outbox[d])
Forwarded(s, d) == Between(s, d, InCallback("forward"))
Queued(s, d)    == Between(s, d, QueuedMsgs("forward"))
Held(s, d)      == Between(s, d, InHand(s, "forward"))
Unread(s, d)    == Between(s, d, inbox[s])

Flow(s, d) ==
  Received(s, d) \o Writing(s, d) \o ToWrite(s, d) \o Forwarded(s, d)
    \o Queued(s, d) \o Held(s, d) \o Unread(s, d)

LEMMA SegmentsTyped ==
  ASSUME TypeOK, NEW s \in Threads, NEW d \in Conns
  PROVE  /\ wire[d] \in Seq(Carried) /\ BeingWritten(d) \in Seq(Carried)
         /\ outbox[d] \in Seq(Carried) /\ InCallback("forward") \in Seq(Carried)
         /\ QueuedMsgs("forward") \in Seq(Carried)
         /\ InHand(s, "forward") \in Seq(Carried) /\ inbox[s] \in Seq(Carried)
<1>1. wire[d] \in Seq(Carried) /\ outbox[d] \in Seq(Carried) /\ inbox[s] \in Seq(Carried)
  BY DEF TypeOK, Carried
<1>2. \A t \in Threads : job[t] # None => job[t].item.msg \in Carried
  BY DEF TypeOK, Jobs, Items, Carried
<1>3. InHand(s, "forward") \in Seq(Carried)
  BY <1>2 DEF InHand, TypeOK
<1>4. BeingWritten(d) \in Seq(Carried)
  BY <1>2 DEF BeingWritten, Threads
<1>5. InCallback("forward") \in Seq(Carried)
  <2>1. callback # None => callback.item.msg \in Carried
    BY DEF TypeOK, Callbacks, Items, Carried
  <2> QED BY <2>1 DEF InCallback
<1>6. QueuedMsgs("forward") \in Seq(Carried)
  <2>1. queue["forward"] \in Seq(Items)
    BY DEF TypeOK, Queues
  <2>2. \A item \in Items : item.msg \in Carried
    BY DEF Items, Carried
  <2> QED BY <2>1, <2>2 DEF QueuedMsgs
<1> QED BY <1>1, <1>3, <1>4, <1>5, <1>6

LEMMA FlowIs ==
  ASSUME TypeOK, NEW s \in Threads, NEW d \in Conns
  PROVE  Between(s, d, wire[d] \o BeingWritten(d) \o outbox[d] \o InCallback("forward")
                         \o QueuedMsgs("forward") \o InHand(s, "forward") \o inbox[s])
           = Flow(s, d)
<1> DEFINE w == wire[d]
           b == BeingWritten(d)
           o == outbox[d]
           c == InCallback("forward")
           q == QueuedMsgs("forward")
           h == InHand(s, "forward")
           i == inbox[s]
           S == Seq(Carried)
<1>1. w \in S /\ b \in S /\ o \in S /\ c \in S /\ q \in S /\ h \in S /\ i \in S
  BY SegmentsTyped
<1>2. Flow(s, d) = Between(s, d, w) \o Between(s, d, b) \o Between(s, d, o) \o Between(s, d, c)
                     \o Between(s, d, q) \o Between(s, d, h) \o Between(s, d, i)
  BY DEF Flow, Received, Writing, ToWrite, Forwarded, Queued, Held, Unread
<1>3. \A x, y \in S : x \o y \in S
  OBVIOUS
<1>4. \A x, y \in S : Between(s, d, x \o y) = Between(s, d, x) \o Between(s, d, y)
  BY BetweenParts
<1> HIDE DEF w, b, o, c, q, h, i, S
<1>5. /\ w \o b \in S /\ w \o b \o o \in S /\ w \o b \o o \o c \in S
      /\ w \o b \o o \o c \o q \in S /\ w \o b \o o \o c \o q \o h \in S
  BY <1>1, <1>3
<1> DEFINE B(x) == Between(s, d, x)
<1>6. B(w \o b) = B(w) \o B(b)
  BY <1>1, <1>4
<1>7. B(w \o b \o o) = B(w \o b) \o B(o)
  BY <1>1, <1>4, <1>5
<1>8. B(w \o b \o o \o c) = B(w \o b \o o) \o B(c)
  BY <1>1, <1>4, <1>5
<1>9. B(w \o b \o o \o c \o q) = B(w \o b \o o \o c) \o B(q)
  BY <1>1, <1>4, <1>5
<1>10. B(w \o b \o o \o c \o q \o h) = B(w \o b \o o \o c \o q) \o B(h)
  BY <1>1, <1>4, <1>5
<1>11. B(w \o b \o o \o c \o q \o h \o i) = B(w \o b \o o \o c \o q \o h) \o B(i)
  BY <1>1, <1>4, <1>5
<1>12. B(w \o b \o o \o c \o q \o h \o i) = Flow(s, d)
  BY <1>2, <1>6, <1>7, <1>8, <1>9, <1>10, <1>11
<1> QED BY <1>12 DEF w, b, o, c, q, h, i

Cat(x, y) == x \o y

LEMMA CatParts ==
  ASSUME NEW T
  PROVE  /\ \A x, y \in Seq(T) : Cat(x, y) \in Seq(T)
         /\ \A x \in Seq(T) : Cat(x, <<>>) = x
         /\ \A x, y, z \in Seq(T) : Cat(Cat(x, y), z) = Cat(x, Cat(y, z))
<1>1. ASSUME NEW x \in Seq(T), NEW y \in Seq(T), NEW z \in Seq(T)
      PROVE  (x \o y) \o z = x \o (y \o z)
  BY ConcatAssociative
<1>2. \A x, y \in Seq(T) : x \o y \in Seq(T)
  OBVIOUS
<1>3. \A x \in Seq(T) : x \o <<>> = x
  OBVIOUS
<1> QED BY <1>1, <1>2, <1>3 DEF Cat

Typed(w, b, o, c, q, h, i) ==
  LET S == Seq(Carried)
  IN w \in S /\ b \in S /\ o \in S /\ c \in S /\ q \in S /\ h \in S /\ i \in S

FlowTyped(s, d) ==
  Typed(Received(s, d), Writing(s, d), ToWrite(s, d), Forwarded(s, d), Queued(s, d),
        Held(s, d), Unread(s, d))

FlowsTyped == \A s \in Threads, d \in Conns : FlowTyped(s, d)

LEMMA FlowIsTyped == TypeOK => FlowsTyped
BY SegmentsTyped, BetweenParts
DEF FlowsTyped, FlowTyped, Typed, Received, Writing, ToWrite, Forwarded, Queued, Held, Unread

Joined(w, b, o, c, q, h, i) == Cat(Cat(Cat(Cat(Cat(Cat(w, b), o), c), q), h), i)

\* Messages move from one segment to the next and no other segment changes.
Moved(w, b, o, c, q, h, i, W, B, O, C, Q, H, I) ==
  \/ Cat(W, B) = Cat(w, b) /\ O = o /\ C = c /\ Q = q /\ H = h /\ I = i
  \/ Cat(B, O) = Cat(b, o) /\ W = w /\ C = c /\ Q = q /\ H = h /\ I = i
  \/ Cat(W, O) = Cat(w, o) /\ B = <<>> /\ b = <<>> /\ C = c /\ Q = q /\ H = h /\ I = i
  \/ Cat(O, C) = Cat(o, c) /\ W = w /\ B = b /\ Q = q /\ H = h /\ I = i
  \/ Cat(C, Q) = Cat(c, q) /\ W = w /\ B = b /\ O = o /\ H = h /\ I = i
  \/ Cat(Q, H) = Cat(q, h) /\ W = w /\ B = b /\ O = o /\ C = c /\ I = i
  \/ Cat(H, I) = Cat(h, i) /\ W = w /\ B = b /\ O = o /\ C = c /\ Q = q

LEMMA MovedJoins ==
  ASSUME NEW w, NEW b, NEW o, NEW c, NEW q, NEW h, NEW i, Typed(w, b, o, c, q, h, i),
         NEW W, NEW B, NEW O, NEW C, NEW Q, NEW H, NEW I, Typed(W, B, O, C, Q, H, I),
         Moved(w, b, o, c, q, h, i, W, B, O, C, Q, H, I)
  PROVE  Joined(W, B, O, C, Q, H, I) = Joined(w, b, o, c, q, h, i)
<1> DEFINE S == Seq(Carried)
<1>1. w \in S /\ b \in S /\ o \in S /\ c \in S /\ q \in S /\ h \in S /\ i \in S
  BY DEF Typed
<1>2. W \in S /\ B \in S /\ O \in S /\ C \in S /\ Q \in S /\ H \in S /\ I \in S
  BY DEF Typed
<1>3. /\ \A x, y \in S : Cat(x, y) \in S
      /\ \A x \in S : Cat(x, <<>>) = x
      /\ \A x, y, z \in S : Cat(Cat(x, y), z) = Cat(x, Cat(y, z))
  BY CatParts
<1> HIDE DEF S
<1> DEFINE p == Cat(w, b)
           r == Cat(p, o)
           u == Cat(r, c)
           v == Cat(u, q)
<1>4. p \in S /\ r \in S /\ u \in S /\ v \in S
  BY <1>1, <1>3
<1>5. /\ Cat(Cat(w, B), O) = Cat(w, Cat(B, O)) /\ Cat(Cat(w, b), o) = Cat(w, Cat(b, o))
      /\ Cat(Cat(p, O), C) = Cat(p, Cat(O, C)) /\ Cat(Cat(p, o), c) = Cat(p, Cat(o, c))
      /\ Cat(Cat(r, C), Q) = Cat(r, Cat(C, Q)) /\ Cat(Cat(r, c), q) = Cat(r, Cat(c, q))
      /\ Cat(Cat(u, Q), H) = Cat(u, Cat(Q, H)) /\ Cat(Cat(u, q), h) = Cat(u, Cat(q, h))
      /\ Cat(Cat(v, H), I) = Cat(v, Cat(H, I)) /\ Cat(Cat(v, h), i) = Cat(v, Cat(h, i))
  <2> HIDE DEF p, r, u, v
  <2>1. Cat(Cat(p, o), c) = Cat(p, Cat(o, c)) /\ Cat(Cat(p, O), C) = Cat(p, Cat(O, C))
    BY <1>1, <1>2, <1>3, <1>4
  <2>2. Cat(Cat(w, B), O) = Cat(w, Cat(B, O)) /\ Cat(Cat(w, b), o) = Cat(w, Cat(b, o))
    BY <1>1, <1>2, <1>3
  <2>3. Cat(Cat(r, C), Q) = Cat(r, Cat(C, Q)) /\ Cat(Cat(r, c), q) = Cat(r, Cat(c, q))
    BY <1>1, <1>2, <1>3, <1>4
  <2>4. Cat(Cat(u, Q), H) = Cat(u, Cat(Q, H)) /\ Cat(Cat(u, q), h) = Cat(u, Cat(q, h))
    BY <1>1, <1>2, <1>3, <1>4
  <2>5. Cat(Cat(v, H), I) = Cat(v, Cat(H, I)) /\ Cat(Cat(v, h), i) = Cat(v, Cat(h, i))
    BY <1>1, <1>2, <1>3, <1>4
  <2> QED BY <2>1, <2>2, <2>3, <2>4, <2>5
<1>6. Cat(W, <<>>) = W /\ Cat(w, <<>>) = w
  BY <1>1, <1>2, <1>3
<1> QED BY <1>5, <1>6 DEF Moved, Joined

LEMMA QueuedAppend ==
  ASSUME NEW q \in Queues, NEW item \in Items, queue[q] \in Seq(Items),
         queue'[q] = Append(queue[q], item)
  PROVE  QueuedMsgs(q)' = Append(QueuedMsgs(q), item.msg)
<1> DEFINE s == queue[q]
           S == Seq(Carried)
           ms == QueuedMsgs(q)
<1>1. \A x \in Items : x.msg \in Carried
  BY DEF Items, Carried
<1>2. Len(s) \in Nat /\ \A i \in 1..Len(s) : s[i] \in Items
  OBVIOUS
<1>3. ms \in S /\ Len(ms) = Len(s) /\ \A i \in 1..Len(s) : ms[i] = s[i].msg
  BY <1>1, <1>2 DEF QueuedMsgs
<1>4. /\ Len(queue'[q]) = Len(s) + 1
      /\ \A i \in 1..(Len(s) + 1) : queue'[q][i] = IF i = Len(s) + 1 THEN item ELSE s[i]
  OBVIOUS
<1>5. QueuedMsgs(q)' = [i \in 1..(Len(s) + 1) |-> queue'[q][i].msg]
  BY <1>4 DEF QueuedMsgs
<1>6. QueuedMsgs(q)' \in S
  BY <1>1, <1>2, <1>4, <1>5
<1>7. Append(ms, item.msg) \in S /\ Len(Append(ms, item.msg)) = Len(s) + 1
      /\ \A i \in 1..(Len(s) + 1) :
           Append(ms, item.msg)[i] = IF i = Len(s) + 1 THEN item.msg ELSE s[i].msg
  BY <1>1, <1>2, <1>3
<1> DEFINE new == QueuedMsgs(q)'
           old == Append(ms, item.msg)
<1>8. new \in S /\ Len(new) = Len(old) /\ \A i \in 1..Len(old) : new[i] = old[i]
  BY <1>2, <1>4, <1>5, <1>6, <1>7
<1>9. old \in S
  BY <1>7
<1> HIDE DEF new, old
<1>10. new = old
  BY <1>8, <1>9, SeqEqual
<1> QED BY <1>10 DEF new, old

LEMMA QueuedTail ==
  ASSUME NEW q \in Queues, queue[q] \in Seq(Items), queue[q] # <<>>,
         queue'[q] = Tail(queue[q])
  PROVE  QueuedMsgs(q) = <<Head(queue[q]).msg>> \o QueuedMsgs(q)'
<1> DEFINE s == queue[q]
           S == Seq(Carried)
           r == Tail(s)
           m == Head(s).msg
<1>1. \A x \in Items : x.msg \in Carried
  BY DEF Items, Carried
<1>2. /\ Len(s) \in Nat /\ s[1] = Head(s) /\ Len(r) = Len(s) - 1 /\ Len(s) # 0
      /\ \A i \in 1..Len(s) : s[i] \in Items
      /\ \A i \in 1..Len(r) : r[i] = s[i + 1]
  OBVIOUS
<1>3. /\ QueuedMsgs(q) \in S /\ Len(QueuedMsgs(q)) = Len(s)
      /\ \A i \in 1..Len(s) : QueuedMsgs(q)[i] = s[i].msg
  BY <1>1, <1>2 DEF QueuedMsgs
<1>4. /\ QueuedMsgs(q)' \in S /\ Len(QueuedMsgs(q)') = Len(s) - 1
      /\ \A i \in 1..(Len(s) - 1) : QueuedMsgs(q)'[i] = s[i + 1].msg
  BY <1>1, <1>2 DEF QueuedMsgs
<1>5. m \in Carried
  BY <1>1, <1>2
<1> DEFINE tl == QueuedMsgs(q)'
           new == QueuedMsgs(q)
           old == <<m>> \o tl
<1>6. m = s[1].msg
  BY <1>2
<1> HIDE DEF m, tl, s, r
<1>7. old \in S /\ Len(old) = Len(s) /\ old[1] = m
      /\ \A i \in 2..Len(s) : old[i] = tl[i - 1]
  <2>1. tl \in S /\ Len(tl) = Len(s) - 1 /\ Len(s) \in Nat /\ Len(s) # 0
    BY <1>2, <1>4 DEF tl
  <2> QED BY <1>5, <2>1
<1>8. ASSUME NEW i \in 1..Len(s) PROVE new[i] = old[i]
  <2>1. CASE i = 1
    BY <1>3, <1>6, <1>7, <2>1
  <2>2. CASE i # 1
    <3>1. i \in 2..Len(s) /\ i - 1 \in 1..(Len(s) - 1) /\ (i - 1) + 1 = i
      BY <1>2, <2>2
    <3>2. old[i] = tl[i - 1] /\ tl[i - 1] = s[i].msg
      BY <1>4, <1>7, <3>1 DEF tl
    <3> QED BY <1>3, <3>2
  <2> QED BY <2>1, <2>2
<1>9. new \in S /\ old \in S /\ Len(new) = Len(old)
  BY <1>3, <1>7
<1>10. new = old
  <2> HIDE DEF old
  <2>1. \A i \in 1..Len(old) : new[i] = old[i]
    BY <1>7, <1>8
  <2> HIDE DEF new
  <2> QED BY <1>9, <2>1, SeqEqual
<1> QED BY <1>10 DEF m, tl, s

FlowMoves(s, d) ==
  Moved(Received(s, d), Writing(s, d), ToWrite(s, d), Forwarded(s, d), Queued(s, d),
        Held(s, d), Unread(s, d),
        Received(s, d)', Writing(s, d)', ToWrite(s, d)', Forwarded(s, d)', Queued(s, d)',
        Held(s, d)', Unread(s, d)')

LEMMA FlowKept ==
  ASSUME TypeOK, TypeOK', NEW s \in Threads, NEW d \in Conns, FlowMoves(s, d)
  PROVE  Flow(s, d)' = Flow(s, d)
<1>1. FlowTyped(s, d) /\ FlowTyped(s, d)'
  <2>1. TypeOK' => FlowsTyped'
    BY FlowIsTyped, PTL
  <2> QED BY <2>1, FlowIsTyped DEF FlowsTyped
<1>2. /\ Flow(s, d) = Joined(Received(s, d), Writing(s, d), ToWrite(s, d), Forwarded(s, d),
                             Queued(s, d), Held(s, d), Unread(s, d))
      /\ Flow(s, d)' = Joined(Received(s, d)', Writing(s, d)', ToWrite(s, d)', Forwarded(s, d)',
                              Queued(s, d)', Held(s, d)', Unread(s, d)')
  BY DEF Flow, Joined, Cat
<1>3. Joined(Received(s, d)', Writing(s, d)', ToWrite(s, d)', Forwarded(s, d)',
             Queued(s, d)', Held(s, d)', Unread(s, d)')
        = Joined(Received(s, d), Writing(s, d), ToWrite(s, d), Forwarded(s, d),
                 Queued(s, d), Held(s, d), Unread(s, d))
  BY <1>1, MovedJoins DEF FlowMoves, FlowTyped
<1> QED BY <1>2, <1>3

\* A message m leaves the head of y for the end of x, or is none of those that
\* s sent to d; r is what is left of y, and X what x becomes.
HeadMoved(s, d, m, x, y, X, r) ==
  /\ x \in Seq(Carried) /\ r \in Seq(Carried) /\ m \in Carried
  /\ y = <<m>> \o r
  /\ X = Append(x, m) \/ (X = x /\ ~(m \in Sent(s) /\ Dest[m] = d))

LEMMA HeadMoves ==
  ASSUME NEW s \in Threads, NEW d \in Conns, NEW m, NEW x, NEW y, NEW X, NEW r,
         HeadMoved(s, d, m, x, y, X, r)
  PROVE  Cat(Between(s, d, X), Between(s, d, r)) = Cat(Between(s, d, x), Between(s, d, y))
<1> DEFINE a == <<m>>
<1>0. x \in Seq(Carried) /\ r \in Seq(Carried) /\ m \in Carried
  BY DEF HeadMoved
<1>1. a \in Seq(Carried) /\ y = a \o r
  BY DEF HeadMoved
<1>2. Between(s, d, Append(x, m)) = Between(s, d, x) \o Between(s, d, a)
  BY <1>0, BetweenLast
<1>3. ~(m \in Sent(s) /\ Dest[m] = d) => Between(s, d, a) = <<>>
  BY <1>0, BetweenOthers
<1> HIDE DEF a
<1>4. Between(s, d, a \o r) = Between(s, d, a) \o Between(s, d, r)
  BY <1>0, <1>1, BetweenParts
<1> DEFINE e == Between(s, d, a)
           f == Between(s, d, r)
           g == Between(s, d, x)
<1>5. e \in Seq(Carried) /\ f \in Seq(Carried) /\ g \in Seq(Carried)
  BY <1>0, <1>1, BetweenParts
<1>6. Between(s, d, X) = Cat(g, e)
  <2>1. CASE X = Append(x, m)
    BY <1>2, <2>1 DEF Cat
  <2>2. CASE X = x /\ ~(m \in Sent(s) /\ Dest[m] = d)
    <3>1. e = <<>> /\ Between(s, d, X) = g
      BY <1>3, <2>2
    <3>2. Cat(g, <<>>) = g
      <4> HIDE DEF g
      <4> QED BY <1>5, CatParts
    <3> QED BY <3>1, <3>2
  <2> QED BY <2>1, <2>2 DEF HeadMoved
<1>7. Between(s, d, y) = Cat(e, f)
  BY <1>1, <1>4 DEF Cat
<1> HIDE DEF e, f, g
<1>8. Cat(Cat(g, e), f) = Cat(g, Cat(e, f))
  BY <1>5, CatParts
<1> QED BY <1>6, <1>7, <1>8 DEF f, g

LEMMA HeadThenTail ==
  ASSUME NEW x \in Seq(Carried), x # <<>>
  PROVE  x = <<Head(x)>> \o Tail(x) /\ Head(x) \in Carried /\ Tail(x) \in Seq(Carried)
OBVIOUS

LEMMA Single ==
  ASSUME NEW m \in Carried
  PROVE  /\ <<m>> = <<m>> \o <<>> /\ <<m>> = Append(<<>>, m)
         /\ <<>> \in Seq(Carried) /\ <<m>> \in Seq(Carried)
OBVIOUS

\* Leaving the enqueueing functions writes the message that was being written.
LEMMA LeaveMoves ==
  ASSUME TypeOK, NEW s \in Threads, NEW d \in Conns, NEW t \in Threads, pc[t] # "idle", Leave(t)
  PROVE  Cat(Received(s, d), Writing(s, d))' = Cat(Received(s, d), Writing(s, d))
<1>1. job[t] # None /\ job[t].item.msg \in Carried
  BY DEF TypeOK, Jobs, Items, Carried
<1>2. d \in Threads
  BY DEF Threads
<1>3. CASE t = d /\ job[t].write
  <2> DEFINE m == job[d].item.msg
  <2>1. /\ m \in Carried /\ wire'[d] = Append(wire[d], m) /\ wire[d] \in Seq(Carried)
        /\ BeingWritten(d) = <<m>> /\ BeingWritten(d)' = <<>>
    BY <1>1, <1>2, <1>3 DEF Leave, BeingWritten, TypeOK, Carried
  <2> HIDE DEF m
  <2>2. BeingWritten(d) = <<m>> \o <<>> /\ <<>> \in Seq(Carried)
    BY <2>1, Single
  <2>3. Cat(Between(s, d, wire'[d]), Between(s, d, <<>>))
          = Cat(Between(s, d, wire[d]), Between(s, d, BeingWritten(d)))
    <3>1. HeadMoved(s, d, m, wire[d], BeingWritten(d), wire'[d], <<>>)
      BY <2>1, <2>2 DEF HeadMoved
    <3> QED BY <3>1, HeadMoves
  <2> QED BY <2>1, <2>3 DEF Received, Writing
<1>4. CASE ~(t = d /\ job[t].write)
  <2>1. wire'[d] = wire[d] /\ BeingWritten(d)' = BeingWritten(d)
    <3>1. wire'[d] = wire[d]
      BY <1>2, <1>4 DEF Leave, TypeOK
    <3>2. BeingWritten(d)' = BeingWritten(d)
      BY <1>1, <1>2, <1>4 DEF Leave, BeingWritten, TypeOK
    <3> QED BY <3>1, <3>2
  <2> QED BY <2>1 DEF Received, Writing
<1> QED BY <1>3, <1>4

LEMMA NothingInHand ==
  ASSUME TypeOK, NEW s \in Threads, NEW d \in Conns
  PROVE  /\ pc[s] # "append" => InHand(s, "forward") = <<>> /\ Held(s, d) = <<>>
         /\ job[d] = None => BeingWritten(d) = <<>> /\ Writing(s, d) = <<>>
BY BetweenParts DEF InHand, Held, BeingWritten, Writing

\* Every step moves a message of the flow to the next segment, or none.
LEMMA FlowStep ==
  ASSUME RouterAssumption, TypeOK, TypeOK', CopiesOK, [Next]_vars,
         NEW s \in Threads, NEW d \in Conns
  PROVE  FlowMoves(s, d)
<1>0. d \in Threads /\ <<>> \in Seq(Carried) /\ Between(s, d, <<>>) = <<>>
  <2>1. d \in Threads
    BY DEF Threads
  <2>2. <<>> \in Seq(Carried)
    OBVIOUS
  <2>3. Between(s, d, <<>>) = <<>>
    BY BetweenParts
  <2> QED BY <2>1, <2>2, <2>3
<1>1. ASSUME NEW t \in Threads, pc[t] = "idle", inbox[t] # <<>>,
             inbox' = [inbox EXCEPT ![t] = Tail(@)],
             LET m == Head(inbox[t])
             IN IF ForwardedTo(m)
                THEN Enqueue(t, "forward", [msg |-> m, conn |-> t], FALSE) /\ UNCHANGED tagged
                ELSE DispatchByRule(t, m, None, FALSE),
             UNCHANGED <<outbox, wire, queue, sources, callback>>
      PROVE  FlowMoves(s, d)
  <2> DEFINE m == Head(inbox[t])
  <2>1. /\ Received(s, d)' = Received(s, d) /\ ToWrite(s, d)' = ToWrite(s, d)
        /\ Forwarded(s, d)' = Forwarded(s, d) /\ Queued(s, d)' = Queued(s, d)
    BY <1>1 DEF Received, ToWrite, Forwarded, Queued, InCallback, QueuedMsgs
  <2>2. PICK q, item : /\ job' = [job EXCEPT ![t] = [queue |-> q, item |-> item, write |-> FALSE]]
                       /\ pc' = [pc EXCEPT ![t] = "append"]
                       /\ item.msg = m
                       /\ q = IF ForwardedTo(m) THEN "forward" ELSE "dispatch"
    <3>1. CASE ForwardedTo(m)
      <4> DEFINE item == [msg |-> m, conn |-> t]
      <4>1. Enqueue(t, "forward", item, FALSE) /\ item.msg = m
        BY <1>1, <3>1
      <4> HIDE DEF item, m
      <4> QED BY <3>1, <4>1 DEF Enqueue
    <3>2. CASE ~ForwardedTo(m)
      <4> DEFINE item == [msg |-> m, conn |-> None]
      <4>1. Enqueue(t, "dispatch", item, FALSE) /\ item.msg = m
        BY <1>1, <3>2 DEF DispatchByRule
      <4> HIDE DEF item, m
      <4> QED BY <3>2, <4>1 DEF Enqueue
    <3> QED BY <3>1, <3>2
  <2>3. job[t] = None
    BY <1>1 DEF TypeOK
  <2>4. Writing(s, d)' = Writing(s, d)
    <3>1. BeingWritten(d)' = BeingWritten(d)
      BY <1>0, <2>2, <2>3 DEF BeingWritten, TypeOK
    <3> QED BY <3>1 DEF Writing
  <2>5. Cat(Held(s, d), Unread(s, d))' = Cat(Held(s, d), Unread(s, d))
    <3>1. CASE t # s
      <4>1. inbox'[s] = inbox[s] /\ InHand(s, "forward")' = InHand(s, "forward")
        BY <1>1, <2>2, <3>1 DEF InHand, TypeOK
      <4> QED BY <4>1 DEF Held, Unread
    <3>2. CASE t = s
      <4>1. inbox[s] \in Seq(Carried) /\ inbox[s] # <<>> /\ inbox'[s] = Tail(inbox[s])
        BY <1>1, <3>2 DEF TypeOK, Carried
      <4>2. /\ inbox[s] = <<m>> \o Tail(inbox[s]) /\ m \in Carried
            /\ Tail(inbox[s]) \in Seq(Carried)
        BY <3>2, <4>1, HeadThenTail
      <4>3. InHand(s, "forward") = <<>>
        BY <1>1, <3>2, NothingInHand
      <4>4. InHand(s, "forward")' = IF ForwardedTo(m) THEN <<m>> ELSE <<>>
        BY <2>2, <3>2 DEF InHand, TypeOK
      <4>5. \/ InHand(s, "forward")' = Append(InHand(s, "forward"), m)
            \/ /\ InHand(s, "forward")' = InHand(s, "forward")
               /\ ~(m \in Sent(s) /\ Dest[m] = d)
        <5>1. CASE ForwardedTo(m)
          BY <4>2, <4>3, <4>4, <5>1, Single
        <5>2. CASE ~ForwardedTo(m)
          BY <4>3, <4>4, <5>2 DEF ForwardedTo, RouterAssumption
        <5> QED BY <5>1, <5>2
      <4> HIDE DEF m
      <4>6. Cat(Between(s, d, InHand(s, "forward")'), Between(s, d, Tail(inbox[s])))
              = Cat(Between(s, d, InHand(s, "forward")), Between(s, d, inbox[s]))
        <5>1. HeadMoved(s, d, m, InHand(s, "forward"), inbox[s], InHand(s, "forward")',
                        Tail(inbox[s]))
          BY <1>0, <4>2, <4>3, <4>5 DEF HeadMoved
        <5> QED BY <5>1, HeadMoves
      <4> QED BY <4>1, <4>6 DEF Held, Unread
    <3> QED BY <3>1, <3>2
  <2> QED BY <2>1, <2>4, <2>5 DEF FlowMoves, Moved, Cat
<1>2. ASSUME NEW c \in Conns, FilterIncoming(c) PROVE FlowMoves(s, d)
  BY <1>1, <1>2 DEF FilterIncoming, Threads
<1>3. ASSUME EmitSignal PROVE FlowMoves(s, d)
  BY <1>1, <1>3 DEF EmitSignal, Threads
<1>4. ASSUME NEW c \in Conns, FilterOutgoing(c) PROVE FlowMoves(s, d)
  <2> DEFINE m == Head(outbox[c])
  <2>1. /\ Forwarded(s, d)' = Forwarded(s, d) /\ Queued(s, d)' = Queued(s, d)
        /\ Unread(s, d)' = Unread(s, d)
    BY <1>4 DEF FilterOutgoing, Forwarded, Queued, Unread, InCallback, QueuedMsgs
  <2>2. pc[c] = "idle" /\ job[c] = None /\ c \in Threads
    BY <1>4 DEF FilterOutgoing, TypeOK, Threads
  <2>3. /\ outbox[c] \in Seq(Carried) /\ outbox[c] # <<>>
        /\ outbox' = [outbox EXCEPT ![c] = Tail(outbox[c])]
    BY <1>4 DEF FilterOutgoing, TypeOK, Carried
  <2>4. outbox[c] = <<m>> \o Tail(outbox[c]) /\ m \in Carried /\ Tail(outbox[c]) \in Seq(Carried)
    BY <2>3, HeadThenTail
  <2>5. c # d => ToWrite(s, d)' = ToWrite(s, d)
    BY <2>3 DEF ToWrite, TypeOK
  <2>6. CASE DispatchByRule(c, m, c, TRUE) /\ UNCHANGED wire
    <3>1. PICK new : /\ job' = [job EXCEPT ![c] = new] /\ pc' = [pc EXCEPT ![c] = "append"]
                     /\ new = [queue |-> "dispatch", item |-> [msg |-> m, conn |-> c], write |-> TRUE]
      BY <2>6 DEF DispatchByRule, Enqueue
    <3>2. /\ new.queue = "dispatch" /\ new.item.msg = m /\ new.write
          /\ job'[c] = new /\ pc'[c] = "append"
      BY <2>2, <3>1 DEF TypeOK
    <3>3. new # None
      <4>1. job'[c] # None
        BY <2>2, <3>2 DEF TypeOK
      <4> QED BY <3>2, <4>1
    <3>4. Received(s, d)' = Received(s, d)
      BY <2>6 DEF Received
    <3>5. Held(s, d)' = Held(s, d)
      <4>1. InHand(s, "forward")' = InHand(s, "forward")
        BY <2>2, <3>1, <3>2 DEF InHand, TypeOK
      <4> QED BY <4>1 DEF Held
    <3>6. Cat(Writing(s, d), ToWrite(s, d))' = Cat(Writing(s, d), ToWrite(s, d))
      <4>1. CASE c # d
        <5>1. job'[d] = job[d]
          BY <1>0, <3>1, <4>1 DEF TypeOK
        <5>2. Writing(s, d)' = Writing(s, d)
          BY <5>1 DEF Writing, BeingWritten
        <5> QED BY <2>5, <4>1, <5>2
      <4>2. CASE c = d
        <5>1. BeingWritten(d) = <<>> /\ BeingWritten(d)' = <<m>>
          BY <2>2, <3>2, <3>3, <4>2 DEF BeingWritten
        <5>2. BeingWritten(d)' = Append(BeingWritten(d), m)
          BY <2>4, <5>1, Single
        <5>3. outbox'[d] = Tail(outbox[d])
          BY <2>3, <4>2 DEF TypeOK
        <5> HIDE DEF m
        <5>4. Cat(Between(s, d, BeingWritten(d)'), Between(s, d, Tail(outbox[d])))
                = Cat(Between(s, d, BeingWritten(d)), Between(s, d, outbox[d]))
          <6>1. HeadMoved(s, d, m, BeingWritten(d), outbox[d], BeingWritten(d)', Tail(outbox[d]))
            BY <1>0, <2>4, <4>2, <5>1, <5>2 DEF HeadMoved
          <6> QED BY <6>1, HeadMoves
        <5> QED BY <5>3, <5>4 DEF Writing, ToWrite
      <4> QED BY <4>1, <4>2
    <3> QED BY <2>1, <3>4, <3>5, <3>6 DEF FlowMoves, Moved, Cat
  <2>7. CASE wire' = [wire EXCEPT ![c] = Append(@, m)] /\ UNCHANGED <<pc, job, tagged>>
    <3>1. Held(s, d)' = Held(s, d) /\ Writing(s, d)' = Writing(s, d)
      BY <2>7 DEF Held, InHand, Writing, BeingWritten
    <3>2. CASE c # d
      <4>1. Received(s, d)' = Received(s, d)
        BY <2>7, <3>2 DEF Received, TypeOK
      <4> QED BY <2>1, <2>5, <3>1, <3>2, <4>1 DEF FlowMoves, Moved, Cat
    <3>3. CASE c = d
      <4>1. Writing(s, d) = <<>> /\ Writing(s, d)' = <<>>
        BY <2>2, <3>1, <3>3, NothingInHand
      <4>2. /\ wire'[d] = Append(wire[d], m) /\ wire[d] \in Seq(Carried)
            /\ outbox'[d] = Tail(outbox[d])
        BY <2>3, <2>7, <3>3 DEF TypeOK, Carried
      <4> HIDE DEF m
      <4>3. Cat(Between(s, d, wire'[d]), Between(s, d, Tail(outbox[d])))
              = Cat(Between(s, d, wire[d]), Between(s, d, outbox[d]))
        <5>1. HeadMoved(s, d, m, wire[d], outbox[d], wire'[d], Tail(outbox[d]))
          BY <2>4, <3>3, <4>2 DEF HeadMoved
        <5> QED BY <5>1, HeadMoves
      <4>4. Cat(Received(s, d), ToWrite(s, d))' = Cat(Received(s, d), ToWrite(s, d))
        BY <4>2, <4>3 DEF Received, ToWrite
      <4> QED BY <2>1, <3>1, <4>1, <4>4 DEF FlowMoves, Moved, Cat
    <3> QED BY <3>2, <3>3
  <2> QED BY <1>4, <2>6, <2>7 DEF FilterOutgoing
<1>5. ASSUME NEW t \in Threads, AppendToQueue(t) PROVE FlowMoves(s, d)
  <2>1. /\ ToWrite(s, d)' = ToWrite(s, d) /\ Forwarded(s, d)' = Forwarded(s, d)
        /\ Unread(s, d)' = Unread(s, d)
    BY <1>5 DEF AppendToQueue, ToWrite, Forwarded, Unread, InCallback
  <2>2. PICK q \in Queues, item \in Items : q = job[t].queue /\ item = job[t].item
    BY <1>5 DEF AppendToQueue, TypeOK, Jobs
  <2>3. pc[t] = "append" /\ job[t] # None /\ job[t].item.msg \in Carried
    BY <1>5 DEF AppendToQueue, TypeOK, Jobs, Items, Carried
  <2>4. queue' = [queue EXCEPT ![q] = Append(queue[q], item)]
    BY <1>5, <2>2 DEF AppendToQueue, Appended
  <2>5. \/ Leave(t)
        \/ pc' = [pc EXCEPT ![t] = "wake"] /\ UNCHANGED <<job, wire>>
    BY <1>5 DEF AppendToQueue
  <2>6. pc'[t] # "append" /\ \A u \in Threads \ {t} : pc'[u] = pc[u] /\ job'[u] = job[u]
    BY <2>5 DEF Leave, TypeOK
  <2>7. CASE q = "forward"
    <3>1. ~job[t].write /\ item.msg \in Sent(t)
      BY <2>2, <2>3, <2>7 DEF CopiesOK, JobOK
    <3>2. wire' = wire /\ BeingWritten(d)' = BeingWritten(d)
      BY <1>0, <2>5, <3>1 DEF Leave, BeingWritten, TypeOK
    <3>3. Received(s, d)' = Received(s, d) /\ Writing(s, d)' = Writing(s, d)
      BY <3>2 DEF Received, Writing
    <3> DEFINE m == item.msg
    <3>4. /\ QueuedMsgs("forward")' = Append(QueuedMsgs("forward"), m) /\ m \in Carried
          /\ QueuedMsgs("forward") \in Seq(Carried)
      <4>1. queue["forward"] \in Seq(Items) /\ queue'["forward"] = Append(queue["forward"], item)
        BY <2>4, <2>7 DEF TypeOK
      <4>2. "forward" \in Queues
        BY <2>7
      <4>3. QueuedMsgs("forward")' = Append(QueuedMsgs("forward"), item.msg)
        BY <4>1, <4>2, QueuedAppend
      <4> QED BY <2>2, <2>3, <4>3, SegmentsTyped
    <3>5. Cat(Queued(s, d), Held(s, d))' = Cat(Queued(s, d), Held(s, d))
      <4>1. CASE t = s
        <5>1. InHand(s, "forward") = <<m>> /\ InHand(s, "forward")' = <<>>
          BY <2>2, <2>3, <2>6, <2>7, <4>1 DEF InHand
        <5> HIDE DEF m
        <5>2. InHand(s, "forward") = <<m>> \o <<>>
          BY <3>4, <5>1, Single
        <5>3. Cat(Between(s, d, QueuedMsgs("forward")'), Between(s, d, <<>>))
                = Cat(Between(s, d, QueuedMsgs("forward")), Between(s, d, InHand(s, "forward")))
          <6>1. HeadMoved(s, d, m, QueuedMsgs("forward"), InHand(s, "forward"),
                          QueuedMsgs("forward")', <<>>)
            BY <1>0, <3>4, <5>2 DEF HeadMoved
          <6> QED BY <6>1, HeadMoves
        <5> QED BY <5>1, <5>3 DEF Queued, Held
      <4>2. CASE t # s
        <5>1. InHand(s, "forward")' = InHand(s, "forward")
          BY <2>6, <4>2 DEF InHand
        <5>2. m \notin Sent(s)
          BY <3>1, <4>2 DEF RouterAssumption
        <5> HIDE DEF m
        <5>3. Between(s, d, <<m>>) = <<>>
          BY <3>4, <5>2, BetweenOthers
        <5>4. Between(s, d, QueuedMsgs("forward")')
                = Between(s, d, QueuedMsgs("forward")) \o Between(s, d, <<m>>)
          BY <3>4, BetweenLast
        <5>5. Queued(s, d)' = Cat(Queued(s, d), <<>>) /\ Queued(s, d) \in Seq(Carried)
          BY <3>4, <5>3, <5>4, BetweenParts DEF Queued, Cat
        <5>6. Queued(s, d)' = Queued(s, d)
          BY <5>5, CatParts
        <5> QED BY <5>1, <5>6 DEF Held
      <4> QED BY <4>1, <4>2
    <3> QED BY <2>1, <3>3, <3>5 DEF FlowMoves, Moved, Cat
  <2>8. CASE q = "dispatch"
    <3>1. queue'["forward"] = queue["forward"]
      BY <2>4, <2>8 DEF TypeOK, Queues
    <3>2. Queued(s, d)' = Queued(s, d)
      BY <3>1 DEF Queued, QueuedMsgs
    <3>3. InHand(s, "forward")' = InHand(s, "forward")
      BY <2>2, <2>3, <2>6, <2>8 DEF InHand
    <3>4. Held(s, d)' = Held(s, d)
      BY <3>3 DEF Held
    <3>5. Cat(Received(s, d), Writing(s, d))' = Cat(Received(s, d), Writing(s, d))
      <4>1. CASE Leave(t)
        BY <2>3, <4>1, LeaveMoves
      <4>2. CASE UNCHANGED <<job, wire>>
        BY <4>2 DEF Received, Writing, BeingWritten
      <4> QED BY <2>5, <4>1, <4>2
    <3> QED BY <2>1, <3>2, <3>4, <3>5 DEF FlowMoves, Moved, Cat
  <2> QED BY <2>7, <2>8 DEF Queues
<1>6. ASSUME NEW t \in Threads, AttachSource(t) PROVE FlowMoves(s, d)
  <2>1. Leave(t) /\ pc[t] = "wake" /\ UNCHANGED <<inbox, outbox, queue, callback>>
    BY <1>6 DEF AttachSource
  <2>2. /\ ToWrite(s, d)' = ToWrite(s, d) /\ Forwarded(s, d)' = Forwarded(s, d)
        /\ Queued(s, d)' = Queued(s, d) /\ Unread(s, d)' = Unread(s, d)
    BY <2>1 DEF ToWrite, Forwarded, Queued, Unread, InCallback, QueuedMsgs
  <2>3. Held(s, d)' = Held(s, d)
    <3>1. InHand(s, "forward")' = InHand(s, "forward")
      BY <2>1 DEF Leave, InHand, TypeOK
    <3> QED BY <3>1 DEF Held
  <2>4. Cat(Received(s, d), Writing(s, d))' = Cat(Received(s, d), Writing(s, d))
    BY <2>1, LeaveMoves
  <2> QED BY <2>2, <2>3, <2>4 DEF FlowMoves, Moved, Cat
<1>7. ASSUME NEW q \in Queues, StartCallback(q) PROVE FlowMoves(s, d)
  <2>1. UNCHANGED <<inbox, outbox, wire, pc, job>> /\ callback = None /\ queue[q] # <<>>
    BY <1>7 DEF StartCallback
  <2>2. /\ Received(s, d)' = Received(s, d) /\ Writing(s, d)' = Writing(s, d)
        /\ ToWrite(s, d)' = ToWrite(s, d) /\ Held(s, d)' = Held(s, d)
        /\ Unread(s, d)' = Unread(s, d)
    BY <2>1 DEF Received, Writing, ToWrite, Held, Unread, BeingWritten, InHand
  <2>3. queue[q] \in Seq(Items) /\ queue' = [queue EXCEPT ![q] = Tail(queue[q])]
    BY <1>7 DEF StartCallback, TypeOK
  <2>4. PICK item \in Items : item = Head(queue[q])
    BY <2>1, <2>3, HeadTail
  <2> DEFINE m == item.msg
  <2>5. callback'.queue = q /\ callback'.item = item /\ callback' # None
    <3>1. callback' = [queue |-> q, item |-> item, more |-> HasMessage(queue[q])]
      BY <1>7, <2>4 DEF StartCallback
    <3>2. callback' \in Callbacks
      BY <3>1 DEF Callbacks, HasMessage
    <3> QED BY <3>1, <3>2 DEF RouterAssumption
  <2>6. InCallback("forward") = <<>> /\ InCallback("forward")' = IF q = "forward" THEN <<m>> ELSE <<>>
    BY <2>1, <2>5 DEF InCallback
  <2>7. m \in Carried
    BY DEF Items, Carried
  <2>8. Cat(Forwarded(s, d), Queued(s, d))' = Cat(Forwarded(s, d), Queued(s, d))
    <3>1. CASE q = "forward"
      <4>1. queue'["forward"] = Tail(queue["forward"])
        BY <2>3, <3>1 DEF TypeOK
      <4>2. QueuedMsgs("forward") = <<Head(queue["forward"]).msg>> \o QueuedMsgs("forward")'
        BY <2>1, <2>3, <3>1, <4>1, QueuedTail
      <4>3. QueuedMsgs("forward") = <<m>> \o QueuedMsgs("forward")'
        BY <2>4, <3>1, <4>2
      <4>4. QueuedMsgs("forward")' \in Seq(Carried)
        <5>1. queue'["forward"] \in Seq(Items)
          BY <3>1 DEF TypeOK
        <5>2. \A i \in Items : i.msg \in Carried
          BY DEF Items, Carried
        <5> QED BY <5>1, <5>2 DEF QueuedMsgs
      <4>5. InCallback("forward")' = Append(InCallback("forward"), m)
        BY <2>6, <2>7, <3>1, Single
      <4> HIDE DEF m
      <4>6. Cat(Between(s, d, InCallback("forward")'), Between(s, d, QueuedMsgs("forward")'))
              = Cat(Between(s, d, InCallback("forward")), Between(s, d, QueuedMsgs("forward")))
        <5>1. HeadMoved(s, d, m, InCallback("forward"), QueuedMsgs("forward"),
                        InCallback("forward")', QueuedMsgs("forward")')
          BY <1>0, <2>6, <2>7, <4>3, <4>4, <4>5 DEF HeadMoved
        <5> QED BY <5>1, HeadMoves
      <4> QED BY <4>6 DEF Forwarded, Queued
    <3>2. CASE q # "forward"
      <4>1. queue'["forward"] = queue["forward"]
        BY <2>3, <3>2 DEF TypeOK, Queues
      <4>2. InCallback("forward")' = InCallback("forward")
        BY <2>6, <3>2
      <4> QED BY <4>1, <4>2 DEF Forwarded, Queued, QueuedMsgs
    <3> QED BY <3>1, <3>2
  <2> QED BY <2>2, <2>8 DEF FlowMoves, Moved, Cat
<1>8. ASSUME callback # None, ReturnFromCallback
      PROVE  /\ Received(s, d)' = Received(s, d) /\ Writing(s, d)' = Writing(s, d)
             /\ Queued(s, d)' = Queued(s, d) /\ Held(s, d)' = Held(s, d)
             /\ Unread(s, d)' = Unread(s, d) /\ InCallback("forward")' = <<>>
  BY <1>8 DEF ReturnFromCallback, Received, Writing, Queued, Held, Unread, BeingWritten, InHand,
              QueuedMsgs, InCallback
<1>9. ASSUME NEW e \in Carried, ~(e \in Sent(s) /\ Dest[e] = d),
             outbox'[d] = outbox[d] \/ outbox'[d] = Append(outbox[d], e)
      PROVE  ToWrite(s, d)' = ToWrite(s, d)
  <2>1. outbox[d] \in Seq(Carried)
    BY DEF TypeOK, Carried
  <2>2. CASE outbox'[d] = Append(outbox[d], e)
    <3>1. Between(s, d, <<e>>) = <<>>
      BY <1>9, BetweenOthers
    <3>2. Between(s, d, outbox'[d]) = Between(s, d, outbox[d]) \o Between(s, d, <<e>>)
      BY <2>1, <2>2, BetweenLast
    <3>3. ToWrite(s, d)' = Cat(ToWrite(s, d), <<>>) /\ ToWrite(s, d) \in Seq(Carried)
      BY <2>1, <3>1, <3>2, BetweenParts DEF ToWrite, Cat
    <3> QED BY <3>3, CatParts
  <2> QED BY <1>9, <2>2 DEF ToWrite
<1>10. ASSUME FinishForward PROVE FlowMoves(s, d)
  <2> DEFINE m == callback.item.msg
  <2>1. callback # None /\ callback.queue = "forward" /\ ReturnFromCallback
    BY <1>10 DEF FinishForward
  <2>2. m \in Msgs /\ m \in Carried /\ InCallback("forward") = <<m>>
    BY <2>1 DEF CopiesOK, CallbackOK, ItemOK, Carried, InCallback
  <2>3. outbox[d] \in Seq(Carried)
    BY DEF TypeOK, Carried
  <2>4. Cat(ToWrite(s, d), Forwarded(s, d))' = Cat(ToWrite(s, d), Forwarded(s, d))
    <3>1. CASE Dest[m] = d
      <4>1. outbox'[d] = Append(outbox[d], m)
        BY <1>10, <3>1 DEF FinishForward, SendTo
      <4> HIDE DEF m
      <4>2. InCallback("forward") = <<m>> \o <<>>
        BY <2>2, Single
      <4>3. Cat(Between(s, d, outbox'[d]), Between(s, d, <<>>))
              = Cat(Between(s, d, outbox[d]), Between(s, d, InCallback("forward")))
        <5>1. HeadMoved(s, d, m, outbox[d], InCallback("forward"), outbox'[d], <<>>)
          BY <1>0, <2>2, <2>3, <4>1, <4>2 DEF HeadMoved
        <5> QED BY <5>1, HeadMoves
      <4> QED BY <1>8, <2>1, <4>3 DEF ToWrite, Forwarded
    <3>2. CASE Dest[m] # d
      <4>1. PICK e \in Carried : /\ ~(e \in Sent(s) /\ Dest[e] = d)
                                 /\ outbox'[d] = outbox[d] \/ outbox'[d] = Append(outbox[d], e)
        <5>1. CASE Dest[m] \in Conns
          BY <1>10, <2>2, <3>2, <5>1 DEF FinishForward, SendTo
        <5>2. CASE Dest[m] \notin Conns /\ m \in Calls
          <6> DEFINE e == ErrorReply(m)
          <6>1. e \in Replies
            BY <5>2 DEF Replies
          <6>2. outbox'[d] = outbox[d] \/ outbox'[d] = Append(outbox[d], e)
            <7>1. outbox' = SendTo(callback.item.conn, e)
              BY <1>10, <5>2 DEF FinishForward
            <7> HIDE DEF e
            <7> QED BY <7>1 DEF SendTo
          <6> HIDE DEF e
          <6>3. e \in Carried /\ e \notin Msgs
            BY <6>1 DEF Carried, RouterAssumption
          <6>4. Sent(s) \subseteq Msgs
            BY DEF Sent, RouterAssumption
          <6> QED BY <6>2, <6>3, <6>4
        <5>3. CASE Dest[m] \notin Conns /\ m \notin Calls
          <6>1. outbox' = outbox
            BY <1>10, <5>3 DEF FinishForward
          <6> QED BY <2>2, <3>2, <6>1
        <5> QED BY <5>1, <5>2, <5>3
      <4>2. ToWrite(s, d)' = ToWrite(s, d)
        BY <1>9, <4>1
      <4>3. Forwarded(s, d) = <<>> /\ Forwarded(s, d)' = <<>>
        BY <1>0, <1>8, <2>1, <2>2, <3>2, BetweenOthers DEF Forwarded
      <4> QED BY <4>2, <4>3
    <3> QED BY <3>1, <3>2
  <2> QED BY <1>8, <2>1, <2>4 DEF FlowMoves, Moved, Cat
<1>11. ASSUME FinishDispatch PROVE FlowMoves(s, d)
  <2> DEFINE m == callback.item.msg
  <2>1. callback # None /\ callback.queue = "dispatch" /\ ReturnFromCallback
    BY <1>11 DEF FinishDispatch
  <2>2. m \in Carried /\ (m \in Msgs /\ Dest[m] \in Conns => callback.item.conn = Dest[m])
    BY <2>1 DEF CopiesOK, CallbackOK, ItemOK, Carried, TypeOK, Callbacks, Items
  <2> DEFINE n == Recipients(callback.item)[d]
             e == Copies(m, n)
  <2>3. n \in Nat /\ outbox'[d] = outbox[d] \o e /\ outbox[d] \in Seq(Carried)
    BY <1>11, <2>1, RecipientsTyped, SendCopiesIs DEF FinishDispatch, TypeOK, Carried
  <2>4. ToWrite(s, d)' = ToWrite(s, d)
    <3>1. ~(m \in Sent(s) /\ Dest[m] = d) \/ e = <<>>
      <4>1. CASE d = callback.item.conn
        <5>1. n = 0
          BY <4>1 DEF Recipients
        <5> QED BY <5>1 DEF Copies
      <4>2. CASE d # callback.item.conn
        BY <2>2, <4>2 DEF Sent, RouterAssumption
      <4> QED BY <4>1, <4>2
    <3>2. e \in Seq(Carried)
      BY <2>2, <2>3, CopiesTyped
    <3>3. Between(s, d, e) = <<>>
      <4>1. ~(m \in Sent(s) /\ Dest[m] = d) => Between(s, d, e) = <<>>
        BY <2>2, <2>3, BetweenCopies
      <4> QED BY <1>0, <3>1, <4>1
    <3> HIDE DEF e, n, m
    <3>4. Between(s, d, outbox[d] \o e) = Between(s, d, outbox[d]) \o Between(s, d, e)
      BY <2>3, <3>2, BetweenParts
    <3>5. ToWrite(s, d)' = Cat(ToWrite(s, d), <<>>) /\ ToWrite(s, d) \in Seq(Carried)
      BY <2>3, <3>3, <3>4, BetweenParts DEF ToWrite, Cat
    <3> QED BY <3>5, CatParts
  <2>5. Forwarded(s, d)' = Forwarded(s, d)
    BY <1>8, <2>1 DEF Forwarded, InCallback
  <2> QED BY <1>8, <2>1, <2>4, <2>5 DEF FlowMoves, Moved, Cat
<1>12. ASSUME UNCHANGED vars PROVE FlowMoves(s, d)
  BY <1>12 DEF vars, FlowMoves, Moved, Cat, Received, Writing, ToWrite, Forwarded, Queued, Held,
               Unread, BeingWritten, InHand, InCallback, QueuedMsgs
<1> QED
  BY <1>2, <1>3, <1>4, <1>5, <1>6, <1>7, <1>10, <1>11, <1>12 DEF Next, Step, Callback

\* At the start everything is still to be sent.
LEMMA InitFlow ==
  ASSUME RouterAssumption, Init
  PROVE  \A s \in Threads, d \in Conns : Flow(s, d) = Between(s, d, Outgoing[s])
<1>1. ASSUME NEW s \in Threads, NEW d \in Conns PROVE Flow(s, d) = Between(s, d, Outgoing[s])
  <2>0. Outgoing[s] \in Seq(Carried)
    <3>1. Outgoing[s] \in Seq(Msgs)
      BY DEF RouterAssumption
    <3> QED BY <3>1 DEF Carried
  <2>1. Between(s, d, <<>>) = <<>> /\ Between(s, d, Outgoing[s]) \in Seq(Carried)
    BY <2>0, BetweenParts
  <2>2. QueuedMsgs("forward") = <<>>
    <3>1. queue["forward"] = <<>>
      BY DEF Init, Queues
    <3> QED BY <3>1 DEF QueuedMsgs
  <2>3. /\ Received(s, d) = <<>> /\ Writing(s, d) = <<>> /\ ToWrite(s, d) = <<>>
        /\ Forwarded(s, d) = <<>> /\ Queued(s, d) = <<>> /\ Held(s, d) = <<>>
        /\ Unread(s, d) = Between(s, d, Outgoing[s])
    BY <2>1, <2>2 DEF Init, Received, Writing, ToWrite, Forwarded, Queued, Held, Unread,
                      BeingWritten, InHand, InCallback, Threads
  <2> DEFINE e == Between(s, d, Outgoing[s])
  <2> HIDE DEF e
  <2>4. <<>> \o <<>> \o <<>> \o <<>> \o <<>> \o <<>> \o e = e
    <3>1. <<>> \o <<>> = <<>> /\ <<>> \o e = e
      BY <2>1 DEF e
    <3> QED BY <3>1
  <2> QED BY <2>3, <2>4 DEF Flow, e
<1> QED BY <1>1

----------------------------------------------------------------------------
(* Which message can be where.  A message belongs to the thread that sends *)
(* it, or the call it answers, and to the connection by whose filter it is *)
(* dispatched; what the daemon is sent is dispatched by its reader.        *)

\* A reply comes in the place of its call.
Origin(x) == IF x \in Msgs THEN x ELSE x.errorFor

Homes == Conns \cup {Daemon}

\* What c is meant to get, however often.
Meant(c) == {x \in Carried : Expected[c][x] > 0}

Belongs(s, h, x) ==
  /\ Origin(x) \in Sent(s)
  /\ \/ x \in Msgs /\ Dest[x] = h
     \/ Dest[Origin(x)] = Absent /\ h = s /\ h \in Conns

AtHome(h, x) == \E s \in Threads : Belongs(s, h, x)

Group(s, h) == {x \in Carried : Belongs(s, h, x)}

Wanted(s, h, c) == Msgs \cap Group(s, h) \cap Meant(c)

\* What can be dispatched: all but what nobody takes.
Real(x) == x \in Carried /\ (x \in Msgs <=> Dest[Origin(x)] # Absent)

RoutedItem(q, item, tg) ==
  /\ q = "forward" =>
       item.conn \in Threads /\ item.msg \in Sent(item.conn) /\ Dest[item.msg] # Daemon
  /\ q = "dispatch" =>
       /\ item.msg \in tg /\ Real(item.msg)
       /\ \/ /\ item.conn = None /\ item.msg \in Msgs /\ Dest[item.msg] = Daemon
             /\ AtHome(Daemon, item.msg)
          \/ item.conn \in Conns /\ AtHome(item.conn, item.msg)

RoutedJob(t, j) ==
  /\ j.queue = "forward" => j.item.conn = t /\ ~j.write
  /\ j.queue = "dispatch" =>
       IF j.write THEN j.item.conn = t /\ j.item.msg \in Meant(t)
                  ELSE j.item.conn = None /\ j.item.msg \in Sent(t)

RoutedCopy(c, x, tg) ==
  /\ x \in Meant(c)
  /\ \E h \in Homes : AtHome(h, x)
  /\ x \notin tg => AtHome(c, x)

RoutedJobs ==
  \A t \in Threads : job[t] # None =>
    RoutedItem(job[t].queue, job[t].item, tagged) /\ RoutedJob(t, job[t])

RoutedQueues ==
  \A q \in Queues : \A i \in DOMAIN queue[q] : RoutedItem(q, queue[q][i], tagged)

RoutedCallback == callback # None => RoutedItem(callback.queue, callback.item, tagged)

RoutedCopies == \A c \in Conns : \A i \in DOMAIN outbox[c] : RoutedCopy(c, outbox[c][i], tagged)

RoutedInbox == \A t \in Threads : \A i \in DOMAIN inbox[t] : inbox[t][i] \in Sent(t)

Routed == RoutedJobs /\ RoutedQueues /\ RoutedCallback /\ RoutedCopies /\ RoutedInbox

LEMMA OriginIs ==
  ASSUME RouterAssumption
  PROVE  /\ \A x \in Msgs : Origin(x) = x
         /\ \A m \in Calls : /\ Origin(ErrorReply(m)) = m /\ ErrorReply(m) \in Replies
                             /\ ErrorReply(m) \notin Msgs /\ m \in Msgs
         /\ \A x \in Replies : \E m \in Calls : x = ErrorReply(m)
         /\ \A t \in Threads : Sent(t) \subseteq Msgs
<1>1. \A m \in Calls : ErrorReply(m).errorFor = m /\ ErrorReply(m) \in Replies
  BY DEF ErrorReply, Replies
<1>2. \A x \in Replies : x \notin Msgs
  BY DEF RouterAssumption
<1>3. \A t \in Threads : Sent(t) \subseteq Msgs
  BY DEF RouterAssumption, Sent
<1>4. \A x \in Replies : \E m \in Calls : x = ErrorReply(m)
  BY DEF Replies
<1> QED BY <1>1, <1>2, <1>3, <1>4 DEF Origin, RouterAssumption

LEMMA BelongsOnce ==
  ASSUME RouterAssumption, NEW x \in Carried, NEW s \in Threads, NEW t \in Threads,
         NEW h \in Homes, NEW g \in Homes, Belongs(s, h, x), Belongs(t, g, x)
  PROVE  s = t /\ h = g
<1>1. s = t
  BY DEF Belongs, RouterAssumption
<1>2. Absent \notin Homes
  BY DEF Homes, RouterAssumption
<1>3. x \in Msgs => Origin(x) = x
  BY OriginIs
<1> QED BY <1>1, <1>2, <1>3 DEF Belongs

\* Whoever is meant to get it, and how often.
LEMMA ExpectedIs ==
  ASSUME RouterAssumption, NEW c \in Conns
  PROVE  /\ \A m \in Msgs : m \in Meant(c) <=> Dest[m] = c \/ (Dest[m] # Absent /\ Watching[m][c] > 0)
         /\ \A m \in Calls : Dest[m] = Absent /\ (m \in Sent(c) \/ Watching[ErrorReply(m)][c] > 0)
              => ErrorReply(m) \in Meant(c)
         /\ \A x \in Meant(c) : Real(x)
         /\ \A x \in Carried : Expected[c][x] \in Nat
         /\ \A x \in Addressed(c) : Expected[c][x] = 1
         /\ \A x \in Carried : Real(x) /\ x \notin Addressed(c) => Expected[c][x] = Watching[x][c]
<1>1. \A x \in Carried : Expected[c][x] = IF x \in Addressed(c) THEN 1
                                         ELSE IF x \in Dispatched THEN Watching[x][c] ELSE 0
  BY DEF Expected, Carried
<1>2. \A m \in Calls : ErrorReply(m) \notin Msgs /\ Origin(ErrorReply(m)) = m
                       /\ ErrorReply(m) \in Replies
  BY OriginIs
<1>3. \A m \in Msgs : Origin(m) = m
  BY OriginIs
<1>4. Absent \notin Conns
  BY DEF RouterAssumption
<1>5. \A x \in Carried : Watching[x][c] \in Nat
  BY DEF RouterAssumption, Carried
<1>6. \A x \in Addressed(c) : x \in Carried
  BY <1>2 DEF Addressed, Carried
<1>7. \A m \in Msgs : /\ m \in Addressed(c) <=> Dest[m] = c
                      /\ m \in Dispatched <=> Dest[m] # Absent
  BY <1>2 DEF Addressed, Dispatched
<1>8. ASSUME NEW m \in Calls
      PROVE  /\ ErrorReply(m) \in Addressed(c) <=> m \in Sent(c) /\ Dest[m] = Absent
             /\ ErrorReply(m) \in Dispatched <=> Dest[m] = Absent
  <2> DEFINE x == ErrorReply(m)
  <2>1. \A n \in Calls : ErrorReply(n) = x => n = m
    BY <1>2
  <2>2. x \notin Msgs
    BY <1>2
  <2> HIDE DEF x
  <2>3. x \in Addressed(c) <=> \E n \in Calls : n \in Sent(c) /\ Dest[n] = Absent /\ x = ErrorReply(n)
    BY <2>2 DEF Addressed
  <2>4. x \in Dispatched <=> \E n \in Calls : Dest[n] = Absent /\ x = ErrorReply(n)
    BY <2>2 DEF Dispatched
  <2> QED BY <2>1, <2>3, <2>4 DEF x
<1>9. \A m \in Msgs : m \in Meant(c) <=> Dest[m] = c \/ (Dest[m] # Absent /\ Watching[m][c] > 0)
  <2> SUFFICES ASSUME NEW m \in Msgs
               PROVE  m \in Meant(c) <=> Dest[m] = c \/ (Dest[m] # Absent /\ Watching[m][c] > 0)
    OBVIOUS
  <2>1. m \in Carried
    BY DEF Carried
  <2> QED BY <1>1, <1>5, <1>7, <2>1 DEF Meant
<1>10. \A m \in Calls : Dest[m] = Absent /\ (m \in Sent(c) \/ Watching[ErrorReply(m)][c] > 0)
         => ErrorReply(m) \in Meant(c)
  <2> SUFFICES ASSUME NEW m \in Calls, Dest[m] = Absent,
                      m \in Sent(c) \/ Watching[ErrorReply(m)][c] > 0
               PROVE  Expected[c][ErrorReply(m)] > 0
    BY <1>2 DEF Meant, Carried
  <2>1. ErrorReply(m) \in Carried
    BY <1>2 DEF Carried
  <2>2. ErrorReply(m) \in Dispatched /\ (ErrorReply(m) \in Addressed(c) <=> m \in Sent(c))
    BY <1>8
  <2> QED BY <1>1, <1>5, <2>1, <2>2
<1>11. \A x \in Carried : Real(x) <=> x \in Dispatched
  <2> SUFFICES ASSUME NEW x \in Carried PROVE Real(x) <=> x \in Dispatched
    OBVIOUS
  <2>1. CASE x \in Msgs
    BY <1>3, <1>7, <2>1 DEF Real
  <2>2. CASE x \notin Msgs
    <3>1. PICK m \in Calls : x = ErrorReply(m)
      BY <2>2, OriginIs DEF Carried
    <3> QED BY <1>2, <1>8, <2>2, <3>1 DEF Real
  <2> QED BY <2>1, <2>2
<1>12. \A x \in Addressed(c) : x \in Dispatched
  <2> SUFFICES ASSUME NEW x \in Addressed(c) PROVE x \in Dispatched
    OBVIOUS
  <2>1. CASE x \in Msgs
    BY <1>4, <1>7, <2>1
  <2>2. CASE x \notin Msgs
    BY <2>2 DEF Addressed, Dispatched
  <2> QED BY <2>1, <2>2
<1>13. \A x \in Meant(c) : x \in Carried /\ Expected[c][x] > 0
  BY DEF Meant
<1> QED BY <1>1, <1>5, <1>6, <1>9, <1>10, <1>11, <1>12, <1>13

\* What is dispatched goes to those it is meant for.
LEMMA RealIsExpected ==
  ASSUME RouterAssumption, NEW c \in Conns, NEW x, Real(x),
         Watching[x][c] > 0 \/ AtHome(c, x)
  PROVE  x \in Meant(c)
<1>1. CASE x \in Msgs
  <2>1. Origin(x) = x /\ Dest[x] # Absent
    BY <1>1, OriginIs DEF Real
  <2> QED BY <1>1, <2>1, ExpectedIs DEF AtHome, Belongs
<1>2. CASE x \notin Msgs
  <2>1. PICK m \in Calls : x = ErrorReply(m)
    BY <1>2, OriginIs DEF Real, Carried
  <2>2. Origin(x) = m /\ Dest[m] = Absent
    BY <1>2, <2>1, OriginIs DEF Real
  <2>3. Watching[x][c] > 0 \/ m \in Sent(c)
    BY <1>2, <2>2 DEF AtHome, Belongs
  <2> QED BY <2>1, <2>2, <2>3, ExpectedIs
<1> QED BY <1>1, <1>2

LEMMA RoutedIsCopiesOK ==
  ASSUME RouterAssumption, TypeOK, Routed
  PROVE  CopiesOK
<1>1. \A m \in Msgs : Origin(m) = m
  BY OriginIs
<1>2. \A t \in Threads : Sent(t) \subseteq Msgs
  BY OriginIs
<1>3. Absent \notin Conns /\ Daemon \notin Conns
  BY DEF RouterAssumption
<1>4. \A c \in Conns, m \in Msgs : AtHome(c, m) /\ Dest[m] \in Conns => Dest[m] = c
  BY <1>1, <1>3 DEF AtHome, Belongs
<1>5. \A q, item : RoutedItem(q, item, tagged) => ItemOK(q, item, tagged)
  BY <1>2, <1>3, <1>4 DEF RoutedItem, ItemOK
<1>6. \A c \in Conns : \A m : RoutedCopy(c, m, tagged) => CopyOK(c, m, tagged)
  BY <1>4 DEF RoutedCopy, CopyOK
<1>7. \A t \in Threads : JobOK(t)
  BY <1>5 DEF Routed, RoutedJobs, RoutedItem, RoutedJob, JobOK
<1>8. QueuesOK /\ CallbackOK /\ OutboxOK /\ InboxOK
  BY <1>5, <1>6 DEF Routed, RoutedQueues, RoutedCallback, RoutedCopies, RoutedInbox,
                    QueuesOK, CallbackOK, OutboxOK, InboxOK
<1> QED BY <1>7, <1>8 DEF CopiesOK

LEMMA MoreRouted ==
  ASSUME NEW tg, NEW more, tg \subseteq more
  PROVE  /\ \A q, item : RoutedItem(q, item, tg) => RoutedItem(q, item, more)
         /\ \A c, x : RoutedCopy(c, x, tg) => RoutedCopy(c, x, more)
BY DEF RoutedItem, RoutedCopy

LEMMA RoutedEnqueue ==
  ASSUME RouterAssumption, TypeOK, Routed, tagged \subseteq tagged',
         NEW t \in Threads, NEW q \in Queues, NEW item \in Items, NEW b \in BOOLEAN,
         Enqueue(t, q, item, b), RoutedItem(q, item, tagged'),
         RoutedJob(t, [queue |-> q, item |-> item, write |-> b])
  PROVE  RoutedJobs'
<1> DEFINE new == [queue |-> q, item |-> item, write |-> b]
<1>1. new.queue = q /\ new.item = item /\ RoutedJob(t, new)
  OBVIOUS
<1>2. job' = [job EXCEPT ![t] = new]
  BY DEF Enqueue
<1> HIDE DEF new
<1> SUFFICES ASSUME NEW u \in Threads, job'[u] # None
             PROVE  RoutedItem(job'[u].queue, job'[u].item, tagged') /\ RoutedJob(u, job'[u])
  BY DEF RoutedJobs
<1>3. CASE u = t
  <2>1. job'[u] = new
    BY <1>2, <1>3 DEF TypeOK
  <2> QED BY <1>1, <1>3, <2>1
<1>4. CASE u # t
  <2>1. job'[u] = job[u]
    BY <1>2, <1>4 DEF TypeOK
  <2> QED BY <2>1, MoreRouted DEF Routed, RoutedJobs
<1> QED BY <1>3, <1>4

LEMMA RoutedMore ==
  ASSUME Routed, tagged \subseteq tagged'
  PROVE  /\ UNCHANGED <<queue, callback>> => RoutedQueues' /\ RoutedCallback'
         /\ UNCHANGED outbox => RoutedCopies'
         /\ UNCHANGED inbox => RoutedInbox'
BY MoreRouted DEF Routed, RoutedQueues, RoutedCallback, RoutedCopies, RoutedInbox

\* A message is read, or a signal emitted.
Reads(t) ==
  /\ pc[t] = "idle" /\ inbox[t] # <<>>
  /\ inbox' = [inbox EXCEPT ![t] = Tail(@)]
  /\ LET m == Head(inbox[t])
     IN IF ForwardedTo(m)
        THEN Enqueue(t, "forward", [msg |-> m, conn |-> t], FALSE) /\ UNCHANGED tagged
        ELSE DispatchByRule(t, m, None, FALSE)
  /\ UNCHANGED <<outbox, wire, queue, sources, callback>>

LEMMA ReadsIs ==
  /\ \A c \in Conns : FilterIncoming(c) => Reads(c)
  /\ EmitSignal => Reads(Main)
BY DEF FilterIncoming, EmitSignal, Reads

LEMMA RoutedReads ==
  ASSUME RouterAssumption, TypeOK, Routed, NEW t \in Threads, Reads(t)
  PROVE  Routed'
<1> DEFINE m == Head(inbox[t])
<1>1. inbox[t] \in Seq(Msgs) /\ inbox[t] # <<>>
  BY DEF TypeOK, Reads
<1>2. m \in Msgs /\ m \in Sent(t)
  BY <1>1, EntriesTail, HeadTail DEF Routed, RoutedInbox
<1>3. RoutedInbox'
  <2> SUFFICES ASSUME NEW u \in Threads, NEW i \in DOMAIN inbox'[u]
               PROVE  inbox'[u][i] \in Sent(u)
    BY DEF RoutedInbox
  <2>1. CASE u = t
    <3>1. inbox'[u] = Tail(inbox[t])
      BY <2>1 DEF TypeOK, Reads
    <3>2. i + 1 \in DOMAIN inbox[t] /\ inbox'[u][i] = inbox[t][i + 1]
      BY <1>1, <3>1, EntriesTail
    <3> QED BY <2>1, <3>2 DEF Routed, RoutedInbox
  <2>2. CASE u # t
    <3>1. inbox'[u] = inbox[u]
      BY <2>2 DEF TypeOK, Reads
    <3> QED BY <3>1 DEF Routed, RoutedInbox
  <2> QED BY <2>1, <2>2
<1>4. tagged \subseteq tagged'
  BY DEF DispatchByRule, Reads
<1>5. RoutedJobs'
  <2>1. CASE ForwardedTo(m)
    <3> DEFINE item == [msg |-> m, conn |-> t]
               new == [queue |-> "forward", item |-> item, write |-> FALSE]
    <3>1. Enqueue(t, "forward", item, FALSE)
      BY <2>1 DEF Reads
    <3>2. item \in Items /\ item.conn = t /\ item.msg = m
      BY <1>2 DEF Items
    <3>3. RoutedItem("forward", item, tagged')
      BY <1>2, <2>1, <3>2 DEF RoutedItem, ForwardedTo
    <3>4. RoutedJob(t, new)
      BY <3>2 DEF RoutedJob
    <3>5. "forward" \in Queues
      BY DEF Queues
    <3> HIDE DEF item
    <3> QED BY <1>4, <3>1, <3>2, <3>3, <3>4, <3>5, RoutedEnqueue
  <2>2. CASE ~ForwardedTo(m)
    <3> DEFINE item == [msg |-> m, conn |-> None]
               new == [queue |-> "dispatch", item |-> item, write |-> FALSE]
    <3>1. Enqueue(t, "dispatch", item, FALSE) /\ m \in tagged'
      BY <2>2 DEF Reads, DispatchByRule
    <3>2. item \in Items /\ item.conn = None /\ item.msg = m
      BY <1>2 DEF Items
    <3>3. Dest[m] = Daemon /\ Real(m)
      BY <1>2, <2>2, OriginIs DEF ForwardedTo, Real, Carried, RouterAssumption
    <3>4. AtHome(Daemon, m)
      BY <1>2, <3>3, OriginIs DEF AtHome, Belongs
    <3>5. RoutedItem("dispatch", item, tagged')
      BY <1>2, <3>1, <3>2, <3>3, <3>4 DEF RoutedItem
    <3>6. RoutedJob(t, new)
      BY <1>2, <3>2 DEF RoutedJob
    <3>7. "dispatch" \in Queues
      BY DEF Queues
    <3> HIDE DEF item
    <3> QED BY <1>4, <3>1, <3>2, <3>5, <3>6, <3>7, RoutedEnqueue
  <2> QED BY <2>1, <2>2
<1>6. UNCHANGED <<queue, callback, outbox>>
  BY DEF Reads
<1>7. RoutedQueues' /\ RoutedCallback' /\ RoutedCopies'
  BY <1>4, <1>6, RoutedMore
<1> QED BY <1>3, <1>5, <1>7 DEF Routed

LEMMA RoutedOutgoing ==
  ASSUME RouterAssumption, TypeOK, Routed, NEW c \in Conns, FilterOutgoing(c)
  PROVE  Routed'
<1> DEFINE m == Head(outbox[c])
<1>1. outbox[c] \in Seq(Carried) /\ outbox[c] # <<>>
  BY DEF FilterOutgoing, TypeOK, Carried
<1>2. m \in Carried /\ RoutedCopy(c, m, tagged)
  BY <1>1, EntriesTail, HeadTail DEF Routed, RoutedCopies
<1>3. \A d \in Conns : \A i \in DOMAIN outbox'[d] : RoutedCopy(d, outbox'[d][i], tagged)
  <2> SUFFICES ASSUME NEW d \in Conns, NEW i \in DOMAIN outbox'[d]
               PROVE  RoutedCopy(d, outbox'[d][i], tagged)
    OBVIOUS
  <2>1. CASE d = c
    <3>1. outbox'[d] = Tail(outbox[c])
      BY <2>1 DEF FilterOutgoing, TypeOK
    <3>2. i + 1 \in DOMAIN outbox[c] /\ outbox'[d][i] = outbox[c][i + 1]
      BY <1>1, <3>1, EntriesTail
    <3> QED BY <2>1, <3>2 DEF Routed, RoutedCopies
  <2>2. CASE d # c
    <3>1. outbox'[d] = outbox[d]
      BY <2>2 DEF FilterOutgoing, TypeOK
    <3> QED BY <3>1 DEF Routed, RoutedCopies
  <2> QED BY <2>1, <2>2
<1>4. tagged \subseteq tagged' /\ UNCHANGED <<inbox, queue, callback>>
  BY DEF FilterOutgoing, DispatchByRule
<1>5. RoutedInbox' /\ RoutedCopies' /\ RoutedQueues' /\ RoutedCallback'
  <2>1. RoutedCopies'
    BY <1>3, <1>4, MoreRouted DEF RoutedCopies
  <2> QED BY <1>4, <2>1, RoutedMore
<1>6. RoutedJobs'
  <2>1. CASE DispatchByRule(c, m, c, TRUE)
    <3> DEFINE item == [msg |-> m, conn |-> c]
               new == [queue |-> "dispatch", item |-> item, write |-> TRUE]
    <3>1. Enqueue(c, "dispatch", item, TRUE) /\ m \in tagged' /\ m \notin tagged
      BY <2>1 DEF DispatchByRule
    <3>2. item \in Items /\ item.conn = c /\ item.msg = m
      BY <1>2 DEF Items, Threads, Carried
    <3>3. m \in Meant(c) /\ AtHome(c, m) /\ Real(m)
      BY <1>2, <3>1, ExpectedIs DEF RoutedCopy
    <3>4. RoutedItem("dispatch", item, tagged')
      BY <3>1, <3>2, <3>3 DEF RoutedItem
    <3>5. RoutedJob(c, new)
      BY <3>2, <3>3 DEF RoutedJob
    <3>6. "dispatch" \in Queues /\ c \in Threads
      BY DEF Queues, Threads
    <3> HIDE DEF item
    <3> QED BY <1>4, <3>1, <3>2, <3>4, <3>5, <3>6, RoutedEnqueue
  <2>2. CASE UNCHANGED <<pc, job, tagged>>
    BY <2>2 DEF Routed, RoutedJobs
  <2> QED BY <2>1, <2>2 DEF FilterOutgoing
<1> QED BY <1>5, <1>6 DEF Routed

LEMMA RoutedQueue ==
  ASSUME RouterAssumption, TypeOK, Routed, NEW t \in Threads, AppendToQueue(t) \/ AttachSource(t)
  PROVE  Routed'
<1>1. job[t] \in Jobs /\ job[t] # None
  BY DEF TypeOK, AppendToQueue, AttachSource
<1>2. UNCHANGED <<inbox, outbox, callback, tagged>>
  BY DEF AppendToQueue, AttachSource
<1>3. Leave(t) \/ UNCHANGED job
  BY DEF AppendToQueue, AttachSource
<1>4. RoutedJobs'
  BY <1>2, <1>3 DEF Leave, Routed, RoutedJobs, TypeOK
<1>5. RoutedQueues'
  <2>1. CASE AttachSource(t)
    BY <1>2, <2>1 DEF AttachSource, Routed, RoutedQueues
  <2>2. CASE AppendToQueue(t)
    <3>1. PICK q \in Queues, item \in Items : q = job[t].queue /\ item = job[t].item
      BY <1>1 DEF Jobs
    <3>2. RoutedItem(q, item, tagged)
      BY <1>1, <3>1 DEF Routed, RoutedJobs
    <3>3. queue' = [queue EXCEPT ![q] = Append(queue[q], item)]
      BY <2>2, <3>1 DEF AppendToQueue, Appended
    <3> SUFFICES ASSUME NEW p \in Queues, NEW i \in DOMAIN queue'[p]
                 PROVE  RoutedItem(p, queue'[p][i], tagged)
      BY <1>2 DEF RoutedQueues
    <3>4. CASE p = q
      <4>1. queue'[p] = Append(queue[q], item) /\ queue[q] \in Seq(Items)
        BY <3>3, <3>4 DEF TypeOK
      <4>2. queue'[p][i] = item \/ (i \in DOMAIN queue[q] /\ queue'[p][i] = queue[q][i])
        BY <4>1, EntriesAppend
      <4> QED BY <3>2, <3>4, <4>2 DEF Routed, RoutedQueues
    <3>5. CASE p # q
      <4>1. queue'[p] = queue[p]
        BY <3>3, <3>5 DEF TypeOK
      <4> QED BY <4>1 DEF Routed, RoutedQueues
    <3> QED BY <3>4, <3>5
  <2> QED BY <2>1, <2>2
<1> QED BY <1>2, <1>4, <1>5, RoutedMore DEF Routed, RoutedCallback

LEMMA RoutedStart ==
  ASSUME RouterAssumption, TypeOK, Routed, NEW q \in Queues, StartCallback(q)
  PROVE  Routed'
<1>1. queue[q] \in Seq(Items) /\ queue[q] # <<>>
  BY DEF StartCallback, TypeOK
<1>2. queue' = [queue EXCEPT ![q] = Tail(queue[q])] /\ UNCHANGED <<inbox, outbox, job, tagged>>
  BY DEF StartCallback
<1>3. RoutedQueues'
  <2> SUFFICES ASSUME NEW p \in Queues, NEW i \in DOMAIN queue'[p]
               PROVE  RoutedItem(p, queue'[p][i], tagged)
    BY <1>2 DEF RoutedQueues
  <2>1. CASE p = q
    <3>1. queue'[p] = Tail(queue[q])
      BY <1>2, <2>1 DEF TypeOK
    <3>2. i + 1 \in DOMAIN queue[q] /\ queue'[p][i] = queue[q][i + 1]
      BY <1>1, <3>1, EntriesTail
    <3> QED BY <2>1, <3>2 DEF Routed, RoutedQueues
  <2>2. CASE p # q
    <3>1. queue'[p] = queue[p]
      BY <1>2, <2>2 DEF TypeOK
    <3> QED BY <3>1 DEF Routed, RoutedQueues
  <2> QED BY <2>1, <2>2
<1>4. RoutedCallback'
  <2>1. callback'.queue = q /\ callback'.item = queue[q][1] /\ 1 \in DOMAIN queue[q]
    BY <1>1, EntriesTail DEF StartCallback
  <2>2. RoutedItem(q, queue[q][1], tagged)
    BY <2>1 DEF Routed, RoutedQueues
  <2> QED BY <1>2, <2>1, <2>2 DEF RoutedCallback
<1> QED BY <1>2, <1>3, <1>4, RoutedMore DEF Routed, RoutedJobs

LEMMA RoutedSend ==
  ASSUME RouterAssumption, TypeOK, Routed, ReturnFromCallback,
         NEW x,
         \A c \in Conns : \A i \in DOMAIN outbox'[c] :
           \/ i \in DOMAIN outbox[c] /\ outbox'[c][i] = outbox[c][i]
           \/ outbox'[c][i] = x /\ RoutedCopy(c, x, tagged)
  PROVE  Routed'
<1>1. UNCHANGED <<inbox, job, queue, tagged>> /\ callback' = None
  BY DEF ReturnFromCallback
<1>2. RoutedCopies'
  BY <1>1 DEF Routed, RoutedCopies
<1> QED BY <1>1, <1>2 DEF Routed, RoutedInbox, RoutedQueues, RoutedCallback, RoutedJobs

LEMMA RoutedSendTo ==
  ASSUME RouterAssumption, TypeOK, Routed, ReturnFromCallback,
         NEW d, NEW x \in Carried, outbox' = SendTo(d, x), d \in Conns => RoutedCopy(d, x, tagged)
  PROVE  Routed'
<1> SUFFICES ASSUME NEW c \in Conns, NEW i \in DOMAIN outbox'[c]
             PROVE  \/ i \in DOMAIN outbox[c] /\ outbox'[c][i] = outbox[c][i]
                    \/ outbox'[c][i] = x /\ RoutedCopy(c, x, tagged)
  BY RoutedSend
<1>1. CASE c = d
  <2>1. outbox'[c] = Append(outbox[c], x) /\ outbox[c] \in Seq(Carried)
    BY <1>1 DEF SendTo, TypeOK, Carried
  <2>2. outbox'[c][i] = x \/ (i \in DOMAIN outbox[c] /\ outbox'[c][i] = outbox[c][i])
    BY <2>1, EntriesAppend
  <2> QED BY <1>1, <2>2
<1>2. CASE c # d
  <2>1. outbox'[c] = outbox[c]
    BY <1>2 DEF SendTo
  <2> QED BY <2>1
<1> QED BY <1>1, <1>2

\* How a callback for the forward queue ends.
LEMMA ForwardIs ==
  ASSUME RouterAssumption, TypeOK, Routed, FinishForward
  PROVE  LET m == callback.item.msg
             s == callback.item.conn
         IN /\ callback # None /\ callback.queue = "forward" /\ ReturnFromCallback
            /\ m \in Msgs /\ s \in Threads /\ m \in Sent(s)
            /\ \/ Dest[m] \in Conns /\ outbox' = SendTo(Dest[m], m)
               \/ Dest[m] = Absent /\ m \in Calls /\ outbox' = SendTo(s, ErrorReply(m))
               \/ Dest[m] = Absent /\ m \notin Calls /\ outbox' = outbox
<1> DEFINE m == callback.item.msg
           s == callback.item.conn
<1>1. callback # None /\ callback.queue = "forward" /\ ReturnFromCallback
  BY DEF FinishForward
<1>2. s \in Threads /\ m \in Sent(s) /\ Dest[m] # Daemon
  BY <1>1 DEF Routed, RoutedCallback, RoutedItem
<1>3. m \in Msgs
  BY <1>2, OriginIs
<1>4. Dest[m] \in Conns \/ (Dest[m] = Absent /\ Dest[m] \notin Conns)
  BY <1>2, <1>3 DEF RouterAssumption
<1>5. outbox' = CASE Dest[m] \in Conns -> SendTo(Dest[m], m)
                  [] Dest[m] \notin Conns /\ m \in Calls -> SendTo(s, ErrorReply(m))
                  [] OTHER -> outbox
  BY DEF FinishForward
<1> HIDE DEF m, s
<1>6. \/ Dest[m] \in Conns /\ outbox' = SendTo(Dest[m], m)
      \/ Dest[m] = Absent /\ m \in Calls /\ outbox' = SendTo(s, ErrorReply(m))
      \/ Dest[m] = Absent /\ m \notin Calls /\ outbox' = outbox
  BY <1>4, <1>5
<1> QED BY <1>1, <1>2, <1>3, <1>6 DEF m, s

LEMMA RoutedForward ==
  ASSUME RouterAssumption, TypeOK, Routed, FinishForward
  PROVE  Routed'
<1> DEFINE m == callback.item.msg
           s == callback.item.conn
<1>1. /\ ReturnFromCallback /\ m \in Msgs /\ s \in Threads /\ m \in Sent(s)
      /\ \/ Dest[m] \in Conns /\ outbox' = SendTo(Dest[m], m)
         \/ Dest[m] = Absent /\ m \in Calls /\ outbox' = SendTo(s, ErrorReply(m))
         \/ Dest[m] = Absent /\ m \notin Calls /\ outbox' = outbox
  BY ForwardIs
<1> HIDE DEF m, s
<1>2. CASE Dest[m] \in Conns /\ outbox' = SendTo(Dest[m], m)
  <2>1. Origin(m) = m /\ m \in Carried /\ m \in Meant(Dest[m])
    BY <1>1, <1>2, OriginIs, ExpectedIs DEF Carried
  <2>2. RoutedCopy(Dest[m], m, tagged)
    BY <1>1, <1>2, <2>1 DEF RoutedCopy, AtHome, Belongs, Homes
  <2> QED BY <1>1, <1>2, <2>1, <2>2, RoutedSendTo
<1>3. CASE Dest[m] = Absent /\ m \in Calls /\ outbox' = SendTo(s, ErrorReply(m))
  <2> DEFINE x == ErrorReply(m)
  <2>1. Origin(x) = m /\ x \in Carried
    BY <1>3, OriginIs DEF Carried
  <2>2. s \in Conns => x \in Meant(s) /\ Belongs(s, s, x)
    <3>1. s \in Conns => x \in Meant(s)
      BY <1>1, <1>3, ExpectedIs
    <3>2. s \in Conns => Belongs(s, s, x)
      BY <1>1, <1>3, <2>1 DEF Belongs
    <3> QED BY <3>1, <3>2
  <2>3. s \in Conns => RoutedCopy(s, x, tagged)
    BY <1>1, <2>2 DEF RoutedCopy, AtHome, Homes
  <2> HIDE DEF x
  <2>4. outbox' = SendTo(s, x)
    BY <1>3 DEF x
  <2> QED BY <1>1, <2>1, <2>3, <2>4, RoutedSendTo
<1>4. CASE outbox' = outbox
  <2>1. UNCHANGED <<inbox, job, queue, tagged, outbox>> /\ callback' = None
    BY <1>1, <1>4 DEF ReturnFromCallback
  <2> QED BY <2>1 DEF Routed, RoutedInbox, RoutedQueues, RoutedCallback, RoutedJobs, RoutedCopies
<1> QED BY <1>1, <1>2, <1>3, <1>4

LEMMA RoutedDispatch ==
  ASSUME RouterAssumption, TypeOK, Routed, FinishDispatch
  PROVE  Routed'
<1> DEFINE x == callback.item.msg
           n(c) == Recipients(callback.item)[c]
<1>1. /\ callback # None /\ ReturnFromCallback /\ x \in tagged /\ Real(x)
      /\ outbox' = SendCopies(Recipients(callback.item), x)
  BY DEF FinishDispatch, Routed, RoutedCallback, RoutedItem
<1>2. \E h \in Homes : AtHome(h, x)
  BY DEF FinishDispatch, Routed, RoutedCallback, RoutedItem, Homes
<1>3. x \in Carried
  BY <1>1 DEF Real
<1> SUFFICES ASSUME NEW c \in Conns, NEW i \in DOMAIN outbox'[c]
             PROVE  \/ i \in DOMAIN outbox[c] /\ outbox'[c][i] = outbox[c][i]
                    \/ outbox'[c][i] = x /\ RoutedCopy(c, x, tagged)
  BY <1>1, RoutedSend
<1>4. n(c) \in Nat /\ outbox'[c] = outbox[c] \o Copies(x, n(c)) /\ outbox[c] \in Seq(Carried)
  BY <1>1, RecipientsTyped, SendCopiesIs DEF TypeOK, Carried
<1>5. n(c) > 0 => Watching[x][c] > 0
  BY DEF Recipients
<1> HIDE DEF x, n
<1>6. /\ i \in 1..(Len(outbox[c]) + n(c))
      /\ i \in 1..Len(outbox[c]) => outbox'[c][i] = outbox[c][i]
      /\ i \in (Len(outbox[c]) + 1)..(Len(outbox[c]) + n(c)) => outbox'[c][i] = x
  <2> DEFINE o == outbox[c]
             k == n(c)
  <2>1. k \in Nat /\ o \in Seq(Carried) /\ outbox'[c] = o \o Copies(x, k)
    BY <1>4
  <2> HIDE DEF o, k
  <2>2. /\ DOMAIN (o \o Copies(x, k)) = 1..(Len(o) + k)
        /\ \A j \in 1..Len(o) : (o \o Copies(x, k))[j] = o[j]
        /\ \A j \in (Len(o) + 1)..(Len(o) + k) : (o \o Copies(x, k))[j] = x
    BY <1>3, <2>1, CopiesEntries
  <2>3. DOMAIN outbox'[c] = 1..(Len(o) + k)
    BY <2>1, <2>2
  <2> QED BY <2>1, <2>2, <2>3 DEF o, k
<1>7. CASE i \in 1..Len(outbox[c])
  BY <1>4, <1>6, <1>7
<1>8. CASE i \notin 1..Len(outbox[c])
  <2>1. n(c) > 0 /\ outbox'[c][i] = x
    BY <1>4, <1>6, <1>8
  <2>2. RoutedCopy(c, x, tagged)
    BY <1>1, <1>2, <1>5, <2>1, RealIsExpected DEF RoutedCopy
  <2> QED BY <2>1, <2>2
<1> QED BY <1>7, <1>8

LEMMA RoutedStep ==
  ASSUME RouterAssumption, TypeOK, Routed, [Next]_vars
  PROVE  Routed'
<1>1. ASSUME UNCHANGED vars PROVE Routed'
  BY <1>1 DEF vars, Routed, RoutedInbox, RoutedQueues, RoutedCallback, RoutedJobs, RoutedCopies
<1>2. \A t \in Threads : Reads(t) => Routed'
  BY RoutedReads
<1>3. \A c \in Conns : c \in Threads
  BY DEF Threads
<1>4. Main \in Threads
  BY DEF Threads
<1> QED BY <1>1, <1>2, <1>3, <1>4, ReadsIs, RoutedOutgoing, RoutedQueue, RoutedStart, RoutedForward,
           RoutedDispatch DEF Next, Step, Callback

FlowOK == \A s \in Threads, d \in Conns : Flow(s, d) = Between(s, d, Outgoing[s])

\* Every message is where it belongs, at any time.
LEMMA AllRouted == Spec => []Routed
<1>1. Init => Routed
  BY RouterAssumption DEF RouterAssumption, Init, Routed, RoutedInbox, RoutedJobs, RoutedQueues,
     RoutedCallback, RoutedCopies, Sent
<1>2. TypeOK /\ Routed /\ [Next]_vars => Routed'
  BY RoutedStep, RouterAssumption
<1> QED BY <1>1, <1>2, TypeCorrect, PTL DEF Spec

\* Between any two connections nothing is lost, doubled or overtaken, for any
\* number of connections and messages and whatever copies the match rules ask
\* for: what the receiver has got, what the queues and the threads hold of it
\* and what is still to be sent, put together, are what the sender sends.
THEOREM NothingLostBetween == Spec => []Conservation
<1>1. Init => FlowOK
  BY InitFlow, RouterAssumption DEF FlowOK
<1>2. TypeOK /\ TypeOK' /\ Routed /\ FlowOK /\ [Next]_vars => FlowOK'
  <2> SUFFICES ASSUME TypeOK, TypeOK', Routed, FlowOK, [Next]_vars PROVE FlowOK'
    OBVIOUS
  <2>1. ASSUME NEW s \in Threads, NEW d \in Conns PROVE Flow(s, d)' = Between(s, d, Outgoing[s])
    BY RoutedIsCopiesOK, FlowStep, FlowKept, RouterAssumption DEF FlowOK
  <2> QED BY <2>1 DEF FlowOK, Between
<1>3. TypeOK /\ FlowOK => Conservation
  BY FlowIs DEF FlowOK, Conservation
<1> QED BY <1>1, <1>2, <1>3, TypeCorrect, AllRouted, PTL DEF Spec
----------------------------------------------------------------------------
(* The implementation of BusDelivery.  What s sends to h, for the          *)
(* connection c, passes ten places; in each and from one to the next it is *)
(* in the order in which it was sent, and nothing meant for c leaves them. *)

Listed(s) == {s[i] : i \in DOMAIN s}

Prior(x, y) == SentBefore(Origin(x), Origin(y))

\* y may come after x, in place k or from there on: it was sent later.  In
\* the two places of the receiver the copies of a message follow each other.
Follows(k, x, y) == Prior(x, y) \/ (k <= 2 /\ x = y)

InLine(k, G, s) ==
  \A i, j \in DOMAIN s : i < j /\ s[i] \in G /\ s[j] \in G => Follows(k, s[i], s[j])

Apart(k, G, s, t) == \A x \in Listed(s) \cap G, y \in Listed(t) \cap G : Follows(k, x, y)

Places == 1..10

Ordered(G, W) ==
  /\ \A k \in Places : InLine(k, G, W[k])
  /\ \A k, l \in Places : k < l => Apart(l, G, W[k], W[l])

Complete(N, W) == \A n \in N : \E k \in Places : n \in Listed(W[k])

\* What becomes of one place.
Thinner(G, w, v) ==
  /\ \A k \in Places : InLine(k, G, w) => InLine(k, G, v)
  /\ Listed(v) \cap G \subseteq Listed(w)

Alike(G, w, v) == Thinner(G, w, v) /\ Listed(w) \cap G \subseteq Listed(v)

LEMMA AlikeItself ==
  ASSUME NEW G, NEW w
  PROVE  Alike(G, w, w)
BY DEF Alike, Thinner

LEMMA ListedFew == Listed(<<>>) = {} /\ \A e : Listed(<<e>>) = {e}
BY DEF Listed

LEMMA PlacesInOrder == \A p, q, r \in Places : p < q /\ q < r => p < r /\ p # q /\ p # r
BY DEF Places

LEMMA ListedAppend ==
  ASSUME NEW S, NEW s \in Seq(S), NEW e \in S
  PROVE  Listed(Append(s, e)) = Listed(s) \cup {e}
<1> DEFINE t == Append(s, e)
<1>1. /\ DOMAIN s = 1..Len(s) /\ DOMAIN t = 1..(Len(s) + 1) /\ Len(s) \in Nat
      /\ \A i \in 1..Len(s) : t[i] = s[i]
      /\ t[Len(s) + 1] = e
  OBVIOUS
<1> HIDE DEF t
<1>2. Listed(t) = Listed(s) \cup {e}
  BY <1>1 DEF Listed
<1> QED BY <1>2 DEF t

LEMMA ListedTail ==
  ASSUME NEW S, NEW s \in Seq(S), s # <<>>
  PROVE  Listed(s) = Listed(Tail(s)) \cup {Head(s)}
<1> DEFINE t == Tail(s)
           e == Head(s)
<1>1. /\ DOMAIN s = 1..Len(s) /\ DOMAIN t = 1..(Len(s) - 1) /\ Len(s) \in Nat /\ Len(s) > 0
      /\ \A i \in 1..(Len(s) - 1) : t[i] = s[i + 1]
      /\ s[1] = e
  OBVIOUS
<1> HIDE DEF t, e
<1>2. Listed(s) \subseteq Listed(t) \cup {e}
  <2> SUFFICES ASSUME NEW i \in 1..Len(s) PROVE s[i] \in Listed(t) \cup {e}
    BY <1>1 DEF Listed
  <2>1. CASE i = 1
    BY <1>1, <2>1
  <2>2. CASE i # 1
    <3>1. i - 1 \in 1..(Len(s) - 1) /\ (i - 1) + 1 = i
      BY <1>1, <2>2
    <3>2. t[i - 1] = s[i]
      BY <1>1, <3>1
    <3> QED BY <1>1, <3>1, <3>2 DEF Listed
  <2> QED BY <2>1, <2>2
<1>3. Listed(t) \cup {e} \subseteq Listed(s)
  <2>1. 1 \in 1..Len(s) /\ \A i \in 1..(Len(s) - 1) : i + 1 \in 1..Len(s)
    BY <1>1
  <2> QED BY <1>1, <2>1 DEF Listed
<1> QED BY <1>2, <1>3 DEF t, e

LEMMA TailThinner ==
  ASSUME NEW S, NEW G, NEW s \in Seq(S), s # <<>>
  PROVE  /\ Thinner(G, s, Tail(s))
         /\ Head(s) \notin G => Alike(G, s, Tail(s))
         /\ \A k \in Places : InLine(k, G, s) /\ Head(s) \in G => Apart(k, G, <<Head(s)>>, Tail(s))
<1> DEFINE t == Tail(s)
           e == Head(s)
<1>1. /\ DOMAIN s = 1..Len(s) /\ DOMAIN t = 1..(Len(s) - 1) /\ Len(s) \in Nat /\ Len(s) > 0
      /\ \A i \in 1..(Len(s) - 1) : t[i] = s[i + 1]
      /\ s[1] = e
  OBVIOUS
<1>2. Listed(s) = Listed(t) \cup {e}
  BY ListedTail
<1>3. Listed(<<e>>) = {e}
  BY DEF Listed
<1> HIDE DEF t, e
<1>4. \A k \in Places : InLine(k, G, s) => InLine(k, G, t)
  <2>1. \A i \in 1..(Len(s) - 1) : i + 1 \in 1..Len(s)
    BY <1>1
  <2>2. \A i, j \in 1..(Len(s) - 1) : i < j => i + 1 < j + 1
    BY <1>1
  <2> QED BY <1>1, <2>1, <2>2 DEF InLine
<1>5. ASSUME NEW k \in Places, InLine(k, G, s), e \in G PROVE Apart(k, G, <<e>>, t)
  <2> SUFFICES ASSUME NEW i \in 1..(Len(s) - 1), t[i] \in G PROVE Follows(k, e, t[i])
    BY <1>1, <1>3 DEF Apart, Listed
  <2>1. i + 1 \in 1..Len(s) /\ 1 \in 1..Len(s) /\ 1 < i + 1 /\ t[i] = s[i + 1]
    BY <1>1
  <2> QED BY <1>1, <1>5, <2>1 DEF InLine
<1>6. Thinner(G, s, t)
  BY <1>2, <1>4 DEF Thinner
<1>7. e \notin G => Alike(G, s, t)
  BY <1>2, <1>6 DEF Alike
<1> QED BY <1>5, <1>6, <1>7 DEF t, e

LEMMA AppendInLine ==
  ASSUME NEW S, NEW G, NEW s \in Seq(S), NEW e \in S
  PROVE  /\ \A k \in Places :
              InLine(k, G, s) /\ (e \in G => Apart(k, G, s, <<e>>)) => InLine(k, G, Append(s, e))
         /\ e \notin G => Alike(G, s, Append(s, e))
<1> DEFINE t == Append(s, e)
<1>1. /\ DOMAIN s = 1..Len(s) /\ DOMAIN t = 1..(Len(s) + 1) /\ Len(s) \in Nat
      /\ \A i \in 1..Len(s) : t[i] = s[i]
      /\ t[Len(s) + 1] = e
  OBVIOUS
<1>2. Listed(t) = Listed(s) \cup {e}
  BY ListedAppend
<1>3. Listed(<<e>>) = {e}
  BY DEF Listed
<1> HIDE DEF t
<1>4. ASSUME NEW k \in Places, InLine(k, G, s), e \in G => Apart(k, G, s, <<e>>) PROVE InLine(k, G, t)
  <2> SUFFICES ASSUME NEW i \in DOMAIN t, NEW j \in DOMAIN t, i < j, t[i] \in G, t[j] \in G
               PROVE  Follows(k, t[i], t[j])
    BY DEF InLine
  <2>1. i \in 1..Len(s) /\ t[i] = s[i] /\ s[i] \in Listed(s) /\ i \in DOMAIN s
    BY <1>1 DEF Listed
  <2>2. CASE j \in 1..Len(s)
    BY <1>1, <1>4, <2>1, <2>2 DEF InLine
  <2>3. CASE j = Len(s) + 1
    BY <1>1, <1>3, <1>4, <2>1, <2>3 DEF Apart
  <2> QED BY <1>1, <2>2, <2>3
<1>5. ASSUME e \notin G PROVE Alike(G, s, t)
  <2>1. \A k \in Places : InLine(k, G, s) => InLine(k, G, t)
    BY <1>4, <1>5
  <2> QED BY <1>2, <1>5, <2>1 DEF Alike, Thinner
<1> QED BY <1>4, <1>5 DEF t

\* What becomes of the ten places.
LEMMA WayThinner ==
  ASSUME NEW G, NEW W, NEW V, Ordered(G, W), \A k \in Places : Thinner(G, W[k], V[k])
  PROVE  Ordered(G, V)
<1>1. \A k \in Places : InLine(k, G, V[k])
  BY DEF Ordered, Thinner
<1>2. ASSUME NEW k \in Places, NEW l \in Places, k < l PROVE Apart(l, G, V[k], V[l])
  <2>1. Apart(l, G, W[k], W[l])
    BY <1>2 DEF Ordered
  <2> QED BY <2>1 DEF Apart, Thinner
<1> QED BY <1>1, <1>2 DEF Ordered

LEMMA WayKept ==
  ASSUME NEW G, NEW N, NEW W, NEW V, N \subseteq G,
         Ordered(G, W), Complete(N, W), \A k \in Places : Alike(G, W[k], V[k])
  PROVE  Ordered(G, V) /\ Complete(N, V)
<1>1. Ordered(G, V)
  BY WayThinner DEF Alike
<1>2. Complete(N, V)
  BY DEF Complete, Alike
<1> QED BY <1>1, <1>2

\* The head of place b, which nobody waits for, goes.
Drops(N, W, V, S, b) ==
  W[b] \in Seq(S) /\ W[b] # <<>> /\ V[b] = Tail(W[b]) /\ Head(W[b]) \notin N

LEMMA WayDropped ==
  ASSUME NEW G, NEW N, NEW W, NEW V, NEW S, N \subseteq G,
         Ordered(G, W), Complete(N, W), NEW b \in Places, Drops(N, W, V, S, b),
         \A k \in Places \ {b} : Alike(G, W[k], V[k])
  PROVE  Ordered(G, V) /\ Complete(N, V)
<1>1. Thinner(G, W[b], V[b]) /\ Listed(W[b]) = Listed(V[b]) \cup {Head(W[b])}
  BY TailThinner, ListedTail DEF Drops
<1>2. Ordered(G, V)
  <2>1. \A k \in Places : Thinner(G, W[k], V[k])
    BY <1>1 DEF Alike
  <2> QED BY <2>1, WayThinner
<1>3. Complete(N, V)
  BY <1>1 DEF Complete, Alike, Drops
<1> QED BY <1>2, <1>3

LEMMA FollowsMore ==
  ASSUME NEW k \in Places, NEW l \in Places, k < l
  PROVE  \A x, y : Follows(l, x, y) => Follows(k, x, y)
BY DEF Follows, Places

\* The head y of place b goes to the end of place a, as x.
Passes(G, N, W, V, S, a, b, x, y) ==
  /\ a < b /\ x \in S /\ y \in S
  /\ Origin(x) = Origin(y) /\ (x = y \/ (y \notin N /\ 2 < b))
  /\ W[b] \in Seq(S) /\ W[b] # <<>> /\ V[b] = Tail(W[b]) /\ Head(W[b]) = y
  /\ W[a] \in Seq(S) /\ V[a] = Append(W[a], x)

LEMMA WayMoved ==
  ASSUME NEW G, NEW N, NEW W, NEW V, NEW S, N \subseteq G,
         Ordered(G, W), Complete(N, W), NEW a \in Places, NEW b \in Places, NEW x, NEW y,
         Passes(G, N, W, V, S, a, b, x, y), x \in G, y \in G,
         \A k \in Places \ {a, b} : Alike(G, W[k], V[k]),
         \A k \in Places : a < k /\ k < b => Listed(W[k]) \cap G = {}
  PROVE  Ordered(G, V) /\ Complete(N, V)
<1> USE DEF Passes
<1>1. \A z : (Prior(x, z) <=> Prior(y, z)) /\ (Prior(z, x) <=> Prior(z, y))
  BY DEF Prior
<1>2. Listed(W[b]) = Listed(V[b]) \cup {y} /\ Listed(V[a]) = Listed(W[a]) \cup {x}
  BY ListedTail, ListedAppend
<1>3. InLine(b, G, V[b]) /\ Apart(b, G, <<y>>, V[b])
  <2>1. InLine(b, G, W[b])
    BY DEF Ordered
  <2>2. Thinner(G, W[b], V[b]) /\ Apart(b, G, <<y>>, V[b])
    BY <2>1, TailThinner
  <2> QED BY <2>1, <2>2 DEF Thinner
<1>4. Listed(<<x>>) = {x} /\ Listed(<<y>>) = {y}
  BY ListedFew
<1>5. \A k \in Places : k < b => \A z \in Listed(W[k]) \cap G : Follows(b, z, x)
  <2> SUFFICES ASSUME NEW k \in Places, k < b, NEW z \in Listed(W[k]) \cap G
               PROVE  Follows(b, z, x)
    OBVIOUS
  <2>1. Follows(b, z, y)
    BY <1>2 DEF Ordered, Apart
  <2> QED BY <1>1, <2>1 DEF Follows, Places
<1>6. \A k \in Places : b < k => \A z \in Listed(W[k]) \cap G : Follows(k, x, z)
  <2> SUFFICES ASSUME NEW k \in Places, b < k, NEW z \in Listed(W[k]) \cap G
               PROVE  Follows(k, x, z)
    OBVIOUS
  <2>1. Follows(k, y, z)
    BY <1>2 DEF Ordered, Apart
  <2> QED BY <1>1, <2>1 DEF Follows, Places
<1>7. InLine(a, G, V[a])
  <2>1. Apart(a, G, W[a], <<x>>)
    BY <1>4, <1>5, FollowsMore DEF Apart
  <2> QED BY <2>1, AppendInLine DEF Ordered
<1>8. /\ \A k \in Places \ {a, b} : InLine(k, G, V[k])
      /\ \A k \in Places \ {a, b} : Listed(V[k]) \cap G = Listed(W[k]) \cap G
  BY DEF Ordered, Alike, Thinner
<1>9. \A k \in Places : InLine(k, G, V[k])
  BY <1>3, <1>7, <1>8
<1>10. ASSUME NEW k \in Places, NEW l \in Places, k < l PROVE Apart(l, G, V[k], V[l])
  <2>1. Apart(l, G, W[k], W[l])
    BY <1>10 DEF Ordered
  <2>2. CASE k # a /\ l # a
    <3>1. Listed(V[k]) \cap G \subseteq Listed(W[k]) /\ Listed(V[l]) \cap G \subseteq Listed(W[l])
      BY <1>2, <1>8, <2>2
    <3> QED BY <2>1, <3>1 DEF Apart
  <2>3. CASE l = a
    <3>1. k < b /\ k # a /\ k # b
      BY <1>10, <2>3, PlacesInOrder
    <3>2. Listed(V[k]) \cap G = Listed(W[k]) \cap G
      BY <1>8, <3>1
    <3>3. \A z \in Listed(V[k]) \cap G : Follows(l, z, x)
      BY <1>5, <2>3, <3>1, <3>2, FollowsMore
    <3> QED BY <1>2, <2>1, <2>3, <3>2, <3>3 DEF Apart
  <2>4. CASE k = a
    <3>1. l # a /\ (l = b \/ l < b \/ b < l)
      BY <1>10, <2>4 DEF Places
    <3>2. Listed(V[l]) \cap G \subseteq Listed(W[l])
      BY <1>2, <1>8, <3>1
    <3>3. \A z \in Listed(V[l]) \cap G : Follows(l, x, z)
      <4>1. CASE l = b
        <5> SUFFICES ASSUME NEW z \in Listed(V[b]) \cap G PROVE Follows(b, x, z)
          BY <4>1
        <5>1. Follows(b, y, z)
          BY <1>3, <1>4 DEF Apart
        <5> QED BY <1>1, <5>1 DEF Follows, Places
      <4>2. CASE l < b
        BY <1>10, <2>4, <3>2, <4>2
      <4>3. CASE b < l
        BY <1>6, <3>2, <4>3
      <4> QED BY <3>1, <4>1, <4>2, <4>3
    <3> QED BY <1>2, <2>1, <2>4, <3>2, <3>3 DEF Apart
  <2> QED BY <2>2, <2>3, <2>4
<1>11. Complete(N, V)
  <2> SUFFICES ASSUME NEW n \in N PROVE \E k \in Places : n \in Listed(V[k])
    BY DEF Complete
  <2>1. PICK k \in Places : n \in Listed(W[k])
    BY DEF Complete
  <2>2. CASE k = b
    BY <1>2, <2>1, <2>2
  <2>3. CASE k = a
    BY <1>2, <2>1, <2>3
  <2>4. CASE k # a /\ k # b
    BY <1>8, <2>1, <2>4
  <2> QED BY <2>2, <2>3, <2>4
<1> QED BY <1>9, <1>10, <1>11 DEF Ordered

LEMMA WayPassed ==
  ASSUME NEW G, NEW N, NEW W, NEW V, NEW S, N \subseteq G,
         Ordered(G, W), Complete(N, W), NEW a \in Places, NEW b \in Places, NEW x, NEW y,
         Passes(G, N, W, V, S, a, b, x, y), x \in G <=> y \in G,
         \A k \in Places \ {a, b} : Alike(G, W[k], V[k]),
         x \in G => \A k \in Places : a < k /\ k < b => Listed(W[k]) \cap G = {}
  PROVE  Ordered(G, V) /\ Complete(N, V)
<1>1. CASE x \in G
  BY <1>1, WayMoved
<1>2. CASE x \notin G
  <2>1. Alike(G, W[a], V[a])
    BY <1>2, AppendInLine DEF Passes
  <2>2. Alike(G, W[b], V[b])
    BY <1>2, TailThinner DEF Passes
  <2>3. \A k \in Places : Alike(G, W[k], V[k])
    BY <2>1, <2>2
  <2> QED BY <2>3, WayKept
<1> QED BY <1>1, <1>2

\* Several copies of a message at the end of a place.
LEMMA ListedCopies ==
  ASSUME NEW S, NEW m \in S, NEW n \in Nat, NEW s \in Seq(S)
  PROVE  Listed(s \o Copies(m, n)) = IF n = 0 THEN Listed(s) ELSE Listed(s) \cup {m}
<1> DEFINE t == s \o Copies(m, n)
<1>1. /\ DOMAIN t = 1..(Len(s) + n) /\ DOMAIN s = 1..Len(s) /\ Len(s) \in Nat
      /\ \A i \in 1..Len(s) : t[i] = s[i]
      /\ \A i \in (Len(s) + 1)..(Len(s) + n) : t[i] = m
  BY CopiesEntries
<1> HIDE DEF t
<1>2. Listed(s) \subseteq Listed(t)
  <2>1. \A i \in 1..Len(s) : i \in 1..(Len(s) + n)
    BY <1>1
  <2> QED BY <1>1, <2>1 DEF Listed
<1>3. n # 0 => m \in Listed(t)
  <2>1. n # 0 => Len(s) + 1 \in (Len(s) + 1)..(Len(s) + n) /\ Len(s) + 1 \in 1..(Len(s) + n)
    BY <1>1
  <2> QED BY <1>1, <2>1 DEF Listed
<1>4. \A i \in DOMAIN t : t[i] \in Listed(s) \/ (n # 0 /\ t[i] = m)
  <2> SUFFICES ASSUME NEW i \in 1..(Len(s) + n) PROVE t[i] \in Listed(s) \/ (n # 0 /\ t[i] = m)
    BY <1>1
  <2>1. i \in 1..Len(s) \/ (n # 0 /\ i \in (Len(s) + 1)..(Len(s) + n))
    BY <1>1
  <2> QED BY <1>1, <2>1 DEF Listed
<1> QED BY <1>2, <1>3, <1>4 DEF Listed, t

LEMMA CopiesInLine ==
  ASSUME NEW S, NEW G, NEW m \in S, NEW n \in Nat, NEW s \in Seq(S)
  PROVE  /\ \A k \in Places :
              /\ InLine(k, G, s)
              /\ m \in G => k <= 2 /\ Apart(k, G, s, <<m>>)
              => InLine(k, G, s \o Copies(m, n))
         /\ m \notin G => Alike(G, s, s \o Copies(m, n))
<1> DEFINE t == s \o Copies(m, n)
<1>1. /\ DOMAIN t = 1..(Len(s) + n) /\ DOMAIN s = 1..Len(s) /\ Len(s) \in Nat
      /\ \A i \in 1..Len(s) : t[i] = s[i]
      /\ \A i \in (Len(s) + 1)..(Len(s) + n) : t[i] = m
  BY CopiesEntries
<1>2. Listed(t) = IF n = 0 THEN Listed(s) ELSE Listed(s) \cup {m}
  BY ListedCopies
<1> HIDE DEF t
<1>3. ASSUME NEW k \in Places, InLine(k, G, s), m \in G => k <= 2 /\ Apart(k, G, s, <<m>>)
      PROVE  InLine(k, G, t)
  <2> SUFFICES ASSUME NEW i \in 1..(Len(s) + n), NEW j \in 1..(Len(s) + n), i < j,
                      t[i] \in G, t[j] \in G
               PROVE  Follows(k, t[i], t[j])
    BY <1>1 DEF InLine
  <2>1. CASE j \in 1..Len(s)
    <3>1. i \in 1..Len(s)
      BY <1>1, <2>1
    <3> QED BY <1>1, <1>3, <2>1, <3>1 DEF InLine
  <2>2. CASE j \notin 1..Len(s)
    <3>1. t[j] = m /\ m \in G
      <4>1. j \in (Len(s) + 1)..(Len(s) + n)
        BY <1>1, <2>2
      <4> QED BY <1>1, <4>1
    <3>2. CASE i \in 1..Len(s)
      <4>1. t[i] \in Listed(s) \cap G /\ m \in Listed(<<m>>)
        BY <1>1, <3>2, ListedFew DEF Listed
      <4> QED BY <1>3, <3>1, <4>1 DEF Apart
    <3>3. CASE i \notin 1..Len(s)
      <4>1. i \in (Len(s) + 1)..(Len(s) + n)
        BY <1>1, <3>3
      <4>2. t[i] = m
        BY <1>1, <4>1
      <4> QED BY <1>3, <3>1, <4>2 DEF Follows
    <3> QED BY <3>2, <3>3
  <2> QED BY <2>1, <2>2
<1>4. ASSUME m \notin G PROVE Alike(G, s, t)
  BY <1>2, <1>3, <1>4 DEF Alike, Thinner
<1> QED BY <1>3, <1>4 DEF t

\* The only message of place 3 goes to the end of place 2, in n copies.
LEMMA WayCopied ==
  ASSUME NEW G, NEW N, NEW W, NEW V, NEW S, N \subseteq G,
         Ordered(G, W), Complete(N, W), NEW m \in S, NEW n \in Nat, n > 0,
         W[3] = <<m>>, V[3] = <<>>, W[2] \in Seq(S), V[2] = W[2] \o Copies(m, n),
         \A k \in Places \ {2, 3} : Alike(G, W[k], V[k])
  PROVE  Ordered(G, V) /\ Complete(N, V)
<1>1. /\ Listed(W[3]) = {m} /\ Listed(V[3]) = {} /\ Listed(V[2]) = Listed(W[2]) \cup {m}
      /\ Listed(<<m>>) = {m}
  BY ListedFew, ListedCopies
<1>2. \A k \in Places : k = 2 \/ k = 3 \/ k \in Places \ {2, 3}
  OBVIOUS
<1>3. 2 \in Places /\ 3 \in Places /\ 1 \in Places
  BY DEF Places
<1>4. CASE m \notin G
  <2>1. Alike(G, W[2], V[2])
    BY <1>4, CopiesInLine
  <2>2. Alike(G, W[3], V[3])
    BY <1>1, <1>4 DEF Alike, Thinner, InLine
  <2>3. \A k \in Places : Alike(G, W[k], V[k])
    BY <1>2, <2>1, <2>2
  <2> QED BY <2>3, WayKept
<1>5. CASE m \in G
  <2>1. \A k \in Places : k < 3 => \A z \in Listed(W[k]) \cap G : Follows(3, z, m)
    BY <1>1, <1>3, <1>5 DEF Ordered, Apart
  <2>2. \A k \in Places : 3 < k => \A z \in Listed(W[k]) \cap G : Follows(k, m, z)
    BY <1>1, <1>3, <1>5 DEF Ordered, Apart
  <2>3. \A k \in Places \ {2, 3} : Listed(V[k]) \cap G = Listed(W[k]) \cap G
    BY DEF Alike, Thinner
  <2>4. InLine(2, G, V[2])
    <3>1. \A z \in Listed(W[2]) \cap G : Follows(2, z, m)
      <4> SUFFICES ASSUME NEW z \in Listed(W[2]) \cap G PROVE Follows(2, z, m)
        OBVIOUS
      <4>1. Follows(3, z, m)
        BY <1>3, <2>1
      <4> QED BY <4>1 DEF Follows
    <3>2. Apart(2, G, W[2], <<m>>) /\ InLine(2, G, W[2])
      BY <1>1, <1>3, <3>1 DEF Apart, Ordered
    <3>3. InLine(2, G, W[2] \o Copies(m, n))
      <4> DEFINE w == W[2]
                 v == w \o Copies(m, n)
      <4>1. w \in Seq(S) /\ InLine(2, G, w) /\ Apart(2, G, w, <<m>>)
        BY <3>2
      <4> HIDE DEF w
      <4>2. \A k \in Places :
              /\ InLine(k, G, w)
              /\ m \in G => k <= 2 /\ Apart(k, G, w, <<m>>)
              => InLine(k, G, v)
        BY <4>1, CopiesInLine
      <4> HIDE DEF v
      <4>3. InLine(2, G, v)
        BY <1>3, <4>1, <4>2
      <4> QED BY <4>3 DEF w, v
    <3> QED BY <3>3
  <2>5. InLine(3, G, V[3])
    BY DEF InLine
  <2>6. \A k \in Places : InLine(k, G, V[k])
    BY <1>2, <2>4, <2>5 DEF Ordered, Alike, Thinner
  <2>7. ASSUME NEW k \in Places, NEW l \in Places, k < l PROVE Apart(l, G, V[k], V[l])
    <3>1. Apart(l, G, W[k], W[l])
      BY <2>7 DEF Ordered
    <3>2. CASE k # 2 /\ l # 2
      <4>1. Listed(V[k]) \cap G \subseteq Listed(W[k]) /\ Listed(V[l]) \cap G \subseteq Listed(W[l])
        BY <1>1, <1>2, <2>3, <3>2
      <4> QED BY <3>1, <4>1 DEF Apart
    <3>3. CASE l = 2
      <4>1. k < 3 /\ k \in Places \ {2, 3} /\ 2 < 3
        BY <2>7, <3>3 DEF Places
      <4>2. \A z \in Listed(V[k]) \cap G : Follows(2, z, m)
        BY <1>3, <2>1, <2>3, <4>1, FollowsMore
      <4> QED BY <1>1, <2>3, <3>1, <3>3, <4>1, <4>2 DEF Apart
    <3>4. CASE k = 2
      <4>1. l = 3 \/ (3 < l /\ l \in Places \ {2, 3})
        BY <2>7, <3>4 DEF Places
      <4>2. CASE l = 3
        <5>1. Listed(V[l]) = {}
          BY <1>1, <4>2
        <5> QED BY <5>1 DEF Apart
      <4>3. CASE 3 < l /\ l \in Places \ {2, 3}
        <5>1. Listed(V[l]) \cap G = Listed(W[l]) \cap G
          BY <2>3, <4>3
        <5>2. \A z \in Listed(V[l]) \cap G : Follows(l, m, z)
          BY <2>2, <4>3, <5>1
        <5>3. \A x \in Listed(W[2]) \cap G, z \in Listed(V[l]) \cap G : Follows(l, x, z)
          BY <3>1, <3>4, <5>1 DEF Apart
        <5> QED BY <1>1, <3>4, <5>2, <5>3 DEF Apart
      <4> QED BY <4>1, <4>2, <4>3
    <3> QED BY <3>2, <3>3, <3>4
  <2>8. Complete(N, V)
    <3> SUFFICES ASSUME NEW x \in N PROVE \E k \in Places : x \in Listed(V[k])
      BY DEF Complete
    <3>1. PICK k \in Places : x \in Listed(W[k])
      BY DEF Complete
    <3>2. CASE k = 2 \/ k = 3
      BY <1>1, <1>3, <3>1, <3>2
    <3>3. CASE k # 2 /\ k # 3
      BY <2>3, <3>1, <3>3
    <3> QED BY <3>2, <3>3
  <2> QED BY <2>6, <2>7, <2>8 DEF Ordered
<1> QED BY <1>4, <1>5

----------------------------------------------------------------------------
(* The ten places, from the receiver back to the sender.  A connection is  *)
(* written to by its own filter what is addressed to it; all others are    *)
(* sent copies through the dispatch queue.  What the daemon is sent is     *)
(* never forwarded.                                                        *)

Dispatcher(s, h) == IF h \in Conns THEN h ELSE s

Way(s, h, c) ==
  <<wire[c],
    IF c = h THEN BeingWritten(c) ELSE outbox[c],
    IF c = h THEN <<>> ELSE InCallback("dispatch"),
    IF c = h THEN <<>> ELSE QueuedMsgs("dispatch"),
    IF c = h THEN <<>> ELSE InHand(Dispatcher(s, h), "dispatch"),
    IF h \in Conns THEN outbox[h] ELSE <<>>,
    InCallback("forward"),
    QueuedMsgs("forward"),
    InHand(s, "forward"),
    inbox[s]>>

WayOK(s, h, c) ==
  /\ Ordered(Group(s, h), Way(s, h, c))
  /\ Complete(Wanted(s, h, c), Way(s, h, c))

WaysOK == \A s \in Threads, h \in Homes, c \in Conns : WayOK(s, h, c)

\* What was dispatched by the filter of a connection is written to it next.
Written ==
  \A h \in Conns : \A x \in tagged :
    AtHome(h, x) => x \in Listed(wire[h]) \cup Listed(BeingWritten(h))

IsWay(s, h, c, W) ==
  /\ W[1] = wire[c]
  /\ W[2] = IF c = h THEN BeingWritten(c) ELSE outbox[c]
  /\ c = h => W[3] = <<>> /\ W[4] = <<>> /\ W[5] = <<>>
  /\ c # h => /\ W[3] = InCallback("dispatch")
              /\ W[4] = QueuedMsgs("dispatch")
              /\ W[5] = InHand(Dispatcher(s, h), "dispatch")
  /\ W[6] = IF h \in Conns THEN outbox[h] ELSE <<>>
  /\ W[7] = InCallback("forward")
  /\ W[8] = QueuedMsgs("forward")
  /\ W[9] = InHand(s, "forward")
  /\ W[10] = inbox[s]

LEMMA WayIs ==
  ASSUME NEW s \in Threads, NEW h \in Homes, NEW c \in Conns
  PROVE  IsWay(s, h, c, Way(s, h, c))
<1>1. CASE c = h
  BY <1>1 DEF Way, IsWay
<1>2. CASE c # h
  BY <1>2 DEF Way, IsWay
<1> QED BY <1>1, <1>2

NextWay(s, h, c, V) ==
  /\ V[1] = wire'[c]
  /\ V[2] = IF c = h THEN BeingWritten(c)' ELSE outbox'[c]
  /\ c = h => V[3] = <<>> /\ V[4] = <<>> /\ V[5] = <<>>
  /\ c # h => /\ V[3] = InCallback("dispatch")'
              /\ V[4] = QueuedMsgs("dispatch")'
              /\ V[5] = InHand(Dispatcher(s, h), "dispatch")'
  /\ V[6] = IF h \in Conns THEN outbox'[h] ELSE <<>>
  /\ V[7] = InCallback("forward")'
  /\ V[8] = QueuedMsgs("forward")'
  /\ V[9] = InHand(s, "forward")'
  /\ V[10] = inbox'[s]

LEMMA WayIsNext ==
  ASSUME NEW s \in Threads, NEW h \in Homes, NEW c \in Conns, NEW V, V = Way(s, h, c)'
  PROVE  NextWay(s, h, c, V)
<1>1. CASE c = h
  BY <1>1 DEF Way, NextWay
<1>2. CASE c # h
  BY <1>2 DEF Way, NextWay
<1> QED BY <1>1, <1>2

LEMMA WayOKNext ==
  ASSUME NEW s \in Threads, NEW h \in Homes, NEW c \in Conns, NEW V, V = Way(s, h, c)',
         Ordered(Group(s, h), V), Complete(Wanted(s, h, c), V)
  PROVE  WayOK(s, h, c)'
BY DEF WayOK

LEMMA PlacesAre ==
  \A k \in Places : k = 1 \/ k = 2 \/ k = 3 \/ k = 4 \/ k = 5 \/ k = 6 \/ k = 7 \/ k = 8 \/ k = 9 \/ k = 10
BY DEF Places

LEMMA GroupIs ==
  ASSUME RouterAssumption, NEW s \in Threads, NEW h \in Homes, NEW x \in Carried
  PROVE  /\ \A t \in Threads : Origin(x) \in Sent(t) /\ t # s => x \notin Group(s, h)
         /\ \A c \in Conns : AtHome(c, x) /\ c # h => x \notin Group(s, h)
         /\ x \in Msgs /\ Dest[x] \in Homes \ {h} => x \notin Group(s, h)
         /\ x \in Msgs /\ x \in Sent(s) /\ Dest[x] = h => x \in Group(s, h)
<1>1. \A t \in Threads : Origin(x) \in Sent(t) /\ t # s => x \notin Group(s, h)
  BY DEF Group, Belongs, RouterAssumption
<1>2. \A c \in Conns : AtHome(c, x) /\ c # h => x \notin Group(s, h)
  BY BelongsOnce DEF Group, AtHome, Homes
<1>3. x \in Msgs => Origin(x) = x
  BY OriginIs
<1>4. Absent \notin Homes
  BY DEF RouterAssumption, Homes
<1> QED BY <1>1, <1>2, <1>3, <1>4 DEF Group, Belongs

LEMMA PlacesTyped ==
  ASSUME TypeOK
  PROVE  /\ \A c \in Conns : wire[c] \in Seq(Carried) /\ outbox[c] \in Seq(Carried)
                             /\ BeingWritten(c) \in Seq(Carried)
         /\ \A q \in Queues : InCallback(q) \in Seq(Carried) /\ QueuedMsgs(q) \in Seq(Carried)
         /\ \A t \in Threads : inbox[t] \in Seq(Carried)
         /\ \A t \in Threads, q \in Queues : InHand(t, q) \in Seq(Carried)
         /\ <<>> \in Seq(Carried)
<1>1. \A c \in Conns : wire[c] \in Seq(Carried) /\ outbox[c] \in Seq(Carried)
  BY DEF TypeOK, Carried
<1>2. \A t \in Threads : inbox[t] \in Seq(Carried)
  BY DEF TypeOK, Carried
<1>3. \A item \in Items : item.msg \in Carried
  BY DEF Items, Carried
<1>4. \A t \in Threads : job[t] # None => job[t].item.msg \in Carried
  BY <1>3 DEF TypeOK, Jobs
<1>5. \A x \in Carried : <<x>> \in Seq(Carried)
  OBVIOUS
<1>6. <<>> \in Seq(Carried)
  OBVIOUS
<1>7. \A t \in Threads, q \in Queues : InHand(t, q) \in Seq(Carried)
  BY <1>4, <1>5, <1>6 DEF InHand, TypeOK
<1>8. \A c \in Conns : BeingWritten(c) \in Seq(Carried)
  BY <1>4, <1>5, <1>6 DEF BeingWritten, Threads
<1>9. callback # None => callback.item.msg \in Carried
  BY <1>3 DEF TypeOK, Callbacks
<1>10. \A q \in Queues : InCallback(q) \in Seq(Carried)
  BY <1>5, <1>6, <1>9 DEF InCallback
<1>11. ASSUME NEW q \in Queues PROVE QueuedMsgs(q) \in Seq(Carried)
  <2>1. queue[q] \in Seq(Items)
    BY DEF TypeOK
  <2>2. Len(queue[q]) \in Nat /\ \A i \in 1..Len(queue[q]) : queue[q][i].msg \in Carried
    BY <1>3, <2>1
  <2> QED BY <2>2 DEF QueuedMsgs
<1> QED BY <1>1, <1>2, <1>6, <1>7, <1>8, <1>10, <1>11

LEMMA OneIs ==
  ASSUME NEW S, NEW m \in S
  PROVE  /\ <<m>> \in Seq(S) /\ <<m>> # <<>> /\ Head(<<m>>) = m
         /\ Tail(<<m>>) = <<>> /\ Append(<<>>, m) = <<m>> /\ <<>> \in Seq(S)
OBVIOUS

\* Entering and leaving the enqueueing functions.
LEMMA EnqueuePlaces ==
  ASSUME TypeOK, NEW t \in Threads, NEW q \in Queues, NEW item \in Items, NEW b \in BOOLEAN,
         pc[t] = "idle", Enqueue(t, q, item, b)
  PROVE  /\ \A p \in Queues : InHand(t, p) = <<>>
         /\ \A p \in Queues : InHand(t, p)' = IF p = q THEN <<item.msg>> ELSE <<>>
         /\ \A u \in Threads, p \in Queues : u # t => InHand(u, p)' = InHand(u, p)
         /\ BeingWritten(t) = <<>>
         /\ RouterAssumption => BeingWritten(t)' = IF b THEN <<item.msg>> ELSE <<>>
         /\ \A u \in Threads : u # t => BeingWritten(u)' = BeingWritten(u)
<1> DEFINE new == [queue |-> q, item |-> item, write |-> b]
<1>1. new.queue = q /\ new.item = item /\ new.write = b
  OBVIOUS
<1>2. pc' = [pc EXCEPT ![t] = "append"] /\ job' = [job EXCEPT ![t] = new]
  BY DEF Enqueue
<1>3. RouterAssumption => new # None
  BY DEF Jobs, RouterAssumption
<1> HIDE DEF new
<1>4. job[t] = None
  BY DEF TypeOK
<1>5. pc'[t] = "append" /\ job'[t] = new /\ \A u \in Threads : u # t => pc'[u] = pc[u] /\ job'[u] = job[u]
  BY <1>2 DEF TypeOK
<1> QED BY <1>1, <1>3, <1>4, <1>5 DEF InHand, BeingWritten

LEMMA LeavePlaces ==
  ASSUME RouterAssumption, TypeOK, NEW t \in Threads, pc[t] # "idle", Leave(t)
  PROVE  /\ \A p \in Queues : InHand(t, p)' = <<>>
         /\ \A u \in Threads, p \in Queues : u # t => InHand(u, p)' = InHand(u, p)
         /\ BeingWritten(t)' = <<>>
         /\ BeingWritten(t) = IF job[t].write THEN <<job[t].item.msg>> ELSE <<>>
         /\ \A u \in Threads : u # t => BeingWritten(u)' = BeingWritten(u)
         /\ \A c \in Conns : wire'[c] = IF c = t /\ job[t].write
                                        THEN Append(wire[c], job[t].item.msg) ELSE wire[c]
<1>1. job[t] # None /\ job[t] \in Jobs
  BY DEF TypeOK
<1>2. pc'[t] = "idle" /\ job'[t] = None /\ \A u \in Threads : u # t => pc'[u] = pc[u] /\ job'[u] = job[u]
  BY DEF TypeOK, Leave
<1>3. \A c \in Conns : wire'[c] = IF c = t /\ job[t].write
                                  THEN Append(wire[c], job[t].item.msg) ELSE wire[c]
  BY DEF TypeOK, Leave
<1>4. \A p \in Queues : InHand(t, p)' = <<>>
  BY <1>2 DEF InHand
<1>5. \A u \in Threads, p \in Queues : u # t => InHand(u, p)' = InHand(u, p)
  BY <1>2 DEF InHand
<1> QED BY <1>1, <1>2, <1>3, <1>4, <1>5 DEF BeingWritten

\* Nothing for the daemon itself is forwarded.
LEMMA NotForwarded ==
  ASSUME RouterAssumption, TypeOK, Routed, NEW s \in Threads
  PROVE  /\ Listed(InCallback("forward")) \cap Group(s, Daemon) = {}
         /\ Listed(QueuedMsgs("forward")) \cap Group(s, Daemon) = {}
<1>1. "forward" \in Queues /\ Daemon \notin Conns /\ Daemon # Absent
  BY DEF Queues, RouterAssumption
<1>2. ASSUME NEW item, RoutedItem("forward", item, tagged) PROVE item.msg \notin Group(s, Daemon)
  <2>1. Dest[item.msg] # Daemon
    BY <1>2 DEF RoutedItem
  <2> QED BY <1>1, <2>1 DEF Group, Belongs
<1>3. Listed(InCallback("forward")) \cap Group(s, Daemon) = {}
  <2>1. CASE callback # None /\ callback.queue = "forward"
    <3>1. InCallback("forward") = <<callback.item.msg>>
      BY <2>1 DEF InCallback
    <3>2. callback.item.msg \notin Group(s, Daemon)
      BY <1>2, <2>1 DEF Routed, RoutedCallback
    <3> QED BY <3>1, <3>2, ListedFew
  <2>2. CASE ~(callback # None /\ callback.queue = "forward")
    BY <2>2, ListedFew DEF InCallback
  <2> QED BY <2>1, <2>2
<1>4. Listed(QueuedMsgs("forward")) \cap Group(s, Daemon) = {}
  <2>1. queue["forward"] \in Seq(Items)
    BY <1>1 DEF TypeOK
  <2>2. \A i \in 1..Len(queue["forward"]) : queue["forward"][i].msg \notin Group(s, Daemon)
    BY <1>1, <1>2, <2>1 DEF Routed, RoutedQueues
  <2> QED BY <2>2 DEF Listed, QueuedMsgs
<1> QED BY <1>3, <1>4

LEMMA WayReads ==
  ASSUME RouterAssumption, TypeOK, Routed, NEW t \in Threads, Reads(t),
         NEW s \in Threads, NEW h \in Homes, NEW c \in Conns, WayOK(s, h, c)
  PROVE  WayOK(s, h, c)'
<1> DEFINE G == Group(s, h)
           N == Wanted(s, h, c)
           W == Way(s, h, c)
           m == Head(inbox[t])
<1>1. IsWay(s, h, c, W) /\ Ordered(G, W) /\ Complete(N, W) /\ N \subseteq G
  BY WayIs DEF WayOK, Wanted
<1>0. PICK V : V = Way(s, h, c)'
  OBVIOUS
<1>2. NextWay(s, h, c, V)
  BY <1>0, WayIsNext
<1>3. inbox[t] \in Seq(Msgs) /\ inbox[t] \in Seq(Carried) /\ inbox[t] # <<>>
  BY PlacesTyped DEF Reads, TypeOK
<1>4. m \in Msgs /\ m \in Sent(t) /\ m \in Carried /\ Origin(m) = m
  BY <1>3, EntriesTail, HeadTail, OriginIs DEF Routed, RoutedInbox, Carried
<1>5. \A u \in Threads : inbox'[u] = IF u = t THEN Tail(inbox[t]) ELSE inbox[u]
  BY DEF Reads, TypeOK
<1>6. UNCHANGED <<outbox, wire, queue, callback>>
  BY DEF Reads
<1>7. /\ InCallback("forward")' = InCallback("forward")
      /\ InCallback("dispatch")' = InCallback("dispatch")
      /\ QueuedMsgs("forward")' = QueuedMsgs("forward")
      /\ QueuedMsgs("dispatch")' = QueuedMsgs("dispatch")
  BY <1>6 DEF InCallback, QueuedMsgs
<1>8. "forward" \in Queues /\ "dispatch" \in Queues /\ "forward" # "dispatch"
  BY DEF Queues
<1>9. c \in Threads /\ Dispatcher(s, h) \in Threads
  BY DEF Threads, Dispatcher
<1>10. /\ InHand(t, "forward") = <<>> /\ InHand(t, "dispatch") = <<>>
       /\ InHand(t, "forward")' = IF ForwardedTo(m) THEN <<m>> ELSE <<>>
       /\ InHand(t, "dispatch")' = IF ForwardedTo(m) THEN <<>> ELSE <<m>>
       /\ \A u \in Threads, p \in Queues : u # t => InHand(u, p)' = InHand(u, p)
       /\ \A u \in Threads : BeingWritten(u)' = BeingWritten(u)
  <2>1. CASE ForwardedTo(m)
    <3> DEFINE item == [msg |-> m, conn |-> t]
    <3>1. Enqueue(t, "forward", item, FALSE) /\ pc[t] = "idle"
      BY <2>1 DEF Reads
    <3>2. item \in Items /\ item.msg = m
      BY <1>4 DEF Items
    <3> HIDE DEF item
    <3>3. FALSE \in BOOLEAN
      OBVIOUS
    <3> HIDE DEF m
    <3> QED BY <1>8, <2>1, <3>1, <3>2, <3>3, EnqueuePlaces
  <2>2. CASE ~ForwardedTo(m)
    <3> DEFINE item == [msg |-> m, conn |-> None]
    <3>1. Enqueue(t, "dispatch", item, FALSE) /\ pc[t] = "idle"
      BY <2>2 DEF Reads, DispatchByRule
    <3>2. item \in Items /\ item.msg = m
      BY <1>4 DEF Items
    <3> HIDE DEF item
    <3>3. FALSE \in BOOLEAN
      OBVIOUS
    <3> HIDE DEF m
    <3> QED BY <1>8, <2>2, <3>1, <3>2, <3>3, EnqueuePlaces
  <2> QED BY <2>1, <2>2
<1>11. s # t => m \notin G
  BY <1>4, GroupIs
<1>12. <<m>> = Append(<<>>, m) /\ <<>> \in Seq(Carried)
  BY <1>4
<1> HIDE DEF G, N, W, m
<1>13. V[1] = W[1] /\ V[2] = W[2] /\ V[3] = W[3] /\ V[4] = W[4] /\ V[6] = W[6] /\ V[7] = W[7]
       /\ V[8] = W[8]
  BY <1>1, <1>2, <1>6, <1>7, <1>9, <1>10 DEF IsWay, NextWay
<1>14. m \notin G => Alike(G, W[5], V[5])
  <2>1. CASE V[5] = W[5]
    BY <2>1, AlikeItself
  <2>2. CASE V[5] # W[5]
    <3>1. W[5] = <<>> /\ V[5] = <<m>>
      BY <1>1, <1>2, <1>8, <1>9, <1>10, <2>2 DEF IsWay, NextWay
    <3> QED BY <1>4, <1>12, <3>1, AppendInLine
  <2> QED BY <2>1, <2>2
<1>15. CASE s # t
  <2>1. V[9] = W[9] /\ V[10] = W[10]
    BY <1>1, <1>2, <1>5, <1>8, <1>10, <1>15 DEF IsWay, NextWay
  <2>2. \A k \in Places : Alike(G, W[k], V[k])
    BY <1>11, <1>13, <1>14, <1>15, <2>1, AlikeItself, PlacesAre
  <2> QED BY <1>0, <1>1, <2>2, WayKept, WayOKNext DEF G, N
<1>16. CASE s = t /\ ForwardedTo(m)
  <2>1. W[9] = <<>> /\ V[9] = Append(W[9], m) /\ W[10] = inbox[t] /\ V[10] = Tail(W[10])
    BY <1>1, <1>2, <1>5, <1>10, <1>12, <1>16 DEF IsWay, NextWay
  <2>2. V[5] = W[5]
    BY <1>1, <1>2, <1>8, <1>9, <1>10, <1>16 DEF IsWay, NextWay
  <2>3. \A k \in Places \ {9, 10} : Alike(G, W[k], V[k])
    BY <1>13, <2>2, AlikeItself, PlacesAre
  <2>4. 9 \in Places /\ 10 \in Places /\ 9 < 10 /\ \A k \in Places : ~(9 < k /\ k < 10)
    BY DEF Places
  <2>5. Head(W[10]) = m /\ W[10] \in Seq(Carried) /\ W[10] # <<>>
    BY <1>3, <2>1 DEF m
  <2>6. Passes(G, N, W, V, Carried, 9, 10, m, m)
    BY <1>4, <1>12, <2>1, <2>4, <2>5 DEF Passes
  <2>7. Ordered(G, V) /\ Complete(N, V)
    BY <1>1, <2>3, <2>4, <2>6, WayPassed
  <2> QED BY <1>0, <2>7, WayOKNext DEF G, N
<1>17. CASE s = t /\ ~ForwardedTo(m) /\ h # Daemon
  <2>1. m \notin G
    BY <1>4, <1>17, GroupIs DEF G, ForwardedTo, Homes
  <2>2. V[9] = W[9] /\ W[10] = inbox[t] /\ V[10] = Tail(W[10])
    BY <1>1, <1>2, <1>5, <1>10, <1>17 DEF IsWay, NextWay
  <2>3. Alike(G, W[10], V[10])
    BY <1>3, <2>1, <2>2, TailThinner DEF m
  <2>4. \A k \in Places : Alike(G, W[k], V[k])
    BY <1>13, <1>14, <2>1, <2>2, <2>3, AlikeItself, PlacesAre
  <2> QED BY <1>0, <1>1, <2>4, WayKept, WayOKNext DEF G, N
<1>18. CASE s = t /\ ~ForwardedTo(m) /\ h = Daemon
  <2>1. c # h /\ Dispatcher(s, h) = s
    BY <1>18 DEF Dispatcher, RouterAssumption
  <2>2. /\ W[5] = <<>> /\ V[5] = Append(W[5], m) /\ V[9] = W[9] /\ W[9] = <<>>
        /\ W[10] = inbox[t] /\ V[10] = Tail(W[10])
    BY <1>1, <1>2, <1>5, <1>10, <1>12, <1>18, <2>1 DEF IsWay, NextWay
  <2>3. W[6] = <<>> /\ W[7] = InCallback("forward") /\ W[8] = QueuedMsgs("forward")
    BY <1>1, <1>18 DEF IsWay, NextWay, RouterAssumption
  <2>4. \A k \in Places : 5 < k /\ k < 10 => Listed(W[k]) \cap G = {}
    <3>1. Listed(W[6]) \cap G = {} /\ Listed(W[7]) \cap G = {} /\ Listed(W[8]) \cap G = {}
          /\ Listed(W[9]) \cap G = {}
      BY <1>18, <2>2, <2>3, NotForwarded, ListedFew DEF G
    <3>2. \A k \in Places : 5 < k /\ k < 10 => k = 6 \/ k = 7 \/ k = 8 \/ k = 9
      BY DEF Places
    <3> QED BY <3>1, <3>2
  <2>5. \A k \in Places \ {5, 10} : Alike(G, W[k], V[k])
    BY <1>13, <2>2, AlikeItself, PlacesAre
  <2>6. 5 \in Places /\ 10 \in Places /\ 5 < 10
    BY DEF Places
  <2>7. Head(W[10]) = m /\ W[10] \in Seq(Carried) /\ W[10] # <<>>
    BY <1>3, <2>2 DEF m
  <2>8. Passes(G, N, W, V, Carried, 5, 10, m, m)
    BY <1>4, <1>12, <2>2, <2>6, <2>7 DEF Passes
  <2>9. Ordered(G, V) /\ Complete(N, V)
    BY <1>1, <2>4, <2>5, <2>6, <2>8, WayPassed
  <2> QED BY <1>0, <2>9, WayOKNext DEF G, N
<1> QED BY <1>15, <1>16, <1>17, <1>18

LEMMA NotBeforeItself ==
  ASSUME RouterAssumption, NEW x
  PROVE  ~Prior(x, x)
BY DEF Prior, SentBefore, RouterAssumption

LEMMA ListedHead ==
  ASSUME NEW S, NEW s \in Seq(S), s # <<>>
  PROVE  Head(s) \in Listed(s)
BY ListedTail

\* What a filter has dispatched before does not come to it again.
LEMMA TaggedIsCopy ==
  ASSUME RouterAssumption, TypeOK, WaysOK, Written, NEW e \in Conns, outbox[e] # <<>>,
         Head(outbox[e]) \in tagged
  PROVE  ~AtHome(e, Head(outbox[e]))
<1> DEFINE m == Head(outbox[e])
<1>1. outbox[e] \in Seq(Carried) /\ m \in Listed(outbox[e]) /\ m \in Carried
  <2>1. outbox[e] \in Seq(Carried)
    BY PlacesTyped
  <2> QED BY <2>1, ListedHead, HeadTail
<1> SUFFICES ASSUME AtHome(e, m) PROVE FALSE
  OBVIOUS
<1>2. PICK t \in Threads : Belongs(t, e, m)
  BY DEF AtHome
<1> DEFINE W == Way(t, e, e)
           G == Group(t, e)
<1>3. e \in Homes
  BY DEF Homes
<1>4. IsWay(t, e, e, W) /\ Ordered(G, W)
  BY <1>3, WayIs DEF WaysOK, WayOK
<1>5. m \in G
  BY <1>1, <1>2 DEF Group
<1>6. m \in Listed(wire[e]) \cup Listed(BeingWritten(e))
  BY DEF Written
<1> HIDE DEF W, G, m
<1>7. W[1] = wire[e] /\ W[2] = BeingWritten(e) /\ W[6] = outbox[e]
  BY <1>4 DEF IsWay
<1>8. Apart(6, G, W[1], W[6]) /\ Apart(6, G, W[2], W[6])
  BY <1>4 DEF Ordered, Places
<1>9. Prior(m, m)
  BY <1>1, <1>5, <1>6, <1>7, <1>8 DEF Apart, Follows
<1> QED BY <1>9, NotBeforeItself

LEMMA WayOutgoing ==
  ASSUME RouterAssumption, TypeOK, Routed, WaysOK, Written,
         NEW e \in Conns, FilterOutgoing(e),
         NEW s \in Threads, NEW h \in Homes, NEW c \in Conns
  PROVE  WayOK(s, h, c)'
<1> DEFINE G == Group(s, h)
           N == Wanted(s, h, c)
           W == Way(s, h, c)
           m == Head(outbox[e])
<1>1. IsWay(s, h, c, W) /\ Ordered(G, W) /\ Complete(N, W) /\ N \subseteq G
  BY WayIs DEF WaysOK, WayOK, Wanted
<1>0. PICK V : V = Way(s, h, c)'
  OBVIOUS
<1>2. NextWay(s, h, c, V)
  BY <1>0, WayIsNext
<1>3. outbox[e] \in Seq(Carried) /\ outbox[e] # <<>> /\ m \in Carried
  <2>1. outbox[e] \in Seq(Carried) /\ outbox[e] # <<>>
    BY PlacesTyped DEF FilterOutgoing
  <2> QED BY <2>1, HeadTail
<1>4. RoutedCopy(e, m, tagged)
  BY <1>3, EntriesTail DEF Routed, RoutedCopies
<1>5. \A d \in Conns : outbox'[d] = IF d = e THEN Tail(outbox[e]) ELSE outbox[d]
  BY DEF FilterOutgoing, TypeOK
<1>6. UNCHANGED <<inbox, queue, callback>>
  BY DEF FilterOutgoing
<1>7. /\ InCallback("forward")' = InCallback("forward")
      /\ InCallback("dispatch")' = InCallback("dispatch")
      /\ QueuedMsgs("forward")' = QueuedMsgs("forward")
      /\ QueuedMsgs("dispatch")' = QueuedMsgs("dispatch")
  BY <1>6 DEF InCallback, QueuedMsgs
<1>8. "forward" \in Queues /\ "dispatch" \in Queues /\ "forward" # "dispatch"
  BY DEF Queues
<1>9. c \in Threads /\ e \in Threads /\ Dispatcher(s, h) \in Threads
  BY DEF Threads, Dispatcher
<1>10. wire[c] \in Seq(Carried)
  BY PlacesTyped
<1>11. Append(<<>>, m) = <<m>> /\ <<>> \in Seq(Carried)
  BY <1>3, OneIs
<1>12. CASE DispatchByRule(e, m, e, TRUE) /\ UNCHANGED wire
  <2>1. AtHome(e, m)
    BY <1>4, <1>12 DEF DispatchByRule, RoutedCopy
  <2>2. h # e => m \notin G
    BY <1>3, <2>1, GroupIs
  <2>3. /\ InHand(e, "forward") = <<>> /\ InHand(e, "dispatch") = <<>>
        /\ InHand(e, "forward")' = <<>> /\ InHand(e, "dispatch")' = <<m>>
        /\ \A u \in Threads, p \in Queues : u # e => InHand(u, p)' = InHand(u, p)
        /\ BeingWritten(e) = <<>> /\ BeingWritten(e)' = <<m>>
        /\ \A u \in Threads : u # e => BeingWritten(u)' = BeingWritten(u)
    <3> DEFINE item == [msg |-> m, conn |-> e]
    <3>1. Enqueue(e, "dispatch", item, TRUE) /\ pc[e] = "idle"
      BY <1>12 DEF FilterOutgoing, DispatchByRule
    <3>2. item \in Items /\ item.msg = m
      BY <1>3, <1>9 DEF Items, Carried
    <3>3. TRUE \in BOOLEAN
      OBVIOUS
    <3> HIDE DEF item, m
    <3> QED BY <1>8, <1>9, <3>1, <3>2, <3>3, EnqueuePlaces
  <2> HIDE DEF G, N, W, m
  <2>4. V[1] = W[1] /\ V[3] = W[3] /\ V[4] = W[4] /\ V[7] = W[7] /\ V[8] = W[8] /\ V[9] = W[9]
        /\ V[10] = W[10]
    BY <1>1, <1>2, <1>6, <1>7, <1>8, <1>12, <2>3 DEF IsWay, NextWay
  <2>5. CASE h # e
    <3>1. Alike(G, W[2], V[2])
      <4>1. CASE V[2] = W[2]
        BY <4>1, AlikeItself
      <4>2. CASE V[2] # W[2]
        <5>1. W[2] = outbox[e] /\ V[2] = Tail(outbox[e])
          BY <1>1, <1>2, <1>5, <1>9, <2>3, <2>5, <4>2 DEF IsWay, NextWay
        <5> QED BY <1>3, <2>2, <2>5, <5>1, TailThinner DEF m
      <4> QED BY <4>1, <4>2
    <3>2. Alike(G, W[5], V[5])
      <4>1. CASE V[5] = W[5]
        BY <4>1, AlikeItself
      <4>2. CASE V[5] # W[5]
        <5>1. W[5] = <<>> /\ V[5] = <<m>>
          BY <1>1, <1>2, <1>8, <1>9, <2>3, <4>2 DEF IsWay, NextWay
        <5> QED BY <1>3, <1>11, <2>2, <2>5, <5>1, AppendInLine
      <4> QED BY <4>1, <4>2
    <3>3. V[6] = W[6]
      BY <1>1, <1>2, <1>5, <2>5 DEF IsWay, NextWay
    <3>4. \A k \in Places : Alike(G, W[k], V[k])
      BY <2>4, <3>1, <3>2, <3>3, AlikeItself, PlacesAre
    <3> QED BY <1>0, <1>1, <3>4, WayKept, WayOKNext DEF G, N
  <2>6. CASE h = e /\ c = h
    <3>1. /\ W[2] = <<>> /\ V[2] = Append(W[2], m) /\ W[6] = outbox[e] /\ V[6] = Tail(W[6])
          /\ W[3] = <<>> /\ W[4] = <<>> /\ W[5] = <<>> /\ V[5] = W[5]
      BY <1>1, <1>2, <1>5, <1>11, <2>3, <2>6 DEF IsWay, NextWay
    <3>2. \A k \in Places : 2 < k /\ k < 6 => Listed(W[k]) \cap G = {}
      <4>1. \A k \in Places : 2 < k /\ k < 6 => k = 3 \/ k = 4 \/ k = 5
        BY DEF Places
      <4> QED BY <3>1, <4>1, ListedFew
    <3>3. \A k \in Places \ {2, 6} : Alike(G, W[k], V[k])
      BY <2>4, <3>1, AlikeItself, PlacesAre
    <3>4. 2 \in Places /\ 6 \in Places /\ 2 < 6
      BY DEF Places
    <3>5. Passes(G, N, W, V, Carried, 2, 6, m, m)
      BY <1>3, <1>11, <3>1, <3>4 DEF Passes, m
    <3>6. Ordered(G, V) /\ Complete(N, V)
      BY <1>1, <3>2, <3>3, <3>4, <3>5, WayPassed
    <3> QED BY <1>0, <3>6, WayOKNext DEF G, N
  <2>7. CASE h = e /\ c # h
    <3>0. Dispatcher(s, h) = e /\ outbox'[c] = outbox[c] /\ outbox'[h] = Tail(outbox[h]) /\ h \in Conns
      BY <1>5, <2>7 DEF Dispatcher
    <3>1. /\ W[5] = <<>> /\ V[5] = Append(W[5], m) /\ W[6] = outbox[e] /\ V[6] = Tail(W[6])
          /\ V[2] = W[2]
      BY <1>1, <1>2, <1>11, <2>3, <2>7, <3>0 DEF IsWay, NextWay
    <3>2. \A k \in Places \ {5, 6} : Alike(G, W[k], V[k])
      BY <2>4, <3>1, AlikeItself, PlacesAre
    <3>3. 5 \in Places /\ 6 \in Places /\ 5 < 6 /\ \A k \in Places : ~(5 < k /\ k < 6)
      BY DEF Places
    <3>4. Passes(G, N, W, V, Carried, 5, 6, m, m)
      BY <1>3, <1>11, <3>1, <3>3 DEF Passes, m
    <3>5. Ordered(G, V) /\ Complete(N, V)
      BY <1>1, <3>2, <3>3, <3>4, WayPassed
    <3> QED BY <1>0, <3>5, WayOKNext DEF G, N
  <2> QED BY <2>5, <2>6, <2>7
<1>13. CASE m \in tagged /\ wire' = [wire EXCEPT ![e] = Append(@, m)] /\ UNCHANGED <<pc, job, tagged>>
  <2>1. ~AtHome(e, m)
    BY <1>3, <1>13, TaggedIsCopy
  <2>2. h = e => m \notin G
    BY <2>1 DEF AtHome, Group
  <2>3. \A u \in Threads : /\ BeingWritten(u)' = BeingWritten(u)
                           /\ InHand(u, "forward")' = InHand(u, "forward")
                           /\ InHand(u, "dispatch")' = InHand(u, "dispatch")
    BY <1>13 DEF BeingWritten, InHand
  <2>4. \A d \in Conns : wire'[d] = IF d = e THEN Append(wire[e], m) ELSE wire[d]
    BY <1>13 DEF TypeOK
  <2> HIDE DEF G, N, W, m
  <2>5. V[3] = W[3] /\ V[4] = W[4] /\ V[5] = W[5] /\ V[7] = W[7] /\ V[8] = W[8] /\ V[9] = W[9]
        /\ V[10] = W[10]
    BY <1>1, <1>2, <1>6, <1>7, <1>9, <2>3 DEF IsWay, NextWay
  <2>6. CASE c = e /\ h # e
    <3>0. /\ wire'[c] = Append(wire[e], m) /\ outbox'[c] = Tail(outbox[c])
          /\ h \in Conns => outbox'[h] = outbox[h]
      BY <1>5, <2>4, <2>6
    <3>1. /\ W[1] = wire[e] /\ V[1] = Append(W[1], m) /\ W[2] = outbox[e] /\ V[2] = Tail(W[2])
          /\ V[6] = W[6]
      BY <1>1, <1>2, <2>6, <3>0 DEF IsWay, NextWay
    <3>2. \A k \in Places \ {1, 2} : Alike(G, W[k], V[k])
      BY <2>5, <3>1, AlikeItself, PlacesAre
    <3>3. 1 \in Places /\ 2 \in Places /\ 1 < 2 /\ \A k \in Places : ~(1 < k /\ k < 2)
      BY DEF Places
    <3>4. Passes(G, N, W, V, Carried, 1, 2, m, m)
      BY <1>3, <1>10, <2>6, <3>1, <3>3 DEF Passes, m
    <3>5. Ordered(G, V) /\ Complete(N, V)
      BY <1>1, <3>2, <3>3, <3>4, WayPassed
    <3> QED BY <1>0, <3>5, WayOKNext DEF G, N
  <2>7. CASE c # e \/ h = e
    <3>1. V[2] = W[2]
      BY <1>1, <1>2, <1>5, <1>9, <2>3, <2>7 DEF IsWay, NextWay
    <3>2. Alike(G, W[1], V[1])
      <4>1. CASE c # e
        BY <1>1, <1>2, <2>4, <4>1, AlikeItself DEF IsWay, NextWay
      <4>2. CASE c = e
        <5>1. W[1] = wire[c] /\ V[1] = Append(wire[c], m) /\ m \notin G
          BY <1>1, <1>2, <2>2, <2>4, <2>7, <4>2 DEF IsWay, NextWay
        <5> QED BY <1>3, <1>10, <5>1, AppendInLine
      <4> QED BY <4>1, <4>2
    <3>3. Alike(G, W[6], V[6])
      <4>1. CASE h # e
        BY <1>1, <1>2, <1>5, <4>1, AlikeItself DEF IsWay, NextWay
      <4>2. CASE h = e
        <5>1. W[6] = outbox[e] /\ V[6] = Tail(outbox[e])
          BY <1>1, <1>2, <1>5, <4>2 DEF IsWay, NextWay
        <5> QED BY <1>3, <2>2, <4>2, <5>1, TailThinner DEF m
      <4> QED BY <4>1, <4>2
    <3>4. \A k \in Places : Alike(G, W[k], V[k])
      BY <2>5, <3>1, <3>2, <3>3, AlikeItself, PlacesAre
    <3> QED BY <1>0, <1>1, <3>4, WayKept, WayOKNext DEF G, N
  <2> QED BY <2>6, <2>7
<1> QED BY <1>12, <1>13 DEF FilterOutgoing

\* What a thread that appends leaves where.
LEMMA AppendPlaces ==
  ASSUME RouterAssumption, TypeOK, NEW t \in Threads, AppendToQueue(t)
  PROVE  /\ Leave(t) \/ UNCHANGED <<job, wire>>
         /\ InHand(t, job[t].queue) = <<job[t].item.msg>>
         /\ \A p \in Queues : p # job[t].queue => InHand(t, p) = <<>>
         /\ \A p \in Queues : InHand(t, p)' = <<>>
         /\ \A u \in Threads, p \in Queues : u # t => InHand(u, p)' = InHand(u, p)
         /\ \A p \in Queues : QueuedMsgs(p)' = IF p = job[t].queue
                                               THEN Append(QueuedMsgs(p), job[t].item.msg)
                                               ELSE QueuedMsgs(p)
<1>1. pc[t] = "append" /\ job[t] # None /\ job[t] \in Jobs
  BY DEF TypeOK, AppendToQueue
<1>2. PICK q \in Queues, item \in Items : q = job[t].queue /\ item = job[t].item
  BY <1>1 DEF Jobs
<1>3. Leave(t) \/ (pc' = [pc EXCEPT ![t] = "wake"] /\ UNCHANGED <<job, wire>>)
  BY DEF AppendToQueue
<1>4. pc'[t] # "append" /\ \A u \in Threads : u # t => pc'[u] = pc[u] /\ job'[u] = job[u]
  BY <1>3 DEF TypeOK, Leave
<1>5. queue[q] \in Seq(Items) /\ queue'[q] = Append(queue[q], item)
      /\ \A p \in Queues : p # q => queue'[p] = queue[p]
  BY <1>2 DEF TypeOK, AppendToQueue, Appended
<1>6. QueuedMsgs(q)' = Append(QueuedMsgs(q), item.msg)
  BY <1>5, QueuedAppend
<1>7. \A p \in Queues : p # q => QueuedMsgs(p)' = QueuedMsgs(p)
  BY <1>5 DEF QueuedMsgs
<1>8. /\ InHand(t, q) = <<item.msg>>
      /\ \A p \in Queues : p # q => InHand(t, p) = <<>>
      /\ \A p \in Queues : InHand(t, p)' = <<>>
      /\ \A u \in Threads, p \in Queues : u # t => InHand(u, p)' = InHand(u, p)
  BY <1>1, <1>2, <1>4 DEF InHand
<1>9. \A p \in Queues : QueuedMsgs(p)' = IF p = q THEN Append(QueuedMsgs(p), item.msg)
                                         ELSE QueuedMsgs(p)
  BY <1>6, <1>7
<1> QED BY <1>2, <1>3, <1>8, <1>9

\* GDBus writes the message when the filter returns.
LEMMA WayWritten ==
  ASSUME RouterAssumption, TypeOK, Routed, NEW t \in Threads, pc[t] # "idle",
         Leave(t) \/ UNCHANGED <<job, wire>>, UNCHANGED outbox,
         NEW s \in Threads, NEW h \in Homes, NEW c \in Conns, NEW W, NEW V, NEW U,
         IsWay(s, h, c, W), NextWay(s, h, c, V),
         Ordered(Group(s, h), W), Complete(Wanted(s, h, c), W),
         U[1] = V[1], U[2] = V[2], \A k \in Places : k # 1 /\ k # 2 => U[k] = W[k]
  PROVE  Ordered(Group(s, h), U) /\ Complete(Wanted(s, h, c), U)
<1> DEFINE G == Group(s, h)
           N == Wanted(s, h, c)
           m == job[t].item.msg
<1>1. N \subseteq G
  BY DEF Wanted
<1>2. c \in Threads /\ wire[c] \in Seq(Carried)
  BY PlacesTyped DEF Threads
<1>3. job[t] # None /\ job[t] \in Jobs /\ m \in Carried
  BY DEF TypeOK, Jobs, Items, Carried
<1>4. \A k \in Places : k # 1 /\ k # 2 => Alike(G, W[k], U[k])
  BY AlikeItself
<1>5. \A k \in Places : k = 1 \/ k = 2 \/ (k # 1 /\ k # 2)
  OBVIOUS
<1>6. CASE wire'[c] = wire[c] /\ BeingWritten(c)' = BeingWritten(c)
  <2> HIDE DEF G, N, m
  <2>1. U[1] = W[1] /\ U[2] = W[2]
    BY <1>6 DEF IsWay, NextWay
  <2>2. \A k \in Places : Alike(G, W[k], U[k])
    BY <1>4, <1>5, <2>1, AlikeItself
  <2> QED BY <1>1, <2>2, WayKept DEF G, N
<1>7. CASE Leave(t) /\ c = t /\ job[t].write
  <2>1. job[t].queue = "dispatch"
    BY <1>3, <1>7 DEF Routed, RoutedJobs, RoutedJob, Jobs, Queues
  <2>2. job[t].item.conn = t /\ t \in Conns
    BY <1>3, <1>7, <2>1 DEF Routed, RoutedJobs, RoutedJob
  <2>3. AtHome(t, m)
    BY <1>3, <2>1, <2>2 DEF Routed, RoutedJobs, RoutedItem, RouterAssumption, Threads
  <2>4. /\ BeingWritten(c) = <<m>> /\ BeingWritten(c)' = <<>>
        /\ wire'[c] = Append(wire[c], m)
    BY <1>7, LeavePlaces
  <2>5. h # c => m \notin G
    BY <1>3, <1>7, <2>3, GroupIs
  <2> HIDE DEF G, N, m
  <2>6. W[1] = wire[c] /\ U[1] = Append(W[1], m)
    BY <2>4 DEF IsWay, NextWay
  <2>7. CASE h = c
    <3>1. W[2] = <<m>> /\ U[2] = <<>>
      BY <2>4, <2>7 DEF IsWay, NextWay
    <3>2. \A k \in Places \ {1, 2} : Alike(G, W[k], U[k])
      BY <1>4
    <3>3. 1 \in Places /\ 2 \in Places /\ 1 < 2 /\ \A k \in Places : ~(1 < k /\ k < 2)
      BY DEF Places
    <3>4. Passes(G, N, W, U, Carried, 1, 2, m, m)
      BY <1>2, <1>3, <2>6, <3>1, <3>3, OneIs DEF Passes
    <3> QED BY <1>1, <3>2, <3>3, <3>4, WayPassed DEF G, N
  <2>8. CASE h # c
    <3>1. U[2] = W[2]
      BY <2>8 DEF IsWay, NextWay
    <3>2. Alike(G, W[1], U[1])
      <4>1. W[1] \in Seq(Carried) /\ m \in Carried /\ m \notin G
        BY <1>2, <1>3, <2>5, <2>6, <2>8 DEF m
      <4>2. Alike(G, W[1], Append(W[1], m))
        BY <4>1, AppendInLine
      <4> QED BY <2>6, <4>2
    <3>3. \A k \in Places : Alike(G, W[k], U[k])
      BY <1>4, <1>5, <3>1, <3>2, AlikeItself
    <3> QED BY <1>1, <3>3, WayKept DEF G, N
  <2> QED BY <2>7, <2>8
<1>8. CASE Leave(t) /\ ~(c = t /\ job[t].write)
  <2>1. wire'[c] = wire[c] /\ BeingWritten(c)' = BeingWritten(c)
    BY <1>2, <1>8, LeavePlaces
  <2> QED BY <1>6, <2>1
<1>9. CASE UNCHANGED <<job, wire>>
  <2>1. wire'[c] = wire[c] /\ BeingWritten(c)' = BeingWritten(c)
    BY <1>9 DEF BeingWritten
  <2> QED BY <1>6, <2>1
<1> QED BY <1>7, <1>8, <1>9

LEMMA WayQueue ==
  ASSUME RouterAssumption, TypeOK, Routed,
         NEW t \in Threads, AppendToQueue(t) \/ AttachSource(t),
         NEW s \in Threads, NEW h \in Homes, NEW c \in Conns, WayOK(s, h, c)
  PROVE  WayOK(s, h, c)'
<1> DEFINE G == Group(s, h)
           N == Wanted(s, h, c)
           W == Way(s, h, c)
           m == job[t].item.msg
           D == Dispatcher(s, h)
<1>1. IsWay(s, h, c, W) /\ Ordered(G, W) /\ Complete(N, W) /\ N \subseteq G
  BY WayIs DEF WayOK, Wanted
<1>0. PICK V : V = Way(s, h, c)'
  OBVIOUS
<1>2. NextWay(s, h, c, V)
  BY <1>0, WayIsNext
<1>3. UNCHANGED <<inbox, outbox, callback>>
  BY DEF AppendToQueue, AttachSource
<1>4. pc[t] # "idle" /\ (Leave(t) \/ UNCHANGED <<job, wire>>)
  BY DEF AppendToQueue, AttachSource
<1>5. PICK U : U = [k \in Places |-> IF k = 1 \/ k = 2 THEN V[k] ELSE W[k]]
  OBVIOUS
<1>6. U[1] = V[1] /\ U[2] = V[2] /\ \A k \in Places : k # 1 /\ k # 2 => U[k] = W[k]
  BY <1>5 DEF Places
<1>7. Ordered(G, U) /\ Complete(N, U)
  <2> HIDE DEF W
  <2> QED BY <1>1, <1>2, <1>3, <1>4, <1>6, WayWritten
<1>8. job[t] # None /\ job[t] \in Jobs /\ m \in Carried /\ job[t].queue \in Queues
  BY <1>4 DEF TypeOK, Jobs, Items, Carried
<1>9. D \in Threads /\ "forward" \in Queues /\ "dispatch" \in Queues /\ "forward" # "dispatch"
  BY DEF Dispatcher, Threads, Queues
<1>10. InCallback("forward")' = InCallback("forward") /\ InCallback("dispatch")' = InCallback("dispatch")
  BY <1>3 DEF InCallback
<1>11. RoutedItem(job[t].queue, job[t].item, tagged) /\ RoutedJob(t, job[t])
  BY <1>8 DEF Routed, RoutedJobs
<1>12. QueuedMsgs("forward") \in Seq(Carried) /\ QueuedMsgs("dispatch") \in Seq(Carried)
  BY <1>9, PlacesTyped
<1>13. Append(<<>>, m) = <<m>> /\ <<m>> \in Seq(Carried) /\ <<m>> # <<>> /\ Head(<<m>>) = m
       /\ Tail(<<m>>) = <<>> /\ <<>> \in Seq(Carried)
  BY <1>8, OneIs
<1> HIDE DEF G, N, W, m
<1>14. V[6] = W[6] /\ V[7] = W[7] /\ V[10] = W[10] /\ V[3] = W[3]
  BY <1>1, <1>2, <1>3, <1>10 DEF IsWay, NextWay
<1>15. U[1] = V[1] /\ U[2] = V[2] /\ U[3] = W[3] /\ U[4] = W[4] /\ U[5] = W[5] /\ U[6] = W[6] /\ U[7] = W[7]
       /\ U[8] = W[8] /\ U[9] = W[9] /\ U[10] = W[10]
  BY <1>6 DEF Places
<1>16. CASE AttachSource(t)
  <2>1. \A u \in Threads, p \in Queues : InHand(u, p)' = InHand(u, p)
    <3>1. \A p \in Queues : InHand(t, p) = <<>>
      BY <1>16 DEF AttachSource, InHand
    <3> QED BY <1>4, <1>16, <3>1, LeavePlaces DEF AttachSource
  <2>2. QueuedMsgs("forward")' = QueuedMsgs("forward") /\ QueuedMsgs("dispatch")' = QueuedMsgs("dispatch")
    BY <1>16 DEF AttachSource, QueuedMsgs
  <2>3. V[4] = W[4] /\ V[5] = W[5] /\ V[8] = W[8] /\ V[9] = W[9]
    BY <1>1, <1>2, <1>9, <2>1, <2>2 DEF IsWay, NextWay
  <2>4. \A k \in Places : Alike(G, U[k], V[k])
    BY <1>14, <1>15, <2>3, AlikeItself, PlacesAre
  <2> QED BY <1>0, <1>1, <1>7, <2>4, WayKept, WayOKNext DEF G, N
<1>17. CASE AppendToQueue(t) /\ job[t].queue = "forward"
  <2>1. m \in Sent(t) /\ Origin(m) = m
    BY <1>11, <1>17, OriginIs DEF RoutedItem, RoutedJob, m
  <2>2. s # t => m \notin G
    BY <1>8, <2>1, GroupIs DEF G
  <2>3. /\ InHand(t, "forward") = <<m>> /\ InHand(t, "forward")' = <<>>
        /\ InHand(t, "dispatch") = <<>> /\ InHand(t, "dispatch")' = <<>>
        /\ \A u \in Threads, p \in Queues : u # t => InHand(u, p)' = InHand(u, p)
        /\ QueuedMsgs("forward")' = Append(QueuedMsgs("forward"), m)
        /\ QueuedMsgs("dispatch")' = QueuedMsgs("dispatch")
    BY <1>9, <1>17, AppendPlaces DEF m
  <2>4. V[4] = W[4] /\ V[5] = W[5] /\ W[8] = QueuedMsgs("forward") /\ V[8] = Append(W[8], m)
    <3>1. InHand(D, "dispatch")' = InHand(D, "dispatch")
      BY <1>9, <2>3
    <3> QED BY <1>1, <1>2, <2>3, <3>1 DEF IsWay, NextWay
  <2>5. CASE s = t
    <3>1. W[9] = <<m>> /\ V[9] = <<>>
      BY <1>1, <1>2, <2>3, <2>5 DEF IsWay, NextWay
    <3>2. \A k \in Places \ {8, 9} : Alike(G, U[k], V[k])
      BY <1>14, <1>15, <2>4, AlikeItself, PlacesAre
    <3>3. 8 \in Places /\ 9 \in Places /\ 8 < 9 /\ \A k \in Places : ~(8 < k /\ k < 9)
      BY DEF Places
    <3>4. Passes(G, N, U, V, Carried, 8, 9, m, m)
      BY <1>8, <1>12, <1>13, <1>15, <2>4, <3>1, <3>3 DEF Passes
    <3>5. Ordered(G, V) /\ Complete(N, V)
      BY <1>1, <1>7, <3>2, <3>3, <3>4, WayPassed
    <3> QED BY <1>0, <3>5, WayOKNext DEF G, N
  <2>6. CASE s # t
    <3>1. V[9] = W[9]
      BY <1>1, <1>2, <1>9, <2>3, <2>6 DEF IsWay, NextWay
    <3>2. Alike(G, U[8], V[8])
      BY <1>8, <1>12, <1>15, <2>2, <2>4, <2>6, AppendInLine
    <3>3. \A k \in Places : k # 8 => Alike(G, U[k], V[k])
      BY <1>14, <1>15, <2>4, <3>1, AlikeItself, PlacesAre
    <3>4. \A k \in Places : Alike(G, U[k], V[k])
      BY <3>2, <3>3
    <3> QED BY <1>0, <1>1, <1>7, <3>4, WayKept, WayOKNext DEF G, N
  <2> QED BY <2>5, <2>6
<1>18. CASE AppendToQueue(t) /\ job[t].queue = "dispatch"
  <2>1. D # t => m \notin G
    <3> SUFFICES ASSUME D # t PROVE m \notin G
      OBVIOUS
    <3>1. CASE job[t].write
      <4>1. AtHome(t, m) /\ t \in Conns
        BY <1>8, <1>11, <1>18, <3>1 DEF RoutedItem, RoutedJob, RouterAssumption, Threads, m, TypeOK
      <4>2. h # t
        BY <4>1 DEF Dispatcher
      <4> QED BY <1>8, <4>1, <4>2, GroupIs DEF G
    <3>2. CASE ~job[t].write
      <4>1. m \in Sent(t) /\ m \in Msgs /\ Dest[m] = Daemon /\ Origin(m) = m
        BY <1>11, <1>18, <3>2, OriginIs DEF RoutedItem, RoutedJob, RouterAssumption, Threads, m
      <4>2. CASE s = t
        BY <1>8, <4>1, <4>2, GroupIs DEF G, Dispatcher, Homes, RouterAssumption
      <4>3. CASE s # t
        BY <1>8, <4>1, <4>3, GroupIs DEF G
      <4> QED BY <4>2, <4>3
    <3> QED BY <3>1, <3>2
  <2>2. /\ InHand(t, "dispatch") = <<m>> /\ InHand(t, "dispatch")' = <<>>
        /\ InHand(t, "forward") = <<>> /\ InHand(t, "forward")' = <<>>
        /\ \A u \in Threads, p \in Queues : u # t => InHand(u, p)' = InHand(u, p)
        /\ QueuedMsgs("dispatch")' = Append(QueuedMsgs("dispatch"), m)
        /\ QueuedMsgs("forward")' = QueuedMsgs("forward")
    BY <1>9, <1>18, AppendPlaces DEF m
  <2>3. V[8] = W[8] /\ V[9] = W[9]
    <3>1. InHand(s, "forward")' = InHand(s, "forward")
      BY <1>9, <2>2
    <3> QED BY <1>1, <1>2, <2>2, <3>1 DEF IsWay, NextWay
  <2>4. CASE c = h
    <3>1. V[4] = W[4] /\ V[5] = W[5]
      BY <1>1, <1>2, <2>4 DEF IsWay, NextWay
    <3>2. \A k \in Places : Alike(G, U[k], V[k])
      BY <1>14, <1>15, <2>3, <3>1, AlikeItself, PlacesAre
    <3> QED BY <1>0, <1>1, <1>7, <3>2, WayKept, WayOKNext DEF G, N
  <2>5. CASE c # h /\ D = t
    <3>1. W[5] = <<m>> /\ V[5] = <<>> /\ W[4] = QueuedMsgs("dispatch") /\ V[4] = Append(W[4], m)
      BY <1>1, <1>2, <2>2, <2>5 DEF IsWay, NextWay
    <3>2. \A k \in Places \ {4, 5} : Alike(G, U[k], V[k])
      BY <1>14, <1>15, <2>3, AlikeItself, PlacesAre
    <3>3. 4 \in Places /\ 5 \in Places /\ 4 < 5 /\ \A k \in Places : ~(4 < k /\ k < 5)
      BY DEF Places
    <3>4. Passes(G, N, U, V, Carried, 4, 5, m, m)
      BY <1>8, <1>12, <1>13, <1>15, <3>1, <3>3 DEF Passes
    <3>5. Ordered(G, V) /\ Complete(N, V)
      BY <1>1, <1>7, <3>2, <3>3, <3>4, WayPassed
    <3> QED BY <1>0, <3>5, WayOKNext DEF G, N
  <2>6. CASE c # h /\ D # t
    <3>0. InHand(D, "dispatch")' = InHand(D, "dispatch")
      BY <1>9, <2>2, <2>6
    <3>1. V[5] = W[5] /\ W[4] = QueuedMsgs("dispatch") /\ V[4] = Append(W[4], m)
      BY <1>1, <1>2, <2>2, <2>6, <3>0 DEF IsWay, NextWay
    <3>2. Alike(G, U[4], V[4])
      BY <1>8, <1>12, <1>15, <2>1, <2>6, <3>1, AppendInLine
    <3>3. \A k \in Places : k # 4 => Alike(G, U[k], V[k])
      BY <1>14, <1>15, <2>3, <3>1, AlikeItself, PlacesAre
    <3>4. \A k \in Places : Alike(G, U[k], V[k])
      BY <3>2, <3>3
    <3> QED BY <1>0, <1>1, <1>7, <3>4, WayKept, WayOKNext DEF G, N
  <2> QED BY <2>4, <2>5, <2>6
<1> QED BY <1>8, <1>16, <1>17, <1>18 DEF Queues

LEMMA StartPlaces ==
  ASSUME RouterAssumption, TypeOK, NEW q \in Queues, StartCallback(q)
  PROVE  LET m == Head(queue[q]).msg
         IN /\ m \in Carried
            /\ \A p \in Queues : InCallback(p) = <<>>
            /\ \A p \in Queues : InCallback(p)' = IF p = q THEN <<m>> ELSE <<>>
            /\ QueuedMsgs(q) # <<>> /\ Head(QueuedMsgs(q)) = m
            /\ \A p \in Queues : QueuedMsgs(p)' = IF p = q THEN Tail(QueuedMsgs(p)) ELSE QueuedMsgs(p)
<1> DEFINE r == queue[q]
           i0 == Head(r)
           m == i0.msg
           ms == QueuedMsgs(q)
<1>1. r \in Seq(Items) /\ r # <<>> /\ queue'[q] = Tail(r) /\ callback = None
      /\ \A p \in Queues : p # q => queue'[p] = queue[p]
  BY DEF StartCallback, TypeOK
<1>2. i0 \in Items /\ m \in Carried
  <2>1. i0 \in Items
    BY <1>1, HeadTail
  <2> HIDE DEF i0
  <2> QED BY <2>1 DEF Items, Carried
<1>3. callback'.queue = q /\ callback'.item = i0 /\ callback' # None
  <2>1. callback' = [queue |-> q, item |-> i0, more |-> HasMessage(r)]
    BY DEF StartCallback
  <2>2. callback' \in Callbacks
    BY <1>2, <2>1 DEF Callbacks, HasMessage
  <2> QED BY <2>1, <2>2 DEF RouterAssumption
<1>4. /\ Len(r) \in Nat /\ Len(r) # 0 /\ r[1] = i0
      /\ Len(Tail(r)) = Len(r) - 1 /\ \A i \in 1..(Len(r) - 1) : Tail(r)[i] = r[i + 1]
      /\ \A i \in 1..Len(r) : r[i] \in Items
  BY <1>1
<1>5. ms \in Seq(Carried)
  BY PlacesTyped
<1>6. Len(ms) = Len(r) /\ \A i \in 1..Len(r) : ms[i] = r[i].msg
  BY <1>4, <1>5 DEF QueuedMsgs
<1>7. ms # <<>> /\ Head(ms) = m
  <2> HIDE DEF ms, r
  <2>1. ms[1] = m /\ Len(ms) # 0
    BY <1>4, <1>6
  <2> QED BY <1>5, <2>1
<1>8. QueuedMsgs(q)' = Tail(ms)
  <2> DEFINE t == Tail(ms)
             n == QueuedMsgs(q)'
  <2>1. n = [i \in 1..Len(queue'[q]) |-> queue'[q][i].msg]
    BY DEF QueuedMsgs
  <2>2. Len(queue'[q]) = Len(r) - 1 /\ \A i \in 1..(Len(r) - 1) : queue'[q][i] = r[i + 1]
    BY <1>1, <1>4
  <2> HIDE DEF ms, r, n
  <2>3. n = [i \in 1..(Len(r) - 1) |-> r[i + 1].msg]
    BY <2>1, <2>2
  <2>4. \A i \in 1..(Len(r) - 1) : i + 1 \in 1..Len(r) /\ r[i + 1].msg \in Carried
    BY <1>4 DEF Items, Carried
  <2>5. n \in Seq(Carried) /\ Len(n) = Len(r) - 1
    BY <1>4, <2>3, <2>4
  <2>6. t \in Seq(Carried) /\ Len(t) = Len(ms) - 1
        /\ \A i \in 1..(Len(ms) - 1) : t[i] = ms[i + 1]
    BY <1>5, <1>7
  <2> HIDE DEF t
  <2>7. \A i \in 1..Len(n) : t[i] = n[i]
    BY <1>4, <1>6, <2>3, <2>4, <2>5, <2>6
  <2>8. t = n
    BY <1>6, <2>5, <2>6, <2>7
  <2> QED BY <2>8 DEF t, n
<1>9. \A p \in Queues : p # q => QueuedMsgs(p)' = QueuedMsgs(p)
  BY <1>1 DEF QueuedMsgs
<1> QED BY <1>1, <1>2, <1>3, <1>7, <1>8, <1>9 DEF InCallback

LEMMA WayStart ==
  ASSUME RouterAssumption, TypeOK, NEW q \in Queues, StartCallback(q),
         NEW s \in Threads, NEW h \in Homes, NEW c \in Conns, WayOK(s, h, c)
  PROVE  WayOK(s, h, c)'
<1> DEFINE G == Group(s, h)
           N == Wanted(s, h, c)
           W == Way(s, h, c)
           m == Head(queue[q]).msg
<1>1. IsWay(s, h, c, W) /\ Ordered(G, W) /\ Complete(N, W) /\ N \subseteq G
  BY WayIs DEF WayOK, Wanted
<1>0. PICK V : V = Way(s, h, c)'
  OBVIOUS
<1>2. NextWay(s, h, c, V)
  BY <1>0, WayIsNext
<1>3. UNCHANGED <<inbox, outbox, wire>>
      /\ \A t \in Threads : /\ BeingWritten(t)' = BeingWritten(t)
                            /\ InHand(t, "forward")' = InHand(t, "forward")
                            /\ InHand(t, "dispatch")' = InHand(t, "dispatch")
  BY DEF StartCallback, BeingWritten, InHand
<1>4. /\ m \in Carried
      /\ \A p \in Queues : InCallback(p) = <<>>
      /\ \A p \in Queues : InCallback(p)' = IF p = q THEN <<m>> ELSE <<>>
      /\ QueuedMsgs(q) # <<>> /\ Head(QueuedMsgs(q)) = m
      /\ \A p \in Queues : QueuedMsgs(p)' = IF p = q THEN Tail(QueuedMsgs(p)) ELSE QueuedMsgs(p)
  BY StartPlaces
<1>5. c \in Threads /\ Dispatcher(s, h) \in Threads
      /\ "forward" \in Queues /\ "dispatch" \in Queues /\ "forward" # "dispatch"
  BY DEF Dispatcher, Threads, Queues
<1>6. QueuedMsgs(q) \in Seq(Carried)
  BY PlacesTyped
<1>7. <<m>> = Append(<<>>, m) /\ <<>> \in Seq(Carried)
  BY <1>4, OneIs
<1> HIDE DEF G, N, W, m
<1>8. V[1] = W[1] /\ V[2] = W[2] /\ V[5] = W[5] /\ V[6] = W[6] /\ V[9] = W[9] /\ V[10] = W[10]
  BY <1>1, <1>2, <1>3, <1>5 DEF IsWay, NextWay
<1>9. CASE q = "forward"
  <2>1. V[3] = W[3] /\ V[4] = W[4]
    BY <1>1, <1>2, <1>4, <1>5, <1>9 DEF IsWay, NextWay
  <2>2. W[7] = <<>> /\ V[7] = Append(W[7], m) /\ W[8] = QueuedMsgs(q) /\ V[8] = Tail(W[8])
    BY <1>1, <1>2, <1>4, <1>5, <1>7, <1>9 DEF IsWay, NextWay
  <2>3. \A k \in Places \ {7, 8} : Alike(G, W[k], V[k])
    BY <1>8, <2>1, AlikeItself, PlacesAre
  <2>4. 7 \in Places /\ 8 \in Places /\ 7 < 8 /\ \A k \in Places : ~(7 < k /\ k < 8)
    BY DEF Places
  <2>5. Passes(G, N, W, V, Carried, 7, 8, m, m)
    BY <1>4, <1>6, <1>7, <2>2, <2>4 DEF Passes
  <2>6. Ordered(G, V) /\ Complete(N, V)
    BY <1>1, <2>3, <2>4, <2>5, WayPassed
  <2> QED BY <1>0, <2>6, WayOKNext DEF G, N
<1>10. CASE q = "dispatch"
  <2>1. V[7] = W[7] /\ V[8] = W[8]
    BY <1>1, <1>2, <1>4, <1>5, <1>10 DEF IsWay, NextWay
  <2>2. CASE c = h
    <3>1. V[3] = W[3] /\ V[4] = W[4]
      BY <1>1, <1>2, <2>2 DEF IsWay, NextWay
    <3>2. \A k \in Places : Alike(G, W[k], V[k])
      BY <1>8, <2>1, <3>1, AlikeItself, PlacesAre
    <3> QED BY <1>0, <1>1, <3>2, WayKept, WayOKNext DEF G, N
  <2>3. CASE c # h
    <3>2. W[3] = <<>> /\ V[3] = Append(W[3], m) /\ W[4] = QueuedMsgs(q) /\ V[4] = Tail(W[4])
      BY <1>1, <1>2, <1>4, <1>5, <1>7, <1>10, <2>3 DEF IsWay, NextWay
    <3>3. \A k \in Places \ {3, 4} : Alike(G, W[k], V[k])
      BY <1>8, <2>1, AlikeItself, PlacesAre
    <3>4. 3 \in Places /\ 4 \in Places /\ 3 < 4 /\ \A k \in Places : ~(3 < k /\ k < 4)
      BY DEF Places
    <3>5. Passes(G, N, W, V, Carried, 3, 4, m, m)
      BY <1>4, <1>6, <1>7, <3>2, <3>4 DEF Passes
    <3>6. Ordered(G, V) /\ Complete(N, V)
      BY <1>1, <3>3, <3>4, <3>5, WayPassed
    <3> QED BY <1>0, <3>6, WayOKNext DEF G, N
  <2> QED BY <2>2, <2>3
<1> QED BY <1>9, <1>10 DEF Queues

\* A callback ends.
LEMMA ReturnPlaces ==
  ASSUME RouterAssumption, TypeOK, callback # None, ReturnFromCallback
  PROVE  LET m == callback.item.msg
         IN /\ m \in Carried /\ callback.queue \in Queues
            /\ UNCHANGED <<inbox, wire>>
            /\ \A t \in Threads : /\ BeingWritten(t)' = BeingWritten(t)
                                  /\ InHand(t, "forward")' = InHand(t, "forward")
                                  /\ InHand(t, "dispatch")' = InHand(t, "dispatch")
            /\ \A p \in Queues : /\ QueuedMsgs(p)' = QueuedMsgs(p)
                                 /\ InCallback(p) = IF p = callback.queue THEN <<m>> ELSE <<>>
                                 /\ InCallback(p)' = <<>>
<1>1. callback.item.msg \in Carried /\ callback.queue \in Queues
  BY DEF TypeOK, Callbacks, Items, Carried
<1>2. callback' = None /\ UNCHANGED <<inbox, wire, pc, job, queue>>
  BY DEF ReturnFromCallback
<1>3. \A p \in Queues : /\ QueuedMsgs(p)' = QueuedMsgs(p)
                        /\ InCallback(p) = IF p = callback.queue THEN <<callback.item.msg>> ELSE <<>>
                        /\ InCallback(p)' = <<>>
  BY <1>2 DEF QueuedMsgs, InCallback
<1>4. \A t \in Threads : /\ BeingWritten(t)' = BeingWritten(t)
                         /\ InHand(t, "forward")' = InHand(t, "forward")
                         /\ InHand(t, "dispatch")' = InHand(t, "dispatch")
  BY <1>2 DEF BeingWritten, InHand
<1> QED BY <1>1, <1>2, <1>3, <1>4

LEMMA SendIs ==
  ASSUME NEW d, NEW x, outbox' = SendTo(d, x)
  PROVE  \A c \in Conns : outbox'[c] = IF c = d THEN Append(outbox[c], x) ELSE outbox[c]
BY DEF SendTo

LEMMA WayForward ==
  ASSUME RouterAssumption, TypeOK, Routed, FinishForward,
         NEW s \in Threads, NEW h \in Homes, NEW c \in Conns, WayOK(s, h, c)
  PROVE  WayOK(s, h, c)'
<1> DEFINE G == Group(s, h)
           N == Wanted(s, h, c)
           W == Way(s, h, c)
           m == callback.item.msg
           u == callback.item.conn
<1>1. IsWay(s, h, c, W) /\ Ordered(G, W) /\ Complete(N, W) /\ N \subseteq G
  BY WayIs DEF WayOK, Wanted
<1>0. PICK V : V = Way(s, h, c)'
  OBVIOUS
<1>2. NextWay(s, h, c, V)
  BY <1>0, WayIsNext
<1>3. /\ callback # None /\ callback.queue = "forward" /\ ReturnFromCallback
      /\ m \in Msgs /\ u \in Threads /\ m \in Sent(u)
      /\ \/ Dest[m] \in Conns /\ outbox' = SendTo(Dest[m], m)
         \/ Dest[m] = Absent /\ m \in Calls /\ outbox' = SendTo(u, ErrorReply(m))
         \/ Dest[m] = Absent /\ m \notin Calls /\ outbox' = outbox
  BY ForwardIs
<1>4. c \in Threads /\ Dispatcher(s, h) \in Threads
      /\ "forward" \in Queues /\ "dispatch" \in Queues /\ "forward" # "dispatch"
  BY DEF Dispatcher, Threads, Queues
<1>5. /\ m \in Carried /\ UNCHANGED <<inbox, wire>>
      /\ \A t \in Threads : /\ BeingWritten(t)' = BeingWritten(t)
                            /\ InHand(t, "forward")' = InHand(t, "forward")
                            /\ InHand(t, "dispatch")' = InHand(t, "dispatch")
      /\ QueuedMsgs("forward")' = QueuedMsgs("forward")
      /\ QueuedMsgs("dispatch")' = QueuedMsgs("dispatch")
      /\ InCallback("forward") = <<m>> /\ InCallback("forward")' = <<>>
      /\ InCallback("dispatch") = <<>> /\ InCallback("dispatch")' = <<>>
  BY <1>3, <1>4, ReturnPlaces
<1>6. Origin(m) = m
  BY <1>3, OriginIs
<1>7. outbox[c] \in Seq(Carried) /\ (h \in Conns => outbox[h] \in Seq(Carried))
  BY PlacesTyped
<1>8. <<m>> \in Seq(Carried) /\ <<m>> # <<>> /\ Head(<<m>>) = m /\ Tail(<<m>>) = <<>>
  BY <1>5, OneIs
<1>9. m \in N => m \in G /\ Dest[m] # Absent
  <2>1. m \in N => m \in Group(s, h) /\ m \in Meant(c)
    BY DEF Wanted
  <2>2. Absent \notin Conns
    BY DEF RouterAssumption
  <2> HIDE DEF m, N
  <2> QED BY <1>3, <2>1, <2>2, ExpectedIs
\* What becomes of the outboxes, in the three cases.
<1>10. \/ \E x \in Carried : /\ Origin(x) = m /\ (x = m \/ m \notin N) /\ (x \in G <=> m \in G)
                             /\ h \in Conns /\ outbox'[h] = Append(outbox[h], x)
                             /\ c # h => outbox'[c] = outbox[c]
       \/ /\ m \notin N /\ (h \in Conns => outbox'[h] = outbox[h])
          /\ c # h => \/ outbox'[c] = outbox[c]
                      \/ \E x \in Carried \ G : outbox'[c] = Append(outbox[c], x)
  <2>1. CASE Dest[m] \in Conns /\ outbox' = SendTo(Dest[m], m)
    <3>1. \A e \in Conns : outbox'[e] = IF e = Dest[m] THEN Append(outbox[e], m) ELSE outbox[e]
      BY <2>1, SendIs
    <3>2. CASE h = Dest[m]
      BY <1>5, <1>6, <2>1, <3>1, <3>2
    <3>3. CASE h # Dest[m]
      <4>1. m \notin G /\ m \notin N
        BY <1>1, <1>3, <1>5, <2>1, <3>3, GroupIs DEF Homes
      <4> HIDE DEF G, N, m
      <4> QED BY <1>5, <3>1, <3>3, <4>1
    <3> QED BY <3>2, <3>3
  <2>2. CASE Dest[m] = Absent /\ m \in Calls /\ outbox' = SendTo(u, ErrorReply(m))
    <3> DEFINE x == ErrorReply(m)
    <3>1. Origin(x) = m /\ x \in Carried /\ x \notin Msgs
      BY <2>2, OriginIs DEF Carried
    <3> HIDE DEF x
    <3>2. outbox' = SendTo(u, x)
      BY <2>2 DEF x
    <3>3. \A e \in Conns : outbox'[e] = IF e = u THEN Append(outbox[e], x) ELSE outbox[e]
      BY <3>2, SendIs
    <3>4. Absent \notin Homes /\ (\A t \in Threads : m \in Sent(t) => t = u)
      BY <1>3 DEF Homes, RouterAssumption
    <3>5. \A y \in {x, m} : y \in G <=> s = u /\ h = s /\ h \in Conns
      BY <1>3, <1>5, <1>6, <2>2, <3>1, <3>4 DEF Group, Belongs
    <3>6. m \notin N
      BY <1>9, <2>2
    <3> HIDE DEF G, N, m, u
    <3>7. CASE h \in Conns /\ h = u
      <4>1. x \in G <=> m \in G
        BY <3>5
      <4> QED BY <3>1, <3>3, <3>6, <3>7, <4>1
    <3>8. CASE ~(h \in Conns /\ h = u)
      <4>1. x \notin G
        BY <3>5, <3>8
      <4> QED BY <3>1, <3>3, <3>6, <3>8, <4>1
    <3> QED BY <3>7, <3>8
  <2>3. CASE Dest[m] = Absent /\ m \notin Calls /\ outbox' = outbox
    BY <1>9, <2>3
  <2> HIDE DEF m, u, G, N
  <2> QED BY <1>3, <2>1, <2>2, <2>3
<1> HIDE DEF G, N, W, m, u
<1>11. /\ V[1] = W[1] /\ V[3] = W[3] /\ V[4] = W[4] /\ V[5] = W[5] /\ V[8] = W[8] /\ V[9] = W[9]
       /\ V[10] = W[10] /\ W[7] = <<m>> /\ V[7] = <<>>
  BY <1>1, <1>2, <1>4, <1>5 DEF IsWay, NextWay
<1>12. ASSUME NEW x \in Carried, Origin(x) = m, x = m \/ m \notin N, x \in G <=> m \in G,
              h \in Conns, outbox'[h] = Append(outbox[h], x), c # h => outbox'[c] = outbox[c]
       PROVE  WayOK(s, h, c)'
  <2>1. V[2] = W[2] /\ W[6] = outbox[h] /\ V[6] = Append(W[6], x)
    BY <1>1, <1>2, <1>4, <1>5, <1>12 DEF IsWay, NextWay
  <2>2. \A k \in Places \ {6, 7} : Alike(G, W[k], V[k])
    BY <1>11, <2>1, AlikeItself, PlacesAre
  <2>3. 6 \in Places /\ 7 \in Places /\ 6 < 7 /\ \A k \in Places : ~(6 < k /\ k < 7)
    BY DEF Places
  <2>4. Passes(G, N, W, V, Carried, 6, 7, x, m)
    BY <1>5, <1>6, <1>7, <1>8, <1>11, <1>12, <2>1, <2>3 DEF Passes
  <2>5. Ordered(G, V) /\ Complete(N, V)
    BY <1>1, <1>12, <2>2, <2>3, <2>4, WayPassed
  <2> QED BY <1>0, <2>5, WayOKNext DEF G, N
<1>13. ASSUME m \notin N, h \in Conns => outbox'[h] = outbox[h],
              c # h => \/ outbox'[c] = outbox[c]
                       \/ \E x \in Carried \ G : outbox'[c] = Append(outbox[c], x)
       PROVE  WayOK(s, h, c)'
  <2>1. V[6] = W[6]
    BY <1>1, <1>2, <1>13 DEF IsWay, NextWay
  <2>2. Alike(G, W[2], V[2])
    <3>1. CASE c = h \/ outbox'[c] = outbox[c]
      <4>1. V[2] = W[2]
        BY <1>1, <1>2, <1>4, <1>5, <3>1 DEF IsWay, NextWay
      <4> QED BY <4>1, AlikeItself
    <3>2. CASE c # h /\ outbox'[c] # outbox[c]
      <4>1. PICK x \in Carried \ G : outbox'[c] = Append(outbox[c], x)
        BY <1>13, <3>2
      <4>2. W[2] = outbox[c] /\ V[2] = Append(outbox[c], x)
        BY <1>1, <1>2, <3>2, <4>1 DEF IsWay, NextWay
      <4> QED BY <1>7, <4>2, AppendInLine
    <3> QED BY <3>1, <3>2
  <2>3. \A k \in Places \ {7} : k # 2 => Alike(G, W[k], V[k])
    BY <1>11, <2>1, AlikeItself, PlacesAre
  <2>4. \A k \in Places \ {7} : Alike(G, W[k], V[k])
    BY <2>2, <2>3
  <2>5. Drops(N, W, V, Carried, 7) /\ 7 \in Places
    BY <1>8, <1>11, <1>13 DEF Drops, Places
  <2>6. Ordered(G, V) /\ Complete(N, V)
    BY <1>1, <2>4, <2>5, WayDropped
  <2> QED BY <1>0, <2>6, WayOKNext DEF G, N
<1> QED BY <1>10, <1>12, <1>13

LEMMA WayDispatch ==
  ASSUME RouterAssumption, TypeOK, Routed, FinishDispatch,
         NEW s \in Threads, NEW h \in Homes, NEW c \in Conns, WayOK(s, h, c)
  PROVE  WayOK(s, h, c)'
<1> DEFINE G == Group(s, h)
           N == Wanted(s, h, c)
           W == Way(s, h, c)
           m == callback.item.msg
           n(e) == Recipients(callback.item)[e]
<1>1. IsWay(s, h, c, W) /\ Ordered(G, W) /\ Complete(N, W) /\ N \subseteq G
  BY WayIs DEF WayOK, Wanted
<1>0. PICK V : V = Way(s, h, c)'
  OBVIOUS
<1>2. NextWay(s, h, c, V)
  BY <1>0, WayIsNext
<1>3. /\ callback # None /\ callback.queue = "dispatch" /\ ReturnFromCallback
      /\ RoutedItem("dispatch", callback.item, tagged)
      /\ \A e \in Conns : outbox'[e] = outbox[e] \o Copies(m, n(e)) /\ n(e) \in Nat
  BY SendCopiesIs, RecipientsTyped DEF FinishDispatch, Routed, RoutedCallback
<1>4. c \in Threads /\ Dispatcher(s, h) \in Threads
      /\ "forward" \in Queues /\ "dispatch" \in Queues /\ "forward" # "dispatch"
  BY DEF Dispatcher, Threads, Queues
<1>5. /\ m \in Carried /\ UNCHANGED <<inbox, wire>>
      /\ \A t \in Threads : /\ BeingWritten(t)' = BeingWritten(t)
                            /\ InHand(t, "forward")' = InHand(t, "forward")
                            /\ InHand(t, "dispatch")' = InHand(t, "dispatch")
      /\ QueuedMsgs("forward")' = QueuedMsgs("forward")
      /\ QueuedMsgs("dispatch")' = QueuedMsgs("dispatch")
      /\ InCallback("dispatch") = <<m>> /\ InCallback("dispatch")' = <<>>
      /\ InCallback("forward") = <<>> /\ InCallback("forward")' = <<>>
  BY <1>3, <1>4, ReturnPlaces
<1>6. outbox[c] \in Seq(Carried) /\ (h \in Conns => outbox[h] \in Seq(Carried))
  BY PlacesTyped
<1>7. <<m>> \in Seq(Carried) /\ <<m>> # <<>> /\ Head(<<m>>) = m /\ Tail(<<m>>) = <<>>
  BY <1>5, OneIs
<1>8. \A e \in Conns : n(e) > 0 <=> Watching[m][e] > 0 /\ e # callback.item.conn
  BY DEF Recipients
<1>9. \/ callback.item.conn = None /\ m \in Msgs /\ Dest[m] = Daemon
      \/ callback.item.conn \in Conns /\ AtHome(callback.item.conn, m)
  BY <1>3 DEF RoutedItem
\* Nothing of the group comes back to the filter that dispatched it.
<1>10. h \in Conns /\ n(h) > 0 => m \notin G
  <2> SUFFICES ASSUME h \in Conns, n(h) > 0 PROVE m \notin G
    OBVIOUS
  <2>1. CASE callback.item.conn = None /\ m \in Msgs /\ Dest[m] = Daemon
    BY <1>5, <2>1, GroupIs DEF Homes, RouterAssumption
  <2>2. CASE callback.item.conn \in Conns /\ AtHome(callback.item.conn, m)
    BY <1>5, <1>8, <2>2, GroupIs
  <2> QED BY <1>9, <2>1, <2>2
<1>11. c # h /\ ~(n(c) > 0) => m \notin N
  <2> SUFFICES ASSUME c # h, ~(n(c) > 0), m \in N PROVE FALSE
    OBVIOUS
  <2>1. m \in Msgs /\ m \in G /\ m \in Meant(c)
    BY <1>1 DEF Wanted
  <2>2. ~(Watching[m][c] > 0)
    <3>1. c # callback.item.conn
      BY <1>5, <1>9, <2>1, GroupIs DEF RouterAssumption, Threads
    <3> QED BY <1>8, <3>1
  <2>3. Dest[m] = c
    BY <2>1, <2>2, ExpectedIs
  <2> QED BY <1>5, <2>1, <2>3, GroupIs DEF Homes
<1> HIDE DEF G, N, W, m, n
<1>12. /\ V[1] = W[1] /\ V[4] = W[4] /\ V[5] = W[5] /\ V[7] = W[7] /\ V[8] = W[8] /\ V[9] = W[9]
       /\ V[10] = W[10]
  BY <1>1, <1>2, <1>4, <1>5 DEF IsWay, NextWay
<1>13. Alike(G, W[6], V[6])
  <2>1. CASE h \in Conns
    <3>1. W[6] = outbox[h] /\ V[6] = outbox[h] \o Copies(m, n(h)) /\ n(h) \in Nat
      BY <1>1, <1>2, <1>3, <2>1 DEF IsWay, NextWay
    <3>2. CASE n(h) > 0
      BY <1>5, <1>6, <1>10, <2>1, <3>1, <3>2, CopiesInLine
    <3>3. CASE n(h) = 0
      <4>1. V[6] = W[6]
        BY <1>6, <2>1, <3>1, <3>3, NoCopies
      <4> QED BY <4>1, AlikeItself
    <3> QED BY <3>1, <3>2, <3>3
  <2>2. CASE h \notin Conns
    <3>1. V[6] = W[6]
      BY <1>1, <1>2, <2>2 DEF IsWay, NextWay
    <3> QED BY <3>1, AlikeItself
  <2> QED BY <2>1, <2>2
<1>14. CASE c = h
  <2>1. V[2] = W[2] /\ V[3] = W[3]
    BY <1>1, <1>2, <1>4, <1>5, <1>14 DEF IsWay, NextWay
  <2>2. \A k \in Places : k # 6 => Alike(G, W[k], V[k])
    BY <1>12, <2>1, AlikeItself, PlacesAre
  <2>3. \A k \in Places : Alike(G, W[k], V[k])
    BY <1>13, <2>2
  <2> QED BY <1>0, <1>1, <2>3, WayKept, WayOKNext DEF G, N
<1>15. CASE c # h
  <2>1. W[3] = <<m>> /\ V[3] = <<>>
    BY <1>1, <1>2, <1>5, <1>15 DEF IsWay, NextWay
  <2>2. \A k \in Places \ {2, 3} : k # 6 => Alike(G, W[k], V[k])
    BY <1>12, AlikeItself, PlacesAre
  <2>3. \A k \in Places \ {2, 3} : Alike(G, W[k], V[k])
    BY <1>13, <2>2
  <2>4. 3 \in Places
    BY DEF Places
  <2>5. W[2] = outbox[c] /\ V[2] = W[2] \o Copies(m, n(c)) /\ n(c) \in Nat
    BY <1>1, <1>2, <1>3, <1>15 DEF IsWay, NextWay
  <2>6. CASE n(c) > 0
    <3>1. Ordered(G, V) /\ Complete(N, V)
      BY <1>1, <1>5, <1>6, <2>1, <2>3, <2>5, <2>6, WayCopied
    <3> QED BY <1>0, <3>1, WayOKNext DEF G, N
  <2>7. CASE ~(n(c) > 0)
    <3>1. V[2] = W[2]
      BY <1>6, <2>5, <2>7, NoCopies
    <3>2. \A k \in Places \ {3} : Alike(G, W[k], V[k])
      BY <2>3, <3>1, AlikeItself
    <3>3. Drops(N, W, V, Carried, 3)
      BY <1>7, <1>11, <1>15, <2>1, <2>7 DEF Drops
    <3>4. Ordered(G, V) /\ Complete(N, V)
      BY <1>1, <2>4, <3>2, <3>3, WayDropped
    <3> QED BY <1>0, <3>4, WayOKNext DEF G, N
  <2> QED BY <2>6, <2>7
<1> QED BY <1>14, <1>15

LEMMA WaysStep ==
  ASSUME RouterAssumption, TypeOK, Routed, WaysOK, Written, [Next]_vars
  PROVE  WaysOK'
<1> SUFFICES ASSUME NEW s \in Threads, NEW h \in Homes, NEW c \in Conns PROVE WayOK(s, h, c)'
  BY DEF WaysOK
<1>0. WayOK(s, h, c)
  BY DEF WaysOK
<1>1. ASSUME UNCHANGED vars PROVE WayOK(s, h, c)'
  <2>1. Way(s, h, c)' = Way(s, h, c)
    BY <1>1 DEF vars, Way, BeingWritten, InHand, InCallback, QueuedMsgs
  <2> QED BY <1>0, <2>1 DEF WayOK
<1>2. \A t \in Threads : Reads(t) => WayOK(s, h, c)'
  BY <1>0, WayReads
<1>3. Main \in Threads /\ \A e \in Conns : e \in Threads
  BY DEF Threads
<1>4. \A e \in Conns : FilterOutgoing(e) => WayOK(s, h, c)'
  BY WayOutgoing
<1>5. \A t \in Threads : AppendToQueue(t) \/ AttachSource(t) => WayOK(s, h, c)'
  BY <1>0, WayQueue
<1>6. \A q \in Queues : StartCallback(q) => WayOK(s, h, c)'
  BY <1>0, WayStart
<1>7. FinishForward \/ FinishDispatch => WayOK(s, h, c)'
  BY <1>0, WayForward, WayDispatch
<1> QED BY <1>1, <1>2, <1>3, <1>4, <1>5, <1>6, <1>7, ReadsIs DEF Next, Step, Callback

LEMMA WrittenStep ==
  ASSUME RouterAssumption, TypeOK, Routed, Written, [Next]_vars
  PROVE  Written'
<1> SUFFICES ASSUME NEW h \in Conns, NEW x \in tagged', AtHome(h, x)
             PROVE  x \in Listed(wire[h])' \cup Listed(BeingWritten(h))'
  BY DEF Written
<1>0. h \in Threads /\ wire[h] \in Seq(Carried)
  BY PlacesTyped DEF Threads
<1>1. x \in tagged => x \in Listed(wire[h]) \cup Listed(BeingWritten(h))
  BY DEF Written
<1>2. CASE UNCHANGED <<wire, job, tagged>>
  BY <1>1, <1>2 DEF BeingWritten, Listed
<1>3. ASSUME NEW t \in Threads, Reads(t)
      PROVE  x \in Listed(wire[h])' \cup Listed(BeingWritten(h))'
  <2> DEFINE m == Head(inbox[t])
  <2>1. inbox[t] \in Seq(Msgs) /\ inbox[t] # <<>> /\ wire' = wire /\ pc[t] = "idle"
    BY <1>3 DEF TypeOK, Reads
  <2>2. m \in Msgs /\ Origin(m) = m
    BY <2>1, HeadTail, OriginIs
  <2>3. ASSUME NEW q \in Queues, NEW item \in Items, Enqueue(t, q, item, FALSE)
        PROVE  BeingWritten(h)' = BeingWritten(h)
    BY <1>0, <2>1, <2>3, EnqueuePlaces
  <2>4. "forward" \in Queues /\ "dispatch" \in Queues
    BY DEF Queues
  <2>5. BeingWritten(h)' = BeingWritten(h)
    <3>1. [msg |-> m, conn |-> t] \in Items /\ [msg |-> m, conn |-> None] \in Items
      BY <2>2 DEF Items
    <3>2. \/ Enqueue(t, "forward", [msg |-> m, conn |-> t], FALSE)
          \/ Enqueue(t, "dispatch", [msg |-> m, conn |-> None], FALSE)
      BY <1>3 DEF Reads, DispatchByRule
    <3> QED BY <2>3, <2>4, <3>1, <3>2
  <2>6. x \in tagged
    <3>1. tagged' = tagged \/ (tagged' = tagged \cup {m} /\ Dest[m] = Daemon)
      BY <1>3 DEF Reads, DispatchByRule, ForwardedTo
    <3>2. Dest[m] = Daemon => ~AtHome(h, m)
      BY <2>2 DEF AtHome, Belongs, RouterAssumption
    <3> HIDE DEF m
    <3> QED BY <3>1, <3>2
  <2> QED BY <1>1, <2>1, <2>5, <2>6 DEF Listed
<1>4. ASSUME NEW e \in Conns, FilterOutgoing(e)
      PROVE  x \in Listed(wire[h])' \cup Listed(BeingWritten(h))'
  <2> DEFINE m == Head(outbox[e])
  <2>1. outbox[e] \in Seq(Carried) /\ outbox[e] # <<>> /\ pc[e] = "idle" /\ e \in Threads
    BY <1>4, PlacesTyped DEF FilterOutgoing, Threads
  <2>2. m \in Carried /\ RoutedCopy(e, m, tagged)
    BY <2>1, EntriesTail, HeadTail DEF Routed, RoutedCopies
  <2>3. CASE DispatchByRule(e, m, e, TRUE) /\ UNCHANGED wire
    <3> DEFINE item == [msg |-> m, conn |-> e]
    <3>1. item \in Items /\ item.msg = m /\ "dispatch" \in Queues /\ TRUE \in BOOLEAN
      BY <2>1, <2>2 DEF Items, Carried, Queues
    <3>2. Enqueue(e, "dispatch", item, TRUE) /\ m \notin tagged /\ tagged' = tagged \cup {m}
      BY <2>3 DEF DispatchByRule
    <3> HIDE DEF item, m
    <3>3. /\ BeingWritten(e) = <<>> /\ BeingWritten(e)' = <<m>>
          /\ \A u \in Threads : u # e => BeingWritten(u)' = BeingWritten(u)
      BY <2>1, <3>1, <3>2, EnqueuePlaces
    <3>4. CASE x \in tagged
      <4>1. x \in Listed(wire[h]) \cup Listed(BeingWritten(h))
        BY <1>1, <3>4
      <4>2. Listed(wire[h])' = Listed(wire[h])
        BY <2>3 DEF Listed
      <4>3. CASE h = e
        BY <3>3, <4>1, <4>2, <4>3, ListedFew
      <4>4. CASE h # e
        <5>1. Listed(BeingWritten(h))' = Listed(BeingWritten(h))
          BY <1>0, <3>3, <4>4 DEF Listed
        <5> QED BY <4>1, <4>2, <5>1
      <4> QED BY <4>3, <4>4
    <3>5. CASE x \notin tagged
      <4>1. x = m /\ AtHome(e, m)
        BY <2>2, <3>2, <3>5 DEF RoutedCopy
      <4>2. h = e
        BY <2>2, <4>1, BelongsOnce DEF AtHome, Homes
      <4>3. Listed(BeingWritten(h))' = {m}
        BY <3>3, <4>2 DEF Listed
      <4> QED BY <4>1, <4>3
    <3> QED BY <3>4, <3>5
  <2>4. CASE wire' = [wire EXCEPT ![e] = Append(@, m)] /\ UNCHANGED <<pc, job, tagged>>
    <3>1. Listed(wire[h]) \subseteq Listed(wire[h])'
      <4>1. wire'[h] = wire[h] \/ wire'[h] = Append(wire[h], m)
        BY <2>4 DEF TypeOK
      <4>2. m \in Carried
        BY <2>2
      <4> HIDE DEF m
      <4>3. Listed(Append(wire[h], m)) = Listed(wire[h]) \cup {m}
        BY <1>0, <4>2, ListedAppend
      <4>4. Listed(wire[h]) \subseteq Listed(wire'[h])
        BY <4>1, <4>3
      <4> QED BY <4>4 DEF Listed
    <3>2. Listed(BeingWritten(h))' = Listed(BeingWritten(h))
      BY <2>4 DEF Listed, BeingWritten
    <3> QED BY <1>1, <2>4, <3>1, <3>2
  <2> QED BY <1>4, <2>3, <2>4 DEF FilterOutgoing
<1>5. ASSUME NEW t \in Threads, AppendToQueue(t) \/ AttachSource(t)
      PROVE  x \in Listed(wire[h])' \cup Listed(BeingWritten(h))'
  <2>1. pc[t] # "idle" /\ tagged' = tagged /\ (Leave(t) \/ UNCHANGED <<job, wire>>)
    BY <1>5 DEF AppendToQueue, AttachSource
  <2>2. CASE UNCHANGED <<job, wire>>
    BY <1>2, <2>1, <2>2
  <2>3. CASE Leave(t)
    <3>1. job[t].item.msg \in Carried
      BY <2>1 DEF TypeOK, Jobs, Items, Carried
    <3>2. /\ BeingWritten(t) = IF job[t].write THEN <<job[t].item.msg>> ELSE <<>>
          /\ \A u \in Threads : u # t => BeingWritten(u)' = BeingWritten(u)
          /\ wire'[h] = IF h = t /\ job[t].write THEN Append(wire[h], job[t].item.msg) ELSE wire[h]
      BY <2>1, <2>3, LeavePlaces
    <3>3. x \in Listed(wire[h]) \cup Listed(BeingWritten(h))
      BY <1>1, <2>1
    <3>4. x \in Listed(wire'[h]) \cup Listed(BeingWritten(h)')
      <4>1. CASE h # t
        BY <1>0, <3>2, <3>3, <4>1
      <4>2. CASE h = t /\ job[t].write
        BY <1>0, <3>1, <3>2, <3>3, <4>2, ListedAppend, ListedFew
      <4>3. CASE h = t /\ ~job[t].write
        BY <3>2, <3>3, <4>3, ListedFew
      <4> QED BY <4>1, <4>2, <4>3
    <3> QED BY <3>4 DEF Listed
  <2> QED BY <2>1, <2>2, <2>3
<1>6. ASSUME Callback \/ UNCHANGED vars PROVE UNCHANGED <<wire, job, tagged>>
  BY <1>6 DEF vars, Callback, StartCallback, FinishForward, FinishDispatch, ReturnFromCallback
<1>7. Main \in Threads /\ \A e \in Conns : e \in Threads
  BY DEF Threads
<1> QED BY <1>2, <1>3, <1>4, <1>5, <1>6, <1>7, ReadsIs DEF Next, Step
LEMMA PriorOnce ==
  ASSUME RouterAssumption, NEW x, NEW y, Prior(x, y)
  PROVE  ~Prior(y, x)
<1> SUFFICES ASSUME Prior(y, x) PROVE FALSE
  OBVIOUS
<1>1. PICK t \in Threads : \E i, j \in DOMAIN Outgoing[t] :
        i < j /\ Outgoing[t][i] = Origin(x) /\ Outgoing[t][j] = Origin(y)
  BY DEF Prior, SentBefore
<1>2. PICK u \in Threads : \E i, j \in DOMAIN Outgoing[u] :
        i < j /\ Outgoing[u][i] = Origin(y) /\ Outgoing[u][j] = Origin(x)
  BY DEF Prior, SentBefore
<1>3. Origin(x) \in Sent(t) \cap Sent(u)
  BY <1>1, <1>2 DEF Sent
<1>4. t = u
  BY <1>3 DEF RouterAssumption
<1>5. \A i, j \in DOMAIN Outgoing[t] : Outgoing[t][i] = Outgoing[t][j] => i = j
  BY DEF RouterAssumption
<1>6. DOMAIN Outgoing[t] \subseteq Int
  <2>1. Outgoing[t] \in Seq(Msgs)
    BY DEF RouterAssumption
  <2> QED BY <2>1
<1>7. PICK i \in DOMAIN Outgoing[t], j \in DOMAIN Outgoing[t] :
        i < j /\ Outgoing[t][i] = Origin(x) /\ Outgoing[t][j] = Origin(y)
  BY <1>1
<1>8. PICK k \in DOMAIN Outgoing[t], l \in DOMAIN Outgoing[t] :
        k < l /\ Outgoing[t][k] = Origin(y) /\ Outgoing[t][l] = Origin(x)
  BY <1>2, <1>4
<1>9. k = j /\ l = i
  BY <1>5, <1>7, <1>8
<1> QED BY <1>6, <1>7, <1>8, <1>9

LEMMA InitWays ==
  ASSUME RouterAssumption, Init
  PROVE  WaysOK /\ Written
<1>1. Written
  BY DEF Init, Written
<1>2. ASSUME NEW s \in Threads, NEW h \in Homes, NEW c \in Conns PROVE WayOK(s, h, c)
  <2> DEFINE W == Way(s, h, c)
             G == Group(s, h)
             N == Wanted(s, h, c)
  <2>1. IsWay(s, h, c, W)
    BY WayIs
  <2>2. c \in Threads /\ Dispatcher(s, h) \in Threads /\ "forward" \in Queues /\ "dispatch" \in Queues
    BY DEF Dispatcher, Threads, Queues
  <2>3. QueuedMsgs("forward") = <<>> /\ QueuedMsgs("dispatch") = <<>>
    <3>1. queue["forward"] = <<>> /\ queue["dispatch"] = <<>>
      BY <2>2 DEF Init
    <3> QED BY <3>1 DEF QueuedMsgs
  <2>4. /\ InCallback("forward") = <<>> /\ InCallback("dispatch") = <<>>
        /\ \A t \in Threads : /\ InHand(t, "forward") = <<>> /\ InHand(t, "dispatch") = <<>>
                              /\ BeingWritten(t) = <<>>
        /\ \A e \in Conns : wire[e] = <<>> /\ outbox[e] = <<>>
        /\ inbox = Outgoing
    BY DEF Init, InCallback, InHand, BeingWritten
  <2> HIDE DEF W
  <2>5. W[1] = <<>> /\ W[2] = <<>> /\ W[3] = <<>> /\ W[4] = <<>> /\ W[5] = <<>>
        /\ W[6] = <<>> /\ W[7] = <<>> /\ W[8] = <<>> /\ W[9] = <<>> /\ W[10] = Outgoing[s]
    BY <2>1, <2>2, <2>3, <2>4 DEF IsWay
  <2>6. \A k \in Places : k # 10 => W[k] = <<>>
    BY <2>5, PlacesAre
  <2>7. 10 \in Places /\ \A k, l \in Places : k < l => k # 10
    BY DEF Places
  <2>8. Outgoing[s] \in Seq(Msgs)
    BY DEF RouterAssumption
  <2>9. \A i \in DOMAIN Outgoing[s] : Outgoing[s][i] \in Msgs /\ Origin(Outgoing[s][i]) = Outgoing[s][i]
    BY <2>8, OriginIs
  <2>10. \A k \in Places : InLine(k, G, Outgoing[s])
    <3> HIDE DEF G
    <3> QED BY <2>9 DEF InLine, Follows, Prior, SentBefore
  <2>11. \A k \in Places : InLine(k, G, <<>>)
    BY DEF InLine
  <2>12. \A k \in Places : InLine(k, G, W[k])
    BY <2>5, <2>6, <2>10, <2>11
  <2>13. \A k, l \in Places : k < l => Apart(l, G, W[k], W[l])
    BY <2>6, <2>7, ListedFew DEF Apart
  <2>14. Complete(N, W)
    <3> SUFFICES ASSUME NEW n \in N PROVE n \in Listed(W[10])
      BY <2>7 DEF Complete
    <3>1. n \in Sent(s)
      BY OriginIs DEF Wanted, Group, Belongs
    <3> QED BY <2>5, <3>1 DEF Sent, Listed
  <2> QED BY <2>12, <2>13, <2>14 DEF W, WayOK, Ordered
<1> QED BY <1>1, <1>2 DEF WaysOK

----------------------------------------------------------------------------
(* How often.  The copies of a message for c are made at once: c has none, *)
(* received, being written or on their way there, or it has them all.      *)

At(s, x) == {i \in DOMAIN s : s[i] = x}

Count(s, x) == Cardinality(At(s, x))

LEMMA AtFinite ==
  ASSUME NEW S, NEW s \in Seq(S), NEW x
  PROVE  /\ IsFiniteSet(At(s, x)) /\ Count(s, x) \in Nat
         /\ Count(s, x) = 0 <=> x \notin Listed(s)
<1>1. Len(s) \in Nat /\ At(s, x) \subseteq 1..Len(s)
  BY DEF At
<1>2. IsFiniteSet(1..Len(s))
  BY <1>1, FS_Interval
<1>3. IsFiniteSet(At(s, x))
  BY <1>1, <1>2, FS_Subset
<1>4. Count(s, x) \in Nat
  BY <1>3, FS_CardinalityType DEF Count
<1>5. Count(s, x) = 0 <=> At(s, x) = {}
  BY <1>3, FS_EmptySet DEF Count
<1>6. At(s, x) = {} <=> x \notin Listed(s)
  BY DEF At, Listed
<1> QED BY <1>3, <1>4, <1>5, <1>6

LEMMA CountCopies ==
  ASSUME NEW S, NEW s \in Seq(S), NEW m \in S, NEW n \in Nat, NEW x
  PROVE  Count(s \o Copies(m, n), x) = Count(s, x) + IF x = m THEN n ELSE 0
<1> DEFINE t == s \o Copies(m, n)
           L == Len(s)
<1>1. L \in Nat /\ DOMAIN s = 1..L
  OBVIOUS
<1>2. /\ DOMAIN t = 1..(L + n)
      /\ \A i \in 1..L : t[i] = s[i]
      /\ \A i \in (L + 1)..(L + n) : t[i] = m
  BY CopiesEntries
<1>3. IsFiniteSet(At(s, x)) /\ Count(s, x) \in Nat
  BY AtFinite
<1> HIDE DEF t, L
<1>4. CASE x = m
  <2> DEFINE I == (L + 1)..(L + n)
  <2>1. At(t, x) = At(s, x) \cup I
    BY <1>1, <1>2, <1>4 DEF At
  <2>2. At(s, x) \cap I = {}
    BY <1>1 DEF At
  <2>3. IsFiniteSet(I) /\ Cardinality(I) = n
    BY <1>1, FS_Interval
  <2> HIDE DEF I
  <2>4. Cardinality({}) = 0
    BY FS_EmptySet
  <2>5. Cardinality(At(s, x) \cup I) = Cardinality(At(s, x)) + Cardinality(I) - Cardinality(At(s, x) \cap I)
    BY <1>3, <2>3, FS_Union
  <2>6. Cardinality(At(s, x) \cap I) = 0
    BY <2>2, <2>4
  <2>7. Cardinality(At(t, x)) = Cardinality(At(s, x) \cup I)
    BY <2>1
  <2>8. Cardinality(At(s, x)) \in Nat
    BY <1>3 DEF Count
  <2> DEFINE u == Cardinality(At(s, x))
  <2>9. u \in Nat /\ Cardinality(At(t, x)) = u + n - 0
    BY <2>3, <2>5, <2>6, <2>7, <2>8
  <2> HIDE DEF u
  <2>10. Cardinality(At(t, x)) = u + n
    BY <2>9
  <2> QED BY <1>4, <2>10 DEF Count, t, u
<1>5. CASE x # m
  <2>1. At(t, x) = At(s, x)
    BY <1>1, <1>2, <1>5 DEF At
  <2> QED BY <1>3, <1>5, <2>1 DEF Count, t
<1> QED BY <1>4, <1>5

LEMMA CountConcat ==
  ASSUME NEW S, NEW s \in Seq(S), NEW t \in Seq(S), NEW x
  PROVE  /\ x \notin Listed(t) => Count(s \o t, x) = Count(s, x)
         /\ x \in Listed(t) => Count(s, x) < Count(s \o t, x)
         /\ Listed(s \o t) = Listed(s) \cup Listed(t)
<1> DEFINE u == s \o t
           L == Len(s)
           K == Len(t)
<1>1. /\ L \in Nat /\ K \in Nat /\ DOMAIN s = 1..L /\ DOMAIN t = 1..K
      /\ u \in Seq(S) /\ DOMAIN u = 1..(L + K)
      /\ \A i \in 1..(L + K) : u[i] = IF i <= L THEN s[i] ELSE t[i - L]
  BY ConcatProperties
<1> HIDE DEF u, L, K
<1>2. \A i \in 1..(L + K) : i \in 1..L \/ (~(i <= L) /\ i - L \in 1..K)
  BY <1>1
<1>3. \A i \in 1..L : i \in 1..(L + K) /\ i <= L
  BY <1>1
<1>4. \A j \in 1..K : j + L \in 1..(L + K) /\ ~(j + L <= L) /\ (j + L) - L = j
  BY <1>1
<1>5. \A i \in 1..L : i \in DOMAIN u /\ u[i] = s[i]
  BY <1>1, <1>3
<1>6. \A j \in 1..K : j + L \in DOMAIN u /\ u[j + L] = t[j] /\ j + L \notin 1..L
  <2> SUFFICES ASSUME NEW j \in 1..K
               PROVE  j + L \in DOMAIN u /\ u[j + L] = t[j] /\ j + L \notin 1..L
    OBVIOUS
  <2> DEFINE i == j + L
  <2>1. i \in 1..(L + K) /\ ~(i <= L) /\ i - L = j /\ i \notin 1..L
    BY <1>1, <1>4
  <2> HIDE DEF i
  <2> QED BY <1>1, <2>1 DEF i
<1>7. \A i \in DOMAIN u : \/ i \in 1..L /\ u[i] = s[i]
                          \/ i - L \in 1..K /\ u[i] = t[i - L]
  BY <1>1, <1>2
<1>8. Listed(u) = Listed(s) \cup Listed(t)
  <2>1. Listed(u) \subseteq Listed(s) \cup Listed(t)
    BY <1>1, <1>7 DEF Listed
  <2>2. Listed(s) \subseteq Listed(u)
    BY <1>1, <1>5 DEF Listed
  <2>3. Listed(t) \subseteq Listed(u)
    BY <1>1, <1>6 DEF Listed
  <2> QED BY <2>1, <2>2, <2>3
<1>9. At(s, x) \subseteq At(u, x)
  BY <1>1, <1>5 DEF At
<1>10. ASSUME x \notin Listed(t) PROVE Count(u, x) = Count(s, x)
  <2>1. \A j \in 1..K : t[j] # x
    BY <1>1, <1>10 DEF Listed
  <2>2. At(u, x) \subseteq At(s, x)
    BY <1>1, <1>7, <2>1 DEF At
  <2>3. At(u, x) = At(s, x)
    BY <1>9, <2>2
  <2> QED BY <2>3 DEF Count
<1>11. ASSUME x \in Listed(t) PROVE Count(s, x) < Count(u, x)
  <2>1. PICK j \in 1..K : t[j] = x
    BY <1>1, <1>11 DEF Listed
  <2>2. j + L \in At(u, x) /\ j + L \notin At(s, x)
    BY <1>1, <1>6, <2>1 DEF At
  <2>3. IsFiniteSet(At(u, x)) /\ Count(u, x) \in Nat /\ Count(s, x) \in Nat
    BY <1>1, AtFinite
  <2>4. Count(s, x) <= Count(u, x) /\ Count(s, x) # Count(u, x)
    BY <1>9, <2>2, <2>3, FS_Subset DEF Count
  <2> QED BY <2>3, <2>4
<1> QED BY <1>8, <1>10, <1>11 DEF u

\* What connection c has received and what is on its last way there.
Coming(c) == BeingWritten(c) \o outbox[c]

Copied(c) == wire[c] \o Coming(c)

Counted(c, x) == Count(Copied(c), x) \in {0, Expected[c][x]}

CountsOK == \A c \in Conns : \A x \in Carried : Counted(c, x)

LEMMA ComingIs ==
  ASSUME TypeOK, NEW c \in Conns
  PROVE  /\ wire[c] \in Seq(Carried) /\ Coming(c) \in Seq(Carried) /\ Copied(c) \in Seq(Carried)
         /\ Listed(Coming(c)) = Listed(BeingWritten(c)) \cup Listed(outbox[c])
         /\ Listed(Copied(c)) = Listed(wire[c]) \cup Listed(Coming(c))
<1> DEFINE w == wire[c]
           b == BeingWritten(c)
           o == outbox[c]
<1>1. w \in Seq(Carried) /\ b \in Seq(Carried) /\ o \in Seq(Carried)
  BY PlacesTyped
<1> HIDE DEF w, b, o
<1>2. b \o o \in Seq(Carried) /\ Listed(b \o o) = Listed(b) \cup Listed(o)
  BY <1>1, CountConcat, ConcatProperties
<1> DEFINE t == b \o o
<1>3. t \in Seq(Carried)
  BY <1>2
<1> HIDE DEF t
<1>4. w \o t \in Seq(Carried) /\ Listed(w \o t) = Listed(w) \cup Listed(t)
  BY <1>1, <1>3, CountConcat, ConcatProperties
<1> QED BY <1>1, <1>2, <1>4 DEF w, b, o, t, Coming, Copied

\* The head of one part goes to the end of the one before it.
LEMMA JoinedMoves ==
  ASSUME NEW S, NEW w \in Seq(S), NEW m \in S, NEW o \in Seq(S)
  PROVE  /\ w \o (<<m>> \o o) = Append(w, m) \o (<<>> \o o)
         /\ o # <<>> => o = <<Head(o)>> \o Tail(o) /\ <<>> \o o = o
<1> DEFINE e == <<m>>
<1>1. e \in Seq(S) /\ Append(w, m) = w \o e
  BY AppendIsConcat
<1> HIDE DEF e
<1>2. (w \o e) \o o = w \o (e \o o)
  BY <1>1, ConcatAssociative
<1>3. <<>> \o o = o
  BY ConcatEmptySeq
<1> QED BY <1>1, <1>2, <1>3 DEF e

\* The three parts one after the other.
Chained(w, b, o) == Cat(w, Cat(b, o))

LEMMA CountMore ==
  ASSUME NEW S, NEW w \in Seq(S), NEW b \in Seq(S), NEW o \in Seq(S), NEW p,
         NEW m \in S, NEW n \in Nat, NEW x, p = Cat(o, Copies(m, n))
  PROVE  Count(Chained(w, b, p), x) = Count(Chained(w, b, o), x) + IF x = m THEN n ELSE 0
<1> DEFINE k == Copies(m, n)
           all == Chained(w, b, o)
<1>1. k \in Seq(S) /\ Cat(b, o) \in Seq(S) /\ all \in Seq(S)
  BY CopiesTyped, CatParts DEF Chained
<1>2. Count(all \o k, x) = Count(all, x) + IF x = m THEN n ELSE 0
  <2> HIDE DEF all
  <2> QED BY <1>1, CountCopies DEF k
<1> HIDE DEF k
<1>3. Cat(all, k) = Cat(w, Cat(Cat(b, o), k)) /\ Cat(Cat(b, o), k) = Cat(b, Cat(o, k))
  BY <1>1, CatParts DEF Chained
<1>4. Chained(w, b, p) = all \o k
  <2>1. Chained(w, b, p) = Cat(w, Cat(b, Cat(o, k)))
    BY DEF Chained, k
  <2> HIDE DEF all
  <2> QED BY <1>3, <2>1 DEF Cat
<1> QED BY <1>2, <1>4

LEMMA CopiedOutgoing ==
  ASSUME RouterAssumption, TypeOK, NEW d \in Conns, FilterOutgoing(d), NEW c \in Conns
  PROVE  Copied(c)' = Copied(c)
<1> DEFINE m == Head(outbox[d])
<1>1. /\ outbox[d] \in Seq(Carried) /\ outbox[d] # <<>> /\ pc[d] = "idle" /\ d \in Threads
      /\ c \in Threads /\ m \in Carried /\ Tail(outbox[d]) \in Seq(Carried)
  BY PlacesTyped, HeadThenTail DEF FilterOutgoing, Threads
<1>2. outbox'[d] = Tail(outbox[d]) /\ (c # d => outbox'[c] = outbox[c])
  BY DEF FilterOutgoing, TypeOK
<1>3. wire[c] \in Seq(Carried) /\ BeingWritten(d) = <<>>
  BY <1>1, PlacesTyped DEF BeingWritten, TypeOK
<1>4. CASE DispatchByRule(d, m, d, TRUE) /\ UNCHANGED wire
  <2> DEFINE item == [msg |-> m, conn |-> d]
  <2>1. item \in Items /\ item.msg = m /\ "dispatch" \in Queues /\ TRUE \in BOOLEAN
    BY <1>1 DEF Items, Carried, Queues
  <2>2. Enqueue(d, "dispatch", item, TRUE)
    BY <1>4 DEF DispatchByRule
  <2> HIDE DEF item, m
  <2>3. /\ BeingWritten(d)' = <<m>>
        /\ \A u \in Threads : u # d => BeingWritten(u)' = BeingWritten(u)
    BY <1>1, <2>1, <2>2, EnqueuePlaces
  <2>4. CASE c = d
    <3> DEFINE o == outbox[d]
               r == Tail(outbox[d])
    <3>1. o \in Seq(Carried) /\ o # <<>> /\ r = Tail(o) /\ m = Head(o)
      BY <1>1 DEF m
    <3>2. Coming(c) = <<>> \o o /\ Coming(c)' = <<m>> \o r /\ wire'[c] = wire[c]
      BY <1>2, <1>3, <1>4, <2>3, <2>4 DEF Coming
    <3> HIDE DEF o, r
    <3>3. <<m>> \o r = <<>> \o o
      BY <1>1, <3>1, JoinedMoves
    <3> QED BY <3>2, <3>3 DEF Copied
  <2>5. CASE c # d
    BY <1>1, <1>2, <1>4, <2>3, <2>5 DEF Copied, Coming
  <2> QED BY <2>4, <2>5
<1>5. CASE wire' = [wire EXCEPT ![d] = Append(@, m)] /\ UNCHANGED <<pc, job, tagged>>
  <2>1. \A u \in Threads : BeingWritten(u)' = BeingWritten(u)
    BY <1>5 DEF BeingWritten
  <2>2. CASE c = d
    <3> DEFINE o == outbox[d]
               r == Tail(outbox[d])
               w == wire[d]
    <3>1. o \in Seq(Carried) /\ o # <<>> /\ r = Tail(o) /\ r \in Seq(Carried) /\ w \in Seq(Carried)
          /\ m = Head(o)
      BY <1>1, <1>3, <2>2
    <3>2. /\ Copied(c) = w \o (<<>> \o o)
          /\ Copied(c)' = Append(w, m) \o (<<>> \o r)
      BY <1>1, <1>2, <1>3, <1>5, <2>1, <2>2 DEF Coming, Copied, TypeOK
    <3> HIDE DEF o, r, m, w
    <3>3. <<>> \o o = <<m>> \o r
      BY <1>1, <3>1, JoinedMoves
    <3>4. w \o (<<m>> \o r) = Append(w, m) \o (<<>> \o r)
      BY <1>1, <3>1, JoinedMoves
    <3> QED BY <3>2, <3>3, <3>4
  <2>3. CASE c # d
    <3>1. wire'[c] = wire[c]
      BY <1>5, <2>3 DEF TypeOK
    <3> QED BY <1>1, <1>2, <2>1, <2>3, <3>1 DEF Copied, Coming
  <2> QED BY <2>2, <2>3
<1> QED BY <1>4, <1>5 DEF FilterOutgoing

LEMMA CopiedLeave ==
  ASSUME RouterAssumption, TypeOK, NEW t \in Threads, pc[t] # "idle", Leave(t),
         UNCHANGED outbox, NEW c \in Conns
  PROVE  Copied(c)' = Copied(c)
<1> DEFINE m == job[t].item.msg
<1>1. /\ BeingWritten(t)' = <<>>
      /\ BeingWritten(t) = IF job[t].write THEN <<m>> ELSE <<>>
      /\ \A u \in Threads : u # t => BeingWritten(u)' = BeingWritten(u)
      /\ wire'[c] = IF c = t /\ job[t].write THEN Append(wire[c], m) ELSE wire[c]
  BY LeavePlaces
<1>2. c \in Threads /\ wire[c] \in Seq(Carried) /\ outbox[c] \in Seq(Carried) /\ outbox' = outbox
  BY PlacesTyped DEF Threads
<1>3. m \in Carried
  BY DEF TypeOK, Jobs, Items, Carried
<1> HIDE DEF m
<1>4. CASE c = t /\ job[t].write
  <2> DEFINE w == wire[c]
             o == outbox[c]
  <2>1. Copied(c) = w \o (<<m>> \o o) /\ Copied(c)' = Append(w, m) \o (<<>> \o o)
    BY <1>1, <1>2, <1>4 DEF Copied, Coming
  <2>2. w \in Seq(Carried) /\ o \in Seq(Carried)
    BY <1>2
  <2> HIDE DEF w, o
  <2> QED BY <1>3, <2>1, <2>2, JoinedMoves
<1>5. CASE ~(c = t /\ job[t].write)
  <2>1. wire'[c] = wire[c] /\ BeingWritten(c)' = BeingWritten(c)
    BY <1>1, <1>2, <1>5
  <2> QED BY <1>2, <2>1 DEF Copied, Coming
<1> QED BY <1>4, <1>5

\* n copies of m are handed to GDBus.
LEMMA CopiedMore ==
  ASSUME RouterAssumption, TypeOK, NEW c \in Conns, NEW m \in Carried, NEW n \in Nat,
         outbox'[c] = outbox[c] \o Copies(m, n), UNCHANGED wire, BeingWritten(c)' = BeingWritten(c),
         \A x \in Carried : Counted(c, x),
         n > 0 => m \notin Listed(Copied(c)) /\ Expected[c][m] = n
  PROVE  \A x \in Carried : Counted(c, x)'
<1> SUFFICES ASSUME NEW x \in Carried PROVE Counted(c, x)'
  OBVIOUS
<1> DEFINE w == wire[c]
           b == BeingWritten(c)
           o == outbox[c]
           p == outbox'[c]
           all == Copied(c)
           new == Chained(w, b, p)
<1>1. w \in Seq(Carried) /\ b \in Seq(Carried) /\ o \in Seq(Carried) /\ all \in Seq(Carried)
  BY PlacesTyped, ComingIs
<1>2. all = Chained(w, b, o) /\ Copied(c)' = new /\ p = Cat(o, Copies(m, n))
  BY DEF Copied, Coming, Chained, Cat
<1> HIDE DEF w, b, o, p
<1>3. Count(Chained(w, b, p), x) = Count(Chained(w, b, o), x) + IF x = m THEN n ELSE 0
  BY <1>1, <1>2, CountMore
<1> HIDE DEF all, new
<1>7. Count(new, x) = Count(all, x) + (IF x = m THEN n ELSE 0) /\ Count(all, x) \in Nat
  BY <1>1, <1>2, <1>3, AtFinite DEF new
<1>8. Count(all, x) \in {0, Expected[c][x]}
  BY DEF all, Counted
<1>9. x = m /\ n > 0 => Count(all, x) = 0 /\ Expected[c][x] = n
  BY <1>1, AtFinite DEF all
<1>10. Count(new, x) \in {0, Expected[c][x]}
  <2>1. CASE x = m /\ n > 0
    BY <1>7, <1>9, <2>1
  <2>2. CASE ~(x = m /\ n > 0)
    BY <1>7, <1>8, <2>2
  <2> QED BY <2>1, <2>2
<1> QED BY <1>2, <1>10 DEF Counted

LEMMA WrittenHome ==
  ASSUME RouterAssumption, TypeOK, Routed, NEW c \in Conns, NEW x \in Listed(BeingWritten(c))
  PROVE  AtHome(c, x)
<1>1. job[c] # None /\ job[c].write /\ x = job[c].item.msg
  BY ListedFew DEF BeingWritten
<1>2. c \in Threads /\ job[c] \in Jobs
  BY <1>1 DEF Threads, TypeOK
<1>3. RoutedItem(job[c].queue, job[c].item, tagged) /\ RoutedJob(c, job[c])
  BY <1>1, <1>2 DEF Routed, RoutedJobs
<1>4. job[c].queue = "dispatch" /\ job[c].item.conn = c
  BY <1>1, <1>2, <1>3 DEF RoutedJob, Jobs, Queues
<1>5. c # None
  BY <1>2 DEF RouterAssumption
<1> QED BY <1>1, <1>3, <1>4, <1>5 DEF RoutedItem

\* A message in the forward queue's callback: neither it nor its answer has
\* come to the connection that it is about to be sent to.
LEMMA NotYet ==
  ASSUME RouterAssumption, TypeOK, WaysOK, callback # None, callback.queue = "forward",
         NEW m \in Msgs, m = callback.item.msg, NEW s \in Threads, NEW d \in Conns,
         Belongs(s, d, m), NEW x \in Carried, Belongs(s, d, x), Origin(x) = m
  PROVE  x \notin Listed(Copied(d))
<1> DEFINE W == Way(s, d, d)
           G == Group(s, d)
<1>1. d \in Homes /\ Origin(m) = m /\ m \in G /\ x \in G
  BY OriginIs DEF Homes, Group, Carried
<1>2. IsWay(s, d, d, W) /\ Ordered(G, W)
  BY <1>1, WayIs DEF WaysOK, WayOK
<1> HIDE DEF W, G
<1>3. W[1] = wire[d] /\ W[2] = BeingWritten(d) /\ W[6] = outbox[d] /\ W[7] = <<m>>
  BY <1>2 DEF IsWay, InCallback
<1>4. 1 \in Places /\ 2 \in Places /\ 6 \in Places /\ 7 \in Places /\ 1 < 7 /\ 2 < 7 /\ 6 < 7
  BY DEF Places
<1>5. ASSUME NEW k \in Places, k < 7 PROVE x \notin Listed(W[k])
  <2> SUFFICES ASSUME x \in Listed(W[k]) PROVE FALSE
    OBVIOUS
  <2>1. Apart(7, G, W[k], W[7])
    BY <1>2, <1>4, <1>5 DEF Ordered
  <2>2. Follows(7, x, m)
    BY <1>1, <1>3, <2>1, ListedFew DEF Apart
  <2>3. ~(7 <= 2) /\ Prior(x, m)
    BY <2>2 DEF Follows
  <2> QED BY <1>1, <2>3, NotBeforeItself DEF Prior
<1> QED BY <1>3, <1>4, <1>5, ComingIs

LEMMA CountsForward ==
  ASSUME RouterAssumption, TypeOK, Routed, WaysOK, CountsOK, FinishForward
  PROVE  CountsOK'
<1> DEFINE m == callback.item.msg
           s == callback.item.conn
<1>1. /\ callback # None /\ callback.queue = "forward" /\ ReturnFromCallback
      /\ m \in Msgs /\ s \in Threads /\ m \in Sent(s) /\ m \in Carried /\ Origin(m) = m
      /\ \/ Dest[m] \in Conns /\ outbox' = SendTo(Dest[m], m)
         \/ Dest[m] = Absent /\ m \in Calls /\ outbox' = SendTo(s, ErrorReply(m))
         \/ Dest[m] = Absent /\ m \notin Calls /\ outbox' = outbox
  BY ForwardIs, OriginIs DEF Carried
<1>2. UNCHANGED wire /\ \A c \in Conns : BeingWritten(c)' = BeingWritten(c)
  BY <1>1, ReturnPlaces DEF Threads
<1>3. \A c \in Conns : \A x \in Carried : Counted(c, x)
  BY DEF CountsOK
<1> SUFFICES ASSUME NEW c \in Conns PROVE \A x \in Carried : Counted(c, x)'
  BY DEF CountsOK
<1>4. ASSUME outbox'[c] = outbox[c] PROVE \A x \in Carried : Counted(c, x)'
  <2>1. Copied(c)' = Copied(c)
    BY <1>2, <1>4 DEF Copied, Coming
  <2> QED BY <1>3, <2>1 DEF Counted
<1>5. ASSUME NEW x \in Carried, outbox'[c] = Append(outbox[c], x), Expected[c][x] = 1,
             Belongs(s, c, m), Belongs(s, c, x), Origin(x) = m
      PROVE  \A y \in Carried : Counted(c, y)'
  <2> DEFINE o == outbox[c]
  <2>1. o \in Seq(Carried)
    BY PlacesTyped
  <2>2. outbox'[c] = o \o Copies(x, 1)
    <3>1. Copies(x, 1) = <<x>>
      BY DEF Copies
    <3> HIDE DEF o
    <3>2. Append(o, x) = o \o <<x>>
      BY <1>5, <2>1, AppendIsConcat
    <3> QED BY <1>5, <3>1, <3>2 DEF o
  <2>3. x \notin Listed(Copied(c))
    BY <1>1, <1>5, NotYet
  <2> QED BY <1>2, <1>3, <1>5, <2>2, <2>3, CopiedMore
<1> HIDE DEF m, s
<1>6. CASE Dest[m] \in Conns /\ outbox' = SendTo(Dest[m], m)
  <2>1. CASE c = Dest[m]
    <3>1. outbox'[c] = Append(outbox[c], m)
      BY <1>6, <2>1 DEF SendTo
    <3>2. m \in Addressed(c) /\ Belongs(s, c, m)
      BY <1>1, <2>1 DEF Addressed, Belongs
    <3> QED BY <1>1, <1>5, <3>1, <3>2, ExpectedIs
  <2>2. CASE c # Dest[m]
    <3>1. outbox'[c] = outbox[c]
      BY <1>6, <2>2 DEF SendTo
    <3> QED BY <1>4, <3>1
  <2> QED BY <2>1, <2>2
<1>7. CASE Dest[m] = Absent /\ m \in Calls /\ outbox' = SendTo(s, ErrorReply(m))
  <2> DEFINE x == ErrorReply(m)
  <2>1. Origin(x) = m /\ x \in Carried
    BY <1>7, OriginIs DEF Carried
  <2>2. CASE c = s
    <3>1. outbox'[c] = Append(outbox[c], x)
      BY <1>7, <2>2 DEF SendTo
    <3>2. x \in Addressed(c)
      BY <1>1, <1>7, <2>2 DEF Addressed
    <3>3. Belongs(s, c, m) /\ Belongs(s, c, x)
      BY <1>1, <1>7, <2>1, <2>2 DEF Belongs
    <3> HIDE DEF x
    <3> QED BY <1>5, <2>1, <3>1, <3>2, <3>3, ExpectedIs
  <2>3. CASE c # s
    <3>1. outbox'[c] = outbox[c]
      BY <1>7, <2>3 DEF SendTo
    <3> QED BY <1>4, <3>1
  <2> QED BY <2>2, <2>3
<1>8. CASE outbox' = outbox
  BY <1>4, <1>8
<1> QED BY <1>1, <1>6, <1>7, <1>8

LEMMA CountsDispatch ==
  ASSUME RouterAssumption, TypeOK, Routed, WaysOK, CountsOK, FinishDispatch
  PROVE  CountsOK'
<1> SUFFICES ASSUME NEW c \in Conns PROVE \A x \in Carried : Counted(c, x)'
  BY DEF CountsOK
<1> DEFINE m == callback.item.msg
           n == Recipients(callback.item)[c]
<1>1. /\ callback # None /\ callback.queue = "dispatch" /\ ReturnFromCallback
      /\ RoutedItem("dispatch", callback.item, tagged) /\ Real(m) /\ m \in Carried
      /\ outbox'[c] = outbox[c] \o Copies(m, n) /\ n \in Nat
  BY SendCopiesIs, RecipientsTyped DEF FinishDispatch, Routed, RoutedCallback, RoutedItem, Real
<1>2. UNCHANGED wire /\ BeingWritten(c)' = BeingWritten(c) /\ c \in Threads
  BY <1>1, ReturnPlaces DEF Threads
<1>3. \A x \in Carried : Counted(c, x)
  BY DEF CountsOK
<1>4. n > 0 => c # callback.item.conn /\ n = Watching[m][c]
  BY DEF Recipients
<1>5. PICK h \in Homes, s \in Threads : /\ Belongs(s, h, m)
                                        /\ h = callback.item.conn \/ (h = Daemon /\ c # Daemon)
  BY <1>1 DEF RoutedItem, AtHome, Homes, RouterAssumption
<1>6. InCallback("dispatch") = <<m>>
  BY <1>1 DEF InCallback
<1> HIDE DEF m, n
<1>7. ASSUME n > 0 PROVE m \notin Listed(Copied(c)) /\ Expected[c][m] = n
  <2>1. c # h
    BY <1>4, <1>5, <1>7
  <2>2. ~AtHome(c, m)
    BY <1>1, <1>5, <2>1, BelongsOnce DEF AtHome, Homes
  <2>3. m \notin Addressed(c)
    <3> SUFFICES ASSUME m \in Addressed(c) PROVE FALSE
      OBVIOUS
    <3>1. CASE m \in Msgs /\ Dest[m] = c
      <4>1. Belongs(s, c, m)
        BY <1>5, <3>1 DEF Belongs
      <4> QED BY <2>2, <4>1 DEF AtHome
    <3>2. CASE \E y \in Calls : y \in Sent(c) /\ Dest[y] = Absent /\ m = ErrorReply(y)
      <4>1. PICK y \in Calls : y \in Sent(c) /\ Dest[y] = Absent /\ m = ErrorReply(y)
        BY <3>2
      <4>2. Origin(m) = y
        BY <4>1, OriginIs
      <4>3. Belongs(c, c, m)
        BY <4>1, <4>2 DEF Belongs
      <4> QED BY <1>2, <2>2, <4>3 DEF AtHome
    <3> QED BY <3>1, <3>2 DEF Addressed
  <2>4. Expected[c][m] = n
    BY <1>1, <1>4, <1>7, <2>3, ExpectedIs
  <2> DEFINE W == Way(s, h, c)
             G == Group(s, h)
  <2>5. IsWay(s, h, c, W) /\ Ordered(G, W) /\ m \in G
    BY <1>1, <1>5, WayIs DEF WaysOK, WayOK, Group
  <2> HIDE DEF W, G
  <2>6. W[1] = wire[c] /\ W[2] = outbox[c] /\ W[3] = <<m>>
    BY <1>6, <2>1, <2>5 DEF IsWay
  <2>7. 1 \in Places /\ 2 \in Places /\ 3 \in Places /\ 1 < 3 /\ 2 < 3 /\ ~(3 <= 2)
    BY DEF Places
  <2>8. ASSUME NEW k \in Places, k < 3 PROVE m \notin Listed(W[k])
    <3> SUFFICES ASSUME m \in Listed(W[k]) PROVE FALSE
      OBVIOUS
    <3>1. Apart(3, G, W[k], W[3])
      BY <2>5, <2>7, <2>8 DEF Ordered
    <3>2. Follows(3, m, m)
      BY <2>5, <2>6, <3>1, ListedFew DEF Apart
    <3> QED BY <2>7, <3>2, NotBeforeItself DEF Follows
  <2>9. m \notin Listed(BeingWritten(c))
    BY <2>2, WrittenHome
  <2> QED BY <2>4, <2>6, <2>7, <2>8, <2>9, ComingIs
<1> QED BY <1>1, <1>2, <1>3, <1>7, CopiedMore

LEMMA CountsStep ==
  ASSUME RouterAssumption, TypeOK, Routed, WaysOK, CountsOK, [Next]_vars
  PROVE  CountsOK'
<1>1. ASSUME \A c \in Conns : Copied(c)' = Copied(c) PROVE CountsOK'
  <2> SUFFICES ASSUME NEW c \in Conns, NEW x \in Carried PROVE Counted(c, x)'
    BY DEF CountsOK
  <2>1. Counted(c, x) /\ Copied(c)' = Copied(c)
    BY <1>1 DEF CountsOK
  <2> QED BY <2>1 DEF Counted
<1>2. CASE UNCHANGED <<wire, job, outbox>>
  BY <1>1, <1>2 DEF Copied, Coming, BeingWritten
<1>3. ASSUME NEW t \in Threads, Reads(t) PROVE CountsOK'
  <2>1. inbox[t] \in Seq(Msgs) /\ inbox[t] # <<>> /\ UNCHANGED <<wire, outbox>> /\ pc[t] = "idle"
    BY <1>3 DEF TypeOK, Reads
  <2> DEFINE m == Head(inbox[t])
  <2>2. m \in Msgs
    BY <2>1, HeadTail
  <2>3. ASSUME NEW q \in Queues, NEW item \in Items, Enqueue(t, q, item, FALSE)
        PROVE  \A c \in Conns : BeingWritten(c)' = BeingWritten(c)
    <3>1. /\ BeingWritten(t) = <<>> /\ BeingWritten(t)' = <<>>
          /\ \A u \in Threads : u # t => BeingWritten(u)' = BeingWritten(u)
      BY <2>1, <2>3, EnqueuePlaces
    <3> QED BY <3>1 DEF Threads
  <2>4. "forward" \in Queues /\ "dispatch" \in Queues
    BY DEF Queues
  <2>5. [msg |-> m, conn |-> t] \in Items /\ [msg |-> m, conn |-> None] \in Items
    BY <2>2 DEF Items
  <2>6. \/ Enqueue(t, "forward", [msg |-> m, conn |-> t], FALSE)
        \/ Enqueue(t, "dispatch", [msg |-> m, conn |-> None], FALSE)
    BY <1>3 DEF Reads, DispatchByRule
  <2>7. \A c \in Conns : BeingWritten(c)' = BeingWritten(c)
    BY <2>3, <2>4, <2>5, <2>6
  <2> QED BY <1>1, <2>1, <2>7 DEF Copied, Coming
<1>4. ASSUME NEW d \in Conns, FilterOutgoing(d) PROVE CountsOK'
  BY <1>1, <1>4, CopiedOutgoing
<1>5. ASSUME NEW t \in Threads, AppendToQueue(t) \/ AttachSource(t) PROVE CountsOK'
  <2>1. pc[t] # "idle" /\ UNCHANGED outbox /\ (Leave(t) \/ UNCHANGED <<job, wire>>)
    BY <1>5 DEF AppendToQueue, AttachSource
  <2>2. CASE Leave(t)
    BY <1>1, <2>1, <2>2, CopiedLeave
  <2> QED BY <1>2, <2>1, <2>2
<1>6. ASSUME NEW q \in Queues, StartCallback(q) PROVE CountsOK'
  BY <1>2, <1>6 DEF StartCallback
<1>7. Main \in Threads /\ \A c \in Conns : c \in Threads
  BY DEF Threads
<1>8. UNCHANGED vars => UNCHANGED <<wire, job, outbox>>
  BY DEF vars
<1> QED BY <1>2, <1>3, <1>4, <1>5, <1>6, <1>7, <1>8, CountsForward, CountsDispatch, ReadsIs
        DEF Next, Step, Callback

LEMMA InitCounts ==
  ASSUME RouterAssumption, Init
  PROVE  CountsOK
<1> SUFFICES ASSUME NEW c \in Conns, NEW x \in Carried PROVE Counted(c, x)
  BY DEF CountsOK
<1>1. wire[c] = <<>> /\ outbox[c] = <<>> /\ BeingWritten(c) = <<>>
  BY DEF Init, BeingWritten, Threads
<1>2. <<>> \in Seq(Carried) /\ <<>> \o <<>> = <<>>
  OBVIOUS
<1>3. Copied(c) = <<>>
  BY <1>1, <1>2 DEF Copied, Coming
<1>4. Count(<<>>, x) = 0
  BY <1>2, AtFinite, ListedFew
<1> QED BY <1>3, <1>4 DEF Counted

\* What c has received of x: all copies, if none is still coming.
LEMMA ReceivedIs ==
  ASSUME RouterAssumption, TypeOK, CountsOK, NEW c \in Conns, NEW x \in Carried
  PROVE  /\ x \in Listed(Coming(c)) => Promise!Received(c, x) < Expected[c][x]
         /\ x \notin Listed(Coming(c)) /\ (Expected[c][x] = 0 \/ x \in Listed(wire[c]))
              => Promise!Received(c, x) = Expected[c][x]
<1> DEFINE w == wire[c]
           t == Coming(c)
           e == Expected[c][x]
<1>1. w \in Seq(Carried) /\ t \in Seq(Carried)
  BY ComingIs
<1>2. Count(w \o t, x) \in {0, e}
  BY DEF CountsOK, Counted, Copied
<1>3. Promise!Received(c, x) = Count(w, x)
  <2>1. Promise!Received(c, x) = Cardinality({i \in DOMAIN wire[c] : wire[c][i] = x})
    BY DEF Promise!Received, Promise!Cardinality, Cardinality
  <2>2. At(w, x) = {i \in DOMAIN wire[c] : wire[c][i] = x}
    BY DEF At
  <2> QED BY <2>1, <2>2 DEF Count
<1>4. e \in Nat
  BY ExpectedIs
<1> HIDE DEF w, t, e
<1>5. Count(w, x) \in Nat /\ (Count(w, x) = 0 <=> x \notin Listed(w))
  BY <1>1, AtFinite
<1>6. /\ x \notin Listed(t) => Count(w \o t, x) = Count(w, x)
      /\ x \in Listed(t) => Count(w, x) < Count(w \o t, x)
  BY <1>1, CountConcat
<1> QED BY <1>2, <1>3, <1>4, <1>5, <1>6 DEF w, t, e
----------------------------------------------------------------------------
(* Whatever GDBus writes is at the head of the second place, all before it *)
(* has been received.                                                      *)

LEMMA Arrives ==
  ASSUME RouterAssumption, TypeOK, Routed, CountsOK,
         NEW s \in Threads, NEW h \in Homes, NEW c \in Conns,
         NEW m \in Carried, NEW W, IsWay(s, h, c, W),
         Ordered(Group(s, h), W), Complete(Wanted(s, h, c), W),
         Belongs(s, h, m), m \in Meant(c),
         W[2] \in Seq(Carried), W[2] # <<>>, Head(W[2]) = m,
         wire' = [wire EXCEPT ![c] = Append(@, m)]
  PROVE  Promise!Arrive(c, m)
<1> DEFINE G == Group(s, h)
<1>0. m \in G /\ Ordered(G, W)
  BY DEF Group
<1> HIDE DEF G
<1>1. /\ W[1] = wire[c]
      /\ c = h => W[2] = BeingWritten(c) /\ W[6] = outbox[c]
      /\ c # h => W[2] = outbox[c]
  BY DEF IsWay
<1>2. /\ 1 \in Places /\ 2 \in Places /\ 6 \in Places
      /\ \A k \in Places : k = 1 \/ k = 2 \/ 2 < k
  BY DEF Places
<1>3. m \in Listed(W[2]) /\ Listed(W[2]) = Listed(Tail(W[2])) \cup {m}
  BY ListedTail
<1>4. m \in Listed(Coming(c))
  BY <1>1, <1>3, ComingIs
<1>5. Promise!Received(c, m) < Expected[c][m]
  BY <1>4, ReceivedIs
<1>6. ASSUME NEW n \in Earlier[m] PROVE Promise!Received(c, n) = Expected[c][n]
  <2>1. n \in Msgs /\ n \in Carried /\ SentBefore(n, m) /\ Dest[n] = Dest[m]
    BY DEF Earlier, Carried
  <2>2. PICK t \in Threads : n \in Sent(t) /\ m \in Sent(t)
    BY <2>1 DEF SentBefore, Sent
  <2>3. m \in Msgs /\ Origin(m) = m /\ Origin(n) = n
    BY <2>1, <2>2, OriginIs
  <2>4. t = s /\ Prior(n, m)
    BY <2>1, <2>2, <2>3 DEF Belongs, Prior, RouterAssumption
  <2>5. Dest[m] = h
    BY <2>3, ExpectedIs DEF Belongs, Real
  <2>6. Belongs(s, h, n) /\ n \in G
    BY <2>1, <2>2, <2>3, <2>4, <2>5 DEF Group, Belongs, G
  <2>7. ~Prior(m, n) /\ n # m
    BY <2>4, PriorOnce, NotBeforeItself
  <2>8. n \notin Listed(W[2])
    <3> SUFFICES ASSUME n \in Listed(W[2]) PROVE FALSE
      OBVIOUS
    <3>1. Apart(2, G, <<m>>, Tail(W[2]))
      <4>1. InLine(2, G, W[2])
        BY <1>0, <1>2 DEF Ordered
      <4> QED BY <1>0, <1>2, <4>1, TailThinner
    <3>2. m \in Listed(<<m>>)
      BY ListedFew
    <3> QED BY <1>0, <1>3, <2>6, <2>7, <3>1, <3>2 DEF Apart, Follows
  <2>9. ASSUME NEW k \in Places, 2 < k PROVE n \notin Listed(W[k])
    <3>1. Apart(k, G, W[2], W[k])
      BY <1>0, <1>2, <2>9 DEF Ordered
    <3> QED BY <1>0, <1>3, <2>6, <2>7, <3>1 DEF Apart, Follows
  <2>10. n \notin Listed(Coming(c))
    <3>1. CASE c = h
      BY <1>1, <1>2, <2>8, <2>9, <3>1, ComingIs
    <3>2. CASE c # h
      <4>1. ~AtHome(c, n)
        BY <2>1, <2>6, <3>2, BelongsOnce DEF AtHome, Homes
      <4>2. n \notin Listed(BeingWritten(c))
        BY <4>1, WrittenHome
      <4> QED BY <1>1, <2>8, <3>2, <4>2, ComingIs
    <3> QED BY <3>1, <3>2
  <2>11. Expected[c][n] = 0 \/ n \in Listed(wire[c])
    <3> SUFFICES ASSUME Expected[c][n] # 0 PROVE n \in Listed(wire[c])
      OBVIOUS
    <3>1. Expected[c][n] \in Nat
      BY <2>1, ExpectedIs
    <3>2. n \in Wanted(s, h, c)
      BY <2>1, <2>6, <3>1 DEF Wanted, Group, Meant
    <3>3. PICK k \in Places : n \in Listed(W[k])
      BY <3>2 DEF Complete
    <3> QED BY <1>1, <1>2, <2>8, <2>9, <3>3
  <2> QED BY <2>1, <2>10, <2>11, ReceivedIs
<1> QED BY <1>5, <1>6 DEF Promise!Arrive

LEMMA DeliveryStep ==
  ASSUME RouterAssumption, TypeOK, Routed, WaysOK, Written, CountsOK, [Next]_vars
  PROVE  [Promise!Next]_wire
<1>1. ASSUME NEW c \in Conns, NEW m \in Meant(c), Promise!Arrive(c, m) PROVE Promise!Next
  <2>1. m \in DOMAIN Expected[c]
    BY DEF Meant, Expected, Carried
  <2> QED BY <1>1, <2>1 DEF Promise!Next
<1>2. CASE UNCHANGED wire
  BY <1>2
<1>3. ASSUME NEW c \in Conns, FilterOutgoing(c), wire' # wire PROVE Promise!Next
  <2> DEFINE m == Head(outbox[c])
  <2>1. outbox[c] \in Seq(Carried) /\ outbox[c] # <<>>
    BY <1>3, PlacesTyped DEF FilterOutgoing
  <2>2. m \in Carried /\ RoutedCopy(c, m, tagged)
    BY <2>1, EntriesTail, HeadTail DEF Routed, RoutedCopies
  <2>3. m \in tagged /\ wire' = [wire EXCEPT ![c] = Append(@, m)]
    BY <1>3 DEF FilterOutgoing
  <2>4. ~AtHome(c, m)
    BY <2>1, <2>3, TaggedIsCopy
  <2>5. PICK h \in Homes, s \in Threads : Belongs(s, h, m)
    BY <2>2 DEF RoutedCopy, AtHome
  <2>6. h # c /\ m \in Meant(c)
    BY <2>2, <2>4, <2>5 DEF AtHome, RoutedCopy
  <2> DEFINE W == Way(s, h, c)
  <2>7. IsWay(s, h, c, W) /\ Ordered(Group(s, h), W) /\ Complete(Wanted(s, h, c), W)
    BY WayIs DEF WaysOK, WayOK
  <2> HIDE DEF W, m
  <2>8. W[2] = outbox[c]
    BY <2>6, <2>7 DEF IsWay
  <2>9. W[2] \in Seq(Carried) /\ W[2] # <<>> /\ Head(W[2]) = m
    BY <2>1, <2>8 DEF m
  <2>10. Promise!Arrive(c, m)
    BY <2>2, <2>3, <2>5, <2>6, <2>7, <2>9, Arrives
  <2> QED BY <1>1, <2>6, <2>10
<1>4. ASSUME NEW c \in Threads, AppendToQueue(c) \/ AttachSource(c), wire' # wire PROVE Promise!Next
  <2> DEFINE m == job[c].item.msg
  <2>1. pc[c] # "idle" /\ job[c] # None /\ job[c] \in Jobs
    BY <1>4 DEF AppendToQueue, AttachSource, TypeOK
  <2>2. Leave(c) /\ job[c].write /\ wire' = [wire EXCEPT ![c] = Append(@, m)]
    BY <1>4 DEF AppendToQueue, AttachSource, Leave
  <2>3. job[c].queue = "dispatch"
    BY <2>1, <2>2 DEF Routed, RoutedJobs, RoutedJob, Jobs, Queues
  <2>4. /\ job[c].item.conn = c /\ m \in Meant(c)
        /\ RoutedItem("dispatch", job[c].item, tagged)
    BY <2>1, <2>2, <2>3 DEF Routed, RoutedJobs, RoutedJob
  <2>5. c \in Conns /\ AtHome(c, m) /\ m \in Carried
    BY <2>4 DEF RoutedItem, Real, RouterAssumption, Threads
  <2>6. PICK s \in Threads : Belongs(s, c, m)
    BY <2>5 DEF AtHome
  <2>7. c \in Homes
    BY <2>5 DEF Homes
  <2> DEFINE W == Way(s, c, c)
  <2>8. IsWay(s, c, c, W) /\ Ordered(Group(s, c), W) /\ Complete(Wanted(s, c, c), W)
    BY <2>5, <2>7, WayIs DEF WaysOK, WayOK
  <2>9. BeingWritten(c) = <<m>>
    BY <2>1, <2>2 DEF BeingWritten
  <2> HIDE DEF W, m
  <2>10. W[2] = <<m>>
    BY <2>8, <2>9 DEF IsWay
  <2>11. W[2] \in Seq(Carried) /\ W[2] # <<>> /\ Head(W[2]) = m
    BY <2>5, <2>10, OneIs
  <2>12. Promise!Arrive(c, m)
    BY <2>2, <2>4, <2>5, <2>6, <2>7, <2>8, <2>11, Arrives
  <2> QED BY <1>1, <2>4, <2>5, <2>12
<1>5. ASSUME \/ \E c \in Conns : FilterIncoming(c)
             \/ EmitSignal
             \/ Callback
             \/ UNCHANGED vars
      PROVE  UNCHANGED wire
  BY <1>5 DEF vars, FilterIncoming, EmitSignal, Callback, StartCallback, FinishForward,
              FinishDispatch, ReturnFromCallback
<1> QED BY <1>2, <1>3, <1>4, <1>5 DEF Next, Step

\* The bus promises what BusDelivery says: through the two queues, the idle
\* sources and the skip and DISPATCHED marks, a connection is written what is
\* addressed to it once, anything else once for each of its rules that fits
\* and no more, and all copies of a message after all copies of what the same
\* sender sent to the same destination before.  This is the safety part of
\* Delivery.
THEOREM BusIsImplemented == Spec => Promise!Init /\ [][Promise!Next]_wire
<1>1. Init => WaysOK /\ Written /\ CountsOK /\ Promise!Init
  BY InitWays, InitCounts, RouterAssumption DEF Init, Promise!Init
<1>2. TypeOK /\ Routed /\ WaysOK /\ Written /\ CountsOK /\ [Next]_vars
        => WaysOK' /\ Written' /\ CountsOK'
  BY WaysStep, WrittenStep, CountsStep, RouterAssumption
<1>3. TypeOK /\ Routed /\ WaysOK /\ Written /\ CountsOK /\ [Next]_vars => [Promise!Next]_wire
  BY DeliveryStep, RouterAssumption
<1> QED BY <1>1, <1>2, <1>3, TypeCorrect, AllRouted, PTL DEF Spec
=============================================================================
