------------------------- MODULE Components_proofs -------------------------
(***************************************************************************)
(* Component processes, factories and the requests for engines, for any    *)
(* number of each: who owns a component's name is who its factory speaks   *)
(* to, no request waits for a factory that is there, and every request is  *)
(* answered as GTask demands; and the registry of the components, for any  *)
(* number of files: a cache that passes for up to date is.  The last part  *)
(* of each is about what must happen: a request is answered, a change of   *)
(* the files is announced.  ENABLED is opaque to the provers, so that what *)
(* fairness needs to be enabled is a hypothesis, which TLC checks.         *)
(***************************************************************************)
EXTENDS EngineRequest, Registry, SequenceTheorems, TLAPS

(***************************************************************************)
(* The inductive invariant.  A process is in the queue of its component's  *)
(* name only, once, and while it has a connection (a slot is reused only   *)
(* afterwards); the private list of a connection has the name only of the  *)
(* first owner, so that what ConnectionClosed takes off is that owner.     *)
(***************************************************************************)
Started ==
  \A p \in Procs : proc[p] = "running" \/ conn[p] # "none" => exe[p] \in Components

Owners ==
  \A c \in Components :
    /\ \A i \in DOMAIN queue[c] : exe[queue[c][i]] = c /\ conn[queue[c][i]] # "none"
    /\ \A i, j \in DOMAIN queue[c] : queue[c][i] = queue[c][j] => i = j

FirstOwner(c, p) == 1 \in DOMAIN queue[c] /\ queue[c][1] = p

PrivateIsFirst ==
  \A p \in private : exe[p] \in Components /\ FirstOwner(exe[p], p)

FactoryIsFirst ==
  \A c \in Components : factory[c] # None =>
    FirstOwner(c, factory[c]) /\ conn[factory[c]] \in {"open", "closed"}

NamesInv == Started /\ Owners /\ PrivateIsFirst /\ FactoryIsFirst

WaitsUncalled == \A r \in Requests : Waiting(r) => request[r].call = None

RequestsInv == WaitingHasNoFactory /\ IdleOwnsData /\ WaitsUncalled

IInv == TypeOK /\ NamesInv /\ RequestsInv

-----------------------------------------------------------------------------
(* The data of a request. *)

LEMMA NoneIsNoData == ASSUME EngineRequestAssumption PROVE None \notin Data
BY DEF EngineRequestAssumption, Data

LEMMA DataOfCall ==
  ASSUME EngineRequestAssumption, NEW c \in Components, NEW p \in Procs
  PROVE  /\ Called(c, p) \in Data /\ Called(c, p).component = c
         /\ ~Called(c, p).handler /\ ~Called(c, p).cancelled /\ ~Called(c, p).timer
         /\ Called(c, p).call = p
BY DEF Called, Data, Fields

LEMMA DataOfWait ==
  ASSUME EngineRequestAssumption, NEW c \in Components
  PROVE  /\ Waits(c) \in Data /\ Waits(c).component = c /\ Waits(c).handler
         /\ ~Waits(c).cancelled /\ Waits(c).call = None
BY DEF Waits, Data, Fields

LEMMA DataDisconnected ==
  ASSUME NEW d \in Data
  PROVE  /\ Disconnected(d) \in Data /\ Disconnected(d).component = d.component
         /\ ~Disconnected(d).handler /\ ~Disconnected(d).timer
         /\ Disconnected(d).cancelled /\ Disconnected(d).call = d.call
BY DEF Disconnected, Data, Fields

LEMMA DataOfNotified ==
  ASSUME EngineRequestAssumption, request \in [Requests -> Data \cup {None}],
         NEW c \in Components, NEW f \in Procs \cup {None}
  PROVE  /\ Notified(c, f) \in [Requests -> Data \cup {None}]
         /\ \A r \in Requests :
              /\ Notified(c, f)[r] = None <=> request[r] = None
              /\ request[r] # None => /\ Notified(c, f)[r].cancelled = request[r].cancelled
                                      /\ Notified(c, f)[r].component = request[r].component
              /\ ~Waiting(r) => Notified(c, f)[r] = request[r]
              /\ Waiting(r) => \/ Notified(c, f)[r] = request[r]
                               \/ /\ ~Notified(c, f)[r].handler
                                  /\ Notified(c, f)[r].call # None
              /\ Waiting(r) /\ f # None /\ request[r].component = c
                   => ~Notified(c, f)[r].handler
<1>1. ASSUME NEW r \in Requests, f # None, Waiting(r)
      PROVE  LET d == [request[r] EXCEPT !.handler = FALSE, !.timer = FALSE, !.call = f]
             IN d \in Data /\ d.cancelled = request[r].cancelled /\ ~d.handler
                /\ d.component = request[r].component /\ d.call # None
  <2>1. request[r] \in Data
    BY <1>1 DEF Waiting
  <2> QED BY <1>1, <2>1 DEF Data, Fields, EngineRequestAssumption
<1>2. \A r \in Requests : request[r] \in Data \cup {None}
  OBVIOUS
<1>3. \A r \in Requests :
        Notified(c, f)[r] = IF f # None /\ Waiting(r) /\ request[r].component = c
                            THEN [request[r] EXCEPT !.handler = FALSE, !.timer = FALSE, !.call = f]
                            ELSE request[r]
  BY DEF Notified
<1>4. \A r \in Requests : Waiting(r) => request[r] # None
  BY DEF Waiting
<1>5. \A r \in Requests : Notified(c, f)[r] \in Data \cup {None}
  BY <1>1, <1>2, <1>3
<1>6. Notified(c, f) \in [Requests -> Data \cup {None}]
  BY <1>5 DEF Notified
<1> QED BY <1>1, <1>3, <1>4, <1>6, NoneIsNoData

-----------------------------------------------------------------------------
(* The initial state. *)

LEMMA InitHolds == ASSUME EngineRequestAssumption, Init PROVE IInv
<1>1. TypeOK
  <2>1. queue \in [Components -> Seq(Procs)]
    <3>1. <<>> \in Seq(Procs)
      BY EmptySeq
    <3> QED BY <3>1 DEF Init
  <2> QED BY <2>1 DEF Init, TypeOK
<1>2. NamesInv
  <2>1. \A c \in Components : queue[c] = <<>> /\ factory[c] = None
    BY DEF Init
  <2>2. \A c \in Components : DOMAIN queue[c] = {}
    BY <2>1
  <2>3. \A p \in Procs : proc[p] = "gone" /\ conn[p] = "none"
    BY DEF Init
  <2>4. private = {}
    BY DEF Init
  <2> QED BY <2>1, <2>2, <2>3, <2>4
          DEF NamesInv, Started, Owners, PrivateIsFirst, FactoryIsFirst
<1>3. RequestsInv
  BY DEF Init, RequestsInv, WaitingHasNoFactory, IdleOwnsData, WaitsUncalled, Waiting
<1> QED BY <1>1, <1>2, <1>3 DEF IInv

-----------------------------------------------------------------------------
(* Steps that leave part of the state alone. *)

LEMMA NamesKept ==
  ASSUME NamesInv, UNCHANGED <<nameVars, factory>>,
         \A p \in Procs : conn'[p] = conn[p] \/ (conn[p] = "open" /\ conn'[p] = "closed"),
         \A p \in Procs : \/ exe'[p] = exe[p] /\ (proc'[p] = "running" => proc[p] = "running")
                          \/ conn[p] = "none" /\ exe'[p] \in Components,
         TypeOK
  PROVE  NamesInv'
<1>1. UNCHANGED <<private, queue, factory>>
  BY DEF nameVars
<1>2. \A c \in Components : \A i \in DOMAIN queue[c] : queue[c][i] \in Procs
  <2>1. \A c \in Components : queue[c] \in Seq(Procs)
    BY DEF TypeOK
  <2> QED BY <2>1
<1>3. Started'
  BY <1>1 DEF NamesInv, Started
<1>4. Owners'
  BY <1>1, <1>2 DEF NamesInv, Owners
<1>5. PrivateIsFirst'
  <2>1. \A p \in private : p \in Procs /\ conn[p] # "none"
    BY <1>2 DEF NamesInv, PrivateIsFirst, FirstOwner, Owners
  <2> QED BY <1>1, <2>1 DEF NamesInv, PrivateIsFirst, FirstOwner
<1>6. FactoryIsFirst'
  <2>1. \A c \in Components : factory[c] \in Procs \cup {None}
    BY DEF TypeOK
  <2> QED BY <1>1, <1>2, <2>1 DEF NamesInv, FactoryIsFirst, FirstOwner
<1> QED BY <1>3, <1>4, <1>5, <1>6 DEF NamesInv

LEMMA RequestsKeptInv ==
  ASSUME RequestsInv, UNCHANGED <<factory, requestVars>>
  PROVE  RequestsInv'
BY DEF RequestsInv, WaitingHasNoFactory, IdleOwnsData, WaitsUncalled, Waiting, requestVars

LEMMA RequestsNotified ==
  ASSUME EngineRequestAssumption, TypeOK, RequestsInv, NEW c \in Components,
         NEW f \in Procs \cup {None}, SetFactory(c, f), UNCHANGED idles
  PROVE  /\ RequestsInv'
         /\ factory' \in [Components -> Procs \cup {None}]
         /\ request' \in [Requests -> Data \cup {None}]
<1>1. factory' = [factory EXCEPT ![c] = f] /\ request' = Notified(c, f)
  BY DEF SetFactory
<1>2. factory' \in [Components -> Procs \cup {None}]
  BY <1>1 DEF TypeOK
<1>3. /\ request' \in [Requests -> Data \cup {None}]
      /\ \A r \in Requests :
              /\ request'[r] = None <=> request[r] = None
              /\ request[r] # None => /\ request'[r].cancelled = request[r].cancelled
                                      /\ request'[r].component = request[r].component
              /\ ~Waiting(r) => request'[r] = request[r]
              /\ Waiting(r) => \/ request'[r] = request[r]
                               \/ ~request'[r].handler
              /\ Waiting(r) /\ f # None /\ request[r].component = c
                   => ~request'[r].handler
  BY <1>1, DataOfNotified DEF TypeOK
<1>4. \A r \in Requests : Waiting(r)' => Waiting(r) /\ request'[r] = request[r]
  BY <1>3 DEF Waiting
<1>5. \A r \in Requests : Waiting(r) => request[r].component \in Components
  <2>1. \A r \in Requests : Waiting(r) => request[r] \in Data
    BY DEF TypeOK, Waiting
  <2> QED BY <2>1 DEF Data, Fields
<1>6. WaitingHasNoFactory'
  <2>1. SUFFICES ASSUME NEW r \in Requests, Waiting(r)'
                 PROVE  factory'[request'[r].component] = None
    BY DEF WaitingHasNoFactory
  <2>2. Waiting(r) /\ request'[r] = request[r] /\ factory[request[r].component] = None
    BY <1>4, <2>1 DEF RequestsInv, WaitingHasNoFactory
  <2>3. CASE request[r].component = c
    <3>1. f = None
      BY <1>3, <2>1, <2>2, <2>3 DEF Waiting
    <3> QED BY <1>1, <2>2, <2>3, <3>1 DEF TypeOK
  <2>4. CASE request[r].component # c
    BY <1>1, <1>5, <2>2, <2>4 DEF TypeOK
  <2> QED BY <2>3, <2>4
<1>7. IdleOwnsData'
  BY <1>3 DEF RequestsInv, IdleOwnsData, Waiting, TypeOK
<1>8. WaitsUncalled'
  BY <1>4 DEF RequestsInv, WaitsUncalled
<1> QED BY <1>2, <1>3, <1>6, <1>7, <1>8 DEF RequestsInv

-----------------------------------------------------------------------------
(* The names. *)

LEMMA NameAcquired ==
  ASSUME EngineRequestAssumption, IInv, NEW p \in Procs, AcquireName(p)
  PROVE  IInv'
<1>0. /\ exe \in [Procs -> Components \cup {None}] /\ proc \in [Procs -> {"gone", "running", "exited"}]
      /\ conn \in [Procs -> {"none", "open", "closed", "dead"}]
      /\ private \subseteq Procs /\ queue \in [Components -> Seq(Procs)]
      /\ pid \in [Components -> Procs \cup {None}] /\ factory \in [Components -> Procs \cup {None}]
      /\ idles \subseteq Requests /\ result \in [Requests -> Results \cup {"none"}]
      /\ None \notin Procs /\ None \notin Components /\ crashed \in BOOLEAN
  BY DEF IInv, TypeOK, EngineRequestAssumption
<1>1. /\ proc[p] = "running" /\ conn[p] = "none"
      /\ conn' = [conn EXCEPT ![p] = "open"]
      /\ queue' = [queue EXCEPT ![exe[p]] = Append(@, p)]
      /\ UNCHANGED <<exe, proc, pid, idles, result, crashed>>
  BY DEF AcquireName
<1>2. PICK c \in Components : exe[p] = c
  BY <1>1 DEF IInv, NamesInv, Started
<1>3. /\ Len(queue[c]) \in Nat /\ DOMAIN queue[c] = 1..Len(queue[c])
      /\ queue'[c] \in Seq(Procs) /\ DOMAIN queue'[c] = 1..(Len(queue[c]) + 1)
      /\ \A i \in 1..Len(queue[c]) : queue'[c][i] = queue[c][i]
      /\ queue'[c][Len(queue[c]) + 1] = p
  <2>1. queue[c] \in Seq(Procs) /\ queue'[c] = Append(queue[c], p)
    BY <1>0, <1>1, <1>2
  <2> QED BY <2>1, AppendProperties, LenProperties
<1>4. \A d \in Components \ {c} : queue'[d] = queue[d]
  BY <1>0, <1>1, <1>2
<1>5. queue' \in [Components -> Seq(Procs)] /\ conn' \in [Procs -> {"none", "open", "closed", "dead"}]
  BY <1>0, <1>1, <1>2, <1>3, AppendProperties
<1>6. \A d \in Components : \A i \in DOMAIN queue[d] : queue[d][i] \in Procs /\ queue[d][i] # p
  <2>1. \A d \in Components : queue[d] \in Seq(Procs)
    BY <1>0
  <2> QED BY <1>1, <2>1 DEF IInv, NamesInv, Owners
<1>7. Started'
  BY <1>0, <1>1 DEF IInv, NamesInv, Started
<1>8. Owners'
  <2>1. \A d \in Components : \A i \in DOMAIN queue[d] :
          exe'[queue[d][i]] = d /\ conn'[queue[d][i]] # "none"
    BY <1>0, <1>1, <1>6 DEF IInv, NamesInv, Owners
  <2>2. \A i \in DOMAIN queue'[c] : exe'[queue'[c][i]] = c /\ conn'[queue'[c][i]] # "none"
    <3>1. \A i \in DOMAIN queue'[c] : i \in DOMAIN queue[c] \/ i = Len(queue[c]) + 1
      BY <1>3
    <3> QED BY <1>0, <1>1, <1>2, <1>3, <2>1, <3>1
  <2>3. \A i, j \in DOMAIN queue'[c] : queue'[c][i] = queue'[c][j] => i = j
    BY <1>2, <1>3, <1>6 DEF IInv, NamesInv, Owners
  <2> QED BY <1>4, <2>1, <2>2, <2>3 DEF IInv, NamesInv, Owners
<1>9. \A d \in Components, q \in Procs : FirstOwner(d, q) => FirstOwner(d, q)'
  BY <1>2, <1>3, <1>4 DEF FirstOwner
<1>10. CASE queue[c] = <<>>
  <2>1. SetFactory(c, p) /\ private' = private \cup {p}
    BY <1>2, <1>10 DEF AcquireName
  <2>2. FirstOwner(c, p)'
    <3>1. Len(queue[c]) = 0
      BY <1>10, EmptySeq
    <3> QED BY <1>3, <3>1 DEF FirstOwner
  <2>3. /\ RequestsInv' /\ factory' \in [Components -> Procs \cup {None}]
        /\ request' \in [Requests -> Data \cup {None}]
    BY <1>1, <1>2, <2>1, RequestsNotified DEF IInv
  <2>4. TypeOK'
    BY <1>0, <1>1, <1>5, <2>1, <2>3 DEF TypeOK
  <2>5. PrivateIsFirst'
    BY <1>0, <1>1, <1>2, <1>9, <2>1, <2>2 DEF IInv, NamesInv, PrivateIsFirst
  <2>6. FactoryIsFirst'
    <3>1. \A d \in Components : factory'[d] = IF d = c THEN p ELSE factory[d]
      BY <1>0, <1>2, <2>1 DEF SetFactory
    <3>2. conn'[p] = "open" /\ \A q \in Procs \ {p} : conn'[q] = conn[q]
      BY <1>0, <1>1
    <3>3. \A d \in Components \ {c} : factory[d] # None =>
            /\ 1 \in DOMAIN queue'[d] /\ queue'[d][1] = factory[d] /\ factory[d] # p
            /\ conn[factory[d]] \in {"open", "closed"}
      BY <1>1, <1>4 DEF IInv, NamesInv, FactoryIsFirst, FirstOwner
    <3>4. \A d \in Components \ {c} : factory[d] # None => conn'[factory[d]] \in {"open", "closed"}
      BY <1>0, <3>2, <3>3
    <3>5. 1 \in DOMAIN queue'[c] /\ queue'[c][1] = p
      BY <2>2 DEF FirstOwner
    <3> QED BY <1>0, <3>1, <3>2, <3>3, <3>4, <3>5 DEF FactoryIsFirst, FirstOwner
  <2> QED BY <1>7, <1>8, <2>3, <2>4, <2>5, <2>6 DEF IInv, NamesInv
<1>11. CASE queue[c] # <<>>
  <2>1. UNCHANGED <<factory, request, private>>
    BY <1>2, <1>11 DEF AcquireName
  <2>2. RequestsInv'
    BY <1>1, <2>1, RequestsKeptInv DEF IInv, requestVars
  <2>3. TypeOK'
    BY <1>0, <1>1, <1>5, <2>1 DEF IInv, TypeOK
  <2>4. PrivateIsFirst'
    BY <1>0, <1>1, <1>9, <2>1 DEF IInv, NamesInv, PrivateIsFirst
  <2>5. FactoryIsFirst'
    BY <1>0, <1>1, <1>9, <2>1 DEF IInv, NamesInv, FactoryIsFirst
  <2> QED BY <1>7, <1>8, <2>2, <2>3, <2>4, <2>5 DEF IInv, NamesInv
<1> QED BY <1>10, <1>11

LEMMA ClosedHandled ==
  ASSUME EngineRequestAssumption, IInv, NEW p \in Procs, ConnectionClosed(p)
  PROVE  IInv'
<1>0. /\ exe \in [Procs -> Components \cup {None}] /\ proc \in [Procs -> {"gone", "running", "exited"}]
      /\ conn \in [Procs -> {"none", "open", "closed", "dead"}]
      /\ private \subseteq Procs /\ queue \in [Components -> Seq(Procs)]
      /\ pid \in [Components -> Procs \cup {None}] /\ factory \in [Components -> Procs \cup {None}]
      /\ idles \subseteq Requests /\ result \in [Requests -> Results \cup {"none"}]
      /\ None \notin Procs /\ None \notin Components /\ crashed \in BOOLEAN
  BY DEF IInv, TypeOK, EngineRequestAssumption
<1>1. conn[p] = "closed" /\ UNCHANGED <<exe, proc, pid, idles, result, crashed>>
  BY DEF ConnectionClosed
<1>2. PICK c \in Components : exe[p] = c
  BY <1>1 DEF IInv, NamesInv, Started
<1> DEFINE next == Tail(queue[c])
<1>3. /\ queue[c] \in Seq(Procs) /\ Len(queue[c]) \in Nat /\ DOMAIN queue[c] = 1..Len(queue[c])
      /\ \A i \in DOMAIN queue[c] : queue[c][i] \in Procs
  BY <1>0, <1>2, LenProperties
<1>4. \A d \in Components \ {c} : \A i \in DOMAIN queue[d] : queue[d][i] # p
  BY <1>2 DEF IInv, NamesInv, Owners
<1>5. CASE p \in private
  <2>1. /\ conn' = [conn EXCEPT ![p] = "none"] /\ private' = private \ {p}
        /\ queue' = [queue EXCEPT ![c] = next]
        /\ SetFactory(c, IF next = <<>> THEN None ELSE Proxy(Head(next)))
    BY <1>2, <1>5 DEF ConnectionClosed
  <2>2. FirstOwner(c, p)
    BY <1>2, <1>5 DEF IInv, NamesInv, PrivateIsFirst
  <2>3. /\ next \in Seq(Procs) /\ DOMAIN next = 1..(Len(queue[c]) - 1)
        /\ \A i \in DOMAIN next : next[i] = queue[c][i + 1] /\ i + 1 \in DOMAIN queue[c] /\ i \in Nat
        /\ next # <<>> => Head(next) = next[1] /\ 1 \in DOMAIN next
    <3>1. queue[c] # <<>>
      BY <1>3, <2>2 DEF FirstOwner
    <3>2. next \in Seq(Procs) /\ Len(next) = Len(queue[c]) - 1
          /\ \A i \in 1..(Len(queue[c]) - 1) : next[i] = queue[c][i + 1]
      BY <1>3, <3>1, HeadTailProperties
    <3> HIDE DEF next
    <3>3. DOMAIN next = 1..(Len(queue[c]) - 1)
      BY <3>2, LenProperties
    <3>4. next # <<>> => Head(next) = next[1] /\ 1 \in DOMAIN next
      BY <3>2, HeadTailProperties, EmptySeq, LenProperties
    <3> QED BY <1>3, <3>2, <3>3, <3>4
  <2> HIDE DEF next
  <2>4. \A i \in DOMAIN next : next[i] \in Procs /\ next[i] # p
    BY <1>2, <1>3, <2>2, <2>3 DEF IInv, NamesInv, Owners, FirstOwner
  <2>5. queue'[c] = next /\ \A d \in Components \ {c} : queue'[d] = queue[d]
    BY <1>0, <1>2, <2>1
  <2>6. /\ queue' \in [Components -> Seq(Procs)]
        /\ conn' \in [Procs -> {"none", "open", "closed", "dead"}]
        /\ conn'[p] = "none" /\ \A q \in Procs \ {p} : conn'[q] = conn[q]
    BY <1>0, <1>2, <2>1, <2>3
  <2>7. PICK f \in Procs \cup {None} : f = IF next = <<>> THEN None ELSE Proxy(Head(next))
    BY <2>3, <2>4 DEF Proxy
  <2>f. f # None => FirstOwner(c, f)' /\ conn'[f] = "open"
    BY <1>0, <2>3, <2>4, <2>5, <2>6, <2>7 DEF Proxy, FirstOwner
  <2>8. SetFactory(c, f)
    BY <2>1, <2>7
  <2>9. /\ RequestsInv' /\ factory' \in [Components -> Procs \cup {None}]
        /\ request' \in [Requests -> Data \cup {None}]
    BY <1>1, <1>2, <2>8, RequestsNotified DEF IInv
  <2>10. TypeOK'
    BY <1>0, <1>1, <2>1, <2>6, <2>9 DEF TypeOK
  <2>11. Started'
    BY <1>1, <2>6 DEF IInv, NamesInv, Started
  <2>12. Owners'
    <3>1. \A i \in DOMAIN next : exe[next[i]] = c /\ conn'[next[i]] # "none"
      BY <1>2, <2>3, <2>4, <2>6 DEF IInv, NamesInv, Owners
    <3>2. \A i, j \in DOMAIN next : next[i] = next[j] => i = j
      <4>1. ASSUME NEW i \in DOMAIN next, NEW j \in DOMAIN next, next[i] = next[j] PROVE i = j
        <5>1. i + 1 = j + 1
          BY <1>2, <2>3, <4>1 DEF IInv, NamesInv, Owners
        <5> QED BY <2>3, <5>1
      <4> QED BY <4>1
    <3>3. \A d \in Components \ {c} : \A i \in DOMAIN queue[d] :
            conn'[queue[d][i]] # "none" /\ exe[queue[d][i]] = d
      <4>1. \A d \in Components : queue[d] \in Seq(Procs)
        BY <1>0
      <4>2. \A d \in Components : \A i \in DOMAIN queue[d] : queue[d][i] \in Procs
        BY <4>1
      <4>3. \A d \in Components : \A i \in DOMAIN queue[d] :
              conn[queue[d][i]] # "none" /\ exe[queue[d][i]] = d
        BY DEF IInv, NamesInv, Owners
      <4>4. ASSUME NEW d \in Components \ {c}, NEW i \in DOMAIN queue[d]
            PROVE  conn'[queue[d][i]] # "none" /\ exe[queue[d][i]] = d
        <5>1. queue[d][i] \in Procs \ {p}
          BY <1>4, <4>2
        <5> QED BY <2>6, <4>3, <5>1
      <4> QED BY <4>4
    <3> QED BY <1>1, <2>5, <3>1, <3>2, <3>3 DEF IInv, NamesInv, Owners
  <2>13. \A d \in Components \ {c}, q \in Procs : FirstOwner(d, q) => FirstOwner(d, q)'
    BY <2>5 DEF FirstOwner
  <2>14. PrivateIsFirst'
    <3>1. \A q \in private' : q \in private /\ q # p /\ exe[q] \in Components /\ FirstOwner(exe[q], q)
      BY <2>1 DEF IInv, NamesInv, PrivateIsFirst
    <3>2. \A q \in private' : exe[q] # c
      BY <2>2, <3>1 DEF FirstOwner
    <3> QED BY <1>0, <1>1, <2>1, <2>13, <3>1, <3>2 DEF PrivateIsFirst
  <2>15. FactoryIsFirst'
    <3>1. \A d \in Components : factory'[d] = IF d = c THEN f ELSE factory[d]
      BY <1>0, <1>2, <2>8 DEF SetFactory
    <3>2. \A d \in Components \ {c} : factory[d] # None =>
            /\ factory[d] \in Procs \ {p}
            /\ 1 \in DOMAIN queue'[d] /\ queue'[d][1] = factory[d]
            /\ conn[factory[d]] \in {"open", "closed"}
      BY <1>0, <1>4, <2>5 DEF IInv, NamesInv, FactoryIsFirst, FirstOwner
    <3> QED BY <1>0, <2>6, <2>f, <3>1, <3>2 DEF FactoryIsFirst, FirstOwner
  <2> QED BY <2>9, <2>10, <2>11, <2>12, <2>14, <2>15 DEF IInv, NamesInv
<1>6. CASE p \notin private
  <2>1. /\ conn' = [conn EXCEPT ![p] = "dead"] /\ FactoryDestroyed(c, p)
        /\ UNCHANGED <<private, queue>>
    BY <1>2, <1>6 DEF ConnectionClosed, nameVars
  <2>2. /\ conn' \in [Procs -> {"none", "open", "closed", "dead"}]
        /\ conn'[p] = "dead" /\ \A q \in Procs \ {p} : conn'[q] = conn[q]
    BY <1>0, <2>1
  <2>3. /\ RequestsInv' /\ factory' \in [Components -> Procs \cup {None}]
        /\ request' \in [Requests -> Data \cup {None}]
    <3>1. CASE factory[c] = p
      BY <1>1, <1>2, <2>1, <3>1, RequestsNotified DEF IInv, FactoryDestroyed
    <3>2. CASE factory[c] # p
      <4>1. UNCHANGED <<factory, request, idles, result, crashed>>
        BY <1>1, <2>1, <3>2 DEF FactoryDestroyed
      <4> QED BY <1>0, <4>1, RequestsKeptInv DEF IInv, TypeOK, requestVars
    <3> QED BY <3>1, <3>2
  <2>4. TypeOK'
    BY <1>0, <1>1, <2>1, <2>2, <2>3 DEF TypeOK
  <2>5. Started'
    BY <1>1, <2>2 DEF IInv, NamesInv, Started
  <2>6. Owners'
    <3>1. \A d \in Components : queue[d] \in Seq(Procs)
      BY <1>0
    <3>2. \A d \in Components : \A i \in DOMAIN queue[d] : queue[d][i] \in Procs
      BY <3>1
    <3> QED BY <1>1, <2>1, <2>2, <3>2 DEF IInv, NamesInv, Owners
  <2>7. PrivateIsFirst'
    BY <1>1, <2>1 DEF IInv, NamesInv, PrivateIsFirst, FirstOwner
  <2>8. FactoryIsFirst'
    <3>1. \A d \in Components : factory'[d] # None => factory'[d] = factory[d] /\ factory[d] # p
      <4>1. \A d \in Components : factory[d] = p => d = c
        <5>1. SUFFICES ASSUME NEW d \in Components, factory[d] = p, d # c PROVE FALSE
          OBVIOUS
        <5>2. 1 \in DOMAIN queue[d] /\ queue[d][1] = p
          BY <1>0, <5>1 DEF IInv, NamesInv, FactoryIsFirst, FirstOwner
        <5> QED BY <1>4, <5>1, <5>2
      <4>2. factory' = IF factory[c] = p THEN [factory EXCEPT ![c] = None] ELSE factory
        BY <2>1 DEF FactoryDestroyed, SetFactory
      <4> QED BY <1>0, <4>1, <4>2
    <3> QED BY <1>0, <2>1, <2>2, <3>1 DEF IInv, NamesInv, FactoryIsFirst, FirstOwner
  <2> QED BY <2>3, <2>4, <2>5, <2>6, <2>7, <2>8 DEF IInv, NamesInv
<1> QED BY <1>5, <1>6

-----------------------------------------------------------------------------
(* The other steps. *)

LEMMA ProcessStep ==
  ASSUME EngineRequestAssumption, IInv, UNCHANGED <<nameVars, factory, requestVars>>,
         exe' \in [Procs -> Components \cup {None}],
         proc' \in [Procs -> {"gone", "running", "exited"}],
         conn' \in [Procs -> {"none", "open", "closed", "dead"}],
         pid' \in [Components -> Procs \cup {None}],
         \A p \in Procs : conn'[p] = conn[p] \/ (conn[p] = "open" /\ conn'[p] = "closed"),
         \A p \in Procs : \/ exe'[p] = exe[p] /\ (proc'[p] = "running" => proc[p] = "running")
                          \/ conn[p] = "none" /\ exe'[p] \in Components
  PROVE  IInv'
<1>1. NamesInv'
  BY NamesKept DEF IInv
<1>2. RequestsInv'
  BY RequestsKeptInv DEF IInv
<1>3. TypeOK'
  BY DEF IInv, TypeOK, nameVars, requestVars
<1> QED BY <1>1, <1>2, <1>3 DEF IInv

LEMMA OneRequestStep ==
  ASSUME EngineRequestAssumption, IInv, UNCHANGED <<conn, nameVars, factory, crashed>>,
         exe' \in [Procs -> Components \cup {None}],
         proc' \in [Procs -> {"gone", "running", "exited"}],
         pid' \in [Components -> Procs \cup {None}],
         result' \in [Requests -> Results \cup {"none"}],
         \A p \in Procs : \/ exe'[p] = exe[p] /\ (proc'[p] = "running" => proc[p] = "running")
                          \/ conn[p] = "none" /\ exe'[p] \in Components,
         NEW r \in Requests, NEW d \in Data \cup {None}, request' = [request EXCEPT ![r] = d],
         idles' \subseteq Requests, \A q \in Requests \ {r} : q \in idles' => q \in idles,
         d # None /\ d.handler => factory[d.component] = None /\ d.call = None,
         r \in idles' => d # None /\ ~d.handler /\ ~d.timer /\ d.call = None
  PROVE  IInv'
<1>1. NamesInv'
  BY NamesKept DEF IInv
<1>2. /\ request' \in [Requests -> Data \cup {None}] /\ request'[r] = d
      /\ \A q \in Requests \ {r} : request'[q] = request[q]
  BY DEF IInv, TypeOK
<1>3. RequestsInv'
  BY <1>2 DEF IInv, TypeOK, RequestsInv, WaitingHasNoFactory, IdleOwnsData, WaitsUncalled, Waiting
<1>4. TypeOK'
  BY <1>2 DEF IInv, TypeOK, nameVars
<1> QED BY <1>1, <1>3, <1>4 DEF IInv

LEMMA StartStep ==
  ASSUME EngineRequestAssumption, IInv, NEW c \in Components, Start(c)
  PROVE  /\ exe' \in [Procs -> Components \cup {None}]
         /\ proc' \in [Procs -> {"gone", "running", "exited"}]
         /\ pid' \in [Components -> Procs \cup {None}]
         /\ \A p \in Procs : \/ exe'[p] = exe[p] /\ (proc'[p] = "running" => proc[p] = "running")
                             \/ conn[p] = "none" /\ exe'[p] \in Components
<1>1. CASE \E p \in Procs : Free(p) /\ Run(p, c) /\ pid' = [pid EXCEPT ![c] = p]
  BY <1>1 DEF Free, Run, IInv, TypeOK
<1>2. CASE UNCHANGED <<exe, proc, pid>>
  BY <1>2 DEF IInv, TypeOK
<1> QED BY <1>1, <1>2 DEF Start

LEMMA Answered ==
  ASSUME EngineRequestAssumption, IInv, NEW r \in Requests, NEW x \in Results, Answer(r, x),
         idles' \subseteq idles, r \notin idles'
  PROVE  IInv'
<1>1. /\ request' = [request EXCEPT ![r] = None] /\ result' = [result EXCEPT ![r] = x]
      /\ UNCHANGED <<exe, proc, conn, nameVars, pid, factory, crashed>>
  BY DEF Answer, procVars
<1>2. result' \in [Requests -> Results \cup {"none"}]
  BY <1>1 DEF IInv, TypeOK
<1>3. /\ exe' \in [Procs -> Components \cup {None}]
      /\ proc' \in [Procs -> {"gone", "running", "exited"}]
      /\ pid' \in [Components -> Procs \cup {None}]
      /\ idles' \subseteq Requests
  BY <1>1 DEF IInv, TypeOK
<1> QED BY <1>1, <1>2, <1>3, OneRequestStep

LEMMA Crashed ==
  ASSUME EngineRequestAssumption, IInv, Crash
  PROVE  IInv'
<1>1. /\ UNCHANGED <<exe, proc, conn, private, queue, pid, factory, result>> /\ crashed' = TRUE
      /\ request' = [r \in Requests |-> None] /\ idles' = {}
  BY DEF Crash, procVars, nameVars
<1>2. NamesInv'
  BY <1>1, NamesKept DEF IInv, nameVars
<1>3. RequestsInv'
  BY <1>1 DEF RequestsInv, WaitingHasNoFactory, IdleOwnsData, WaitsUncalled, Waiting
<1>4. TypeOK'
  BY <1>1 DEF IInv, TypeOK
<1> QED BY <1>2, <1>3, <1>4 DEF IInv

LEMMA InvStep ==
  ASSUME EngineRequestAssumption, IInv, [Next]_vars
  PROVE  IInv'
<1>0. /\ exe \in [Procs -> Components \cup {None}] /\ proc \in [Procs -> {"gone", "running", "exited"}]
      /\ conn \in [Procs -> {"none", "open", "closed", "dead"}]
      /\ pid \in [Components -> Procs \cup {None}] /\ factory \in [Components -> Procs \cup {None}]
      /\ request \in [Requests -> Data \cup {None}]
      /\ idles \subseteq Requests /\ result \in [Requests -> Results \cup {"none"}]
      /\ None \notin Procs /\ None \notin Data
  BY NoneIsNoData DEF IInv, TypeOK, EngineRequestAssumption
<1>1. ASSUME NEW c \in Components, StartComponent(c) PROVE IInv'
  <2>1. Start(c) /\ UNCHANGED <<conn, nameVars, factory, requestVars>>
    BY <1>1 DEF StartComponent
  <2> QED BY <1>0, <2>1, StartStep, ProcessStep
<1>2. ASSUME NEW c \in Components, NEW p \in Procs, RunByHand(p, c) PROVE IInv'
  <2>1. Free(p) /\ Run(p, c) /\ UNCHANGED <<conn, nameVars, pid, factory, requestVars>>
    BY <1>2 DEF RunByHand
  <2> QED BY <1>0, <2>1, ProcessStep DEF Free, Run
<1>3. ASSUME NEW p \in Procs, Exit(p) PROVE IInv'
  <2>1. /\ proc[p] = "running"
        /\ proc' = [proc EXCEPT ![p] = IF IsChild(p) THEN "exited" ELSE "gone"]
        /\ conn' = [conn EXCEPT ![p] = IF conn[p] = "open" THEN "closed" ELSE conn[p]]
        /\ UNCHANGED <<exe, nameVars, pid, factory, requestVars>>
    BY <1>3 DEF Exit
  <2> HIDE DEF IsChild
  <2> QED BY <1>0, <2>1, ProcessStep
<1>4. ASSUME NEW c \in Components, ChildExited(c) PROVE IInv'
  <2>1. pid[c] \in Procs /\ UNCHANGED <<conn, nameVars, factory, requestVars>>
    BY <1>0, <1>4 DEF ChildExited
  <2>2. ASSUME NEW p \in Procs, Free(p),
               exe' = [exe EXCEPT ![p] = c],
               proc' = [proc EXCEPT ![pid[c]] = "gone", ![p] = "running"],
               pid' = [pid EXCEPT ![c] = p]
        PROVE  IInv'
    BY <1>0, <2>1, <2>2, ProcessStep DEF Free
  <2>3. ASSUME proc' = [proc EXCEPT ![pid[c]] = "gone"], pid' = [pid EXCEPT ![c] = None],
               UNCHANGED exe
        PROVE  IInv'
    BY <1>0, <2>1, <2>3, ProcessStep
  <2> QED BY <1>4, <2>2, <2>3 DEF ChildExited
<1>5. ASSUME NEW r \in Requests, NEW c \in Engines, NewRequest(r, c) PROVE IInv'
  <2>0. c \in Components
    BY DEF EngineRequestAssumption
  <2>1. /\ request[r] = None /\ r \notin idles /\ result' = [result EXCEPT ![r] = "none"]
        /\ UNCHANGED <<conn, nameVars, factory, idles, crashed>>
    BY <1>5 DEF NewRequest
  <2>2. result' \in [Requests -> Results \cup {"none"}]
    BY <1>0, <2>1
  <2>3. CASE factory[c] # None
    <3>1. request' = [request EXCEPT ![r] = Called(c, factory[c])] /\ UNCHANGED <<exe, proc, pid>>
      BY <1>5, <2>3 DEF NewRequest
    <3>2. Called(c, factory[c]) \in Data /\ ~Called(c, factory[c]).handler
      BY <1>0, <2>0, <2>3, DataOfCall
    <3> QED BY <1>0, <2>1, <2>2, <3>1, <3>2, OneRequestStep
  <2>4. CASE factory[c] = None
    <3>1. request' = [request EXCEPT ![r] = Waits(c)] /\ Start(c)
      BY <1>5, <2>4 DEF NewRequest
    <3>2. Waits(c) \in Data /\ Waits(c).component = c /\ Waits(c).call = None
      BY <2>0, DataOfWait
    <3> QED BY <1>0, <2>0, <2>1, <2>2, <2>4, <3>1, <3>2, StartStep, OneRequestStep
  <2> QED BY <2>3, <2>4
<1>6. ASSUME NEW r \in Requests, Timeout(r) PROVE IInv'
  <2>1. Answer(r, "error") /\ idles' = idles /\ r \notin idles
    BY <1>6 DEF Timeout, IInv, RequestsInv, IdleOwnsData
  <2> QED BY <2>1, Answered DEF Results
<1>7. ASSUME NEW r \in Requests, Cancel(r) PROVE IInv'
  <2>1. /\ request[r] \in Data /\ request' = [request EXCEPT ![r] = Disconnected(request[r])]
        /\ idles' = IF Waiting(r) THEN idles \cup {r} ELSE idles
        /\ UNCHANGED <<exe, proc, conn, nameVars, pid, factory, result, crashed>>
    BY <1>0, <1>7 DEF Cancel, procVars
  <2>2. /\ Disconnected(request[r]) \in Data
        /\ ~Disconnected(request[r]).handler /\ ~Disconnected(request[r]).timer
        /\ Disconnected(request[r]).call = request[r].call
    BY <2>1, DataDisconnected
  <2>3. r \in idles' => request[r].call = None
    BY <2>1 DEF IInv, RequestsInv, IdleOwnsData, WaitsUncalled
  <2> QED BY <1>0, <2>1, <2>2, <2>3, OneRequestStep
<1>8. ASSUME NEW r \in Requests, CancelledIdle(r) PROVE IInv'
  BY <1>8, Answered DEF CancelledIdle, Results
<1>9. ASSUME NEW r \in Requests, CreateEngine(r) PROVE IInv'
  <2> DEFINE d == [request[r] EXCEPT !.reply = TRUE]
  <2>1. /\ request[r] \in Data /\ request[r].call # None
        /\ request' = [request EXCEPT ![r].reply = TRUE]
        /\ UNCHANGED <<exe, proc, conn, nameVars, pid, factory, idles, result, crashed>>
    BY <1>0, <1>9 DEF CreateEngine, Calling, procVars
  <2>2. d \in Data /\ d.handler = request[r].handler /\ d.call = request[r].call
        /\ d.component = request[r].component
    BY <2>1 DEF Data, Fields
  <2>3. request' = [request EXCEPT ![r] = d]
    BY <2>1
  <2> HIDE DEF d
  <2>4. r \notin idles /\ ~request[r].handler
    BY <1>0, <2>1 DEF IInv, RequestsInv, IdleOwnsData, WaitsUncalled, Waiting
  <2> QED BY <1>0, <2>1, <2>2, <2>3, <2>4, OneRequestStep
<1>10. ASSUME NEW r \in Requests, CreateEngineReady(r) \/ CreateEngineFailed(r) PROVE IInv'
  <2>1. \/ Crash
        \/ \E x \in Results : Answer(r, x) /\ idles' = idles /\ r \notin idles
    BY <1>10 DEF CreateEngineReady, CreateEngineFailed, Calling, ReadyResult, Results,
                 IInv, RequestsInv, IdleOwnsData
  <2> QED BY <2>1, Answered, Crashed
<1>11. CASE UNCHANGED vars
  <2>1. UNCHANGED <<exe, proc, conn, nameVars, pid, factory, requestVars>>
    BY <1>11 DEF vars, procVars
  <2> QED BY <1>0, <2>1, ProcessStep
<1> QED BY <1>1, <1>2, <1>3, <1>4, <1>5, <1>6, <1>7, <1>8, <1>9, <1>10, <1>11,
           NameAcquired, ClosedHandled DEF Next

LEMMA Invariance == Spec => []IInv
<1>1. Init => IInv
  BY InitHolds, EngineRequestAssumption
<1>2. IInv /\ [Next]_vars => IInv'
  BY InvStep, EngineRequestAssumption
<1> QED BY <1>1, <1>2, PTL DEF Spec

(***************************************************************************)
(* The types, for any number of components, processes and requests.        *)
(***************************************************************************)
THEOREM EngineRequestTypeCorrect == Spec => []TypeOK
<1>1. IInv => TypeOK
  BY DEF IInv
<1> QED BY <1>1, Invariance, PTL

(***************************************************************************)
(* What becomes of a request in one step: one that waits for the factory   *)
(* goes on to its idle callback or to the call, and from these nowhere but *)
(* to its answer.                                                          *)
(***************************************************************************)
Owing(r) == request[r] # None
Idle(r) == r \in idles

LEMMA PhaseStep ==
  ASSUME EngineRequestAssumption, IInv, [Next]_vars, NEW r \in Requests
  PROVE  /\ Waiting(r) => Waiting(r)' \/ Idle(r)' \/ Calling(r)' \/ ~Owing(r)'
         /\ Idle(r) => Idle(r)' \/ ~Owing(r)'
         /\ Calling(r) => Calling(r)' \/ ~Owing(r)'
         /\ ~Owing(r) => Waiting(r)' \/ Calling(r)' \/ ~Owing(r)'
<1> DEFINE Goal == /\ Waiting(r) => Waiting(r)' \/ Idle(r)' \/ Calling(r)' \/ ~Owing(r)'
                   /\ Idle(r) => Idle(r)' \/ ~Owing(r)'
                   /\ Calling(r) => Calling(r)' \/ ~Owing(r)'
                   /\ ~Owing(r) => Waiting(r)' \/ Calling(r)' \/ ~Owing(r)'
<1>0. /\ request \in [Requests -> Data \cup {None}] /\ factory \in [Components -> Procs \cup {None}]
      /\ None \notin Procs /\ None \notin Data
  BY NoneIsNoData DEF IInv, TypeOK, EngineRequestAssumption
<1>1. ASSUME request'[r] = request[r], Idle(r)' <=> Idle(r) PROVE Goal
  BY <1>1 DEF Waiting, Calling, Owing
<1>2. ASSUME request'[r] = None PROVE Goal
  BY <1>2 DEF Owing
<1>3. ASSUME NEW c \in Components, NEW f \in Procs \cup {None}, SetFactory(c, f), UNCHANGED idles
      PROVE  Goal
  <2>1. request' = Notified(c, f)
    BY <1>3 DEF SetFactory
  <2>2. CASE Waiting(r)
    <3>1. request'[r] = request[r] \/ (request'[r] # None /\ request'[r].call # None)
      BY <1>0, <2>1, <2>2, DataOfNotified DEF Waiting
    <3>2. ASSUME request'[r] # None, request'[r].call # None PROVE Goal
      <4>1. Calling(r)'
        BY <3>2 DEF Calling
      <4>2. ~Idle(r) /\ ~(Calling(r) /\ ~Calling(r)') /\ Owing(r)
        BY <2>2, <4>1 DEF Waiting, Idle, Owing, IInv, RequestsInv, IdleOwnsData
      <4> QED BY <4>1, <4>2
    <3> QED BY <1>1, <1>3, <3>1, <3>2 DEF Idle
  <2>3. CASE ~Waiting(r)
    <3>1. request'[r] = request[r]
      BY <1>0, <2>1, <2>3, DataOfNotified
    <3> QED BY <1>1, <1>3, <3>1 DEF Idle
  <2> QED BY <2>2, <2>3
<1>4. ASSUME NEW p \in Procs, AcquireName(p) \/ ConnectionClosed(p)
      PROVE  Goal
  <2>1. exe[p] \in Components /\ UNCHANGED idles
    BY <1>4 DEF IInv, NamesInv, Started, AcquireName, ConnectionClosed
  <2>2. \/ UNCHANGED request
        \/ \E f : SetFactory(exe[p], f)
    BY <1>4 DEF AcquireName, ConnectionClosed, FactoryDestroyed
  <2>3. ASSUME NEW f, SetFactory(exe[p], f) PROVE f \in Procs \cup {None}
    <3>1. factory'[exe[p]] = f
      BY <1>0, <2>1, <2>3 DEF SetFactory
    <3>2. factory' \in [Components -> Procs \cup {None}]
      BY <1>4, NameAcquired, ClosedHandled DEF IInv, TypeOK
    <3> QED BY <2>1, <3>1, <3>2
  <2> QED BY <1>1, <1>3, <2>1, <2>2, <2>3 DEF Idle
<1>5. ASSUME UNCHANGED <<request, idles>> PROVE Goal
  BY <1>1, <1>5 DEF Idle
<1>6. ASSUME NEW q \in Requests, NEW x \in Results, Answer(q, x), idles' \in {idles, idles \ {q}}
      PROVE  Goal
  <2>1. request' = [request EXCEPT ![q] = None]
    BY <1>6 DEF Answer
  <2>2. CASE q = r
    BY <1>0, <1>2, <2>1, <2>2
  <2>3. CASE q # r
    BY <1>0, <1>1, <1>6, <2>1, <2>3 DEF Idle
  <2> QED BY <2>2, <2>3
<1>7. ASSUME NEW q \in Requests, NEW c \in Engines, NewRequest(q, c) PROVE Goal
  <2>1. c \in Components /\ request[q] = None /\ UNCHANGED idles /\ q \notin idles
    BY <1>7 DEF EngineRequestAssumption, NewRequest
  <2>2. PICK d \in Data : request' = [request EXCEPT ![q] = d] /\ (d.handler \/ d.call # None)
    BY <1>0, <1>7, <2>1, DataOfCall, DataOfWait DEF NewRequest
  <2>3. CASE q = r
    <3>1. Waiting(r)' \/ Calling(r)'
      BY <1>0, <2>2, <2>3 DEF Waiting, Calling
    <3>2. ~Waiting(r) /\ ~Idle(r) /\ ~Calling(r)
      BY <2>1, <2>3 DEF Waiting, Calling, Idle
    <3> QED BY <3>1, <3>2
  <2>4. CASE q # r
    BY <1>0, <1>1, <2>1, <2>2, <2>4 DEF Idle
  <2> QED BY <2>3, <2>4
<1>8. ASSUME NEW q \in Requests, Cancel(q) PROVE Goal
  <2>1. /\ request[q] \in Data /\ request' = [request EXCEPT ![q] = Disconnected(request[q])]
        /\ idles' = IF Waiting(q) THEN idles \cup {q} ELSE idles
    BY <1>0, <1>8 DEF Cancel
  <2>2. CASE q = r
    <3>1. /\ request'[r] # None /\ request'[r].call = request[r].call
      BY <1>0, <2>1, <2>2, DataDisconnected
    <3>2. (Idle(r) => Idle(r)') /\ (Waiting(r) => Idle(r)')
      BY <2>1, <2>2 DEF Idle
    <3>3. (Calling(r) => Calling(r)') /\ Owing(r)
      BY <2>1, <2>2, <3>1, <1>0 DEF Calling, Owing
    <3> QED BY <3>2, <3>3
  <2>3. CASE q # r
    BY <1>0, <1>1, <2>1, <2>3 DEF Idle
  <2> QED BY <2>2, <2>3
<1>9. ASSUME NEW q \in Requests, CreateEngine(q) PROVE Goal
  <2>1. /\ request[q] \in Data /\ request[q].call # None /\ UNCHANGED idles
        /\ request' = [request EXCEPT ![q].reply = TRUE]
    BY <1>0, <1>9 DEF CreateEngine, Calling
  <2>2. LET d == [request[q] EXCEPT !.reply = TRUE]
        IN d \in Data /\ d.handler = request[q].handler /\ d.call = request[q].call
    BY <2>1 DEF Data, Fields
  <2>3. CASE q = r
    <3>1. /\ request'[r] # None /\ request'[r].call # None
      BY <1>0, <2>1, <2>2, <2>3
    <3>2. Calling(r)' /\ ~Waiting(r) /\ Owing(r)
      BY <1>0, <2>1, <2>3, <3>1 DEF Calling, Waiting, Owing, IInv, RequestsInv, WaitsUncalled
    <3>3. Idle(r)' <=> Idle(r)
      BY <2>1 DEF Idle
    <3> QED BY <3>2, <3>3
  <2>4. CASE q # r
    BY <1>0, <1>1, <2>1, <2>4 DEF Idle
  <2> QED BY <2>3, <2>4
<1> HIDE DEF Goal
<1>10. ASSUME NEW q \in Requests,
              Timeout(q) \/ CancelledIdle(q) \/ CreateEngineReady(q) \/ CreateEngineFailed(q)
       PROVE  Goal
  <2>1. \/ Crash
        \/ \E x \in Results : Answer(q, x) /\ idles' \in {idles, idles \ {q}}
    BY <1>10 DEF Timeout, CancelledIdle, CreateEngineReady, CreateEngineFailed, ReadyResult, Results
  <2>2. Crash => request'[r] = None
    BY DEF Crash
  <2> QED BY <1>2, <1>6, <2>1, <2>2
<1>11. ASSUME NEW c \in Components, StartComponent(c) \/ ChildExited(c) PROVE Goal
  BY <1>5, <1>11 DEF StartComponent, ChildExited, requestVars
<1>12. ASSUME NEW p \in Procs, Exit(p) \/ \E c \in Components : RunByHand(p, c) PROVE Goal
  BY <1>5, <1>12 DEF Exit, RunByHand, requestVars
<1>13. ASSUME UNCHANGED vars PROVE Goal
  BY <1>5, <1>13 DEF vars, requestVars
<1>14. Goal
  BY <1>4, <1>7, <1>8, <1>9, <1>10, <1>11, <1>12, <1>13 DEF Next
<1> QED BY <1>14 DEF Goal

Woken == \A r \in Requests : Owing(r) => Waiting(r) \/ Idle(r) \/ Calling(r)

LEMMA AlwaysWoken == Spec => []Woken
<1>1. Init => Woken
  BY DEF Init, Woken, Owing
<1>2. IInv /\ Woken /\ [Next]_vars => Woken'
  <2>1. ASSUME IInv, Woken, [Next]_vars, NEW r \in Requests, Owing(r)'
        PROVE  Waiting(r)' \/ Idle(r)' \/ Calling(r)'
    BY <2>1, PhaseStep, EngineRequestAssumption DEF Woken
  <2> QED BY <2>1 DEF Woken
<1> QED BY <1>1, <1>2, Invariance, PTL DEF Spec

(***************************************************************************)
(* No request waits for a factory that is there, the data of one whose     *)
(* idle callback is queued stays until it runs, and none is left with      *)
(* nothing to wake it up.                                                  *)
(***************************************************************************)
THEOREM RequestsWakeUp == Spec => []RequestsKept
<1>1. IInv /\ Woken => RequestsKept
  BY DEF IInv, RequestsInv, RequestsKept, Woken, Owing, Idle
<1> QED BY <1>1, Invariance, AlwaysWoken, PTL

(***************************************************************************)
(* The factory of a component speaks to the first owner of its bus name.   *)
(***************************************************************************)
THEOREM FactorySpeaksToOwner == Spec => []FactoryIsOwner
<1>1. IInv => FactoryIsOwner
  <2>1. ASSUME IInv, NEW c \in Components, factory[c] # None
        PROVE  queue[c] # <<>> /\ factory[c] = Head(queue[c])
               /\ conn[factory[c]] \in {"open", "closed"}
    <3>1. queue[c] \in Seq(Procs)
      BY <2>1 DEF IInv, TypeOK
    <3>2. /\ 1 \in DOMAIN queue[c] /\ queue[c][1] = factory[c]
          /\ conn[factory[c]] \in {"open", "closed"}
      BY <2>1 DEF IInv, NamesInv, FactoryIsFirst, FirstOwner
    <3> QED BY <3>1, <3>2, HeadTailProperties
  <2> QED BY <2>1 DEF FactoryIsOwner
<1> QED BY <1>1, Invariance, PTL

(***************************************************************************)
(* The daemon starts a component only when no child of it is left, so the  *)
(* child it watches is never replaced while it runs.                       *)
(***************************************************************************)
THEOREM ChildIsOne == Spec => OneChild
<1> DEFINE Kept == \A c \in Components : pid'[c] # pid[c] /\ pid[c] # None => proc[pid[c]] # "running"
<1>1. ASSUME IInv, [Next]_vars PROVE Kept
  <2>0. pid \in [Components -> Procs \cup {None}]
    BY <1>1 DEF IInv, TypeOK
  <2>1. ASSUME NEW c \in Components, Start(c) PROVE Kept
    BY <2>0, <2>1 DEF Start, HasNoChild
  <2>2. ASSUME NEW c \in Components, ChildExited(c) PROVE Kept
    BY <2>0, <2>2 DEF ChildExited
  <2>3. ASSUME UNCHANGED pid PROVE Kept
    BY <2>3
  <2>4. ASSUME NEW c \in Components, StartComponent(c) PROVE Kept
    BY <2>1, <2>4 DEF StartComponent
  <2>5. ASSUME NEW r \in Requests, NEW c \in Engines, NewRequest(r, c) PROVE Kept
    BY <2>1, <2>3, <2>5, EngineRequestAssumption DEF NewRequest, EngineRequestAssumption
  <2> HIDE DEF Kept
  <2>6. ASSUME NEW p \in Procs,
               \/ Exit(p) \/ AcquireName(p) \/ ConnectionClosed(p)
               \/ \E c \in Components : RunByHand(p, c)
        PROVE  Kept
    BY <2>3, <2>6 DEF Exit, AcquireName, ConnectionClosed, RunByHand
  <2>7. ASSUME NEW r \in Requests,
               \/ Timeout(r) \/ Cancel(r) \/ CancelledIdle(r) \/ CreateEngine(r)
               \/ CreateEngineReady(r) \/ CreateEngineFailed(r)
        PROVE  Kept
    BY <2>3, <2>7 DEF Timeout, Cancel, CancelledIdle, CreateEngine, CreateEngineReady,
                      CreateEngineFailed, Answer, Crash
  <2>8. CASE UNCHANGED vars
    BY <2>3, <2>8 DEF vars
  <2> QED BY <1>1, <2>2, <2>4, <2>5, <2>6, <2>7, <2>8 DEF Next
<1>2. IInv /\ [Next]_vars => [Kept]_vars
  BY <1>1
<1> QED BY <1>2, Invariance, PTL DEF Spec, OneChild

-----------------------------------------------------------------------------
(* The refinement of AsyncRequest. *)

Withdrawn(r) == request[r] # None /\ request[r].cancelled

LEMMA TaskKept ==
  ASSUME UNCHANGED <<result, crashed>>,
         \A r \in Requests : (Owing(r)' <=> Owing(r)) /\ (Withdrawn(r)' <=> Withdrawn(r))
  PROVE  UNCHANGED Task!vars
BY DEF Task!vars, Owing, Withdrawn

LEMMA TaskAnswered ==
  ASSUME EngineRequestAssumption, IInv, NEW r \in Requests, NEW x \in Results, Answer(r, x),
         Owing(r), Withdrawn(r) => x = "error"
  PROVE  Task!Answer(r)
<1>1. /\ request' = [request EXCEPT ![r] = None] /\ result' = [result EXCEPT ![r] = x]
      /\ request \in [Requests -> Data \cup {None}] /\ UNCHANGED crashed
  BY DEF Answer, IInv, TypeOK
<1>2. request'[r] = None /\ \A q \in Requests \ {r} : request'[q] = request[q]
  BY <1>1
<1> QED BY <1>1, <1>2 DEF Task!Answer, Owing, Withdrawn

LEMMA TaskCrashed ==
  ASSUME NEW r \in Requests, Owing(r), ~Withdrawn(r), Crash
  PROVE  Task!Crash
<1>1. request' = [q \in Requests |-> None] /\ crashed' = TRUE /\ UNCHANGED result
  BY DEF Crash
<1> QED BY <1>1 DEF Task!Crash, Owing, Withdrawn

LEMMA TaskStep ==
  ASSUME EngineRequestAssumption, IInv, [Next]_vars
  PROVE  [Task!Next]_(Task!vars)
<1>0. /\ request \in [Requests -> Data \cup {None}] /\ factory \in [Components -> Procs \cup {None}]
      /\ None \notin Procs /\ None \notin Data
  BY NoneIsNoData DEF IInv, TypeOK, EngineRequestAssumption
<1>1. ASSUME UNCHANGED <<request, result, crashed>> PROVE UNCHANGED Task!vars
  BY <1>1, TaskKept DEF Owing, Withdrawn
<1>2. ASSUME NEW c \in Components, NEW f \in Procs \cup {None}, SetFactory(c, f),
             UNCHANGED <<result, crashed>>
      PROVE  UNCHANGED Task!vars
  <2>1. \A r \in Requests :
          /\ request'[r] = None <=> request[r] = None
          /\ request[r] # None => request'[r].cancelled = request[r].cancelled
    BY <1>0, <1>2, DataOfNotified DEF SetFactory
  <2> QED BY <1>2, <2>1, TaskKept DEF Owing, Withdrawn
<1>3. ASSUME NEW p \in Procs, AcquireName(p) \/ ConnectionClosed(p)
      PROVE  UNCHANGED Task!vars
  <2>1. exe[p] \in Components /\ UNCHANGED <<result, crashed>>
    BY <1>3 DEF IInv, NamesInv, Started, AcquireName, ConnectionClosed
  <2>2. \/ UNCHANGED request
        \/ \E f : SetFactory(exe[p], f)
    BY <1>3 DEF AcquireName, ConnectionClosed, FactoryDestroyed
  <2>3. ASSUME NEW f, SetFactory(exe[p], f) PROVE f \in Procs \cup {None}
    <3>1. factory'[exe[p]] = f
      BY <1>0, <2>1, <2>3 DEF SetFactory
    <3>2. factory' \in [Components -> Procs \cup {None}]
      BY <1>3, NameAcquired, ClosedHandled DEF IInv, TypeOK
    <3> QED BY <2>1, <3>1, <3>2
  <2> QED BY <1>1, <1>2, <2>1, <2>2, <2>3
<1>4. ASSUME NEW c \in Components, StartComponent(c) \/ ChildExited(c)
      PROVE  UNCHANGED Task!vars
  BY <1>1, <1>4 DEF StartComponent, ChildExited, requestVars
<1>5. ASSUME NEW p \in Procs, Exit(p) \/ \E c \in Components : RunByHand(p, c)
      PROVE  UNCHANGED Task!vars
  BY <1>1, <1>5 DEF Exit, RunByHand, requestVars
<1>6. ASSUME NEW r \in Requests, NEW c \in Engines, NewRequest(r, c) PROVE Task!Start(r)
  <2>1. PICK d \in Data : request' = [request EXCEPT ![r] = d] /\ ~d.cancelled
    <3>1. c \in Components
      BY DEF EngineRequestAssumption
    <3> QED BY <1>0, <1>6, <3>1, DataOfCall, DataOfWait DEF NewRequest
  <2>2. request[r] = None /\ result' = [result EXCEPT ![r] = "none"] /\ UNCHANGED crashed
    BY <1>6 DEF NewRequest
  <2>3. request'[r] = d /\ \A q \in Requests \ {r} : request'[q] = request[q]
    BY <1>0, <2>1
  <2> QED BY <1>0, <2>1, <2>2, <2>3 DEF Task!Start
<1>7. ASSUME NEW r \in Requests, Cancel(r) PROVE Task!Cancel(r)
  <2>1. /\ request[r] \in Data /\ ~request[r].cancelled /\ UNCHANGED <<result, crashed>>
        /\ request' = [request EXCEPT ![r] = Disconnected(request[r])]
    BY <1>0, <1>7 DEF Cancel
  <2>2. Disconnected(request[r]) \in Data /\ Disconnected(request[r]).cancelled
    BY <2>1, DataDisconnected
  <2>3. /\ request'[r] \in Data /\ request'[r].cancelled
        /\ \A q \in Requests \ {r} : request'[q] = request[q]
    BY <1>0, <2>1, <2>2
  <2> QED BY <1>0, <2>1, <2>3 DEF Task!Cancel
<1>8. ASSUME NEW r \in Requests,
             Timeout(r) \/ CancelledIdle(r) \/ CreateEngineReady(r) \/ CreateEngineFailed(r)
      PROVE  Task!Answer(r) \/ Task!Crash
  <2>1. \/ Crash /\ ~Withdrawn(r)
        \/ \E x \in Results : Answer(r, x) /\ (Withdrawn(r) => x = "error")
    BY <1>8 DEF Timeout, CancelledIdle, CreateEngineReady, CreateEngineFailed, ReadyResult, Results,
                Withdrawn
  <2>2. Owing(r)
    BY <1>8 DEF Timeout, CancelledIdle, CreateEngineReady, CreateEngineFailed, Calling,
                IInv, RequestsInv, IdleOwnsData, Owing
  <2> QED BY <2>1, <2>2, TaskAnswered, TaskCrashed
<1>9. ASSUME NEW r \in Requests, CreateEngine(r) PROVE UNCHANGED Task!vars
  <2>1. /\ request[r] \in Data /\ UNCHANGED <<result, crashed>>
        /\ request' = [request EXCEPT ![r].reply = TRUE]
    BY <1>0, <1>9 DEF CreateEngine, Calling
  <2>2. LET d == [request[r] EXCEPT !.reply = TRUE]
        IN d \in Data /\ d.cancelled = request[r].cancelled
    BY <2>1 DEF Data, Fields
  <2>3. /\ request'[r] \in Data /\ request'[r].cancelled = request[r].cancelled
        /\ \A q \in Requests \ {r} : request'[q] = request[q]
    BY <1>0, <2>1, <2>2
  <2>4. \A q \in Requests : (Owing(q)' <=> Owing(q)) /\ (Withdrawn(q)' <=> Withdrawn(q))
    BY <1>0, <2>1, <2>3 DEF Owing, Withdrawn
  <2> QED BY <2>1, <2>4, TaskKept
<1>10. CASE UNCHANGED vars
  BY <1>1, <1>10 DEF vars, requestVars
<1> QED BY <1>3, <1>4, <1>5, <1>6, <1>7, <1>8, <1>9, <1>10 DEF Next, Task!Next

(***************************************************************************)
(* A request for an engine is a task: it is answered at most once for each *)
(* time it is made, with an error if it was cancelled, and the daemon does *)
(* not crash while every request that is owed has been cancelled.          *)
(***************************************************************************)
THEOREM RequestsAreTasks == Spec => Task!Init /\ [][Task!Next]_(Task!vars)
<1>1. Init => Task!Init
  BY DEF Init, Task!Init
<1>2. IInv /\ [Next]_vars => [Task!Next]_(Task!vars)
  BY TaskStep, EngineRequestAssumption
<1> QED BY <1>1, <1>2, Invariance, PTL DEF Spec

-----------------------------------------------------------------------------
(***************************************************************************)
(* That each is answered: timers, idle callbacks and the ends of calls are *)
(* fair, each has nothing but the answer to lead to, and a request that    *)
(* waits may only go on to one of the others.  That they are ENABLED when  *)
(* they are due is a hypothesis here, WakersEnabled.                       *)
(***************************************************************************)
LEMMA AnswerStep ==
  ASSUME EngineRequestAssumption, IInv, NEW r \in Requests
  PROVE  /\ <<Timeout(r)>>_vars => ~Owing(r)'
         /\ <<CancelledIdle(r)>>_vars => ~Owing(r)'
         /\ <<CreateEngineReady(r) \/ CreateEngineFailed(r)>>_vars => ~Owing(r)'
<1>1. ASSUME NEW x, Answer(r, x) PROVE ~Owing(r)'
  BY <1>1 DEF Answer, Owing, IInv, TypeOK
<1>2. Crash => ~Owing(r)'
  BY DEF Crash, Owing
<1> QED BY <1>1, <1>2 DEF Timeout, CancelledIdle, CreateEngineReady, CreateEngineFailed

LEMMA RequestAnswered ==
  ASSUME NEW r \in Requests
  PROVE  FairSpec /\ []WakersEnabled => Task!Answered(r)
<1>1. IInv /\ [Next]_vars =>
        /\ Waiting(r) => Waiting(r)' \/ Idle(r)' \/ Calling(r)' \/ ~Owing(r)'
        /\ Idle(r) => Idle(r)' \/ ~Owing(r)'
        /\ Calling(r) => Calling(r)' \/ ~Owing(r)'
  BY PhaseStep, EngineRequestAssumption
<1>2. IInv => /\ <<Timeout(r)>>_vars => ~Owing(r)'
              /\ <<CancelledIdle(r)>>_vars => ~Owing(r)'
              /\ <<CreateEngineReady(r) \/ CreateEngineFailed(r)>>_vars => ~Owing(r)'
  BY AnswerStep, EngineRequestAssumption
<1>3. WakersEnabled =>
        /\ Waiting(r) => ENABLED <<Timeout(r)>>_vars
        /\ Idle(r) => ENABLED <<CancelledIdle(r)>>_vars
        /\ Calling(r) => ENABLED <<CreateEngineReady(r) \/ CreateEngineFailed(r)>>_vars
  BY DEF WakersEnabled, Idle
<1>4. Woken => (Owing(r) => Waiting(r) \/ Idle(r) \/ Calling(r))
  BY DEF Woken
<1>5. Fairness => RequestFairness(r)
  BY DEF Fairness
<1>6. Task!Owed(r) <=> Owing(r)
  BY DEF Task!Owed, Owing
<1> QED BY <1>1, <1>2, <1>3, <1>4, <1>5, <1>6, Invariance, AlwaysWoken, PTL
        DEF FairSpec, Spec, RequestFairness, Task!Answered

(***************************************************************************)
(* Every request is answered exactly once, whatever becomes of processes,  *)
(* connections, timers and cancellations, as long as the daemon is there:  *)
(* bus_engine_proxy_new implements AsyncRequest.                           *)
(***************************************************************************)
THEOREM EveryRequestAnswered == FairSpec /\ []WakersEnabled => AnsweredOnce
<1>1. FairSpec /\ []WakersEnabled => \A r \in Requests : Task!Answered(r)
  BY RequestAnswered
<1> QED BY <1>1, RequestsAreTasks, PTL DEF FairSpec, AnsweredOnce, Task!Spec

-----------------------------------------------------------------------------
(***************************************************************************)
(* The registry.  What holds of the registry x that is being loaded, or is *)
(* in a cache, when the files are dk, the mtime of the directory is ch, and*)
(* fr tells whether mtimes are frozen.                                     *)
(***************************************************************************)
RegistryRecords ==
  [at : {"idle", "listed", "reading", "saved"} \cup Files, names : SUBSET Files, dir : Times,
   open : SUBSET Files, todo : SUBSET Files, component : Versions, mtime : Versions,
   unread : SUBSET Files, moved : BOOLEAN]

Present(dk) == {f \in Files : dk[f] # 0}

\* A file that was not parsed is not there, unless it came while the directory
\* was read, or the directory has changed since.
AbsentUnparsed(x, fr, dk, ch) ==
  ~fr /\ x.dir = ch =>
    \A f \in Files \ x.todo :
      x.component[f] = 0 => dk[f] = 0 \/ (f \notin x.names /\ x.moved)

\* A file that was parsed has the mtime of what was read of it, unless it was written
\* in between; the one that is parsed now is still what was read.
ReadAsDated(x, fr, dk) ==
  \A f \in Files \ x.unread :
    /\ x.at = f => x.component[f] = dk[f]
    /\ ~fr /\ x.at # f /\ x.component[f] # 0 => x.mtime[f] = x.component[f]

\* Of the files that are done, if none came or went, those that were listed are parsed.
ParsedAsListed(x) ==
  /\ \A f \in x.todo : x.component[f] = 0
  /\ ~x.moved => \A f \in Files \ x.todo : x.component[f] # 0 <=> f \in x.names

\* While a registry is loaded, what comes or goes is noticed.
MovesNoticed(x, dk) ==
  x.at \notin {"idle", "saved"} => x.open = x.names /\ (x.moved \/ x.names = Present(dk))

RegistryOK(x, fr, dk, ch) ==
  /\ x \in RegistryRecords
  /\ MovesNoticed(x, dk)
  /\ x.at \in {"idle", "listed"} => x.component = [f \in Files |-> 0] /\ x.unread = {}
  /\ x.at \notin {"idle", "listed"} =>
       /\ x.dir <= ch
       /\ AbsentUnparsed(x, fr, dk, ch) /\ ReadAsDated(x, fr, dk) /\ ParsedAsListed(x)

RegistryInv ==
  /\ frozen \in BOOLEAN /\ disk \in Versions
  /\ changed \in Times /\ clock \in Times /\ changed <= clock
  /\ reader \in [Readers -> RegistryRecords]
  /\ cache \in [{"system", "user"} -> RegistryRecords]
  /\ service \in {"off", "start", "system", "load", "loadonly", "ready", "running"}
  /\ monitor \in {"off", "on", "event", "timer", "fired"}
  /\ since \in Times
  /\ \A r \in Readers : RegistryOK(reader[r], frozen, disk, changed) /\ reader[r].at # "saved"
  /\ \A k \in {"system", "user"} :
       /\ RegistryOK(cache[k], frozen, disk, changed)
       /\ cache[k].at \in {"idle", "saved"} /\ cache[k].todo = {}

-----------------------------------------------------------------------------
(* What a reader does to its registry. *)

LEMMA NothingTyped == RegistryAssumption => Nothing \in RegistryRecords
BY DEF Nothing, RegistryRecords, Times, Versions, RegistryAssumption

LEMMA NothingOK ==
  ASSUME RegistryAssumption, NEW fr \in BOOLEAN, NEW dk \in Versions, NEW ch \in Times
  PROVE  RegistryOK(Nothing, fr, dk, ch)
<1>1. Nothing \in RegistryRecords
  BY NothingTyped
<1>2. /\ Nothing.at = "idle" /\ Nothing.component = [f \in Files |-> 0]
      /\ Nothing.unread = {}
  BY DEF Nothing
<1>3. QED
  BY <1>1, <1>2 DEF RegistryOK, MovesNoticed

\* ListDirectory
LEMMA ListedOK ==
  ASSUME RegistryAssumption, NEW fr \in BOOLEAN, NEW dk \in Versions, NEW ch \in Times,
         NEW y, y = [Nothing EXCEPT !.at = "listed", !.names = Present(dk), !.open = Present(dk)]
  PROVE  RegistryOK(y, fr, dk, ch) /\ y.at # "saved"
<1>1. y \in RegistryRecords
  BY NothingTyped DEF RegistryRecords, Present
<1>2. /\ y.at = "listed" /\ y.names = Present(dk) /\ y.open = Present(dk)
      /\ y.component = [f \in Files |-> 0] /\ y.unread = {}
  BY DEF Nothing
<1>3. QED
  BY <1>1, <1>2 DEF RegistryOK, MovesNoticed

\* StatDirectory
LEMMA StatOK ==
  ASSUME RegistryAssumption, NEW fr \in BOOLEAN, NEW dk \in Versions, NEW ch \in Times,
         NEW x, RegistryOK(x, fr, dk, ch), x.at = "listed",
         NEW y, y = [x EXCEPT !.at = "reading", !.dir = ch, !.todo = Files]
  PROVE  RegistryOK(y, fr, dk, ch) /\ y.at # "saved"
<1>1. x \in RegistryRecords
  BY DEF RegistryOK
<1>2. /\ y \in RegistryRecords /\ y.at = "reading" /\ y.dir = ch /\ y.todo = Files
      /\ y.names = x.names /\ y.open = x.open /\ y.component = x.component
      /\ y.unread = x.unread /\ y.moved = x.moved
  BY <1>1 DEF RegistryRecords
<1>3. y.at \notin Files
  BY <1>2 DEF RegistryAssumption
<1>4. \A f \in Files : y.component[f] = 0
  BY <1>2 DEF RegistryOK
<1>5. MovesNoticed(y, dk)
  BY <1>2 DEF RegistryOK, MovesNoticed
<1>6. AbsentUnparsed(y, fr, dk, ch) /\ ParsedAsListed(y)
  BY <1>2, <1>4 DEF AbsentUnparsed, ParsedAsListed
<1>7. ReadAsDated(y, fr, dk)
  BY <1>3, <1>4 DEF ReadAsDated
<1>8. y.dir <= ch
  BY <1>2 DEF Times
<1>9. QED
  BY <1>2, <1>5, <1>6, <1>7, <1>8 DEF RegistryOK

\* SkipFile
LEMMA SkipOK ==
  ASSUME RegistryAssumption, NEW fr \in BOOLEAN, NEW dk \in Versions, NEW ch \in Times,
         NEW x, RegistryOK(x, fr, dk, ch), x.at = "reading",
         NEW f \in x.todo, dk[f] = 0 \/ f \notin x.open,
         NEW y, y = [x EXCEPT !.todo = @ \ {f}]
  PROVE  RegistryOK(y, fr, dk, ch) /\ y.at # "saved"
<1>1. x \in RegistryRecords
  BY DEF RegistryOK
<1>2. /\ y \in RegistryRecords /\ y.at = x.at /\ y.dir = x.dir /\ y.todo = x.todo \ {f}
      /\ y.names = x.names /\ y.open = x.open /\ y.component = x.component
      /\ y.mtime = x.mtime /\ y.unread = x.unread /\ y.moved = x.moved
  BY <1>1 DEF RegistryRecords
<1>3. x.open = x.names /\ (x.moved \/ x.names = Present(dk)) /\ f \in Files
  BY <1>1 DEF RegistryOK, MovesNoticed, RegistryRecords
<1>4. AbsentUnparsed(y, fr, dk, ch)
  BY <1>2, <1>3 DEF RegistryOK, AbsentUnparsed, Present
<1>5. ParsedAsListed(y)
  BY <1>2, <1>3 DEF RegistryOK, ParsedAsListed, Present
<1>6. MovesNoticed(y, dk) /\ ReadAsDated(y, fr, dk)
  BY <1>2 DEF RegistryOK, MovesNoticed, ReadAsDated
<1>7. QED
  BY <1>2, <1>4, <1>5, <1>6 DEF RegistryOK

\* ParseFile
LEMMA ParseOK ==
  ASSUME RegistryAssumption, NEW fr \in BOOLEAN, NEW dk \in Versions, NEW ch \in Times,
         NEW x, RegistryOK(x, fr, dk, ch), x.at = "reading",
         NEW f \in x.todo, dk[f] # 0,
         NEW y, y = [x EXCEPT !.at = f, !.todo = @ \ {f}, !.component[f] = dk[f]]
  PROVE  RegistryOK(y, fr, dk, ch) /\ y.at # "saved"
<1>1. x \in RegistryRecords /\ f \in Files
  BY DEF RegistryOK, RegistryRecords
<1>2. /\ y \in RegistryRecords /\ y.at = f /\ y.dir = x.dir /\ y.todo = x.todo \ {f}
      /\ y.names = x.names /\ y.open = x.open
      /\ y.component = [x.component EXCEPT ![f] = dk[f]]
      /\ y.mtime = x.mtime /\ y.unread = x.unread /\ y.moved = x.moved
  BY <1>1 DEF RegistryRecords, Versions
<1>3. f \notin {"idle", "listed", "reading", "saved"}
  BY <1>1 DEF RegistryAssumption
<1>4. \A g \in Files : y.component[g] = IF g = f THEN dk[f] ELSE x.component[g]
  BY <1>1, <1>2 DEF RegistryRecords, Versions
<1>5. x.at \notin Files
  BY DEF RegistryAssumption
<1>6. MovesNoticed(y, dk)
  BY <1>2, <1>3 DEF RegistryOK, MovesNoticed
<1>7. AbsentUnparsed(y, fr, dk, ch)
  BY <1>2, <1>4 DEF RegistryOK, AbsentUnparsed
<1>8. ReadAsDated(y, fr, dk)
  BY <1>1, <1>2, <1>4, <1>5 DEF RegistryOK, ReadAsDated
<1>9. ParsedAsListed(y)
  BY <1>1, <1>2, <1>4 DEF RegistryOK, MovesNoticed, ParsedAsListed, Present
<1>10. QED
  BY <1>2, <1>3, <1>6, <1>7, <1>8, <1>9 DEF RegistryOK

\* StatFile
LEMMA StatFileOK ==
  ASSUME RegistryAssumption, NEW fr \in BOOLEAN, NEW dk \in Versions, NEW ch \in Times,
         NEW x, RegistryOK(x, fr, dk, ch), x.at \in Files,
         NEW m \in Times, ~fr => m = dk[x.at],
         NEW y, y = [x EXCEPT !.at = "reading", !.mtime[x.at] = m]
  PROVE  RegistryOK(y, fr, dk, ch) /\ y.at # "saved"
<1>1. x \in RegistryRecords
  BY DEF RegistryOK
<1>2. /\ y \in RegistryRecords /\ y.at = "reading" /\ y.dir = x.dir /\ y.todo = x.todo
      /\ y.names = x.names /\ y.open = x.open /\ y.component = x.component
      /\ y.mtime = [x.mtime EXCEPT ![x.at] = m]
      /\ y.unread = x.unread /\ y.moved = x.moved
  BY <1>1 DEF RegistryRecords, Versions
<1>3. x.at \notin {"idle", "listed", "saved"} /\ "reading" \notin Files
  BY DEF RegistryAssumption
<1>4. \A g \in Files : y.mtime[g] = IF g = x.at THEN m ELSE x.mtime[g]
  BY <1>1, <1>2 DEF RegistryRecords, Versions
<1>5. MovesNoticed(y, dk)
  BY <1>2, <1>3 DEF RegistryOK, MovesNoticed
<1>6. AbsentUnparsed(y, fr, dk, ch) /\ ParsedAsListed(y)
  BY <1>2, <1>3 DEF RegistryOK, AbsentUnparsed, ParsedAsListed
<1>7. ReadAsDated(y, fr, dk)
  <2>1. SUFFICES ASSUME NEW g \in Files \ y.unread
                 PROVE  /\ y.at = g => y.component[g] = dk[g]
                        /\ ~fr /\ y.at # g /\ y.component[g] # 0 => y.mtime[g] = y.component[g]
    BY DEF ReadAsDated
  <2>2. /\ x.at = g => x.component[g] = dk[g]
        /\ ~fr /\ x.at # g /\ x.component[g] # 0 => x.mtime[g] = x.component[g]
    BY <1>2, <1>3 DEF RegistryOK, ReadAsDated
  <2>3. y.at # g
    BY <1>2, <1>3
  <2>4. QED
    BY <1>2, <1>4, <2>2, <2>3
<1>8. QED
  BY <1>2, <1>3, <1>5, <1>6, <1>7 DEF RegistryOK

\* ibus_registry_save_cache
LEMMA SavedOK ==
  ASSUME RegistryAssumption, NEW fr \in BOOLEAN, NEW dk \in Versions, NEW ch \in Times,
         NEW x, RegistryOK(x, fr, dk, ch), x.at = "reading",
         NEW y, y = [x EXCEPT !.at = "saved", !.open = {}]
  PROVE  RegistryOK(y, fr, dk, ch)
<1>1. x \in RegistryRecords
  BY DEF RegistryOK
<1>2. /\ y \in RegistryRecords /\ y.at = "saved" /\ y.dir = x.dir /\ y.todo = x.todo
      /\ y.names = x.names /\ y.component = x.component
      /\ y.mtime = x.mtime /\ y.unread = x.unread /\ y.moved = x.moved
  BY <1>1 DEF RegistryRecords
<1>3. x.at \notin Files /\ y.at \notin Files
  BY <1>2 DEF RegistryAssumption
<1>4. MovesNoticed(y, dk)
  BY <1>2 DEF MovesNoticed
<1>5. AbsentUnparsed(y, fr, dk, ch) /\ ParsedAsListed(y)
  BY <1>2 DEF RegistryOK, AbsentUnparsed, ParsedAsListed
<1>6. ReadAsDated(y, fr, dk)
  BY <1>2, <1>3 DEF RegistryOK, ReadAsDated
<1>7. QED
  BY <1>2, <1>4, <1>5, <1>6 DEF RegistryOK

-----------------------------------------------------------------------------
(* What a change of file f at the time v does to a registry, at most       *)
(* noticed by those that are being loaded.                                 *)

Noticing(x, f, moves) ==
  [x EXCEPT !.unread = IF x.at = f THEN @ \cup {f} ELSE @,
            !.moved = @ \/ (moves /\ x.at \notin {"idle", "saved"})]

LEMMA ChangeOK ==
  ASSUME RegistryAssumption, NEW fr \in BOOLEAN, NEW dk \in Versions, NEW ch \in Times,
         NEW x, RegistryOK(x, fr, dk, ch),
         NEW f \in Files, NEW v \in Times, NEW c \in Times, ch <= c,
         NEW moves \in BOOLEAN, dk[f] = 0 \/ v = 0 => moves,
         moves /\ ~fr => ch < c,
         NEW y, y = Noticing(x, f, moves)
  PROVE  RegistryOK(y, fr, [dk EXCEPT ![f] = v], c)
<1> DEFINE dn == [dk EXCEPT ![f] = v]
<1>1. x \in RegistryRecords
  BY DEF RegistryOK
<1>2. /\ y \in RegistryRecords /\ y.at = x.at /\ y.dir = x.dir /\ y.todo = x.todo
      /\ y.names = x.names /\ y.open = x.open /\ y.component = x.component
      /\ y.mtime = x.mtime
      /\ y.unread = IF x.at = f THEN x.unread \cup {f} ELSE x.unread
      /\ y.moved = (x.moved \/ (moves /\ x.at \notin {"idle", "saved"}))
  BY <1>1 DEF RegistryRecords, Noticing
<1>3. \A g \in Files : dn[g] = IF g = f THEN v ELSE dk[g]
  BY DEF Versions
<1> HIDE DEF dn
<1>4. ~moves => Present(dn) = Present(dk)
  BY <1>3 DEF Present
<1>5. MovesNoticed(y, dn)
  BY <1>2, <1>4 DEF RegistryOK, MovesNoticed
<1>6. x.at \in {"idle", "listed"} => y.component = [g \in Files |-> 0] /\ y.unread = {}
  BY <1>2 DEF RegistryOK, RegistryAssumption
<1>7. ASSUME x.at \notin {"idle", "listed"}
      PROVE  /\ y.dir <= c
             /\ AbsentUnparsed(y, fr, dn, c) /\ ReadAsDated(y, fr, dn) /\ ParsedAsListed(y)
  <2>1. x.dir \in Nat /\ ch \in Nat /\ c \in Nat /\ x.dir <= ch
    BY <1>1, <1>7 DEF RegistryOK, RegistryRecords, Times
  <2>2. ParsedAsListed(y)
    BY <1>2, <1>7 DEF RegistryOK, ParsedAsListed
  <2>3. ReadAsDated(y, fr, dn)
    BY <1>2, <1>3, <1>7 DEF RegistryOK, ReadAsDated
  <2>4. AbsentUnparsed(y, fr, dn, c)
    <3>1. SUFFICES ASSUME ~fr, y.dir = c, NEW g \in Files \ y.todo, y.component[g] = 0
                   PROVE  dn[g] = 0 \/ (g \notin y.names /\ y.moved)
      BY DEF AbsentUnparsed
    <3>2. ~moves /\ x.dir = ch
      BY <1>2, <2>1, <3>1
    <3>3. dk[g] = 0 \/ (g \notin x.names /\ x.moved)
      BY <1>2, <1>7, <3>1, <3>2 DEF RegistryOK, AbsentUnparsed
    <3>4. QED
      BY <1>2, <1>3, <3>2, <3>3
  <2>5. QED
    BY <1>2, <2>1, <2>2, <2>3, <2>4
<1>8. QED
  BY <1>2, <1>5, <1>6, <1>7 DEF RegistryOK, dn

-----------------------------------------------------------------------------
LEMMA RegistryInitHolds == RegistryAssumption /\ RegistryInit => RegistryInv
<1> SUFFICES ASSUME RegistryAssumption, RegistryInit
             PROVE  RegistryInv
  OBVIOUS
<1>1. {0, 1} \subseteq Times /\ changed \in Times /\ clock \in Times /\ since \in Times
      /\ changed <= clock
  BY DEF RegistryInit, RegistryAssumption, Times
<1>2. frozen \in BOOLEAN /\ disk \in Versions
  BY <1>1 DEF RegistryInit, Versions
<1>3. RegistryOK(Nothing, frozen, disk, changed) /\ Nothing \in RegistryRecords
  BY <1>1, <1>2, NothingOK, NothingTyped
<1>4. Nothing.at = "idle" /\ Nothing.todo = {}
  BY DEF Nothing
<1>5. QED
  BY <1>1, <1>2, <1>3, <1>4 DEF RegistryInit, RegistryInv

\* The reader's own steps: they change its registry only.
LEMMA ReaderStep ==
  ASSUME RegistryAssumption, RegistryInv, NEW r \in Readers, NEW y,
         reader' = [reader EXCEPT ![r] = y],
         RegistryOK(y, frozen, disk, changed) /\ y.at # "saved",
         UNCHANGED <<diskVars, cache, daemonVars_>>
  PROVE  RegistryInv'
<1>1. y \in RegistryRecords
  BY DEF RegistryOK
<1>2. /\ UNCHANGED <<frozen, disk, changed, clock, cache, service, monitor, since>>
      /\ reader' \in [Readers -> RegistryRecords]
  BY <1>1 DEF RegistryInv, diskVars, daemonVars_
<1>3. \A q \in Readers : RegistryOK(reader'[q], frozen, disk, changed) /\ reader'[q].at # "saved"
  BY DEF RegistryInv
<1>4. QED
  BY <1>2, <1>3 DEF RegistryInv

LEMMA MtimeTyped ==
  ASSUME RegistryAssumption, disk \in Versions, NEW f \in Files
  PROVE  Mtime(f) \in Times /\ (~frozen => Mtime(f) = disk[f])
BY DEF Mtime, Versions, Times, RegistryAssumption

LEMMA FileStep ==
  ASSUME RegistryAssumption, RegistryInv, NEW f \in Files, FileChanges(f)
  PROVE  RegistryInv'
<1>1. PICK moves \in BOOLEAN, v \in {0, clock + 1} :
         /\ disk[f] = 0 => v # 0
         /\ disk[f] = 0 \/ v = 0 => moves
         /\ disk' = [disk EXCEPT ![f] = v]
         /\ changed' = IF moves /\ ~frozen THEN clock + 1 ELSE changed
         /\ reader' = Noticed(f, moves)
  BY DEF FileChanges
<1>2. /\ clock' = clock + 1 /\ UNCHANGED <<frozen, cache, service, since>>
      /\ monitor' = IF monitor = "on" THEN "event" ELSE monitor
      /\ clock < MaxClock
  BY DEF FileChanges
<1>3. /\ clock \in Nat /\ changed \in Nat /\ changed <= clock
      /\ clock + 1 \in Times /\ v \in Times /\ changed' \in Times
      /\ changed <= changed' /\ changed' <= clock'
      /\ moves /\ ~frozen => changed < changed'
  BY <1>1, <1>2 DEF RegistryInv, Times, RegistryAssumption
<1>4. frozen \in BOOLEAN /\ disk \in Versions /\ changed \in Times
  BY DEF RegistryInv
<1>5. ASSUME NEW r \in Readers
      PROVE  RegistryOK(reader'[r], frozen, disk', changed') /\ reader'[r].at # "saved"
  <2>1. RegistryOK(reader[r], frozen, disk, changed) /\ reader[r].at # "saved"
    BY DEF RegistryInv
  <2>2. reader'[r] = Noticing(reader[r], f, moves)
    BY <1>1, <2>1 DEF Noticed, Noticing
  <2> DEFINE x == reader[r]
             y == reader'[r]
  <2>3. y = Noticing(x, f, moves)
    BY <2>2
  <2>4. RegistryOK(x, frozen, disk, changed) /\ x.at # "saved"
    BY <2>1
  <2> HIDE DEF x, y
  <2>5. RegistryOK(y, frozen, [disk EXCEPT ![f] = v], changed')
    BY <1>1, <1>3, <1>4, <2>3, <2>4, ChangeOK
  <2>6. y.at = x.at
    BY <2>3, <2>4 DEF Noticing, RegistryOK, RegistryRecords
  <2>7. QED
    BY <1>1, <2>4, <2>5, <2>6 DEF x, y
<1>6. ASSUME NEW k \in {"system", "user"}
      PROVE  /\ RegistryOK(cache[k], frozen, disk', changed')
             /\ cache[k].at \in {"idle", "saved"} /\ cache[k].todo = {}
  <2>1. /\ RegistryOK(cache[k], frozen, disk, changed)
        /\ cache[k].at \in {"idle", "saved"} /\ cache[k].todo = {}
        /\ cache[k] \in RegistryRecords
    BY DEF RegistryInv
  <2>2. cache[k] = Noticing(cache[k], f, moves)
    BY <2>1 DEF RegistryRecords, RegistryAssumption, Noticing
  <2> DEFINE x == cache[k]
  <2>3. x = Noticing(x, f, moves)
    BY <2>2
  <2>4. RegistryOK(x, frozen, disk, changed)
    BY <2>1
  <2> HIDE DEF x
  <2>5. RegistryOK(x, frozen, [disk EXCEPT ![f] = v], changed')
    BY <1>1, <1>3, <1>4, <2>3, <2>4, ChangeOK
  <2>6. QED
    BY <1>1, <2>1, <2>5 DEF x
<1>7. disk' \in Versions
  BY <1>1, <1>3, <1>4 DEF Versions
<1>8. reader' \in [Readers -> RegistryRecords]
  <2>1. reader' = [r \in Readers |-> reader'[r]]
    BY <1>1 DEF Noticed
  <2>2. QED
    BY <1>5, <2>1 DEF RegistryOK
<1>9. clock' \in Times /\ monitor' \in {"off", "on", "event", "timer", "fired"}
  BY <1>2, <1>3 DEF RegistryInv
<1>10. QED
  BY <1>2, <1>3, <1>5, <1>6, <1>7, <1>8, <1>9 DEF RegistryInv

LEMMA RegistryStep ==
  ASSUME RegistryAssumption, RegistryInv, [RegistryNext]_registryVars
  PROVE  RegistryInv'
<1>1. /\ frozen \in BOOLEAN /\ disk \in Versions /\ changed \in Times
      /\ \A r \in Readers : RegistryOK(reader[r], frozen, disk, changed)
  BY DEF RegistryInv
<1>2. Names = Present(disk)
  BY DEF Names, Present
<1>3. ASSUME NEW r \in Readers, ListDirectory(r)
      PROVE  RegistryInv'
  <2> DEFINE y == [Nothing EXCEPT !.at = "listed", !.names = Present(disk), !.open = Present(disk)]
  <2>1. reader' = [reader EXCEPT ![r] = y] /\ UNCHANGED <<diskVars, cache, daemonVars_>>
    BY <1>2, <1>3 DEF ListDirectory
  <2>2. RegistryOK(y, frozen, disk, changed) /\ y.at # "saved"
    BY <1>1, ListedOK
  <2> HIDE DEF y
  <2>3. QED
    BY <2>1, <2>2, ReaderStep
<1>4. ASSUME NEW r \in Readers, StatDirectory(r)
      PROVE  RegistryInv'
  <2> DEFINE y == [reader[r] EXCEPT !.at = "reading", !.dir = changed, !.todo = Files]
  <2>1. reader' = [reader EXCEPT ![r] = y] /\ UNCHANGED <<diskVars, cache, daemonVars_>>
    BY <1>4 DEF StatDirectory, RegistryInv
  <2>2. RegistryOK(y, frozen, disk, changed) /\ y.at # "saved"
    BY <1>1, <1>4, StatOK DEF StatDirectory
  <2> HIDE DEF y
  <2>3. QED
    BY <2>1, <2>2, ReaderStep
<1>5. ASSUME NEW r \in Readers, NEW f \in Files, SkipFile(r, f)
      PROVE  RegistryInv'
  <2> DEFINE y == [reader[r] EXCEPT !.todo = @ \ {f}]
  <2>1. reader' = [reader EXCEPT ![r] = y] /\ UNCHANGED <<diskVars, cache, daemonVars_>>
    BY <1>5 DEF SkipFile, RegistryInv
  <2>2. RegistryOK(y, frozen, disk, changed) /\ y.at # "saved"
    BY <1>1, <1>5, SkipOK DEF SkipFile
  <2> HIDE DEF y
  <2>3. QED
    BY <2>1, <2>2, ReaderStep
<1>6. ASSUME NEW r \in Readers, NEW f \in Files, ParseFile(r, f)
      PROVE  RegistryInv'
  <2> DEFINE y == [reader[r] EXCEPT !.at = f, !.todo = @ \ {f}, !.component[f] = disk[f]]
  <2>1. reader' = [reader EXCEPT ![r] = y] /\ UNCHANGED <<diskVars, cache, daemonVars_>>
    BY <1>6, Zenon DEF ParseFile
  <2>2. RegistryOK(y, frozen, disk, changed) /\ y.at # "saved"
    BY <1>1, <1>6, ParseOK DEF ParseFile
  <2> HIDE DEF y
  <2>3. QED
    BY <2>1, <2>2, ReaderStep
<1>7. ASSUME NEW r \in Readers, StatFile(r)
      PROVE  RegistryInv'
  <2> DEFINE x == reader[r]
             m == Mtime(x.at)
             y == [x EXCEPT !.at = "reading", !.mtime[x.at] = m]
  <2>1. reader' = [reader EXCEPT ![r] = y] /\ UNCHANGED <<diskVars, cache, daemonVars_>>
    BY <1>7 DEF StatFile, RegistryInv
  <2>2. x.at \in Files /\ m \in Times /\ (~frozen => m = disk[x.at])
    BY <1>1, <1>7, MtimeTyped DEF StatFile
  <2>3. RegistryOK(y, frozen, disk, changed) /\ y.at # "saved"
    <3> HIDE DEF m
    <3> QED BY <1>1, <2>2, StatFileOK
  <2> HIDE DEF y
  <2>4. QED
    BY <2>1, <2>3, ReaderStep
<1>8. ASSUME NEW r \in Readers, NEW k \in {"system", "user"}, Loaded(r),
             cache' = Saved(k, reader[r]), reader' = [reader EXCEPT ![r] = Nothing],
             UNCHANGED diskVars, UNCHANGED <<monitor, since>>,
             service' \in {"off", "ready", service}
      PROVE  RegistryInv'
  <2> DEFINE y == [reader[r] EXCEPT !.at = "saved", !.open = {}]
  <2>2. cache' = [cache EXCEPT ![k] = y]
    BY <1>8 DEF Saved
  <2>8. y = [reader[r] EXCEPT !.at = "saved", !.open = {}]
    OBVIOUS
  <2> HIDE DEF y
  <2>9. RegistryOK(reader[r], frozen, disk, changed) /\ reader[r].at = "reading"
        /\ reader[r].todo = {}
    BY <1>1, <1>8 DEF Loaded
  <2>10. RegistryOK(y, frozen, disk, changed)
    BY <1>1, <2>8, <2>9, SavedOK
  <2>1. RegistryOK(y, frozen, disk, changed) /\ y.at = "saved" /\ y.todo = {}
    BY <2>8, <2>9, <2>10 DEF RegistryOK, RegistryRecords
  <2>3. RegistryOK(Nothing, frozen, disk, changed) /\ Nothing.at # "saved"
    BY <1>1, NothingOK DEF Nothing
  <2>4. y \in RegistryRecords /\ Nothing \in RegistryRecords
    BY <2>1, <2>3 DEF RegistryOK
  <2>5. \A q \in Readers : RegistryOK(reader'[q], frozen, disk, changed) /\ reader'[q].at # "saved"
    BY <1>8, <2>3 DEF RegistryInv
  <2>6. \A j \in {"system", "user"} :
          /\ RegistryOK(cache'[j], frozen, disk, changed)
          /\ cache'[j].at \in {"idle", "saved"} /\ cache'[j].todo = {}
    BY <2>1, <2>2 DEF RegistryInv
  <2>7. QED
    BY <1>8, <2>2, <2>4, <2>5, <2>6 DEF RegistryInv, diskVars
<1>9. CASE WriteCache
  <2>1. PICK k \in DOMAIN cache : cache' = Saved(k, reader["tool"])
    BY <1>9 DEF WriteCache
  <2>2. k \in {"system", "user"} /\ "tool" \in Readers
    BY DEF RegistryInv, Readers
  <2>3. QED
    BY <1>8, <1>9, <2>1, <2>2 DEF WriteCache, daemonVars_
<1>10. ASSUME reader' = [reader EXCEPT !["daemon"] = Nothing] \/ UNCHANGED reader,
              UNCHANGED <<diskVars, cache>>,
              service' \in {"off", "start", "system", "load", "loadonly", "ready", "running"},
              monitor' \in {"off", "on", "event", "timer", "fired"}, since' \in Times
       PROVE  RegistryInv'
  <2>1. RegistryOK(Nothing, frozen, disk, changed) /\ Nothing.at # "saved"
    BY <1>1, NothingOK DEF Nothing
  <2>2. Nothing \in RegistryRecords /\ "daemon" \in Readers
    BY <2>1 DEF RegistryOK, Readers
  <2>3. \A q \in Readers : RegistryOK(reader'[q], frozen, disk, changed) /\ reader'[q].at # "saved"
    BY <1>10, <2>1 DEF RegistryInv
  <2>4. reader' \in [Readers -> RegistryRecords]
    BY <1>10, <2>2 DEF RegistryInv
  <2>5. QED
    BY <1>10, <2>3, <2>4 DEF RegistryInv, diskVars
<1>11. CASE DaemonLoaded
  <2>1. service \in {"load", "loadonly"} /\ Loaded("daemon") /\ "daemon" \in Readers
    BY <1>11 DEF DaemonLoaded, Readers
  <2>2. CASE service = "load"
    BY <1>8, <1>11, <2>1, <2>2 DEF DaemonLoaded
  <2>3. CASE service # "load"
    BY <1>10, <1>11, <2>3 DEF DaemonLoaded, RegistryInv
  <2>4. QED
    BY <2>2, <2>3
<1>12. CASE DaemonStart
  BY <1>10, <1>12 DEF DaemonStart, RegistryInv
<1>13. CASE TryCache
  BY <1>10, <1>13 DEF TryCache, RegistryInv
<1>14. CASE StartMonitorChanges
  BY <1>10, <1>14 DEF StartMonitorChanges, RegistryInv
<1>15. CASE MonitorChanged
  BY <1>10, <1>15 DEF MonitorChanged, TimerStarted, RegistryInv
<1>16. CASE MonitorTimeout
  BY <1>10, <1>16 DEF MonitorTimeout, RegistryInv
<1>17. CASE DaemonEnds
  BY <1>10, <1>17 DEF DaemonEnds, RegistryInv, Times, RegistryAssumption
<1>18. CASE UNCHANGED registryVars
  BY <1>10, <1>18 DEF registryVars, daemonVars_, diskVars, RegistryInv
<1>19. QED
  BY <1>3, <1>4, <1>5, <1>6, <1>7, <1>9, <1>11, <1>12, <1>13, <1>14, <1>15, <1>16, <1>17, <1>18,
     FileStep DEF RegistryNext

LEMMA RegistryInvFresh == RegistryAssumption /\ RegistryInv => CacheIsFresh
<1> SUFFICES ASSUME RegistryAssumption, RegistryInv, NEW k \in {"system", "user"}, Usable(k)
             PROVE  LET x == cache[k]
                    IN IF frozen
                       THEN x.moved \/ x.names = {} \/ {f \in Files : x.component[f] # 0} = Names
                       ELSE \/ x.moved /\ x.names = {}
                            \/ \A f \in Files \ x.unread : x.component[f] = disk[f]
  BY DEF RegistryInv, CacheIsFresh
<1> DEFINE x == cache[k]
<1>1. /\ x \in RegistryRecords /\ x.at = "saved" /\ x.todo = {} /\ x.dir = changed
      /\ AbsentUnparsed(x, frozen, disk, changed) /\ ReadAsDated(x, frozen, disk)
      /\ ParsedAsListed(x)
  BY DEF RegistryInv, RegistryOK, Usable, Unmodified, DirectoryUnmodified
<1>2. /\ x.names = {} \/ x.names = Names
      /\ \A f \in Files : x.component[f] # 0 => x.mtime[f] = Mtime(f)
  BY DEF Usable, Unmodified, DirectoryUnmodified
<1>3. "saved" \notin Files /\ x.names \subseteq Files
  BY <1>1 DEF RegistryAssumption, RegistryRecords
<1> HIDE DEF x
<1>4. CASE frozen
  BY <1>1, <1>2, <1>3, <1>4 DEF ParsedAsListed, x
<1>5. CASE ~frozen
  <2>1. SUFFICES ASSUME ~(x.moved /\ x.names = {}), NEW f \in Files \ x.unread
                 PROVE  x.component[f] = disk[f]
    BY <1>5 DEF x
  <2>2. CASE x.component[f] = 0
    <3>1. disk[f] = 0 \/ (f \notin x.names /\ x.moved)
      BY <1>1, <1>5, <2>2 DEF AbsentUnparsed
    <3>2. f \notin x.names /\ x.moved => disk[f] = 0
      BY <1>2, <2>1 DEF Names
    <3>3. QED
      BY <2>2, <3>1, <3>2
  <2>3. CASE x.component[f] # 0
    BY <1>1, <1>2, <1>3, <1>5, <2>3 DEF ReadAsDated, Mtime
  <2>4. QED
    BY <2>2, <2>3
<1>6. QED
  BY <1>4, <1>5

(* The components, the mtimes and the sets of files of every registry, in  *)
(* memory or in a cache, keep their shape (ibusregistry.c).                *)
THEOREM RegistryTypeCorrect == RegistrySpec => []RegistryTypeOK
<1>1. RegistryInit => RegistryInv
  BY RegistryAssumption, RegistryInitHolds
<1>2. RegistryInv /\ [RegistryNext]_registryVars => RegistryInv'
  BY RegistryAssumption, RegistryStep
<1>3. RegistryInv => RegistryTypeOK
  BY DEF RegistryInv, RegistryTypeOK, RegistryRecords
<1>4. QED
  BY <1>1, <1>2, <1>3, PTL DEF RegistrySpec

(* ibus_registry_check_modification: a cache it accepts says of the files  *)
(* what they are, but for the exceptions that CacheIsFresh names, however  *)
(* the changes of files fall between the steps of those who read them.     *)
THEOREM CachesAreFresh == RegistrySpec => []CacheIsFresh
<1>1. RegistryInit => RegistryInv
  BY RegistryAssumption, RegistryInitHolds
<1>2. RegistryInv /\ [RegistryNext]_registryVars => RegistryInv'
  BY RegistryAssumption, RegistryStep
<1>3. RegistryInv => CacheIsFresh
  BY RegistryAssumption, RegistryInvFresh
<1>4. QED
  BY <1>1, <1>2, <1>3, PTL DEF RegistrySpec
-----------------------------------------------------------------------------
(***************************************************************************)
(* The announcement of a change.  A running daemon whose monitors have not *)
(* noticed anything yet has nothing to notice, and from the event to the   *)
(* timer and from the timer to the signal only its end can come between.   *)
(***************************************************************************)
Watching ==
  /\ clock \in Nat /\ since \in Nat
  /\ service = "running" => monitor \in {"on", "event", "timer", "fired"}
  /\ service = "running" /\ monitor = "on" => clock <= since

LEMMA AlwaysWatching == RegistrySpec => []Watching
<1>1. RegistryInit => Watching
  BY DEF RegistryInit, Watching
<1>2. Watching /\ [RegistryNext]_registryVars => Watching'
  <2> SUFFICES ASSUME Watching, [RegistryNext]_registryVars PROVE Watching'
    OBVIOUS
  <2>1. ASSUME UNCHANGED <<clock, daemonVars_>> PROVE Watching'
    BY <2>1 DEF Watching, daemonVars_
  <2>2. ASSUME NEW f \in Files, FileChanges(f) PROVE Watching'
    BY <2>2 DEF Watching, FileChanges
  <2>3. ASSUME NEW r \in Readers,
               \/ ListDirectory(r) \/ StatDirectory(r) \/ StatFile(r)
               \/ \E f \in Files : SkipFile(r, f) \/ ParseFile(r, f)
        PROVE  Watching'
    BY <2>1, <2>3 DEF ListDirectory, StatDirectory, StatFile, SkipFile, ParseFile, diskVars
  <2>4. CASE WriteCache
    BY <2>1, <2>4 DEF WriteCache, diskVars
  <2>5. CASE DaemonStart \/ TryCache \/ DaemonLoaded \/ StartMonitorChanges
    BY <2>5 DEF Watching, DaemonStart, TryCache, DaemonLoaded, StartMonitorChanges, diskVars
  <2>6. CASE MonitorChanged \/ MonitorTimeout \/ DaemonEnds
    BY <2>6 DEF Watching, MonitorChanged, TimerStarted, MonitorTimeout, DaemonEnds, diskVars
  <2>7. CASE UNCHANGED registryVars
    BY <2>1, <2>7 DEF registryVars, diskVars
  <2> QED BY <2>2, <2>3, <2>4, <2>5, <2>6, <2>7 DEF RegistryNext
<1> QED BY <1>1, <1>2, PTL DEF RegistrySpec

Watched(at) == service = "running" /\ monitor = at
Told == monitor = "fired" \/ service # "running"

LEMMA WatchStep ==
  ASSUME [RegistryNext]_registryVars
  PROVE  /\ Watched("event") => Watched("event")' \/ Watched("timer")' \/ Told'
         /\ Watched("timer") => Watched("timer")' \/ Told'
<1>1. ASSUME UNCHANGED daemonVars_
      PROVE  \A at \in {"event", "timer"} : Watched(at) => Watched(at)'
  BY <1>1 DEF Watched, daemonVars_
<1>2. CASE \E f \in Files : FileChanges(f)
  BY <1>2 DEF Watched, FileChanges
<1>3. ASSUME NEW r \in Readers,
             \/ ListDirectory(r) \/ StatDirectory(r) \/ StatFile(r)
             \/ \E f \in Files : SkipFile(r, f) \/ ParseFile(r, f)
      PROVE  UNCHANGED daemonVars_
  BY <1>3 DEF ListDirectory, StatDirectory, StatFile, SkipFile, ParseFile
<1>4. CASE WriteCache
  BY <1>1, <1>4 DEF WriteCache
<1>5. CASE DaemonStart \/ TryCache \/ DaemonLoaded \/ StartMonitorChanges
  BY <1>5 DEF Watched, Told, DaemonStart, TryCache, DaemonLoaded, StartMonitorChanges
<1>6. CASE MonitorChanged \/ MonitorTimeout \/ DaemonEnds
  BY <1>6 DEF Watched, Told, MonitorChanged, TimerStarted, MonitorTimeout, DaemonEnds
<1>7. CASE UNCHANGED registryVars
  BY <1>1, <1>7 DEF registryVars
<1> QED BY <1>1, <1>2, <1>3, <1>4, <1>5, <1>6, <1>7 DEF RegistryNext

(***************************************************************************)
(* A running daemon announces that component files have changed since it   *)
(* began to watch them (RegistryChanged), for any number of files and of   *)
(* changes, if it does not end first.                                      *)
(***************************************************************************)
THEOREM ChangesAreAnnounced ==
  RegistrySpec /\ RegistryFairness /\ []MonitorsEnabled => ChangeAnnounced
<1> DEFINE Due == service = "running" /\ clock > since
<1>1. Watching => (Due => Watched("event") \/ Watched("timer") \/ Told)
  BY DEF Watching, Watched, Told
<1>2. [RegistryNext]_registryVars =>
        /\ Watched("event") => Watched("event")' \/ Watched("timer")' \/ Told'
        /\ Watched("timer") => Watched("timer")' \/ Told'
  BY WatchStep
<1>3. Watched("event") /\ <<MonitorChanged>>_registryVars => Watched("timer")'
  BY DEF Watched, MonitorChanged, TimerStarted
<1>4. Watched("timer") /\ <<MonitorTimeout>>_registryVars => Told'
  BY DEF Told, MonitorTimeout
<1>5. MonitorsEnabled =>
        /\ Watched("event") => ENABLED <<MonitorChanged>>_registryVars
        /\ Watched("timer") => ENABLED <<MonitorTimeout>>_registryVars
  BY DEF MonitorsEnabled, Watched
<1>6. RegistrySpec /\ RegistryFairness /\ []MonitorsEnabled => (Due ~> Told)
  BY <1>1, <1>2, <1>3, <1>4, <1>5, AlwaysWatching, PTL DEF RegistrySpec, RegistryFairness
<1> QED BY <1>6, PTL DEF ChangeAnnounced, Told
=============================================================================
