--------------------------- MODULE EngineRequest ---------------------------
(***************************************************************************)
(* From an engine's description to its proxy: the processes of components  *)
(* (src/bus/component.c), their factories (src/bus/factoryproxy.c, and     *)
(* bus_ibus_impl_component_name_owner_changed of src/bus/ibusimpl.c) and   *)
(* the asynchronous bus_engine_proxy_new (src/bus/engineproxy.c).          *)
(*                                                                         *)
(* A process that ends is seen twice, in either order: by the child watch  *)
(* and as a closed connection.  A closed connection too is seen twice: by  *)
(* GDBus's thread, which every attempt to use the connection notices, and  *)
(* later by the handlers of "closed" on the main loop.                     *)
(***************************************************************************)
EXTENDS Naturals, SequencesExt

CONSTANTS
  Components,
  Restarting,  \* components started with bus_component_set_restart (panel, config)
  Engines,     \* components with engines
  Procs,       \* processes (slots, reused)
  Requests,    \* bounds the calls of bus_engine_proxy_new in progress
  None

\* struct EngineProxyNewData
Fields == [component : Components,
           handler   : BOOLEAN,   \* notify_factory_cb and cancelled_cb are connected
           timer     : BOOLEAN,   \* timeout_cb will run
           call      : Procs \cup {None},        \* who got the CreateEngine
           reply     : BOOLEAN,   \* its reply waits to be handled
           cancelled : BOOLEAN]

ASSUME EngineRequestAssumption ==
  /\ Restarting \subseteq Components
  /\ Engines \subseteq Components
  /\ None \notin Components \cup Procs \cup Fields

VARIABLES
  exe,      \* the component a process belongs to
  proc,     \* "running"; "exited": the child watch has still to run; "gone"
  conn,     \* its connection: "none"; "open"; "closed": the handlers of
            \*   "closed" have still to run; "dead": they ran
  private,  \* the processes whose connection->names has their component's name
  queue,    \* the owners of a component's name, the primary one first
  pid,      \* component->pid
  factory,  \* component->factory: the process it speaks to
  request,  \* EngineProxyNewData
  idles,    \* requests whose cancelled_idle_cb is queued
  result,   \* what the callback of a request got
  crashed   \* the daemon has crashed

procVars    == <<exe, proc, conn>>
nameVars    == <<private, queue>>
requestVars == <<request, idles, result, crashed>>
vars == <<procVars, nameVars, pid, factory, requestVars>>

Results == {"engine", "error"}

Data == {d \in Fields : d.handler = d.timer}

TypeOK ==
  /\ exe \in [Procs -> Components \cup {None}]
  /\ proc \in [Procs -> {"gone", "running", "exited"}]
  /\ conn \in [Procs -> {"none", "open", "closed", "dead"}]
  /\ private \subseteq Procs
  /\ queue \in [Components -> Seq(Procs)]
  /\ pid \in [Components -> Procs \cup {None}]
  /\ factory \in [Components -> Procs \cup {None}]
  /\ request \in [Requests -> Data \cup {None}]
  /\ idles \subseteq Requests
  /\ result \in [Requests -> Results \cup {"none"}]
  /\ crashed \in BOOLEAN

Init ==
  /\ exe = [p \in Procs |-> None]
  /\ proc = [p \in Procs |-> "gone"]
  /\ conn = [p \in Procs |-> "none"]
  /\ private = {}
  /\ queue = [c \in Components |-> <<>>]
  /\ pid = [c \in Components |-> None]
  /\ factory = [c \in Components |-> None]
  /\ request = [r \in Requests |-> None]
  /\ idles = {}
  /\ result = [r \in Requests |-> "none"]
  /\ crashed = FALSE

-----------------------------------------------------------------------------
(* Processes. *)

Free(p) ==
  /\ proc[p] = "gone" /\ conn[p] = "none"
  /\ \A r \in Requests : request[r] # None => request[r].call # p

Run(p, c) ==
  /\ exe' = [exe EXCEPT ![p] = c]
  /\ proc' = [proc EXCEPT ![p] = "running"]

\* MUTANT: the child that is still there is not looked at.
NoChild(c) == TRUE

HasNoChild(c) == pid[c] = None

\* bus_component_start; exec may fail.
Start(c) ==
  \/ HasNoChild(c) /\ \E p \in Procs : Free(p) /\ Run(p, c) /\ pid' = [pid EXCEPT ![c] = p]
  \/ UNCHANGED <<exe, proc, pid>>

\* The daemon's own start of a component: main.c, preload engines, StartServiceByName.
StartComponent(c) ==
  /\ HasNoChild(c) /\ Start(c)
  /\ UNCHANGED <<conn, nameVars, factory, requestVars>>

\* Somebody else runs the program of the component.
RunByHand(p, c) ==
  /\ Free(p) /\ Run(p, c)
  /\ UNCHANGED <<conn, nameVars, pid, factory, requestVars>>

IsChild(p) == pid[exe[p]] = p

Exit(p) ==
  /\ proc[p] = "running"
  /\ proc' = [proc EXCEPT ![p] = IF IsChild(p) THEN "exited" ELSE "gone"]
  /\ conn' = [conn EXCEPT ![p] = IF conn[p] = "open" THEN "closed" ELSE conn[p]]
  /\ UNCHANGED <<exe, nameVars, pid, factory, requestVars>>

\* bus_component_child_cb
ChildExited(c) ==
  /\ pid[c] # None /\ proc[pid[c]] = "exited"
  /\ \/ /\ c \in Restarting
        /\ \E p \in Procs : /\ Free(p)
                            /\ exe' = [exe EXCEPT ![p] = c]
                            /\ proc' = [proc EXCEPT ![pid[c]] = "gone", ![p] = "running"]
                            /\ pid' = [pid EXCEPT ![c] = p]
     \/ /\ proc' = [proc EXCEPT ![pid[c]] = "gone"]
        /\ pid' = [pid EXCEPT ![c] = None]
        /\ UNCHANGED exe
  /\ UNCHANGED <<conn, nameVars, factory, requestVars>>

-----------------------------------------------------------------------------
(* Factories. *)

Waiting(r) == request[r] # None /\ request[r].handler

(* "notify::factory": with a factory, every request that waits for one     *)
(* drops its handlers and its timer and calls CreateEngine.                *)
Notified(c, f) ==
  [r \in Requests |->
     IF f # None /\ Waiting(r) /\ request[r].component = c
     THEN [request[r] EXCEPT !.handler = FALSE, !.timer = FALSE, !.call = f]
     ELSE request[r]]

SetFactory(c, f) ==
  /\ factory' = [factory EXCEPT ![c] = f]
  /\ request' = Notified(c, f)

\* No proxy is made over a connection that is closed (ibus_proxy_init_finish).
Proxy(p) == IF conn[p] = "open" THEN p ELSE None

\* A process asks for its component's name, with no flags, and gets it or waits.
AcquireName(p) ==
  LET c == exe[p] IN
  /\ proc[p] = "running" /\ conn[p] = "none"
  /\ conn' = [conn EXCEPT ![p] = "open"]
  /\ queue' = [queue EXCEPT ![c] = Append(@, p)]
  /\ IF queue[c] = <<>>
     THEN SetFactory(c, p) /\ private' = private \cup {p}
     ELSE UNCHANGED <<factory, request, private>>
  /\ UNCHANGED <<exe, proc, pid, idles, result, crashed>>

\* MUTANT: the factory of the component survives its connection.
FactoryKept(c, p) == UNCHANGED <<factory, request>>

\* The proxy of a factory sees its connection close.
FactoryDestroyed(c, p) ==
  IF factory[c] = p THEN SetFactory(c, None) ELSE UNCHANGED <<factory, request>>

(* The handlers of "closed" run.  The name of the component goes to the    *)
(* next owner, unless the private list of the connection does not have it. *)
ConnectionClosed(p) ==
  LET c == exe[p]
      next == Tail(queue[c])
  IN /\ conn[p] = "closed"
     /\ IF p \in private
        THEN /\ conn' = [conn EXCEPT ![p] = "none"]
             /\ private' = private \ {p}
             /\ queue' = [queue EXCEPT ![c] = next]
             /\ SetFactory(c, IF next = <<>> THEN None ELSE Proxy(Head(next)))
        ELSE /\ conn' = [conn EXCEPT ![p] = "dead"]
             /\ FactoryDestroyed(c, p)
             /\ UNCHANGED nameVars
     /\ UNCHANGED <<exe, proc, pid, idles, result, crashed>>

-----------------------------------------------------------------------------
(* Requests. *)

Called(c, p) == [component |-> c, handler |-> FALSE, timer |-> FALSE, call |-> p,
                 reply |-> FALSE, cancelled |-> FALSE]

\* MUTANT: no timer for the wait.
WaitsForever(c) == [component |-> c, handler |-> TRUE, timer |-> FALSE, call |-> None,
                    reply |-> FALSE, cancelled |-> FALSE]

Waits(c) == [component |-> c, handler |-> TRUE, timer |-> TRUE, call |-> None,
             reply |-> FALSE, cancelled |-> FALSE]

\* bus_engine_proxy_new
NewRequest(r, c) ==
  /\ request[r] = None /\ r \notin idles
  /\ result' = [result EXCEPT ![r] = "none"]
  /\ IF factory[c] # None
     THEN /\ request' = [request EXCEPT ![r] = Called(c, factory[c])]
          /\ UNCHANGED <<exe, proc, pid>>
     ELSE /\ request' = [request EXCEPT ![r] = Waits(c)]
          /\ Start(c)
  /\ UNCHANGED <<conn, nameVars, factory, idles, crashed>>

\* The answer is given and the data is freed.
Answer(r, x) ==
  /\ request' = [request EXCEPT ![r] = None]
  /\ result' = [result EXCEPT ![r] = x]
  /\ UNCHANGED <<procVars, nameVars, pid, factory, crashed>>

\* timeout_cb
Timeout(r) ==
  /\ request[r] # None /\ request[r].timer
  /\ Answer(r, "error")
  /\ UNCHANGED idles

\* MUTANT: the timer and the handler of "notify::factory" stay connected.
CancelledOnly(d) == [d EXCEPT !.cancelled = TRUE]

\* cancelled_cb
Disconnected(d) == [d EXCEPT !.cancelled = TRUE, !.handler = FALSE, !.timer = FALSE]

(* Somebody cancels the request.  While it waits, cancelled_cb leaves the  *)
(* rest to an idle callback; a CreateEngine call ends with an error.       *)
Cancel(r) ==
  /\ request[r] # None /\ ~request[r].cancelled
  /\ request' = [request EXCEPT ![r] = Disconnected(@)]
  /\ idles' = IF Waiting(r) THEN idles \cup {r} ELSE idles
  /\ UNCHANGED <<procVars, nameVars, pid, factory, result, crashed>>

CancelledIdle(r) ==
  /\ r \in idles
  /\ idles' = idles \ {r}
  /\ Answer(r, "error")

Calling(r) == request[r] # None /\ request[r].call # None

\* The factory in the component's process creates the engine.
CreateEngine(r) ==
  /\ Calling(r) /\ ~request[r].reply
  /\ conn[request[r].call] = "open"
  /\ request' = [request EXCEPT ![r].reply = TRUE]
  /\ UNCHANGED <<procVars, nameVars, pid, factory, idles, result, crashed>>

\* MUTANT: the cancellable is not looked at when the reply is taken.
ProxyResult(r) == "engine"

\* The reply of a call that was cancelled is taken as an error.
ReadyResult(r) == IF request[r].cancelled THEN "error" ELSE "engine"

(* bus_engine_proxy_new_internal uses what g_initable_new returned: no     *)
(* proxy, if the connection closed after the reply.  The daemon is gone,   *)
(* and with it all the requests that it had.                               *)
Crash ==
  /\ crashed' = TRUE
  /\ request' = [r \in Requests |-> None]
  /\ idles' = {}
  /\ UNCHANGED <<procVars, nameVars, pid, factory, result>>

\* create_engine_ready_cb, with a reply.
CreateEngineReady(r) ==
  /\ Calling(r) /\ request[r].reply
  /\ IF request[r].cancelled \/ Proxy(request[r].call) # None
     THEN Answer(r, ReadyResult(r)) /\ UNCHANGED idles
     ELSE Crash

\* create_engine_ready_cb, with an error of the factory, a timeout, a
\* cancelled call or a closed connection.
CreateEngineFailed(r) ==
  /\ Calling(r) /\ ~request[r].reply
  /\ Answer(r, "error")
  /\ UNCHANGED idles

-----------------------------------------------------------------------------
\* What the daemon and the components do, until the daemon crashes.
Next ==
  /\ ~crashed
  /\ \/ \E c \in Components : \/ StartComponent(c)
                              \/ ChildExited(c)
                              \/ \E p \in Procs : RunByHand(p, c)
     \/ \E p \in Procs : Exit(p) \/ AcquireName(p) \/ ConnectionClosed(p)
     \/ \E r \in Requests : \/ \E c \in Engines : NewRequest(r, c)
                            \/ Timeout(r)
                            \/ Cancel(r)
                            \/ CancelledIdle(r)
                            \/ CreateEngine(r)
                            \/ CreateEngineReady(r)
                            \/ CreateEngineFailed(r)

Spec == Init /\ [][Next]_vars

(* Timers fire and queued callbacks run; a D-Bus call has a timeout too.   *)
RequestFairness(r) ==
  /\ WF_vars(Timeout(r))
  /\ WF_vars(CancelledIdle(r))
  /\ WF_vars(CreateEngineReady(r) \/ CreateEngineFailed(r))

Fairness == \A r \in Requests : RequestFairness(r)

FairSpec == Spec /\ Fairness

-----------------------------------------------------------------------------
(***************************************************************************)
(* A request waits only while its component has no factory: no             *)
(* "notify::factory" passes it by, however processes come and go.          *)
(***************************************************************************)
WaitingHasNoFactory ==
  \A r \in Requests : Waiting(r) => factory[request[r].component] = None

(***************************************************************************)
(* The factory of a component speaks to the owner of the component's bus   *)
(* name, and its connection's closing has not been handled.                *)
(***************************************************************************)
FactoryIsOwner ==
  \A c \in Components : factory[c] # None =>
    /\ queue[c] # <<>> /\ factory[c] = Head(queue[c])
    /\ conn[factory[c]] \in {"open", "closed"}

(***************************************************************************)
(* The daemon never runs two processes of a component: restarts, requests  *)
(* and StartServiceByName share the one child it watches.                  *)
(***************************************************************************)
OneChild ==
  [][ \A c \in Components : pid'[c] # pid[c] /\ pid[c] # None
        => proc[pid[c]] # "running" ]_vars

(***************************************************************************)
(* "From now on only cancelled_idle_cb() may complete the task and free    *)
(* data" (cancelled_cb): its data is there when it runs, and nothing else  *)
(* can still free it.                                                      *)
(***************************************************************************)
IdleOwnsData ==
  \A r \in idles : /\ request[r] # None
                   /\ ~request[r].handler /\ ~request[r].timer
                   /\ request[r].call = None

(***************************************************************************)
(* Between two events a request has what will wake it up, and only that:   *)
(* the factory or the timer, the idle callback, or the CreateEngine call.  *)
(***************************************************************************)
RequestsKept ==
  /\ WaitingHasNoFactory /\ IdleOwnsData
  /\ \A r \in Requests : request[r] # None => Waiting(r) \/ r \in idles \/ Calling(r)

(***************************************************************************)
(* What wakes a request up can happen: the timer of one that waits, the    *)
(* idle callback of one cancelled before it was called, the end of a call. *)
(***************************************************************************)
WakersEnabled ==
  \A r \in Requests :
    /\ Waiting(r) => ENABLED <<Timeout(r)>>_vars
    /\ r \in idles => ENABLED <<CancelledIdle(r)>>_vars
    /\ Calling(r) => ENABLED <<CreateEngineReady(r) \/ CreateEngineFailed(r)>>_vars

(***************************************************************************)
(* Every request is answered exactly once, whatever happens to processes,  *)
(* connections, timers and cancellations, and a cancelled one with an      *)
(* error; or the daemon crashes, over a request that was not cancelled.    *)
(***************************************************************************)
Task == INSTANCE AsyncRequest WITH
          pending   <- {r \in Requests : request[r] # None},
          cancelled <- {r \in Requests : request[r] # None /\ request[r].cancelled}

AnsweredOnce == Task!Spec

-----------------------------------------------------------------------------
(* What an assertion of the source says and the code does not keep.        *)

(***************************************************************************)
(* "g_assert (BUS_IS_ENGINE_PROXY (engine))", engineproxy.c:1386: what     *)
(* bus_engine_proxy_new_internal makes of a reply is an engine proxy, and  *)
(* the daemon does not end there.                                          *)
(***************************************************************************)
EngineIsProxy == ~crashed

=============================================================================
