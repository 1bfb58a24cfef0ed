---------------------------- MODULE GlobalEngine ----------------------------
(***************************************************************************)
(* Which input context has the focus and which one holds the engine:       *)
(* src/bus/ibusimpl.c and src/bus/inputcontext.c under use_global_engine   *)
(* (always TRUE in this code).                                             *)
(*                                                                         *)
(* The daemon's main loop runs one handler at a time, so a D-Bus call, a   *)
(* reply and a closed connection are each one action here, with every      *)
(* signal handler they run.  What interleaves is the time between a        *)
(* set_engine_by_desc request and the reply of the engine's factory.       *)
(***************************************************************************)
EXTENDS Naturals, SequencesExt

CONSTANTS
  Clients,      \* the input contexts clients create (slots, reused when freed)
  Fake,         \* ibus->fake_context, focused when no client context is
  FakeClients,  \* client contexts whose client name starts with "fake"
  Registry,     \* engines of the component files: ibus->engine_table
  Registrable,  \* engines a component offers with RegisterComponent
  Paths,        \* object paths of engines, reused when nobody holds the engine
  Requests,     \* bounds the set_engine_by_desc requests in flight
  None          \* NULL

Contexts == Clients \cup {Fake}
Names    == Registry \cup Registrable
Engines  == [desc : Names, path : Paths]           \* the engine proxies
Callers  == {"SetGlobalEngine", "check_global_engine"}
Request  == [context : Contexts, name : Names, caller : Callers, lost : BOOLEAN]

ASSUME GlobalEngineAssumption ==
  /\ Fake \notin Clients
  /\ FakeClients \subseteq Clients
  /\ Registry \cap Registrable = {}
  /\ Paths \subseteq Nat
  /\ None \notin Contexts \cup Names \cup Engines \cup Request \cup Requests

VARIABLES
  status,           \* "free": no such context; "zombie": destroyed, but a
                    \*   request in flight still holds a reference
  cap_focus,        \* context->capabilities & IBUS_CAP_FOCUS
  has_focus,        \* context->has_focus
  engine,           \* context->engine
  data,             \* context->data, the request that may still set the engine
  request,          \* the requests in flight (SetEngineByDescData), superseded ones too
  in_focus,         \* the engine proxies with has_focus
  focused_context,
  global_engine_name,
  global_previous_engine_name,
  register_engine_list

contextVars == <<status, cap_focus>>
nameVars    == <<global_engine_name, global_previous_engine_name>>
requestVars == <<request, data>>
vars == <<contextVars, has_focus, engine, in_focus, focused_context, nameVars,
          requestVars, register_engine_list>>

TypeOK ==
  /\ status \in [Contexts -> {"free", "live", "zombie"}]
  /\ cap_focus \in [Contexts -> BOOLEAN]
  /\ has_focus \in [Contexts -> BOOLEAN]
  /\ engine \in [Contexts -> Engines \cup {None}]
  /\ data \in [Contexts -> Requests \cup {None}]
  /\ request \in [Requests -> Request \cup {None}]
  /\ in_focus \subseteq Engines
  /\ focused_context \in Contexts
  /\ global_engine_name \in Names \cup {None}
  /\ global_previous_engine_name \in Names \cup {None}
  /\ register_engine_list \in Seq(Registrable)

Init ==
  /\ status = [c \in Contexts |-> IF c = Fake THEN "live" ELSE "free"]
  /\ cap_focus = [c \in Contexts |-> c = Fake]
  /\ has_focus = [c \in Contexts |-> c = Fake]
  /\ engine = [c \in Contexts |-> None]
  /\ data = [c \in Contexts |-> None]
  /\ request = [r \in Requests |-> None]
  /\ in_focus = {}
  /\ focused_context = Fake
  /\ global_engine_name = None
  /\ global_previous_engine_name = None
  /\ register_engine_list = <<>>

-----------------------------------------------------------------------------
(* Engines and the focus.  F is the set of engines in focus so far in a handler. *)

EngineFocusIn(F, e) == IF e = None THEN F ELSE F \cup {e}

\* MUTANT: unset_engine does not tell the engine that it lost the focus.
KeepFocus(F, e) == F

EngineFocusOut(F, e) == F \ {e}

\* MUTANT: the engine is not detached from the context that loses it.
MovedKeeping(old, new, e) == [engine EXCEPT ![new] = e]

\* MUTANT: an engine taken from a context is not given to the other one.
MovedAway(old, new, e) ==
  [engine EXCEPT ![old] = None, ![new] = IF engine[old] = e THEN None ELSE e]

\* set_engine (old, NULL) and then set_engine (new, e).
Moved(old, new, e) == [engine EXCEPT ![old] = None, ![new] = e]

\* MUTANT: the name is taken again when the same engine comes back.
EngineChangedAlways(e) ==
  /\ global_engine_name' = e.desc
  /\ global_previous_engine_name' = global_engine_name

\* "engine-changed" on the focused context: the global engine follows.
EngineChanged(e) ==
  IF e.desc = global_engine_name
  THEN UNCHANGED nameVars
  ELSE /\ global_engine_name' = e.desc
       /\ global_previous_engine_name' = global_engine_name

(* The focus goes to c, another context than the focused one, and takes the *)
(* engine with it; the engine c may still hold is dropped.  has_focus'[c]. *)
SetFocusedContext(c, F) ==
  LET e == engine[focused_context] IN
  /\ focused_context' = c
  /\ IF e = None
     THEN /\ in_focus' = F
          /\ UNCHANGED <<engine, nameVars>>
     ELSE /\ engine' = Moved(focused_context, c, e)
          /\ in_focus' = EngineFocusIn(EngineFocusOut(EngineFocusOut(F, e), engine[c]), e)
          /\ EngineChanged(e)

\* bus_input_context_focus_in: signals tells whether FOCUS_IN is emitted.
GainFocus(c, signals) ==
  LET F == EngineFocusIn(in_focus, engine[c]) IN
  /\ has_focus' = [has_focus EXCEPT ![c] = TRUE]
  /\ IF signals /\ focused_context # c
     THEN SetFocusedContext(c, F)
     ELSE /\ in_focus' = F
          /\ UNCHANGED <<engine, focused_context, nameVars>>

-----------------------------------------------------------------------------
(* Calls of clients on their contexts. *)

CreateInputContext(c) ==
  /\ status[c] = "free"
  /\ status' = [status EXCEPT ![c] = "live"]
  /\ UNCHANGED <<cap_focus, has_focus, engine, in_focus, focused_context, nameVars,
                 requestVars, register_engine_list>>

FocusIn(c) ==
  /\ status[c] = "live" /\ cap_focus[c] /\ ~has_focus[c]
  /\ GainFocus(c, TRUE)
  /\ UNCHANGED <<contextVars, requestVars, register_engine_list>>

IsFocused(c) == focused_context = c

\* While the panel owns the preedit, ignore_focus_out drops the call: a stutter.
FocusOut(c) ==
  LET F == EngineFocusOut(in_focus, engine[c]) IN
  /\ status[c] = "live" /\ cap_focus[c] /\ has_focus[c]
  /\ has_focus' = [has_focus EXCEPT ![c] = FALSE]
  /\ IF IsFocused(c)
     THEN SetFocusedContext(Fake, F)
     ELSE /\ in_focus' = F
          /\ UNCHANGED <<engine, focused_context, nameVars>>
  /\ UNCHANGED <<contextVars, requestVars, register_engine_list>>

(* A context without IBUS_CAP_FOCUS is taken to have the focus, and emits  *)
(* no FOCUS_IN.                                                            *)
SetCapabilities(c, cap) ==
  /\ status[c] = "live"
  /\ cap_focus' = [cap_focus EXCEPT ![c] = cap]
  /\ IF cap \/ has_focus[c]
     THEN UNCHANGED <<has_focus, engine, in_focus, focused_context, nameVars>>
     ELSE GainFocus(c, FALSE)
  /\ UNCHANGED <<status, requestVars, register_engine_list>>

IsFake(c) == c \in FakeClients \cup {Fake}

\* A key for a context without focus: it grabs the focus.
KeyWithoutFocus(c) ==
  /\ status[c] = "live" /\ ~has_focus[c]
  /\ IsFake(focused_context) \/ ~IsFake(c)
  /\ GainFocus(c, cap_focus[c])
  /\ UNCHANGED <<contextVars, requestVars, register_engine_list>>

(* A key for a context that believes it has the focus, but lost it to      *)
(* another one without a FocusOut: it takes the focus and engine back.     *)
KeyAfterLostFocus(c) ==
  /\ status[c] = "live" /\ has_focus[c] /\ cap_focus[c]
  /\ engine[c] = None /\ ~IsFake(c) /\ focused_context # c
  /\ GainFocus(c, TRUE)
  /\ UNCHANGED <<contextVars, requestVars, register_engine_list>>

ProcessKeyEvent(c) == KeyWithoutFocus(c) \/ KeyAfterLostFocus(c)

InFlight(c) == {r \in Requests : request[r] # None /\ request[r].context = c}

(* Destroy, or the loss of the client's connection.  ibusimpl's handler of *)
(* "destroy" runs before the context's own.  A request in flight keeps the *)
(* object, and context->data, alive.                                       *)
DestroyContext(c) ==
  /\ status[c] = "live"
  /\ status' = [status EXCEPT ![c] = IF InFlight(c) = {} THEN "free" ELSE "zombie"]
  /\ cap_focus' = [cap_focus EXCEPT ![c] = FALSE]
  /\ has_focus' = [has_focus EXCEPT ![c] = FALSE]
  /\ IF IsFocused(c)
     THEN SetFocusedContext(Fake, in_focus)
     ELSE /\ engine' = [engine EXCEPT ![c] = None]
          /\ in_focus' = EngineFocusOut(in_focus, engine[c])
          /\ UNCHANGED <<focused_context, nameVars>>
  /\ UNCHANGED <<requestVars, register_engine_list>>

-----------------------------------------------------------------------------
(* Requests for an engine. *)

Available(n) == n \in Registry \cup ToSet(register_engine_list)

(* context->data is the newest request of the context: the ones before it  *)
(* are cancelled, and finish with an error later.                          *)
SetEngineByDesc(r, c, n, caller, pending) ==
  /\ pending[r] = None
  /\ request' = [pending EXCEPT ![r] = [context |-> c, name |-> n, caller |-> caller,
                                        lost |-> FALSE]]
  /\ data' = [data EXCEPT ![c] = r]

SetGlobalEngine(r, n) ==
  /\ Available(n)
  /\ SetEngineByDesc(r, focused_context, n, "SetGlobalEngine", request)
  /\ UNCHANGED <<contextVars, has_focus, engine, in_focus, focused_context, nameVars,
                 register_engine_list>>

FreshEngines(n) == {e \in Engines : e.desc = n /\ \A c \in Contexts : engine[c] # e}

\* MUTANT: the engine stays on the context that asked for it.
AskingContext(r) == request[r].context

(* Where the engine of a finished request ends up.  SetGlobalEngine's      *)
(* callback moves it to the context focused by now; the default callback,  *)
(* of the requests of check_global_engine, leaves it.                      *)
Destination(r) ==
  IF request[r].caller = "SetGlobalEngine" THEN focused_context ELSE request[r].context

\* The object is freed with its last reference; an engine attached to it leaks.
Finished(r, c, eng) ==
  IF status[c] = "zombie" /\ InFlight(c) = {r} /\ eng[c] = None THEN "free" ELSE status[c]

\* MUTANT: context->data is left pointing at the finished request.
DataKept(r, c) == data

DataCleared(r, c) == [data EXCEPT ![c] = IF data[c] = r THEN None ELSE data[c]]

IsCurrent(r) == data[request[r].context] = r

(* The factory created the engine: new_engine_cb and the caller's callback. *)
(* A request that was cancelled never gets here: its GTask has its          *)
(* cancellable checked when the result is read.                             *)
EngineReady(r) ==
  /\ request[r] # None
  /\ IsCurrent(r) /\ ~request[r].lost /\ Available(request[r].name)
  /\ LET c == request[r].context
         d == Destination(r)
         F == EngineFocusOut(EngineFocusOut(in_focus, engine[c]), engine[d])
     IN \E e \in FreshEngines(request[r].name) :
          /\ \A x \in FreshEngines(request[r].name) : e.path <= x.path
          /\ engine' = Moved(c, d, e)
          /\ in_focus' = IF has_focus[d] THEN EngineFocusIn(F, e) ELSE F
          /\ IF IsFocused(d) THEN EngineChanged(e) ELSE UNCHANGED nameVars
          /\ request' = [request EXCEPT ![r] = None]
          /\ data' = DataCleared(r, c)
          /\ status' = [status EXCEPT ![c] = Finished(r, c, engine')]
  /\ UNCHANGED <<cap_focus, has_focus, focused_context, register_engine_list>>

\* An error, a timeout, or the end of a cancelled request.
EngineFailed(r) ==
  /\ request[r] # None
  /\ LET c == request[r].context
     IN /\ request' = [request EXCEPT ![r] = None]
        /\ data' = DataCleared(r, c)
        /\ status' = [status EXCEPT ![c] = Finished(r, c, engine)]
  /\ UNCHANGED <<cap_focus, has_focus, engine, in_focus, focused_context, nameVars,
                 register_engine_list>>

-----------------------------------------------------------------------------
(* Components come and go. *)

RegisterComponent(n) ==
  /\ n \notin ToSet(register_engine_list)
  /\ register_engine_list' = Append(register_engine_list, n)
  /\ UNCHANGED <<contextVars, has_focus, engine, in_focus, focused_context, nameVars,
                 requestVars>>

HasEngineOf(c, n) == engine[c] # None /\ engine[c].desc = n

Surviving(n) == [c \in Contexts |-> IF HasEngineOf(c, n) THEN None ELSE engine[c]]

\* What the engine of a freed context does to it is undefined: no step.
NoLeak(n) == \A c \in Contexts : HasEngineOf(c, n) => status[c] = "live"

EnginesOf(n) == {e \in Engines : e.desc = n}

\* A component of the registry exits: its engines are destroyed with its connection.
RegistryComponentGone(n) ==
  /\ \E c \in Contexts : HasEngineOf(c, n)
  /\ NoLeak(n)
  /\ engine' = Surviving(n)
  /\ in_focus' = in_focus \ EnginesOf(n)
  /\ UNCHANGED <<contextVars, has_focus, focused_context, nameVars, requestVars,
                 register_engine_list>>

\* The engine check_global_engine switches to when the list of engines becomes ns.
Successor(ns) ==
  IF global_previous_engine_name \in ToSet(ns) THEN global_previous_engine_name ELSE Head(ns)

RequestsLost(n) ==
  [r \in Requests |-> IF request[r] # None /\ request[r].name = n
                      THEN [request[r] EXCEPT !.lost = TRUE] ELSE request[r]]

\* g_list_remove.
Without(n) ==
  RemoveAt(register_engine_list,
           CHOOSE i \in 1..Len(register_engine_list) : register_engine_list[i] = n)

(* What check_global_engine does when n has gone and ns is the list left.  *)
GlobalEngineKept(n, ns) ==
  /\ global_engine_name \in ToSet(ns)
  /\ engine' = Surviving(n)
  /\ in_focus' = in_focus \ EnginesOf(n)
  /\ request' = RequestsLost(n)
  /\ UNCHANGED data

GlobalEngineSwitched(n, ns, r) ==
  /\ global_engine_name \notin ToSet(ns) /\ ns # <<>>
  /\ engine' = Surviving(n)
  /\ in_focus' = in_focus \ EnginesOf(n)
  /\ SetEngineByDesc(r, focused_context, Successor(ns), "check_global_engine",
                     RequestsLost(n))

GlobalEngineUnset(n, ns) ==
  /\ ns = <<>>
  /\ engine' = [Surviving(n) EXCEPT ![focused_context] = None]
  /\ in_focus' = EngineFocusOut(in_focus \ EnginesOf(n), engine[focused_context])
  /\ request' = RequestsLost(n)
  /\ UNCHANGED data

(* A registered component exits: its engines go, its entry goes, and       *)
(* check_global_engine runs.  Successor is never the global engine's name, *)
(* which is not in the list when a successor is looked for.                *)
RegisteredComponentGone(n) ==
  /\ n \in ToSet(register_engine_list)
  /\ NoLeak(n)
  /\ register_engine_list' = Without(n)
  /\ \/ GlobalEngineKept(n, Without(n))
     \/ \E r \in Requests : GlobalEngineSwitched(n, Without(n), r)
     \/ GlobalEngineUnset(n, Without(n))
  /\ UNCHANGED <<contextVars, has_focus, focused_context, nameVars>>

-----------------------------------------------------------------------------
Next ==
  \/ \E c \in Clients : \/ CreateInputContext(c)
                        \/ FocusIn(c)
                        \/ FocusOut(c)
                        \/ \E cap \in BOOLEAN : SetCapabilities(c, cap)
                        \/ ProcessKeyEvent(c)
                        \/ DestroyContext(c)
  \/ \E r \in Requests : \/ \E n \in Names : SetGlobalEngine(r, n)
                         \/ EngineReady(r)
                         \/ EngineFailed(r)
  \/ \E n \in Registrable : RegisterComponent(n) \/ RegisteredComponentGone(n)
  \/ \E n \in Registry : RegistryComponentGone(n)

\* CreateEngine and the wait for a factory both time out: every request ends.
Fairness == \A r \in Requests : WF_vars(EngineReady(r) \/ EngineFailed(r))

Spec     == Init /\ [][Next]_vars
FairSpec == Spec /\ Fairness

-----------------------------------------------------------------------------
(***************************************************************************)
(* An engine proxy is attached to one context at most: its signals are     *)
(* never delivered twice, through focus moves, replies and destroys.       *)
(***************************************************************************)
ExclusiveEngine ==
  \A c, d \in Contexts : engine[c] # None /\ engine[c] = engine[d] => c = d

(***************************************************************************)
(* The focus the engine process was told of is the focus of the context    *)
(* that holds it, and a detached engine was told FocusOut: the next        *)
(* FocusIn has its effect.  (The comment of unset_engine.)                 *)
(***************************************************************************)
EngineFocus == in_focus = {engine[c] : c \in {x \in Contexts : has_focus[x]}} \ {None}

(***************************************************************************)
(* ibus->focused_context is a context that exists and has the focus, and   *)
(* a context that does not exist any more never has it.                    *)
(***************************************************************************)
FocusedOwner ==
  /\ status[Fake] = "live"
  /\ has_focus[Fake]
  /\ has_focus[focused_context]
  /\ \A c \in Contexts : has_focus[c] => status[c] = "live"

(***************************************************************************)
(* There is one focus: that of a context that exists, and of its engine.   *)
(***************************************************************************)
FocusAgrees == FocusedOwner /\ EngineFocus

(***************************************************************************)
(* context->data never points at a request that is already freed, nor at   *)
(* another context's: the g_assert of set_engine_by_desc, and the use of   *)
(* data->context in new_engine_cb.                                         *)
(***************************************************************************)
PendingData ==
  \A c \in Contexts : data[c] # None => /\ request[data[c]] # None
                                        /\ request[data[c]].context = c

(***************************************************************************)
(* A request in flight keeps the object of its context: what new_engine_cb *)
(* finds in data->context is that context, destroyed or not.               *)
(***************************************************************************)
ContextsHeld ==
  \A r \in Requests : request[r] # None => status[request[r].context] # "free"

(***************************************************************************)
(* The previous engine is another engine: check_global_engine never asks   *)
(* for the engine that has just gone, which it would only "enable".        *)
(***************************************************************************)
PreviousDiffers ==
  global_previous_engine_name # None => global_previous_engine_name # global_engine_name

(***************************************************************************)
(* What contexts, requests and the service have noted of each other and of *)
(* earlier engines is never stale: no pointer to a request or a context    *)
(* that is freed, no engine that has just gone.                            *)
(***************************************************************************)
RecordsCurrent == PendingData /\ ContextsHeld /\ PreviousDiffers

(***************************************************************************)
(* However the focus moves, the engine of the old context is the engine of *)
(* the new one: a user's engine survives FocusIn before FocusOut, keys of  *)
(* a context without focus, and the death of the focused context.          *)
(***************************************************************************)
HandOver ==
  [][ focused_context' # focused_context /\ engine[focused_context] # None
        => engine'[focused_context'] = engine[focused_context] ]_vars

(***************************************************************************)
(* When SetGlobalEngine succeeds, GlobalEngine returns the engine asked    *)
(* for, wherever the focus went meanwhile.  (_ibus_set_global_engine_ready_cb) *)
(***************************************************************************)
SetGlobalEngineAnswer ==
  [][ \A r \in Requests :
        /\ request[r] # None /\ request[r].caller = "SetGlobalEngine"
        /\ request'[r] = None /\ engine' # engine
        => /\ engine'[focused_context] # None
           /\ engine'[focused_context].desc = request[r].name
           /\ global_engine_name' = request[r].name ]_vars

(***************************************************************************)
(* An engine comes to a context that is destroyed in one way only: a       *)
(* switch of check_global_engine asked for it before, and its answer comes *)
(* now.  No SetGlobalEngine, whose answer may come when its context and    *)
(* the focus are gone, no move of the focus and no loss leaves one there.  *)
(***************************************************************************)
Orphan(c) == engine[c] # None /\ status[c] # "live"

OrphansBySwitch ==
  [][ \A c \in Contexts :
        Orphan(c)' /\ ~Orphan(c)
        => \E r \in Requests :
             /\ request[r] # None /\ request'[r] = None
             /\ request[r].caller = "check_global_engine"
             /\ request[r].context = c ]_vars

-----------------------------------------------------------------------------
(* What comments and assertions of the source say and the code does not do. *)

(***************************************************************************)
(* ibusimpl.c:1034: check_global_engine changes the engine of the focused  *)
(* context, "which will then change the global engine automatically".      *)
(***************************************************************************)
SwitchChangesGlobalEngine ==
  [][ \A r \in Requests :
        /\ request[r] # None /\ request[r].caller = "check_global_engine"
        /\ request'[r] = None /\ engine' # engine
        => /\ engine'[focused_context] # None
           /\ engine'[focused_context].desc = request[r].name
           /\ global_engine_name' = request[r].name ]_vars

(***************************************************************************)
(* inputcontext.c:2600: the context an engine reports to is an object,     *)
(* g_assert (BUS_IS_INPUT_CONTEXT (context)).                              *)
(***************************************************************************)
EngineOfLiveContext == \A c \in Contexts : ~Orphan(c)

(***************************************************************************)
(* ibusimpl.c:1059: "The current global engine is not removed, so do       *)
(* nothing": a registered component that goes away changes nothing, and    *)
(* asks for nothing, while the engine in use still has its component.      *)
(***************************************************************************)
KeepsGlobalEngine ==
  [][ /\ Len(register_engine_list') < Len(register_engine_list)
      /\ engine[focused_context] # None
      /\ engine[focused_context].desc \in Registry \cup ToSet(register_engine_list')
      => /\ engine'[focused_context] = engine[focused_context]
         /\ \A r \in Requests : request[r] = None => request'[r] = None ]_vars

=============================================================================
