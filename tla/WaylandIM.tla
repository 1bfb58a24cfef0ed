----------------------------- MODULE WaylandIM -----------------------------
(***************************************************************************)
(* The input method of a Wayland compositor                                *)
(* (src/client/wayland/ibuswaylandim.c): it makes an input context         *)
(* whenever a text input gets active, sends it the keys of the grabbed     *)
(* keyboard, and repeats them itself with two timers.  The answer to       *)
(* CreateInputContext, the timers and the events of the compositor reach   *)
(* one main loop in any order; in the hybrid mode a key is awaited in a    *)
(* main loop nested in the handler, where no source under dispatch is      *)
(* dispatched again.                                                       *)
(*                                                                         *)
(* One seat with version 2 of the protocol.  A context has the number of   *)
(* the request that makes it, which stands for its object path.  The       *)
(* synchronous and the asynchronous mode are one here: what becomes of a   *)
(* key, the virtual keyboard and the preedit text are left out.  Whether a *)
(* press is repeated at all is left open: it also depends on dead keys and *)
(* on the level modifiers.  So is whether a press or a release has one of  *)
(* the syms of IBUS_COMPOSE_IGNORE_KEYLIST, or none: the sym depends on    *)
(* the modifiers of the moment, not on the key alone.                      *)
(***************************************************************************)
EXTENDS Integers, FiniteSets, Sequences

CONSTANTS
  MaxContexts,  \* bound: the requests for a context
  MaxDepth,     \* bound: the nested main loops
  MaxSources,   \* bound: the timers
  WaylandKeys,  \* the keys of the keyboard
  NoContext     \* NULL

ContextIds == 1..MaxContexts
Optional(S) == S \cup {NoContext}

ASSUME WaylandAssumption ==
  /\ MaxContexts \in Nat /\ MaxDepth \in Nat /\ MaxSources \in Nat
  /\ NoContext \notin Nat \cup WaylandKeys

VARIABLES
  hybrid,       \* _use_sync_mode is 2
  seat,         \* priv->seat; bound: it has its input_method_v2
  ibuscontext, cancellable,
  creations,    \* of each request; "in", "out": the context and its last FocusIn/FocusOut
  cancelled,    \* the requests whose cancellable was cancelled
  down,         \* the context in which the press of a key that is down was handled
  repeating,    \* repeating_event; delay, rate: count_cb_id, repeat_rate_id
  sources,      \* the timers of the main loop
  stack,        \* the sources whose handlers run nested main loops, the key each awaits
  slipped,      \* history: a callback reset the cancellable of another request
  missed        \* history: the key that repeats was released with a sym that is ignored

contextVars == <<seat, ibuscontext, cancellable, creations, cancelled, slipped>>
repeatVars == <<repeating, sources, missed>>
waylandVars == <<hybrid, contextVars, down, repeatVars, stack>>

Compositor == [kind |-> "compositor", id |-> 0]  \* the source of the compositor's events
Timers == [kind : {"delay", "rate"}, id : 1..MaxSources]

WaylandTypeOK ==
  /\ hybrid \in BOOLEAN
  /\ seat \in [bound : BOOLEAN, active : BOOLEAN, activate : BOOLEAN, deactivate : BOOLEAN]
  /\ ibuscontext \in Optional(ContextIds) /\ cancellable \in Optional(ContextIds)
  /\ creations \in [ContextIds -> {"unused", "running", "failed", "in", "out"}]
  /\ cancelled \subseteq ContextIds
  /\ down \in [WaylandKeys -> Optional(ContextIds)]
  /\ repeating \in [key : Optional(WaylandKeys), count : 0..1, path : Optional(ContextIds),
                    delay : 0..MaxSources, rate : 0..MaxSources]
  /\ sources \subseteq Timers
  /\ stack \in Seq(Timers \cup {Compositor})
  /\ slipped \in BOOLEAN /\ missed \in BOOLEAN

WaylandInit ==
  /\ hybrid \in BOOLEAN
  /\ seat = [bound |-> TRUE, active |-> FALSE, activate |-> FALSE, deactivate |-> FALSE]
  /\ ibuscontext = NoContext /\ cancellable = NoContext
  /\ creations = [c \in ContextIds |-> "unused"] /\ cancelled = {}
  /\ down = [k \in WaylandKeys |-> NoContext]
  /\ repeating = [key |-> NoContext, count |-> 0, path |-> NoContext, delay |-> 0, rate |-> 0]
  /\ sources = {} /\ stack = <<>> /\ slipped = FALSE /\ missed = FALSE

-----------------------------------------------------------------------------
(* The main loop: no source is dispatched again while its handler runs. *)

Dispatched(s) == \E i \in DOMAIN stack : stack[i] = s

\* GLib does not use the number of a source twice.
FreeIds ==
  1..MaxSources \ ({s.id : s \in sources} \cup {stack[i].id : i \in DOMAIN stack})

NewId == CHOOSE i \in FreeIds : TRUE

\* Each handler of a delay will start a timer.
RoomForTimer ==
  Cardinality(FreeIds) > Cardinality({i \in DOMAIN stack : stack[i].kind = "delay"})

SourcesWithout(ids) == {s \in sources : s.id \notin ids}

(* The key of the event goes to the daemon; the hybrid mode awaits the     *)
(* answer within the handler of the source.                                *)
SendKeyFrom(s) ==
  IF hybrid THEN Len(stack) < MaxDepth /\ stack' = Append(stack, s) ELSE UNCHANGED stack

-----------------------------------------------------------------------------
(* Text inputs come and go. *)

\* The request made last
Latest(c) ==
  /\ creations[c] # "unused"
  /\ \A later \in (c + 1)..MaxContexts : creations[later] = "unused"

IsNew(c) ==
  /\ creations[c] = "unused"
  /\ \A earlier \in 1..(c - 1) : creations[earlier] # "unused"

Cancelling == cancelled \cup ({cancellable} \ {NoContext})

LeftContext(c) == IF c = ibuscontext THEN "out" ELSE creations[c]

\* MUTANT: a request under way is not cancelled.
InputMethodDeactivateAlone ==
  /\ cancellable' = NoContext /\ ibuscontext' = NoContext
  /\ creations' = [c \in ContextIds |-> LeftContext(c)]
  /\ down' = [k \in WaylandKeys |-> NoContext]
  /\ UNCHANGED cancelled

\* input_method_deactivate: the keyboard is no more grabbed.
InputMethodDeactivate ==
  /\ cancelled' = Cancelling
  /\ cancellable' = NoContext /\ ibuscontext' = NoContext
  /\ creations' = [c \in ContextIds |-> LeftContext(c)]
  /\ down' = [k \in WaylandKeys |-> NoContext]

\* input_method_activate: a context that is there is left first.
InputMethodActivate(new) ==
  /\ IsNew(new)
  /\ cancelled' = IF ibuscontext = NoContext THEN cancelled ELSE Cancelling
  /\ cancellable' = new /\ ibuscontext' = NoContext
  /\ creations' = [c \in ContextIds |-> IF c = new THEN "running" ELSE LeftContext(c)]
  /\ down' = [k \in WaylandKeys |-> NoContext]

InputMethodActivateV2 ==
  /\ seat.bound /\ ~Dispatched(Compositor)
  /\ seat' = [seat EXCEPT !.activate = TRUE]
  /\ UNCHANGED <<hybrid, ibuscontext, cancellable, creations, cancelled, slipped, down, repeatVars, stack>>

InputMethodDeactivateV2 ==
  /\ seat.bound /\ ~Dispatched(Compositor)
  /\ seat' = [seat EXCEPT !.deactivate = TRUE]
  /\ UNCHANGED <<hybrid, ibuscontext, cancellable, creations, cancelled, slipped, down, repeatVars, stack>>

\* input_method_done_v2: the events since the last one take effect.
InputMethodDoneV2 ==
  /\ seat.bound /\ ~Dispatched(Compositor)
  /\ \/ /\ seat.activate /\ ~seat.active
        /\ seat' = [seat EXCEPT !.active = TRUE, !.activate = FALSE, !.deactivate = FALSE]
        /\ \E new \in ContextIds : InputMethodActivate(new)
     \/ /\ seat.deactivate /\ seat.active
        /\ seat' = [seat EXCEPT !.active = FALSE, !.activate = FALSE, !.deactivate = FALSE]
        /\ InputMethodDeactivate
     \/ /\ IF seat.active THEN ~seat.deactivate ELSE ~seat.activate
        /\ seat' = [seat EXCEPT !.activate = FALSE, !.deactivate = FALSE]
        /\ UNCHANGED <<ibuscontext, cancellable, creations, cancelled, down>>
  /\ UNCHANGED <<hybrid, slipped, repeatVars, stack>>

\* input_method_unavailable_v2
InputMethodUnavailableV2 ==
  /\ seat.bound /\ ~Dispatched(Compositor)
  /\ seat' = [seat EXCEPT !.bound = FALSE, !.active = FALSE]
  /\ IF seat.active
     THEN InputMethodDeactivate
     ELSE UNCHANGED <<ibuscontext, cancellable, creations, cancelled, down>>
  /\ UNCHANGED <<hybrid, slipped, repeatVars, stack>>

(* _create_input_context_done: a cancelled request always fails, and the   *)
(* callback resets whatever cancellable there is.                          *)
CreateInputContextDone(c) ==
  /\ creations[c] = "running"
  /\ cancellable' = NoContext
  /\ slipped' = (slipped \/ cancellable \notin {c, NoContext})
  /\ \/ /\ c \notin cancelled
        /\ creations' = [creations EXCEPT ![c] = "in"]
        /\ ibuscontext' = c
     \/ /\ creations' = [creations EXCEPT ![c] = "failed"]
        /\ UNCHANGED ibuscontext
  /\ UNCHANGED <<hybrid, seat, cancelled, down, repeatVars, stack>>

-----------------------------------------------------------------------------
(* The keys, and their repetition. *)

\* MUTANT: the path of the context is kept.
StopRepeatingKeepsPath ==
  /\ sources' = SourcesWithout({repeating.delay, repeating.rate})
  /\ repeating' = [repeating EXCEPT !.delay = 0, !.rate = 0]
  /\ missed' = FALSE

\* key_event_check_repeat of a release, and the first half of that of a press
StopRepeating ==
  /\ sources' = SourcesWithout({repeating.delay, repeating.rate})
  /\ repeating' = [repeating EXCEPT !.delay = 0, !.rate = 0, !.path = NoContext]
  /\ missed' = FALSE

StartRepeating(k) ==
  /\ sources' = SourcesWithout({repeating.delay, repeating.rate})
                  \cup {[kind |-> "delay", id |-> NewId]}
  /\ repeating' = [key |-> k, count |-> 0, path |-> ibuscontext, delay |-> NewId, rate |-> 0]
  /\ missed' = FALSE

\* key_event_check_repeat of a release whose sym is ignored: the repetition goes on.
ReleaseIgnored(k) ==
  /\ missed' = (missed \/ k = repeating.key)
  /\ UNCHANGED <<repeating, sources>>

\* input_method_keyboard_key; a key without a context is only passed on.
KeyPressed(k) ==
  /\ seat.active /\ ibuscontext # NoContext /\ ~Dispatched(Compositor)
  /\ down[k] = NoContext /\ RoomForTimer
  /\ down' = [down EXCEPT ![k] = ibuscontext]
  /\ UNCHANGED repeatVars \/ StopRepeating \/ StartRepeating(k)
  /\ SendKeyFrom(Compositor)
  /\ UNCHANGED <<hybrid, contextVars>>

KeyReleased(k) ==
  /\ seat.active /\ ibuscontext # NoContext /\ ~Dispatched(Compositor)
  /\ down' = [down EXCEPT ![k] = NoContext]
  /\ ReleaseIgnored(k) \/ StopRepeating
  /\ SendKeyFrom(Compositor)
  /\ UNCHANGED <<hybrid, contextVars>>

\* MUTANT: the path of the context is not compared.
AnyContext == ibuscontext # NoContext

SameContext == ibuscontext # NoContext /\ ibuscontext = repeating.path

\* The last half of _process_key_event_repeat_delay_cb
StartRate(count) ==
  /\ sources' = sources \cup {[kind |-> "rate", id |-> NewId]}
  /\ repeating' = [repeating EXCEPT !.count = count, !.rate = NewId]
  /\ UNCHANGED missed

\* _process_key_event_repeat_delay_cb; after its first time it only goes on.
DelayExpires(s) ==
  /\ s \in sources /\ s.kind = "delay" /\ ~Dispatched(s)
  /\ \/ /\ ~SameContext
        /\ sources' = sources \ {s}
        /\ repeating' = [repeating EXCEPT !.delay = 0,
                                          !.path = IF ibuscontext = NoContext THEN @ ELSE NoContext]
        /\ UNCHANGED <<stack, missed>>
     \/ /\ SameContext /\ repeating.count = 0 /\ RoomForTimer
        /\ SendKeyFrom(s)
        /\ IF hybrid
           THEN repeating' = [repeating EXCEPT !.count = 1] /\ UNCHANGED <<sources, missed>>
           ELSE StartRate(1)
  /\ UNCHANGED <<hybrid, contextVars, down>>

\* _process_key_event_repeat_rate_cb
RateExpires(s) ==
  /\ s \in sources /\ s.kind = "rate" /\ ~Dispatched(s)
  /\ \/ /\ ~SameContext
        /\ sources' = sources \ {s}
        /\ repeating' = [repeating EXCEPT !.rate = 0]
        /\ UNCHANGED <<stack, missed>>
     \/ /\ SameContext
        /\ SendKeyFrom(s)
        /\ UNCHANGED repeatVars
  /\ UNCHANGED <<hybrid, contextVars, down>>

(* _process_key_event_hybrid_async returns in the innermost loop: there is *)
(* an answer, or it gave up.  Then the handler of the delay goes on.       *)
KeyAnswered ==
  /\ stack # <<>>
  /\ stack' = SubSeq(stack, 1, Len(stack) - 1)
  /\ IF stack[Len(stack)].kind = "delay"
     THEN StartRate(repeating.count)
     ELSE UNCHANGED repeatVars
  /\ UNCHANGED <<hybrid, contextVars, down>>

TimerExpires(id) == \E s \in sources : s.id = id /\ (DelayExpires(s) \/ RateExpires(s))

WaylandNext ==
  \/ InputMethodActivateV2
  \/ InputMethodDeactivateV2
  \/ InputMethodDoneV2
  \/ InputMethodUnavailableV2
  \/ \E c \in ContextIds : CreateInputContextDone(c)
  \/ \E k \in WaylandKeys : KeyPressed(k) \/ KeyReleased(k)
  \/ \E id \in 1..MaxSources : TimerExpires(id)
  \/ KeyAnswered

(* Timers expire, and each nested loop ends, at the latest after 10000     *)
(* turns of a timer of a millisecond, unless there is always another one   *)
(* within it.                                                              *)
WaylandFairness ==
  /\ \A id \in 1..MaxSources : WF_waylandVars(TimerExpires(id))
  /\ \A depth \in 1..MaxDepth : SF_waylandVars(Len(stack) = depth /\ KeyAnswered)

WaylandSpec == WaylandInit /\ [][WaylandNext]_waylandVars

-----------------------------------------------------------------------------
(* Properties *)

\* _process_key_event_repeat_delay_cb, _process_key_event_repeat_rate_cb: a
\* timer that would send a key sends one that has been down since it was
\* pressed in the very context that gets it, unless the sym of its release was
\* one that key_event_check_repeat ignores.
RepeatsHeldKey ==
  \A s \in sources :
    /\ SameContext /\ ~Dispatched(s)
    /\ s.kind = "delay" => repeating.count = 0
    => down[repeating.key] = ibuscontext \/ missed

\* The repetition that a release did not end goes on in its text input.
RunsOn == missed /\ SameContext

\* key_event_check_repeat: when all keys are up, or the text input of those
\* that are down is left, the timers come to an end, also those that nested
\* handlers have lost the numbers of.
RepeatEnds ==
  (~RunsOn /\ \A k \in WaylandKeys : down[k] = NoContext)
    ~> (sources = {} \/ RunsOn \/ \E k \in WaylandKeys : down[k] # NoContext)

\* input_method_activate, input_method_deactivate, _create_input_context_done:
\* unless a callback has reset the cancellable of another request, the context
\* is the last one requested, of a text input that is active, and the only one
\* the daemon was told to focus; without one, its request is under way or failed.
ContextFollowsText ==
  ~slipped =>
    /\ \A c \in ContextIds : creations[c] = "in" <=> c = ibuscontext
    /\ ibuscontext # NoContext => seat.active /\ Latest(ibuscontext)
    /\ seat.active /\ ibuscontext = NoContext =>
         \E c \in ContextIds :
           /\ Latest(c)
           /\ creations[c] = "running" => cancellable = c
           /\ creations[c] \in {"running", "failed"}
=============================================================================
