----------------------------- MODULE KeyEvents -----------------------------
(***************************************************************************)
(* The key events of one input context whose client is synchronous and has *)
(* turned on the queue of updates made during a key (EffectivePostProcess- *)
(* KeyEvent): the client blocks in ProcessKeyEvent, then fetches with the  *)
(* PostProcessKeyEvent property what the engine and the emoji panel sent   *)
(* meanwhile.  Updates sent outside a key go to the client as D-Bus        *)
(* signals, which it dispatches once it is back in its main loop.          *)
(*                                                                         *)
(* inputcontext.c is the daemon, ibusinputcontext.c and ibusimcontext.c    *)
(* the client.  An update is its number; a preedit text takes two entries  *)
(* of the queue.                                                           *)
(***************************************************************************)
EXTENDS Integers, Sequences, FiniteSets, SequencesExt

CONSTANTS
  MaxKeys,        \* bound: the keys the user presses
  MaxUpdates,     \* bound: the updates the engine and the panel send
  MAX_SYNC_DATA   \* the length of the queue from which one more is warned of

ASSUME BoundsAssumption == MaxKeys \in Nat /\ MaxUpdates \in Nat /\ MAX_SYNC_DATA \in Nat

VARIABLES
  call,       \* what the client waits for, and what it last got
  key,        \* the keys pressed so far
  gaveUp,     \* history: some ProcessKeyEvent call timed out in the client
  stage,      \* where the ProcessKeyEvent call of each key is
  processing, \* processing_key_event
  queue,      \* queue_during_process_key_event
  fetched,    \* the reply of the PostProcessKeyEvent property
  signals,    \* the signals the client has not dispatched
  applied,    \* history: the updates the client has applied, in that order
  received    \* the updates the daemon has received

clientVars == <<call, key, gaveUp, applied>>
vars == <<clientVars, stage, processing, queue, fetched, signals, received>>

Keys == 1..MaxKeys
InFlight(k) == stage[k] \in {"engine", "panel"}

Init ==
  /\ call = "none" /\ key = 0 /\ gaveUp = FALSE
  /\ stage = [k \in Keys |-> "unsent"]
  /\ processing = FALSE
  /\ queue = <<>> /\ fetched = <<>> /\ signals = <<>> /\ applied = <<>>
  /\ received = 0

-----------------------------------------------------------------------------
(* The client. *)

\* The key press handler of the toolkit blocks in ProcessKeyEvent.
PressKey ==
  /\ call = "none" /\ key < MaxKeys
  /\ key' = key + 1
  /\ stage' = [stage EXCEPT ![key + 1] = "sent"]
  /\ call' = "key"
  /\ UNCHANGED <<gaveUp, processing, queue, fetched, signals, applied, received>>

\* The reply arrives, or the 25 s of the client pass first: the daemon waits
\* for the engine and then for the panel, 15 s each.  Either way the client
\* asks for the updates.
KeyReturns ==
  /\ call = "key" /\ stage[key] = "answered"
  /\ call' = "updates"
  /\ UNCHANGED <<key, gaveUp, stage, processing, queue, fetched, signals, applied, received>>

GiveUp ==
  /\ call = "key" /\ stage[key] # "answered"
  /\ call' = "updates"
  /\ gaveUp' = TRUE
  /\ UNCHANGED <<key, stage, processing, queue, fetched, signals, applied, received>>

UpdatesReturn ==
  /\ call = "fetched"
  /\ applied' = applied \o fetched
  /\ fetched' = <<>>
  /\ call' = "none"
  /\ UNCHANGED <<key, gaveUp, stage, processing, queue, signals, received>>

\* Signals wait in the main loop while a call blocks.
DispatchSignal ==
  /\ call = "none" /\ signals # <<>>
  /\ applied' = Append(applied, Head(signals))
  /\ signals' = Tail(signals)
  /\ UNCHANGED <<call, key, gaveUp, stage, processing, queue, fetched, received>>

-----------------------------------------------------------------------------
(* The daemon.  Replies and signals of one connection keep their order, and *)
(* so do its calls.                                                         *)

\* A shortcut, a fake context and one without an engine answer at once.
ProcessKeyEvent(k) ==
  /\ stage[k] = "sent"
  /\ \E forwarded \in BOOLEAN :
       /\ stage' = [stage EXCEPT ![k] = IF forwarded THEN "engine" ELSE "answered"]
       /\ processing' = forwarded
  /\ UNCHANGED <<clientVars, queue, fetched, signals, received>>

\* The engine's answer, an error or the 15 s.  A key the engine does not
\* take goes on to the emoji panel when the context has one.
EngineReply(k) ==
  /\ stage[k] = "engine"
  /\ \/ stage' = [stage EXCEPT ![k] = "panel"] /\ UNCHANGED processing
     \/ stage' = [stage EXCEPT ![k] = "answered"] /\ processing' = FALSE
  /\ UNCHANGED <<clientVars, queue, fetched, signals, received>>

\* Mutant: only the path through the engine clears the flag
PanelReplyKeepsFlag(k) ==
  /\ stage[k] = "panel"
  /\ stage' = [stage EXCEPT ![k] = "answered"]
  /\ UNCHANGED <<clientVars, processing, queue, fetched, signals, received>>

\* Mutant: a call that failed is not answered
PanelReplyUnanswered(k) ==
  /\ stage[k] = "panel"
  /\ \E failed \in BOOLEAN :
       stage' = [stage EXCEPT ![k] = IF failed THEN "lost" ELSE "answered"]
  /\ processing' = FALSE
  /\ UNCHANGED <<clientVars, queue, fetched, signals, received>>

PanelReply(k) ==
  /\ stage[k] = "panel"
  /\ stage' = [stage EXCEPT ![k] = "answered"]
  /\ processing' = FALSE
  /\ UNCHANGED <<clientVars, queue, fetched, signals, received>>

\* Mutant: the length is not compared
MakesPostProcessUnlimited == processing

\* bus_input_context_make_post_process_key_event
MakesPostProcess == processing /\ Len(queue) <= MAX_SYNC_DATA

Entry(queued) == [n |-> received + 1, queued |-> queued]

\* What a handler of the engine's and the panel's signals does with an update
\* that is not queued.
EmitSignal ==
  /\ signals' = Append(signals, Entry(FALSE))
  /\ UNCHANGED queue

\* The engine or the panel commits a text, sends a key on or changes the
\* preedit text (the one update of two entries).
Update(entries) ==
  /\ received < MaxUpdates
  /\ received' = received + 1
  /\ IF MakesPostProcess
       THEN /\ queue' = queue \o [i \in 1..entries |-> Entry(TRUE)]
            /\ UNCHANGED signals
       ELSE EmitSignal
  /\ UNCHANGED <<clientVars, stage, processing, fetched>>

\* Mutant: the queue is emptied before the flag is looked at
PostProcessKeyEventPopsFirst ==
  /\ call = "updates" /\ stage[key] # "sent"
  /\ fetched' = IF processing THEN <<>> ELSE queue
  /\ queue' = <<>>
  /\ call' = "fetched"
  /\ UNCHANGED <<key, gaveUp, stage, processing, signals, applied, received>>

\* Mutant: the last pushed comes first
PostProcessKeyEventPopsTail ==
  /\ call = "updates" /\ stage[key] # "sent"
  /\ IF processing
       THEN UNCHANGED <<queue, fetched>>
       ELSE fetched' = Reverse(queue) /\ queue' = <<>>
  /\ call' = "fetched"
  /\ UNCHANGED <<key, gaveUp, stage, processing, signals, applied, received>>

\* Mutant: the property is answered when no key is processed
PostProcessKeyEventWaits ==
  /\ call = "updates" /\ stage[key] # "sent" /\ ~processing
  /\ fetched' = queue /\ queue' = <<>>
  /\ call' = "fetched"
  /\ UNCHANGED <<key, gaveUp, stage, processing, signals, applied, received>>

\* Refused with an error while a key is processed; otherwise everything.
PostProcessKeyEvent ==
  /\ call = "updates" /\ stage[key] # "sent"
  /\ IF processing
       THEN UNCHANGED <<queue, fetched>>
       ELSE fetched' = queue /\ queue' = <<>>
  /\ call' = "fetched"
  /\ UNCHANGED <<key, gaveUp, stage, processing, signals, applied, received>>

Daemon ==
  \/ \E k \in Keys : ProcessKeyEvent(k) \/ EngineReply(k) \/ PanelReply(k)
  \/ \E entries \in 1..2 : Update(entries)
  \/ PostProcessKeyEvent
Client == PressKey \/ KeyReturns \/ GiveUp \/ UpdatesReturn \/ DispatchSignal
Next == Daemon \/ Client

Spec == Init /\ [][Next]_vars

\* The daemon's main loop handles what arrives, each forwarded call ends by
\* its timeout, and the client's blocking calls return when answered.  Of the
\* keys, that of the one the client waits for is enough.  The user need not press
\* keys, nor the client give up, nor anybody send updates.
KeyProcessed == key \in Keys /\ ProcessKeyEvent(key)
EngineReplies == key \in Keys /\ EngineReply(key)
PanelReplies == key \in Keys /\ PanelReply(key)

Fairness ==
  /\ WF_vars(KeyProcessed)
  /\ WF_vars(EngineReplies)
  /\ WF_vars(PanelReplies)
  /\ WF_vars(PostProcessKeyEvent)
  /\ WF_vars(KeyReturns)
  /\ WF_vars(UpdatesReturn)

FairSpec == Spec /\ Fairness

-----------------------------------------------------------------------------
Entries == [n : 1..MaxUpdates, queued : BOOLEAN]

TypeOK ==
  /\ call \in {"none", "key", "updates", "fetched"}
  /\ key \in 0..MaxKeys /\ gaveUp \in BOOLEAN
  /\ stage \in [Keys -> {"unsent", "sent", "engine", "panel", "answered"}]
  /\ processing \in BOOLEAN
  /\ queue \in Seq(Entries) /\ fetched \in Seq(Entries)
  /\ signals \in Seq(Entries) /\ applied \in Seq(Entries)
  /\ received \in 0..MaxUpdates

\* processing_key_event never outlives the keys: a flag left TRUE would have
\* every later update queued and every fetch refused.  And it is on for as
\* long as the key the client waits for is with the engine or the panel,
\* unless an earlier key was given up and its late answer clears it.
FlagFollowsKey ==
  /\ processing => \E k \in Keys : InFlight(k)
  /\ ~gaveUp => (processing <=> \E k \in Keys : InFlight(k))

\* A client that never gave up has everything that was queued when it goes
\* back to its main loop: no text of one key shows up with the next.
NothingKept == ~gaveUp /\ call = "none" => queue = <<>>

\* The queue holds one preedit text more than the limit at most: the length is
\* compared with <=, and such a text pushes two entries (inputcontext.c:1844, 1876).
QueueLimited == Len(queue) <= MAX_SYNC_DATA + 2

\* What one key leaves to the next: neither the flag nor an update, nor a queue
\* past its limit when keys are given up.
KeysSettle == FlagFollowsKey /\ NothingKept /\ QueueLimited

\* Every update is in exactly one place on its way to the client, in timeouts
\* and refused fetches too.
NothingLost ==
  LET place == <<queue, fetched, signals, applied>>
      Has(p, u) == \E i \in DOMAIN place[p] : place[p][i].n = u
  IN \A u \in 1..received : Cardinality({p \in 1..4 : Has(p, u)}) = 1

\* Without a timeout, an update that went through the queue is never applied
\* after a later one: only a signal can be overtaken, because it waits for
\* the main loop while the queue is fetched inside the key press handler.
QueuedNotOvertaken ==
  ~gaveUp =>
    \A i, j \in DOMAIN applied :
      i < j /\ applied[i].n > applied[j].n => ~applied[j].queued

\* Every key press handler returns.
InMainLoop == call = "none"

KeysReturn == ~InMainLoop ~> InMainLoop

\* What each stage of a key press waits for can happen: the main loop of the daemon
\* and the replies of engine and panel, and in the client the return of each call
\* that was answered.
RepliesEnabled ==
  /\ call \in {"key", "updates"} =>
       /\ stage[key] = "sent" => ENABLED <<KeyProcessed>>_vars
       /\ stage[key] = "engine" => ENABLED <<EngineReplies>>_vars
       /\ stage[key] = "panel" => ENABLED <<PanelReplies>>_vars
  /\ call = "key" /\ stage[key] = "answered" => ENABLED <<KeyReturns>>_vars
  /\ call = "updates" /\ stage[key] # "sent" => ENABLED <<PostProcessKeyEvent>>_vars
  /\ call = "fetched" => ENABLED <<UpdatesReturn>>_vars

=============================================================================
