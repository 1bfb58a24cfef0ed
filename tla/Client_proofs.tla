--------------------------- MODULE Client_proofs ----------------------------
(***************************************************************************)
(* The key events of a synchronous client for any number of keys and       *)
(* updates and any length of the queue: the flag follows the key, nothing  *)
(* stays queued once the key press handler is back, and it comes back.     *)
(* Then the client's bus, for any number of daemons and requests: it means *)
(* the daemon there is, and gets connected when one stays.  What fairness  *)
(* needs to be enabled is a hypothesis of the two theorems about liveness. *)
(***************************************************************************)
EXTENDS KeyEvents, ClientBus, SequenceTheorems, FiniteSetTheorems, TLAPS

(***************************************************************************)
(* The inductive invariant.  Without a timeout only the last key is under  *)
(* way, and only while the client waits for it; so the flag is off when    *)
(* the updates are asked for, and no update is queued until the next key.  *)
(***************************************************************************)
Settled(k) == stage[k] \in {"unsent", "answered"}

KeyPressed ==
  /\ call # "none" => key \in Keys
  /\ \A k \in Keys : k > key <=> stage[k] = "unsent"

OneAtATime == ~gaveUp => \A k \in Keys : Settled(k) \/ (call = "key" /\ k = key)

QueueEmptied == ~gaveUp /\ call \in {"none", "fetched"} => queue = <<>>

IInv == TypeOK /\ QueueLimited /\ KeyPressed /\ OneAtATime /\ FlagFollowsKey /\ QueueEmptied

(***************************************************************************)
(* What Update adds to the queue.                                          *)
(***************************************************************************)
LEMMA PushedUpdate ==
  ASSUME NEW q \in Seq(Entries), NEW e \in Entries, NEW entries \in 1..2
  PROVE  LET p == q \o [i \in 1..entries |-> e]
         IN p \in Seq(Entries) /\ Len(p) <= Len(q) + 2
<1> DEFINE s == [i \in 1..entries |-> e]
<1>1. s \in Seq(Entries) /\ Len(s) = entries
  <2>1. s \in [1..entries -> Entries] /\ entries \in Nat
    OBVIOUS
  <2>2. s \in Seq(Entries)
    BY <2>1, SeqDef
  <2>3. Len(s) = entries
    BY <2>1, <2>2, LenProperties
  <2> QED BY <2>2, <2>3
<1> HIDE DEF s
<1>2. q \o s \in Seq(Entries) /\ Len(q \o s) = Len(q) + Len(s)
  BY <1>1, ConcatProperties
<1>3. Len(q) \in Nat
  BY LenProperties
<1> QED BY <1>1, <1>2, <1>3 DEF s

LEMMA InitIInv == ASSUME BoundsAssumption, Init PROVE IInv
<1>1. <<>> \in Seq(Entries) /\ Len(<<>>) = 0
  BY EmptySeq
<1>2. TypeOK /\ QueueLimited
  <2>1. QueueLimited
    BY <1>1 DEF BoundsAssumption, Init, QueueLimited
  <2>2. stage \in [Keys -> {"unsent", "sent", "engine", "panel", "answered"}]
    BY DEF Init
  <2>3. key \in 0..MaxKeys /\ received \in 0..MaxUpdates
    BY DEF Init, BoundsAssumption
  <2> QED BY <1>1, <2>1, <2>2, <2>3 DEF Init, TypeOK
<1>3. KeyPressed /\ OneAtATime /\ FlagFollowsKey /\ QueueEmptied
  BY DEF Init, KeyPressed, OneAtATime, FlagFollowsKey, QueueEmptied, Settled, InFlight
<1> QED BY <1>2, <1>3 DEF IInv

(***************************************************************************)
(* The types.                                                              *)
(***************************************************************************)
LEMMA TypeStep ==
  ASSUME BoundsAssumption, TypeOK, QueueLimited, KeyPressed, [Next]_vars
  PROVE  TypeOK' /\ QueueLimited'
<1> USE DEF TypeOK, QueueLimited, Keys
<1>1. CASE PressKey
  <2>1. key + 1 \in 1..MaxKeys
    BY <1>1 DEF PressKey, BoundsAssumption
  <2> QED BY <1>1, <2>1 DEF PressKey
<1>2. CASE KeyReturns
  BY <1>2 DEF KeyReturns
<1>3. CASE GiveUp
  BY <1>3 DEF GiveUp
<1>4. CASE UpdatesReturn
  <2>1. applied \o fetched \in Seq(Entries) /\ <<>> \in Seq(Entries)
    BY ConcatProperties, EmptySeq
  <2> QED BY <1>4, <2>1 DEF UpdatesReturn
<1>5. CASE DispatchSignal
  <2>1. Head(signals) \in Entries /\ Tail(signals) \in Seq(Entries)
    BY <1>5, HeadTailProperties DEF DispatchSignal
  <2>2. Append(applied, Head(signals)) \in Seq(Entries)
    BY <2>1, AppendProperties
  <2> QED BY <1>5, <2>1, <2>2 DEF DispatchSignal
<1>6. CASE \E k \in Keys : ProcessKeyEvent(k) \/ EngineReply(k) \/ PanelReply(k)
  BY <1>6 DEF ProcessKeyEvent, EngineReply, PanelReply, clientVars
<1>7. ASSUME NEW entries \in 1..2, Update(entries)
      PROVE  TypeOK' /\ QueueLimited'
  <2> USE <1>7
  <2>1. received + 1 \in 1..MaxUpdates
    BY DEF Update, BoundsAssumption
  <2>2. Entry(TRUE) \in Entries /\ Entry(FALSE) \in Entries
    BY <2>1 DEF Entry, Entries
  <2>3. Len(queue') <= MAX_SYNC_DATA + 2 /\ queue' \in Seq(Entries) /\ signals' \in Seq(Entries)
    <3>1. CASE MakesPostProcess
      <4> DEFINE p == queue \o [i \in 1..entries |-> Entry(TRUE)]
      <4>1. p \in Seq(Entries) /\ Len(p) <= Len(queue) + 2
        BY <2>2, PushedUpdate
      <4>2. queue' = p /\ signals' = signals
        BY <3>1 DEF Update
      <4>3. Len(queue) \in Nat /\ Len(p) \in Nat /\ Len(queue) <= MAX_SYNC_DATA
        BY <3>1, <4>1, LenProperties DEF MakesPostProcess
      <4> HIDE DEF p
      <4>4. Len(p) <= MAX_SYNC_DATA + 2
        BY <4>1, <4>3 DEF BoundsAssumption
      <4> QED BY <4>1, <4>2, <4>4
    <3>2. CASE ~MakesPostProcess
      <4>1. Append(signals, Entry(FALSE)) \in Seq(Entries)
        BY <2>2, AppendProperties
      <4>2. queue' = queue /\ signals' = Append(signals, Entry(FALSE))
        BY <3>2 DEF Update, EmitSignal
      <4> QED BY <4>1, <4>2
    <3> QED BY <3>1, <3>2
  <2>4. received' \in 0..MaxUpdates
    BY <2>1 DEF Update
  <2>5. UNCHANGED <<call, key, gaveUp, applied, stage, processing, fetched>>
    BY DEF Update, clientVars
  <2> QED BY <2>3, <2>4, <2>5
<1>8. CASE PostProcessKeyEvent
  <2>1. <<>> \in Seq(Entries) /\ Len(<<>>) = 0
    BY EmptySeq
  <2>2. \/ queue' = queue /\ fetched' = fetched
        \/ queue' = <<>> /\ fetched' = queue
    BY <1>8 DEF PostProcessKeyEvent
  <2>3. queue' \in Seq(Entries) /\ fetched' \in Seq(Entries) /\ Len(queue') \in {0, Len(queue)}
    BY <2>1, <2>2, Zenon
  <2>4. Len(queue') <= MAX_SYNC_DATA + 2
    BY <2>3 DEF BoundsAssumption
  <2> QED BY <1>8, <2>3, <2>4 DEF PostProcessKeyEvent
<1>9. CASE UNCHANGED vars
  BY <1>9 DEF vars, clientVars
<1> QED BY <1>1, <1>2, <1>3, <1>4, <1>5, <1>6, <1>7, <1>8, <1>9 DEF Next, Daemon, Client

(***************************************************************************)
(* The protocol: one step per handler.                                     *)
(***************************************************************************)
LEMMA ProtocolStep ==
  ASSUME BoundsAssumption, IInv, [Next]_vars
  PROVE  KeyPressed' /\ OneAtATime' /\ FlagFollowsKey' /\ QueueEmptied'
<1> DEFINE flying(k) == stage[k] \in {"engine", "panel"}
<1>0. /\ stage \in [Keys -> {"unsent", "sent", "engine", "panel", "answered"}]
      /\ key \in Nat /\ processing \in BOOLEAN /\ gaveUp \in BOOLEAN
      /\ Keys \subseteq Nat
  BY DEF IInv, TypeOK, Keys, BoundsAssumption
<1> USE <1>0 DEF IInv, KeyPressed, OneAtATime, FlagFollowsKey, QueueEmptied,
            Settled, InFlight
<1>1. CASE PressKey
  <2>1. key + 1 \in Keys /\ key' = key + 1 /\ call' = "key" /\ call = "none"
        /\ UNCHANGED <<gaveUp, processing, queue>>
    BY <1>1 DEF PressKey, BoundsAssumption, Keys
  <2>2. \A k \in Keys : stage'[k] = IF k = key + 1 THEN "sent" ELSE stage[k]
    BY <1>1 DEF PressKey
  <2>3. \A k \in Keys : flying(k) <=> flying(k)'
    BY <2>1, <2>2
  <2>4. FlagFollowsKey'
    BY <2>1, <2>3
  <2>5. KeyPressed'
    BY <2>1, <2>2
  <2>6. OneAtATime' /\ QueueEmptied'
    BY <2>1, <2>2
  <2> QED BY <2>4, <2>5, <2>6
<1>2. CASE KeyReturns
  BY <1>2 DEF KeyReturns
<1>3. CASE GiveUp
  BY <1>3 DEF GiveUp
<1>4. CASE UpdatesReturn
  BY <1>4 DEF UpdatesReturn
<1>5. CASE DispatchSignal
  BY <1>5 DEF DispatchSignal
<1>6. ASSUME NEW k \in Keys, ProcessKeyEvent(k) \/ EngineReply(k) \/ PanelReply(k)
      PROVE  KeyPressed' /\ OneAtATime' /\ FlagFollowsKey' /\ QueueEmptied'
  <2>1. PICK s \in {"engine", "panel", "answered"} :
          /\ stage' = [stage EXCEPT ![k] = s]
          /\ \/ processing' = (s # "answered")
             \/ s = "panel" /\ flying(k) /\ processing' = processing
    BY <1>6 DEF ProcessKeyEvent, EngineReply, PanelReply
  <2>2. UNCHANGED <<call, key, gaveUp, queue>> /\ ~Settled(k)
    BY <1>6 DEF ProcessKeyEvent, EngineReply, PanelReply, clientVars
  <2>3. \A j \in Keys : stage'[j] = IF j = k THEN s ELSE stage[j]
    BY <2>1
  <2>4. k <= key /\ KeyPressed'
    BY <2>2, <2>3
  <2>5. ~gaveUp => call = "key" /\ k = key /\ \A j \in Keys \ {k} : Settled(j)
    BY <2>2
  <2>6. OneAtATime' /\ QueueEmptied'
    BY <2>2, <2>3, <2>5
  <2>7. FlagFollowsKey'
    BY <2>1, <2>2, <2>3, <2>5
  <2> QED BY <2>4, <2>6, <2>7
<1>7. ASSUME NEW entries \in 1..2, Update(entries)
      PROVE  KeyPressed' /\ OneAtATime' /\ FlagFollowsKey' /\ QueueEmptied'
  <2>1. UNCHANGED <<call, key, gaveUp, stage, processing>>
    BY <1>7 DEF Update, clientVars
  <2>2. ~processing => queue' = queue
    BY <1>7 DEF Update, EmitSignal, MakesPostProcess
  <2>3. ~gaveUp /\ call # "key" => ~processing
    OBVIOUS
  <2> QED BY <2>1, <2>2, <2>3
<1>8. CASE PostProcessKeyEvent
  <2>1. ~gaveUp => ~processing
    BY <1>8 DEF PostProcessKeyEvent
  <2> QED BY <1>8, <2>1 DEF PostProcessKeyEvent
<1>9. CASE UNCHANGED vars
  BY <1>9 DEF vars, clientVars
<1> QED BY <1>1, <1>2, <1>3, <1>4, <1>5, <1>6, <1>7, <1>8, <1>9 DEF Next, Daemon, Client

LEMMA Inductive == Spec => []IInv
<1>1. Init => IInv
  BY InitIInv, BoundsAssumption
<1>2. IInv /\ [Next]_vars => IInv'
  BY TypeStep, ProtocolStep, BoundsAssumption DEF IInv
<1> QED BY <1>1, <1>2, PTL DEF Spec

(***************************************************************************)
(* processing_key_event is on exactly while a key of a client that never   *)
(* gave up is with the engine or the panel, and never without any key; and *)
(* no update that was queued for one key is left for the next: back in its *)
(* main loop, such a client has fetched everything.  A preedit text can    *)
(* take the queue one entry past MAX_SYNC_DATA + 1, and nothing takes it   *)
(* further, whatever is given up.                                          *)
(***************************************************************************)
THEOREM NothingLeftOver == Spec => []KeysSettle
<1>1. IInv => FlagFollowsKey
  BY DEF IInv
<1>2. IInv => NothingKept
  BY DEF IInv, QueueEmptied, NothingKept
<1>3. IInv => KeysSettle
  BY <1>1, <1>2 DEF KeysSettle, IInv
<1> QED BY <1>3, Inductive, PTL

(***************************************************************************)
(* The types.                                                              *)
(***************************************************************************)
THEOREM TypeCorrect == Spec => []TypeOK
<1>1. IInv => TypeOK
  BY DEF IInv
<1> QED BY <1>1, Inductive, PTL

-----------------------------------------------------------------------------
(***************************************************************************)
(* The key press handler: the stages of its key and of the calls made for  *)
(* it, each of which leads to later ones only, and each of which a fair    *)
(* step of the daemon or the client ends.  That this step is ENABLED is a  *)
(* hypothesis, RepliesEnabled.                                             *)
(***************************************************************************)
Waits(s) == call = "key" /\ stage[key] = s
Unseen == call = "updates" /\ stage[key] = "sent"
Asks == call = "updates" /\ stage[key] # "sent"
Fetches == call = "fetched"

KeyMoves ==
  \/ stage'[key] = stage[key]
  \/ stage[key] = "sent" /\ stage'[key] \in {"engine", "answered"}
  \/ stage[key] = "engine" /\ stage'[key] \in {"panel", "answered"}
  \/ stage[key] = "panel" /\ stage'[key] = "answered"

LEMMA StagesOfHandler ==
  ASSUME IInv, ~InMainLoop
  PROVE  \/ Waits("sent") \/ Waits("engine") \/ Waits("panel") \/ Waits("answered")
         \/ Unseen \/ Asks \/ Fetches
<1>1. call # "none" => key \in Keys /\ stage[key] # "unsent"
  BY DEF IInv, TypeOK, KeyPressed, Keys
<1> QED BY <1>1 DEF IInv, TypeOK, InMainLoop, Waits, Unseen, Asks, Fetches

LEMMA HandlerStep ==
  ASSUME IInv, [Next]_vars
  PROVE  /\ Waits("sent") => \/ Waits("sent")' \/ Waits("engine")' \/ Waits("answered")'
                             \/ Unseen'
         /\ Waits("engine") => \/ Waits("engine")' \/ Waits("panel")' \/ Waits("answered")'
                               \/ Asks'
         /\ Waits("panel") => Waits("panel")' \/ Waits("answered")' \/ Asks'
         /\ Waits("answered") => Waits("answered")' \/ Asks'
         /\ Unseen => Unseen' \/ Asks'
         /\ Asks => Asks' \/ Fetches'
         /\ Fetches => Fetches' \/ InMainLoop'
<1> USE DEF Waits, Unseen, Asks, Fetches, InMainLoop
<1>0. /\ stage \in [Keys -> {"unsent", "sent", "engine", "panel", "answered"}]
      /\ call # "none" => key \in Keys
  BY DEF IInv, TypeOK, KeyPressed
<1>1. CASE PressKey
  BY <1>1 DEF PressKey
<1>2. CASE KeyReturns \/ GiveUp
  BY <1>0, <1>2 DEF KeyReturns, GiveUp
<1>3. CASE UpdatesReturn \/ DispatchSignal
  BY <1>3 DEF UpdatesReturn, DispatchSignal
<1>4. ASSUME NEW k \in Keys, ProcessKeyEvent(k) \/ EngineReply(k) \/ PanelReply(k),
             call # "none"
      PROVE  UNCHANGED <<call, key>> /\ KeyMoves
  BY <1>0, <1>4 DEF ProcessKeyEvent, EngineReply, PanelReply, clientVars, KeyMoves
<1>5. CASE \E k \in Keys : ProcessKeyEvent(k) \/ EngineReply(k) \/ PanelReply(k)
  BY <1>4, <1>5 DEF KeyMoves
<1>6. CASE \E entries \in 1..2 : Update(entries)
  BY <1>6 DEF Update, clientVars
<1>7. CASE PostProcessKeyEvent
  BY <1>7 DEF PostProcessKeyEvent
<1>8. CASE UNCHANGED vars
  BY <1>8 DEF vars, clientVars
<1> QED BY <1>1, <1>2, <1>3, <1>5, <1>6, <1>7, <1>8 DEF Next, Daemon, Client

LEMMA HandlerEnds ==
  ASSUME IInv
  PROVE  /\ Waits("sent") /\ <<KeyProcessed>>_vars => Waits("engine")' \/ Waits("answered")'
         /\ Waits("engine") /\ <<EngineReplies>>_vars => Waits("panel")' \/ Waits("answered")'
         /\ Waits("panel") /\ <<PanelReplies>>_vars => Waits("answered")'
         /\ Waits("answered") /\ <<KeyReturns>>_vars => Asks'
         /\ Unseen /\ <<KeyProcessed>>_vars => Asks'
         /\ Asks /\ <<PostProcessKeyEvent>>_vars => Fetches'
         /\ Fetches /\ <<UpdatesReturn>>_vars => InMainLoop'
<1>0. stage \in [Keys -> {"unsent", "sent", "engine", "panel", "answered"}]
  BY DEF IInv, TypeOK
<1>1. ASSUME KeyProcessed \/ EngineReplies \/ PanelReplies
      PROVE  UNCHANGED <<call, key>> /\ KeyMoves /\ stage'[key] # stage[key]
  BY <1>0, <1>1 DEF KeyProcessed, EngineReplies, PanelReplies, ProcessKeyEvent, EngineReply,
                    PanelReply, clientVars, KeyMoves
<1>2. Waits("answered") /\ KeyReturns => Asks'
  BY DEF Waits, Asks, KeyReturns
<1>3. Asks /\ PostProcessKeyEvent => Fetches'
  BY DEF Asks, Fetches, PostProcessKeyEvent
<1>4. Fetches /\ UpdatesReturn => InMainLoop'
  BY DEF Fetches, InMainLoop, UpdatesReturn
<1> QED BY <1>1, <1>2, <1>3, <1>4 DEF Waits, Unseen, Asks, KeyMoves

(***************************************************************************)
(* Every key press handler returns, for any number of keys and updates,    *)
(* whatever the engine answers, whatever updates come between and whether  *)
(* the client gives up waiting or not.                                     *)
(***************************************************************************)
THEOREM HandlersReturn == FairSpec /\ []RepliesEnabled => KeysReturn
<1>1. IInv => (~InMainLoop => \/ Waits("sent") \/ Waits("engine") \/ Waits("panel")
                              \/ Waits("answered") \/ Unseen \/ Asks \/ Fetches)
  BY StagesOfHandler
<1>2. IInv /\ [Next]_vars =>
        /\ Waits("sent") => \/ Waits("sent")' \/ Waits("engine")' \/ Waits("answered")'
                            \/ Unseen'
        /\ Waits("engine") => \/ Waits("engine")' \/ Waits("panel")' \/ Waits("answered")'
                              \/ Asks'
        /\ Waits("panel") => Waits("panel")' \/ Waits("answered")' \/ Asks'
        /\ Waits("answered") => Waits("answered")' \/ Asks'
        /\ Unseen => Unseen' \/ Asks'
        /\ Asks => Asks' \/ Fetches'
        /\ Fetches => Fetches' \/ InMainLoop'
  BY HandlerStep
<1>3. IInv =>
        /\ Waits("sent") /\ <<KeyProcessed>>_vars => Waits("engine")' \/ Waits("answered")'
        /\ Waits("engine") /\ <<EngineReplies>>_vars => Waits("panel")' \/ Waits("answered")'
        /\ Waits("panel") /\ <<PanelReplies>>_vars => Waits("answered")'
        /\ Waits("answered") /\ <<KeyReturns>>_vars => Asks'
        /\ Unseen /\ <<KeyProcessed>>_vars => Asks'
        /\ Asks /\ <<PostProcessKeyEvent>>_vars => Fetches'
        /\ Fetches /\ <<UpdatesReturn>>_vars => InMainLoop'
  BY HandlerEnds
<1>4. RepliesEnabled =>
        /\ Waits("sent") \/ Unseen => ENABLED <<KeyProcessed>>_vars
        /\ Waits("engine") => ENABLED <<EngineReplies>>_vars
        /\ Waits("panel") => ENABLED <<PanelReplies>>_vars
        /\ Waits("answered") => ENABLED <<KeyReturns>>_vars
        /\ Asks => ENABLED <<PostProcessKeyEvent>>_vars
        /\ Fetches => ENABLED <<UpdatesReturn>>_vars
  BY DEF RepliesEnabled, Waits, Unseen, Asks, Fetches
<1>5. FairSpec /\ []RepliesEnabled => (Fetches ~> InMainLoop)
  BY <1>2, <1>3, <1>4, Inductive, PTL DEF FairSpec, Fairness, Spec
<1>6. FairSpec /\ []RepliesEnabled => (Asks ~> InMainLoop)
  BY <1>2, <1>3, <1>4, <1>5, Inductive, PTL DEF FairSpec, Fairness, Spec
<1>7. FairSpec /\ []RepliesEnabled => (Unseen ~> InMainLoop)
  BY <1>2, <1>3, <1>4, <1>6, Inductive, PTL DEF FairSpec, Fairness, Spec
<1>8. FairSpec /\ []RepliesEnabled => (Waits("answered") ~> InMainLoop)
  BY <1>2, <1>3, <1>4, <1>6, Inductive, PTL DEF FairSpec, Fairness, Spec
<1>9. FairSpec /\ []RepliesEnabled => (Waits("panel") ~> InMainLoop)
  BY <1>2, <1>3, <1>4, <1>6, <1>8, Inductive, PTL DEF FairSpec, Fairness, Spec
<1>10. FairSpec /\ []RepliesEnabled => (Waits("engine") ~> InMainLoop)
  BY <1>2, <1>3, <1>4, <1>6, <1>8, <1>9, Inductive, PTL DEF FairSpec, Fairness, Spec
<1>11. FairSpec /\ []RepliesEnabled => (Waits("sent") ~> InMainLoop)
  BY <1>2, <1>3, <1>4, <1>7, <1>8, <1>10, Inductive, PTL DEF FairSpec, Fairness, Spec
<1> QED BY <1>1, <1>5, <1>6, <1>7, <1>8, <1>9, <1>10, <1>11, Inductive, PTL
        DEF FairSpec, KeysReturn

-----------------------------------------------------------------------------
(***************************************************************************)
(* The order in which the client applies the updates.  What is queued or   *)
(* fetched is in order and later than all that is applied; a signal, which *)
(* may be older, is dispatched only when both are empty.                   *)
(***************************************************************************)
UpTo(s, m) == \A i \in DOMAIN s : s[i].n <= m
InOrder(s) == \A i, j \in DOMAIN s : i < j /\ s[j].queued => s[i].n <= s[j].n
Before(s, t) == \A i \in DOMAIN s, j \in DOMAIN t : s[i].n <= t[j].n

Received ==
  /\ UpTo(queue, received) /\ UpTo(fetched, received)
  /\ UpTo(signals, received) /\ UpTo(applied, received)
  /\ \A i \in DOMAIN signals : ~signals[i].queued
  /\ fetched # <<>> => call = "fetched"

Ordered ==
  ~gaveUp => /\ InOrder(queue) /\ InOrder(fetched) /\ InOrder(applied)
             /\ Before(applied, queue) /\ Before(applied, fetched)

OrderInv == IInv /\ Received /\ Ordered

LEMMA ConcatElement ==
  ASSUME NEW s \in Seq(Entries), NEW t \in Seq(Entries), NEW i \in DOMAIN (s \o t)
  PROVE  \/ i \in DOMAIN s /\ (s \o t)[i] = s[i]
         \/ i - Len(s) \in DOMAIN t /\ i \notin DOMAIN s /\ (s \o t)[i] = t[i - Len(s)]
<1>1. Len(s) \in Nat /\ Len(t) \in Nat /\ DOMAIN s = 1..Len(s) /\ DOMAIN t = 1..Len(t)
  BY LenProperties
<1>2. s \o t \in Seq(Entries) /\ Len(s \o t) = Len(s) + Len(t)
  BY ConcatProperties
<1>3. DOMAIN (s \o t) = 1..(Len(s) + Len(t))
  BY <1>2, LenProperties
<1>4. (s \o t)[i] = IF i <= Len(s) THEN s[i] ELSE t[i - Len(s)]
  BY <1>1, <1>3, ConcatProperties
<1> QED BY <1>1, <1>3, <1>4

LEMMA EntriesAreNumbered ==
  ASSUME BoundsAssumption, NEW s \in Seq(Entries), NEW i \in DOMAIN s
  PROVE  s[i].n \in Nat /\ s[i].queued \in BOOLEAN /\ i \in Nat
<1>1. s[i] \in Entries /\ i \in Nat
  BY LenProperties, ElementOfSeq
<1> QED BY <1>1 DEF Entries, BoundsAssumption

LEMMA ConcatOrder ==
  ASSUME BoundsAssumption, NEW s \in Seq(Entries), NEW t \in Seq(Entries), NEW m \in Nat
  PROVE  /\ UpTo(s, m) /\ UpTo(t, m) => UpTo(s \o t, m)
         /\ InOrder(s) /\ InOrder(t) /\ Before(s, t) => InOrder(s \o t)
<1> DEFINE u == s \o t
<1>1. \A i \in DOMAIN u : \/ i \in DOMAIN s /\ u[i] = s[i]
                          \/ i - Len(s) \in DOMAIN t /\ i \notin DOMAIN s /\ u[i] = t[i - Len(s)]
  BY ConcatElement
<1>2. DOMAIN s = 1..Len(s) /\ Len(s) \in Nat /\ DOMAIN t \subseteq Nat
  BY LenProperties
<1>3. DOMAIN u \subseteq Nat \ {0}
  BY ConcatProperties, LenProperties
<1> HIDE DEF u
<1>4. UpTo(s, m) /\ UpTo(t, m) => UpTo(u, m)
  BY <1>1 DEF UpTo
<1>5. ASSUME InOrder(s), InOrder(t), Before(s, t),
             NEW i \in DOMAIN u, NEW j \in DOMAIN u, i < j, u[j].queued
      PROVE  u[i].n <= u[j].n
  <2>1. CASE i \in DOMAIN s /\ j \in DOMAIN s
    BY <1>1, <1>2, <1>5, <2>1 DEF InOrder
  <2>2. CASE i \in DOMAIN s /\ j \notin DOMAIN s
    BY <1>1, <1>5, <2>2 DEF Before
  <2>3. CASE i \notin DOMAIN s
    <3>1. j \notin DOMAIN s
      BY <1>2, <1>3, <1>5, <2>3
    <3>2. i - Len(s) \in DOMAIN t /\ j - Len(s) \in DOMAIN t /\ i - Len(s) < j - Len(s)
      BY <1>1, <1>2, <1>3, <1>5, <2>3, <3>1
    <3> QED BY <1>1, <1>5, <2>3, <3>1, <3>2 DEF InOrder
  <2> QED BY <2>1, <2>2, <2>3
<1>6. InOrder(s) /\ InOrder(t) /\ Before(s, t) => InOrder(u)
  BY <1>5 DEF InOrder
<1> QED BY <1>4, <1>6 DEF u

LEMMA InitOrder == ASSUME BoundsAssumption, Init PROVE Received /\ Ordered
<1>1. \A s : s = <<>> => DOMAIN s = {}
  OBVIOUS
<1>2. DOMAIN queue = {} /\ DOMAIN fetched = {} /\ DOMAIN signals = {} /\ DOMAIN applied = {}
  BY <1>1, Zenon DEF Init
<1>3. fetched = <<>>
  BY DEF Init
<1> QED BY <1>2, <1>3 DEF Received, Ordered, UpTo, InOrder, Before

LEMMA OrderStep ==
  ASSUME BoundsAssumption, OrderInv, [Next]_vars
  PROVE  Received' /\ Ordered'
<1>0. /\ queue \in Seq(Entries) /\ fetched \in Seq(Entries)
      /\ signals \in Seq(Entries) /\ applied \in Seq(Entries)
      /\ received \in Nat
  BY DEF OrderInv, IInv, TypeOK, BoundsAssumption
<1>a. \A s : s = <<>> => s \in Seq(Entries) /\ DOMAIN s = {}
  BY EmptySeq
<1>b. \A s, t : s = <<>> => UpTo(s, received) /\ InOrder(s) /\ Before(s, t) /\ Before(t, s)
  BY <1>a, Zenon DEF UpTo, InOrder, Before
<1>1. ASSUME UNCHANGED <<gaveUp, queue, fetched, signals, applied, received>>,
             fetched # <<>> => call' = "fetched"
      PROVE  Received' /\ Ordered'
  BY <1>1 DEF OrderInv, Received, Ordered, UpTo, InOrder, Before
<1>2. CASE PressKey \/ KeyReturns
  <2>1. UNCHANGED <<gaveUp, queue, fetched, signals, applied, received>> /\ call # "fetched"
    BY <1>2 DEF PressKey, KeyReturns
  <2> QED BY <1>1, <2>1 DEF OrderInv, Received
<1>3. CASE GiveUp
  <2>1. UNCHANGED <<queue, fetched, signals, applied, received>> /\ gaveUp' /\ call # "fetched"
    BY <1>3 DEF GiveUp
  <2> QED BY <2>1 DEF OrderInv, Received, Ordered, UpTo
<1>4. CASE UpdatesReturn
  <2>1. /\ applied' = applied \o fetched /\ fetched' = <<>> /\ call = "fetched"
        /\ UNCHANGED <<gaveUp, queue, signals, received>>
    BY <1>4 DEF UpdatesReturn
  <2>2. UpTo(applied', received) /\ (~gaveUp => InOrder(applied'))
    BY <1>0, <2>1, ConcatOrder DEF OrderInv, Received, Ordered
  <2>3. ~gaveUp => queue = <<>>
    BY <2>1 DEF OrderInv, IInv, QueueEmptied
  <2>4. Received'
    BY <1>b, <2>1, <2>2 DEF OrderInv, Received, UpTo
  <2>5. ~gaveUp => /\ InOrder(queue') /\ InOrder(fetched') /\ InOrder(applied')
                   /\ Before(applied', queue') /\ Before(applied', fetched')
    BY <1>b, <2>1, <2>2, <2>3
  <2> QED BY <2>1, <2>4, <2>5 DEF Ordered, InOrder, Before
<1>5. CASE DispatchSignal
  <2> DEFINE h == Head(signals)
  <2>1. /\ applied' = Append(applied, h) /\ signals' = Tail(signals)
        /\ call = "none" /\ signals # <<>>
        /\ UNCHANGED <<call, gaveUp, queue, fetched, received>>
    BY <1>5 DEF DispatchSignal
  <2>2. h \in Entries /\ h.n <= received /\ ~h.queued
    <3>1. h \in Entries /\ h = signals[1] /\ 1 \in DOMAIN signals
      BY <1>0, <2>1, HeadTailProperties, LenProperties, EmptySeq
    <3> QED BY <3>1 DEF OrderInv, Received, UpTo
  <2>3. UpTo(applied', received) /\ (~gaveUp => InOrder(applied'))
    <3>1. /\ applied' \in Seq(Entries) /\ DOMAIN applied' = 1..(Len(applied) + 1)
          /\ DOMAIN applied = 1..Len(applied) /\ Len(applied) \in Nat
          /\ \A i \in 1..Len(applied) : applied'[i] = applied[i]
          /\ applied'[Len(applied) + 1] = h
      BY <1>0, <2>1, <2>2, AppendProperties, LenProperties
    <3> QED BY <2>2, <3>1 DEF OrderInv, Received, Ordered, UpTo, InOrder
  <2>4. \A i \in DOMAIN signals' : signals'[i].n <= received /\ ~signals'[i].queued
    <3>1. /\ DOMAIN signals' = 1..(Len(signals) - 1) /\ Len(signals) \in Nat
          /\ DOMAIN signals = 1..Len(signals)
          /\ \A i \in 1..(Len(signals) - 1) : signals'[i] = signals[i + 1]
      BY <1>0, <2>1, HeadTailProperties, LenProperties
    <3> QED BY <3>1 DEF OrderInv, Received, UpTo
  <2>5. fetched = <<>> /\ (~gaveUp => queue = <<>>)
    BY <2>1 DEF OrderInv, IInv, QueueEmptied, Received
  <2>6. Received'
    BY <2>1, <2>3, <2>4 DEF OrderInv, Received, UpTo
  <2>7. ~gaveUp => /\ InOrder(queue') /\ InOrder(fetched') /\ InOrder(applied')
                   /\ Before(applied', queue') /\ Before(applied', fetched')
    BY <1>b, <2>1, <2>3, <2>5
  <2> QED BY <2>1, <2>6, <2>7 DEF Ordered, InOrder, Before
<1>6. CASE \E k \in Keys : ProcessKeyEvent(k) \/ EngineReply(k) \/ PanelReply(k)
  <2>1. UNCHANGED <<call, gaveUp, queue, fetched, signals, applied, received>>
    BY <1>6 DEF ProcessKeyEvent, EngineReply, PanelReply, clientVars
  <2> QED BY <1>1, <2>1 DEF OrderInv, Received
<1>7. ASSUME NEW entries \in 1..2, Update(entries)
      PROVE  Received' /\ Ordered'
  <2>1. UNCHANGED <<call, gaveUp, fetched, applied>> /\ received' = received + 1
    BY <1>7 DEF Update, clientVars
  <2>2. /\ Entry(TRUE) \in Entries /\ Entry(TRUE).n = received'
        /\ Entry(FALSE) \in Entries /\ Entry(FALSE).n = received' /\ ~Entry(FALSE).queued
    BY <1>0, <1>7, <2>1 DEF Update, Entry, Entries, OrderInv, IInv, TypeOK, BoundsAssumption
  <2>3. UpTo(queue, received') /\ UpTo(fetched, received')
        /\ UpTo(signals, received') /\ UpTo(applied, received')
    <3>1. \A s \in Seq(Entries) : UpTo(s, received) => UpTo(s, received')
      BY <1>0, <2>1, EntriesAreNumbered DEF UpTo
    <3> QED BY <1>0, <3>1 DEF OrderInv, Received
  <2>4. CASE MakesPostProcess
    <3> DEFINE e == Entry(TRUE)
               s == [i \in 1..entries |-> e]
    <3>0. e \in Entries /\ e.n = received'
      BY <2>2
    <3> HIDE DEF e
    <3>1. s \in Seq(Entries) /\ \A i \in DOMAIN s : s[i].n = received'
      <4>1. s \in [1..entries -> Entries] /\ entries \in Nat
        BY <3>0
      <4>2. s \in Seq(Entries)
        BY <4>1, SeqDef
      <4> QED BY <3>0, <4>2
    <3>2. queue' = queue \o s /\ signals' = signals
      BY <1>7, <2>4 DEF Update, e
    <3> HIDE DEF s
    <3>3. UpTo(s, received') /\ InOrder(s) /\ Before(queue, s) /\ Before(applied, s)
      BY <1>0, <2>1, <2>3, <3>1, EntriesAreNumbered
         DEF UpTo, InOrder, Before
    <3>4. UpTo(queue', received') /\ (~gaveUp => InOrder(queue'))
      BY <1>0, <2>1, <2>3, <3>1, <3>2, <3>3, ConcatOrder DEF OrderInv, Ordered
    <3>5. ~gaveUp => Before(applied, queue')
      BY <1>0, <3>1, <3>2, <3>3, ConcatElement DEF OrderInv, Ordered, Before
    <3>6. Received'
      BY <2>1, <2>3, <3>2, <3>4 DEF OrderInv, Received, UpTo
    <3> QED BY <2>1, <3>4, <3>5, <3>6 DEF OrderInv, Ordered, InOrder, Before
  <2>5. CASE ~MakesPostProcess
    <3>1. signals' = Append(signals, Entry(FALSE)) /\ queue' = queue
      BY <1>7, <2>5 DEF Update, EmitSignal
    <3>2. \A i \in DOMAIN signals' : signals'[i].n <= received' /\ ~signals'[i].queued
      <4> DEFINE e == Entry(FALSE)
      <4>1. e \in Entries /\ e.n = received' /\ ~e.queued /\ signals' = Append(signals, e)
        BY <2>2, <3>1
      <4> HIDE DEF e
      <4>2. /\ DOMAIN signals' = 1..(Len(signals) + 1) /\ Len(signals) \in Nat
            /\ DOMAIN signals = 1..Len(signals)
            /\ \A i \in 1..Len(signals) : signals'[i] = signals[i]
            /\ signals'[Len(signals) + 1] = e
        BY <1>0, <4>1, AppendProperties, LenProperties
      <4>3. \A i \in 1..Len(signals) : signals'[i].n <= received' /\ ~signals'[i].queued
        BY <2>3, <4>2 DEF OrderInv, Received, UpTo
      <4>4. \A i \in DOMAIN signals' : i \in 1..Len(signals) \/ signals'[i] = e
        BY <4>2
      <4>5. e.n <= received'
        BY <1>0, <2>1, <4>1
      <4> QED BY <4>1, <4>3, <4>4, <4>5
    <3>3. Received'
      BY <2>1, <2>3, <3>1, <3>2 DEF OrderInv, Received, UpTo
    <3>4. Ordered'
      BY <2>1, <3>1 DEF OrderInv, Ordered, InOrder, Before
    <3> QED BY <3>3, <3>4
  <2> QED BY <2>4, <2>5
<1>8. CASE PostProcessKeyEvent
  <2>1. /\ UNCHANGED <<gaveUp, signals, applied, received>> /\ call' = "fetched"
        /\ \/ UNCHANGED <<queue, fetched>>
           \/ fetched' = queue /\ queue' = <<>>
    BY <1>8 DEF PostProcessKeyEvent
  <2>2. CASE UNCHANGED <<queue, fetched>>
    BY <1>1, <2>1, <2>2
  <2>3. CASE fetched' = queue /\ queue' = <<>>
    <3>1. UpTo(queue', received) /\ InOrder(queue') /\ Before(applied, queue')
      BY <1>b, <2>3
    <3> QED BY <2>1, <2>3, <3>1 DEF OrderInv, Received, Ordered, UpTo, InOrder, Before
  <2> QED BY <2>1, <2>2, <2>3
<1>9. CASE UNCHANGED vars
  <2>1. UNCHANGED <<call, gaveUp, queue, fetched, signals, applied, received>>
    BY <1>9 DEF vars, clientVars
  <2> QED BY <1>1, <2>1 DEF OrderInv, Received
<1> QED BY <1>2, <1>3, <1>4, <1>5, <1>6, <1>7, <1>8, <1>9 DEF Next, Daemon, Client

(***************************************************************************)
(* Without a timeout, whatever went through the queue is applied after all *)
(* that was sent before it, for any number of keys and updates.            *)
(***************************************************************************)
THEOREM QueueKeepsOrder == Spec => []QueuedNotOvertaken
<1>1. Init => OrderInv
  BY InitIInv, InitOrder, BoundsAssumption DEF OrderInv
<1>2. OrderInv /\ [Next]_vars => OrderInv'
  BY TypeStep, ProtocolStep, OrderStep, BoundsAssumption DEF OrderInv, IInv
<1>3. OrderInv => QueuedNotOvertaken
  <2>1. SUFFICES ASSUME OrderInv, ~gaveUp, NEW i \in DOMAIN applied, NEW j \in DOMAIN applied,
                        i < j, applied[i].n > applied[j].n, applied[j].queued
                 PROVE  FALSE
    BY DEF QueuedNotOvertaken
  <2>2. applied[i].n <= applied[j].n
    BY <2>1 DEF OrderInv, Ordered, InOrder
  <2>3. applied[i].n \in Nat /\ applied[j].n \in Nat
    BY <2>1, EntriesAreNumbered, BoundsAssumption DEF OrderInv, IInv, TypeOK
  <2> QED BY <2>1, <2>2, <2>3
<1> QED BY <1>1, <1>2, <1>3, PTL DEF Spec

(***************************************************************************)
(* Where the updates are.  Each is in one of the four sequences, and none  *)
(* in two.  The client's signals must be distinct, or taking one off would *)
(* leave another of the same update behind.                                *)
(***************************************************************************)
Updates(s) == {s[i].n : i \in DOMAIN s}
Distinct(s) == \A i, j \in DOMAIN s : s[i].n = s[j].n => i = j

Places ==
  /\ Updates(queue) \cup Updates(fetched) \cup Updates(signals) \cup Updates(applied)
       = 1..received
  /\ Updates(queue) \cap Updates(fetched) = {} /\ Updates(queue) \cap Updates(signals) = {}
  /\ Updates(queue) \cap Updates(applied) = {} /\ Updates(fetched) \cap Updates(signals) = {}
  /\ Updates(fetched) \cap Updates(applied) = {} /\ Updates(signals) \cap Updates(applied) = {}
  /\ Distinct(signals)

PlaceInv == OrderInv /\ Places

LEMMA UpdatesOfConcat ==
  ASSUME NEW s \in Seq(Entries), NEW t \in Seq(Entries)
  PROVE  Updates(s \o t) = Updates(s) \cup Updates(t)
<1> DEFINE u == s \o t
<1>1. /\ Len(s) \in Nat /\ Len(t) \in Nat /\ DOMAIN s = 1..Len(s) /\ DOMAIN t = 1..Len(t)
      /\ DOMAIN u = 1..(Len(s) + Len(t))
      /\ \A i \in DOMAIN u : u[i] = IF i <= Len(s) THEN s[i] ELSE t[i - Len(s)]
  BY ConcatProperties, LenProperties
<1> HIDE DEF u
<1>2. ASSUME NEW i \in DOMAIN u PROVE u[i].n \in Updates(s) \cup Updates(t)
  <2>1. CASE i <= Len(s)
    BY <1>1, <2>1 DEF Updates
  <2>2. CASE ~(i <= Len(s))
    <3>1. i - Len(s) \in DOMAIN t /\ u[i] = t[i - Len(s)]
      BY <1>1, <2>2
    <3> QED BY <3>1 DEF Updates
  <2> QED BY <2>1, <2>2
<1>3. ASSUME NEW i \in DOMAIN s PROVE s[i].n \in Updates(u)
  <2>1. i \in DOMAIN u /\ u[i] = s[i]
    BY <1>1
  <2> QED BY <2>1 DEF Updates
<1>4. ASSUME NEW i \in DOMAIN t PROVE t[i].n \in Updates(u)
  <2>1. i + Len(s) \in DOMAIN u /\ u[i + Len(s)] = t[i]
    BY <1>1
  <2> QED BY <2>1 DEF Updates
<1> QED BY <1>2, <1>3, <1>4 DEF Updates, u

LEMMA UpdatesOfAppend ==
  ASSUME BoundsAssumption, NEW s \in Seq(Entries), NEW e \in Entries
  PROVE  /\ Updates(Append(s, e)) = Updates(s) \cup {e.n}
         /\ Distinct(s) /\ e.n \notin Updates(s) => Distinct(Append(s, e))
<1> DEFINE u == Append(s, e)
<1>1. /\ Len(s) \in Nat /\ DOMAIN s = 1..Len(s) /\ DOMAIN u = 1..(Len(s) + 1)
      /\ \A i \in 1..Len(s) : u[i] = s[i]
      /\ u[Len(s) + 1] = e
  BY AppendProperties, LenProperties
<1> HIDE DEF u
<1>2. DOMAIN u = DOMAIN s \cup {Len(s) + 1} /\ \A i \in DOMAIN s : u[i] = s[i]
  BY <1>1
<1>3. Updates(u) = Updates(s) \cup {e.n}
  <2>1. ASSUME NEW i \in DOMAIN u PROVE u[i].n \in Updates(s) \cup {e.n}
    BY <1>1, <1>2 DEF Updates
  <2>2. ASSUME NEW i \in DOMAIN s PROVE s[i].n \in Updates(u)
    BY <1>2 DEF Updates
  <2>3. e.n \in Updates(u)
    BY <1>1, <1>2 DEF Updates
  <2>4. Updates(u) \subseteq Updates(s) \cup {e.n} /\ Updates(s) \subseteq Updates(u)
    BY <2>1, <2>2 DEF Updates
  <2> QED BY <2>3, <2>4
<1>4. ASSUME Distinct(s), e.n \notin Updates(s) PROVE Distinct(u)
  <2>1. \A i \in DOMAIN s : s[i].n # e.n
    BY <1>4 DEF Updates
  <2> QED BY <1>1, <1>2, <1>4, <2>1 DEF Distinct
<1> QED BY <1>3, <1>4 DEF u

LEMMA UpdatesOfTail ==
  ASSUME NEW s \in Seq(Entries), s # <<>>, Distinct(s)
  PROVE  /\ Updates(s) = {Head(s).n} \cup Updates(Tail(s))
         /\ Head(s).n \notin Updates(Tail(s))
         /\ Distinct(Tail(s))
<1> DEFINE t == Tail(s)
           h == Head(s)
<1>1. /\ Len(s) \in Nat /\ Len(s) # 0 /\ DOMAIN s = 1..Len(s) /\ DOMAIN t = 1..(Len(s) - 1)
      /\ \A i \in 1..(Len(s) - 1) : t[i] = s[i + 1]
      /\ h = s[1]
  BY HeadTailProperties, LenProperties, EmptySeq
<1> HIDE DEF t, h
<1>2. \A i \in DOMAIN t : i + 1 \in DOMAIN s /\ i + 1 # 1 /\ t[i] = s[i + 1] /\ i \in Nat
  BY <1>1
<1>3. \A i \in DOMAIN s : i = 1 \/ (i - 1 \in DOMAIN t /\ t[i - 1] = s[i])
  BY <1>1
<1>4. 1 \in DOMAIN s
  BY <1>1
<1>5. Updates(t) \subseteq Updates(s) /\ h.n \in Updates(s)
  BY <1>1, <1>2, <1>4 DEF Updates
<1>6. ASSUME NEW i \in DOMAIN s PROVE s[i].n \in {h.n} \cup Updates(t)
  BY <1>1, <1>3 DEF Updates
<1>7. \A i \in DOMAIN t : t[i].n # h.n
  BY <1>1, <1>2, <1>4 DEF Distinct
<1>8. Distinct(t)
  BY <1>2 DEF Distinct
<1>9. Updates(s) \subseteq {h.n} \cup Updates(t)
  BY <1>6 DEF Updates
<1>10. h.n \notin Updates(t)
  BY <1>7 DEF Updates
<1> QED BY <1>5, <1>8, <1>9, <1>10 DEF t, h

LEMMA UpdatesOfNone == \A s : s = <<>> => Updates(s) = {} /\ Distinct(s)
<1>1. \A s : s = <<>> => DOMAIN s = {}
  OBVIOUS
<1> QED BY <1>1, Zenon DEF Updates, Distinct

LEMMA PlacesStep ==
  ASSUME BoundsAssumption, PlaceInv, [Next]_vars
  PROVE  Places'
<1>0. /\ queue \in Seq(Entries) /\ fetched \in Seq(Entries)
      /\ signals \in Seq(Entries) /\ applied \in Seq(Entries)
      /\ received \in Nat
  BY DEF PlaceInv, OrderInv, IInv, TypeOK, BoundsAssumption
<1>1. ASSUME UNCHANGED <<queue, fetched, signals, applied, received>>
      PROVE  Places'
  BY <1>1 DEF PlaceInv, Places
<1>2. CASE PressKey \/ KeyReturns \/ GiveUp
  BY <1>1, <1>2 DEF PressKey, KeyReturns, GiveUp
<1>3. CASE UpdatesReturn
  <2>1. /\ applied' = applied \o fetched /\ fetched' = <<>>
        /\ UNCHANGED <<queue, signals, received>>
    BY <1>3 DEF UpdatesReturn
  <2>2. /\ Updates(applied') = Updates(applied) \cup Updates(fetched) /\ Updates(fetched') = {}
        /\ Updates(queue') = Updates(queue) /\ Updates(signals') = Updates(signals)
        /\ Distinct(signals')
    BY <1>0, <2>1, UpdatesOfConcat, UpdatesOfNone DEF PlaceInv, Places
  <2> QED BY <2>1, <2>2 DEF PlaceInv, Places
<1>4. CASE DispatchSignal
  <2>1. /\ applied' = Append(applied, Head(signals)) /\ signals' = Tail(signals)
        /\ signals # <<>> /\ UNCHANGED <<queue, fetched, received>>
    BY <1>4 DEF DispatchSignal
  <2>2. Head(signals) \in Entries /\ Distinct(signals)
    BY <1>0, <2>1, HeadTailProperties DEF PlaceInv, Places
  <2>3. /\ Updates(applied') = Updates(applied) \cup {Head(signals).n}
        /\ Updates(signals) = {Head(signals).n} \cup Updates(signals')
        /\ Head(signals).n \notin Updates(signals') /\ Distinct(signals')
        /\ Updates(queue') = Updates(queue) /\ Updates(fetched') = Updates(fetched)
    BY <1>0, <2>1, <2>2, UpdatesOfAppend, UpdatesOfTail
  <2> QED BY <2>1, <2>3 DEF PlaceInv, Places
<1>5. CASE \E k \in Keys : ProcessKeyEvent(k) \/ EngineReply(k) \/ PanelReply(k)
  BY <1>1, <1>5 DEF ProcessKeyEvent, EngineReply, PanelReply, clientVars
<1>6. ASSUME NEW entries \in 1..2, Update(entries)
      PROVE  Places'
  <2>1. UNCHANGED <<fetched, applied>> /\ received' = received + 1
    BY <1>6 DEF Update, clientVars
  <2>2. 1..received' = 1..received \cup {received'} /\ received' \notin 1..received
    BY <1>0, <2>1
  <2>3. /\ Entry(TRUE) \in Entries /\ Entry(TRUE).n = received'
        /\ Entry(FALSE) \in Entries /\ Entry(FALSE).n = received'
    BY <1>0, <1>6, <2>1
       DEF Update, Entry, Entries, PlaceInv, OrderInv, IInv, TypeOK, BoundsAssumption
  <2>4. Updates(fetched') = Updates(fetched) /\ Updates(applied') = Updates(applied)
    BY <2>1
  <2>5. CASE MakesPostProcess
    <3> DEFINE e == Entry(TRUE)
               s == [i \in 1..entries |-> e]
    <3>1. e \in Entries /\ e.n = received' /\ queue' = queue \o s /\ signals' = signals
      BY <1>6, <2>3, <2>5 DEF Update
    <3> HIDE DEF e
    <3>2. s \in Seq(Entries)
      <4>1. s \in [1..entries -> Entries] /\ entries \in Nat
        BY <3>1
      <4> QED BY <4>1, SeqDef
    <3>3. Updates(s) = {received'}
      <4>1. DOMAIN s = 1..entries /\ 1 \in DOMAIN s /\ \A i \in DOMAIN s : s[i] = e
        OBVIOUS
      <4> HIDE DEF s
      <4> QED BY <3>1, <4>1 DEF Updates
    <3> HIDE DEF s
    <3>4. Updates(queue') = Updates(queue) \cup {received'} /\ Updates(signals') = Updates(signals)
      BY <1>0, <3>1, <3>2, <3>3, UpdatesOfConcat
    <3>5. Distinct(signals')
      BY <3>1 DEF PlaceInv, Places
    <3> QED BY <2>2, <2>4, <3>4, <3>5 DEF PlaceInv, Places
  <2>6. CASE ~MakesPostProcess
    <3>1. signals' = Append(signals, Entry(FALSE)) /\ queue' = queue
      BY <1>6, <2>6 DEF Update, EmitSignal
    <3>2. Updates(signals') = Updates(signals) \cup {received'} /\ Updates(queue') = Updates(queue)
      BY <1>0, <2>3, <3>1, UpdatesOfAppend
    <3>3. received' \notin Updates(signals) /\ Distinct(signals)
      BY <2>2 DEF PlaceInv, Places
    <3>4. Distinct(signals')
      BY <1>0, <2>3, <3>1, <3>3, UpdatesOfAppend
    <3> QED BY <2>2, <2>4, <3>2, <3>4 DEF PlaceInv, Places
  <2> QED BY <2>5, <2>6
<1>7. CASE PostProcessKeyEvent
  <2>1. /\ UNCHANGED <<signals, applied, received>> /\ call = "updates"
        /\ \/ UNCHANGED <<queue, fetched>>
           \/ fetched' = queue /\ queue' = <<>>
    BY <1>7 DEF PostProcessKeyEvent
  <2>2. CASE UNCHANGED <<queue, fetched>>
    BY <1>1, <2>1, <2>2
  <2>3. CASE fetched' = queue /\ queue' = <<>>
    <3>1. fetched = <<>>
      BY <2>1 DEF PlaceInv, OrderInv, Received
    <3>2. /\ Updates(fetched) = {} /\ Updates(queue') = {} /\ Updates(fetched') = Updates(queue)
          /\ Updates(signals') = Updates(signals) /\ Updates(applied') = Updates(applied)
          /\ Distinct(signals')
      BY <2>1, <2>3, <3>1, UpdatesOfNone DEF PlaceInv, Places
    <3> QED BY <2>1, <3>2 DEF PlaceInv, Places
  <2> QED BY <2>1, <2>2, <2>3
<1>8. CASE UNCHANGED vars
  BY <1>1, <1>8 DEF vars, clientVars
<1> QED BY <1>2, <1>3, <1>4, <1>5, <1>6, <1>7, <1>8 DEF Next, Daemon, Client

(***************************************************************************)
(* Every update the daemon received is queued, fetched, a signal under way *)
(* or applied, and only one of these: neither a timeout nor a refused      *)
(* fetch loses an update or has one applied twice.                         *)
(***************************************************************************)
THEOREM UpdatesSurvive == Spec => []NothingLost
<1>1. Init => PlaceInv
  <2>1. SUFFICES ASSUME Init PROVE Places
    BY InitIInv, InitOrder, BoundsAssumption DEF OrderInv, PlaceInv
  <2>2. /\ Updates(queue) = {} /\ Updates(fetched) = {} /\ Updates(signals) = {}
        /\ Updates(applied) = {} /\ Distinct(signals) /\ received = 0
    BY <2>1, UpdatesOfNone DEF Init
  <2> QED BY <2>2 DEF Places
<1>2. PlaceInv /\ [Next]_vars => PlaceInv'
  BY TypeStep, ProtocolStep, OrderStep, PlacesStep, BoundsAssumption
     DEF PlaceInv, OrderInv, IInv
<1>3. PlaceInv => NothingLost
  <2> DEFINE place == <<queue, fetched, signals, applied>>
             Has(p, u) == \E i \in DOMAIN place[p] : place[p][i].n = u
  <2>1. SUFFICES ASSUME Places, NEW u \in 1..received
                 PROVE  Cardinality({p \in 1..4 : Has(p, u)}) = 1
    BY DEF NothingLost, PlaceInv
  <2>2. /\ Has(1, u) <=> u \in Updates(queue)
        /\ Has(2, u) <=> u \in Updates(fetched)
        /\ Has(3, u) <=> u \in Updates(signals)
        /\ Has(4, u) <=> u \in Updates(applied)
    BY DEF Updates
  <2> HIDE DEF Has
  <2>3. \E p \in 1..4 : Has(p, u) /\ \A q \in 1..4 : Has(q, u) => q = p
    BY <2>1, <2>2 DEF Places
  <2>4. PICK p \in 1..4 : {q \in 1..4 : Has(q, u)} = {p}
    BY <2>3
  <2> QED BY <2>4, FS_Singleton
<1> QED BY <1>1, <1>2, <1>3, PTL DEF Spec

-----------------------------------------------------------------------------
(***************************************************************************)
(* The connection of a client to the daemon, for any number of daemons and *)
(* requests: without a cancelled request, what the object shows of its     *)
(* connection is true of it.                                               *)
(***************************************************************************)

(***************************************************************************)
(* The inductive invariant.  A second request cancels the first, so that   *)
(* without cancelled requests only one is under way, and none while there  *)
(* is a connection.                                                        *)
(***************************************************************************)
Unused == {r \in RequestIds : requests[r].phase = "unused"}

Fresh ==
  /\ ~bus.exists => Unused = RequestIds /\ bus.connection = Null
  /\ \A r \in Unused : ~requests[r].cancelled
  /\ \A r \in RequestIds :
       requests[r].phase \in {"unused", "running", "failed"} => link[r] = "none"
  /\ bus.connection # Null => requests[bus.connection].phase = "done"
  /\ daemon \in {0, started}

OneRequest ==
  /\ \A q, r \in Unfinished : q = r
  /\ \A r \in Unfinished : bus.connection = Null /\ bus.address = requests[r].address
  /\ handlers = IF bus.connection = Null THEN {} ELSE {bus.connection}

BusInv == BusTypeOK /\ Fresh /\ (~AnyCancelled => OneRequest /\ BusInOrder)

(***************************************************************************)
(* What the assignments to bus->priv do, field by field.                   *)
(***************************************************************************)
BusData ==
  [exists : BOOLEAN, address : Addresses \cup {Null}, connection : RequestIds \cup {Null},
   connected : BOOLEAN, watch : BOOLEAN, subscribed : RequestIds \cup {Null}]

RequestData ==
  [address : Addresses \cup {Null}, cancelled : BOOLEAN,
   phase : {"unused", "running", "ok", "failed", "done"}]

LEMMA ClosedFields ==
  ASSUME NEW b \in BusData
  PROVE  /\ Closed(b) \in BusData
         /\ Closed(b).exists = b.exists /\ Closed(b).watch = b.watch
         /\ Closed(b).address = Null /\ Closed(b).connection = Null
         /\ ~Closed(b).connected /\ Closed(b).subscribed = Null
BY DEF Closed, BusData

LEMMA FailedFields ==
  ASSUME NEW b \in BusData
  PROVE  /\ Failed(b) \in BusData
         /\ Failed(b).exists = b.exists /\ Failed(b).watch = b.watch
         /\ Failed(b).address = Null /\ Failed(b).connection = Null
         /\ Failed(b).connected = b.connected /\ Failed(b).subscribed = b.subscribed
BY DEF Failed, BusData

LEMMA WatchedFields ==
  ASSUME NEW b \in BusData
  PROVE  /\ Watched(b) \in BusData
         /\ Watched(b).exists = b.exists /\ Watched(b).watch = b.watch
         /\ Watched(b).address = b.address /\ Watched(b).connection = b.connection
         /\ Watched(b).connected = b.connected
         /\ Watched(b).subscribed = IF b.subscribed = Null THEN b.connection ELSE b.subscribed
BY DEF Watched, BusData

LEMMA CompletedFields ==
  ASSUME NEW b \in BusData
  PROVE  /\ Completed(b) \in BusData
         /\ Completed(b).exists = b.exists /\ Completed(b).watch = b.watch
         /\ Completed(b).address = b.address /\ Completed(b).connection = b.connection
         /\ Completed(b).connected
         /\ Completed(b).subscribed = IF b.watch /\ b.subscribed = Null THEN b.connection
                                      ELSE b.subscribed
<1> DEFINE c == [b EXCEPT !.connected = TRUE]
<1>1. /\ c \in BusData /\ c.exists = b.exists /\ c.watch = b.watch /\ c.address = b.address
      /\ c.connection = b.connection /\ c.connected /\ c.subscribed = b.subscribed
  BY DEF BusData
<1>2. Completed(b) = IF c.watch THEN Watched(c) ELSE c
  BY DEF Completed
<1> HIDE DEF c
<1> QED BY <1>1, <1>2, WatchedFields

LEMMA CancelledFields ==
  ASSUME BusTypeOK
  PROVE  /\ Cancelled \in [RequestIds -> RequestData]
         /\ \A r \in RequestIds : /\ Cancelled[r].address = requests[r].address
                                  /\ Cancelled[r].phase = requests[r].phase
                                  /\ Cancelled[r].cancelled
                                       <=> requests[r].cancelled \/ r \in Unfinished
<1>1. requests \in [RequestIds -> RequestData]
  BY DEF BusTypeOK, RequestData
<1>2. \A r \in RequestIds :
        /\ Cancelled[r] \in RequestData
        /\ Cancelled[r].address = requests[r].address
        /\ Cancelled[r].phase = requests[r].phase
        /\ Cancelled[r].cancelled <=> requests[r].cancelled \/ r \in Unfinished
  BY <1>1 DEF Cancelled, RequestData
<1> QED BY <1>2 DEF Cancelled

LEMMA BusInvInit == ASSUME ClientBusAssumption, BusInit PROVE BusInv
<1>1. BusTypeOK
  <2>1. bus \in [exists : BOOLEAN, address : Addresses \cup {Null}, connection : RequestIds \cup {Null},
                 connected : BOOLEAN, watch : BOOLEAN, subscribed : RequestIds \cup {Null}]
    BY DEF BusInit
  <2>2. requests \in [RequestIds -> [address : Addresses \cup {Null}, cancelled : BOOLEAN,
                                     phase : {"unused", "running", "ok", "failed", "done"}]]
    BY DEF BusInit
  <2>3. link \in [RequestIds -> {"none", "open", "closing", "closed"}]
    BY DEF BusInit
  <2>4. /\ daemon \in 0..MaxStarts /\ started \in 0..MaxStarts /\ changes \in 0..2
        /\ handlers \subseteq RequestIds /\ told \in BOOLEAN /\ refused \in BOOLEAN
    <3>1. daemon = 0 /\ started = 0 /\ changes = 0 /\ refused \in BOOLEAN
      BY DEF BusInit
    <3>2. handlers = {} /\ told \in BOOLEAN
      BY DEF BusInit
    <3> QED BY <3>1, <3>2 DEF ClientBusAssumption
  <2> QED BY <2>1, <2>2, <2>3, <2>4 DEF BusTypeOK
<1>2. /\ bus.connection = Null /\ ~bus.connected /\ bus.subscribed = Null
      /\ \A r \in RequestIds : requests[r].phase = "unused" /\ ~requests[r].cancelled
      /\ \A r \in RequestIds : link[r] = "none"
      /\ handlers = {} /\ ~told /\ daemon = 0
  BY DEF BusInit
<1>3. Unfinished = {} /\ Unused = RequestIds
  BY <1>2 DEF Unfinished, Unused
<1>4. Fresh /\ OneRequest
  BY <1>2, <1>3 DEF Fresh, OneRequest
<1>5. BusInOrder
  BY <1>2 DEF BusInOrder, IsConnected
<1> QED BY <1>1, <1>4, <1>5 DEF BusInv

(***************************************************************************)
(* A new request: nothing is left of the connection that was there, and    *)
(* what was under way is cancelled.                                        *)
(***************************************************************************)
LEMMA ConnectAsyncEffect ==
  ASSUME ClientBusAssumption, BusTypeOK, daemon \in {0, started},
         NEW r \in RequestIds, ConnectAsync(r)
  PROVE  /\ bus' \in BusData /\ bus'.exists /\ bus'.address = BusAddress
         /\ bus'.connection = Null /\ ~bus'.connected /\ bus'.subscribed = Null
         /\ requests' \in [RequestIds -> RequestData]
         /\ requests'[r].phase = "running" /\ requests'[r].address = BusAddress
         /\ \A q \in RequestIds \ {r} :
              /\ requests'[q].phase = requests[q].phase
              /\ requests'[q].cancelled <=> requests[q].cancelled \/ q \in Unfinished
         /\ r \in Unused
         /\ handlers' = handlers \ {bus.connection}
         /\ told' = (told /\ bus.connection = Null)
         /\ link' \in [RequestIds -> {"none", "open", "closing", "closed"}]
         /\ \A q \in RequestIds : link'[q] = IF q = bus.connection THEN "closed" ELSE link[q]
<1>1. bus \in BusData /\ BusAddress \in Addresses \cup {Null}
  BY DEF BusTypeOK, BusData, BusAddress, ClientBusAssumption, Addresses
<1>2. bus' = [Closed(bus) EXCEPT !.exists = TRUE, !.address = BusAddress]
  BY DEF ConnectAsync
<1>3. /\ bus' \in BusData /\ bus'.exists /\ bus'.address = BusAddress
      /\ bus'.connection = Null /\ ~bus'.connected /\ bus'.subscribed = Null
  BY <1>1, <1>2, ClosedFields DEF BusData
<1> DEFINE n == [address |-> BusAddress, cancelled |-> FALSE, phase |-> "running"]
<1>4. n \in RequestData /\ n.phase = "running" /\ n.address = BusAddress
  BY <1>1 DEF RequestData
<1>5. requests' = [Cancelled EXCEPT ![r] = n]
  BY DEF ConnectAsync
<1> HIDE DEF n
<1>6. /\ requests' \in [RequestIds -> RequestData]
      /\ requests'[r] = n
      /\ \A q \in RequestIds \ {r} : requests'[q] = Cancelled[q]
  BY <1>4, <1>5, CancelledFields
<1>7. /\ link' \in [RequestIds -> {"none", "open", "closing", "closed"}]
      /\ \A q \in RequestIds : link'[q] = IF q = bus.connection THEN "closed" ELSE link[q]
  BY DEF ConnectAsync, CloseConnection, BusTypeOK
<1>8. r \in Unused /\ handlers' = handlers \ {bus.connection}
      /\ told' = (told /\ bus.connection = Null)
  BY DEF ConnectAsync, CloseConnection, Unused
<1> QED BY <1>3, <1>4, <1>6, <1>7, <1>8, CancelledFields

LEMMA BusTypes ==
  BusTypeOK <=> /\ daemon \in 0..MaxStarts /\ started \in 0..MaxStarts /\ changes \in 0..2
                /\ bus \in BusData /\ requests \in [RequestIds -> RequestData]
                /\ link \in [RequestIds -> {"none", "open", "closing", "closed"}]
                /\ handlers \subseteq RequestIds /\ told \in BOOLEAN /\ refused \in BOOLEAN
BY DEF BusTypeOK, BusData, RequestData

LEMMA BusTypesNext ==
  /\ daemon' \in 0..MaxStarts /\ started' \in 0..MaxStarts /\ changes' \in 0..2
  /\ bus' \in BusData /\ requests' \in [RequestIds -> RequestData]
  /\ link' \in [RequestIds -> {"none", "open", "closing", "closed"}]
  /\ handlers' \subseteq RequestIds /\ told' \in BOOLEAN /\ refused' \in BOOLEAN
  => BusTypeOK'
BY DEF BusTypeOK, BusData, RequestData

\* Only a new daemon makes up for a refusal.
LEMMA RefusalLasts ==
  ASSUME refused \in BOOLEAN, [BusNext]_busVars
  PROVE  refused' \in BOOLEAN /\ (refused => refused' \/ DaemonStarts)
<1>1. CASE DaemonStarts
  BY <1>1 DEF DaemonStarts
<1>2. CASE DaemonExits \/ NewBus \/ AddressChanged \/ UNCHANGED busVars
  BY <1>2 DEF DaemonExits, NewBus, Connect, ConnectFails, AddressChanged, busVars, daemonVars
<1>3. ASSUME NEW r \in RequestIds, RequestEnds(r) \/ ConnectReady(r) \/ ConnectionLost(r)
      PROVE  refused' \in BOOLEAN /\ (refused => refused')
  <2>1. CASE UNCHANGED refused
    BY <2>1
  <2>2. CASE RequestEnds(r)
    <3>1. \/ UNCHANGED refused
          \/ refused' = (refused \/ (daemon = requests[r].address /\ ~requests[r].cancelled))
      BY <2>2 DEF RequestEnds
    <3> QED BY <2>1, <3>1
  <2>3. CASE ConnectReady(r) \/ ConnectionLost(r)
    BY <2>1, <2>3 DEF ConnectReady, ConnectionLost, daemonVars
  <2> QED BY <1>3, <2>2, <2>3
<1>4. CASE \E w \in BOOLEAN : SetWatch(w)
  BY <1>4 DEF SetWatch, daemonVars
<1> QED BY <1>1, <1>2, <1>3, <1>4 DEF BusNext

LEMMA RequestUpdate ==
  ASSUME NEW f \in [RequestIds -> RequestData], NEW r \in RequestIds,
         NEW x \in {"ok", "failed", "done"}, NEW g, g = [f EXCEPT ![r].phase = x]
  PROVE  /\ g \in [RequestIds -> RequestData]
         /\ \A q \in RequestIds \ {r} : g[q] = f[q]
         /\ g[r].phase = x /\ g[r].address = f[r].address /\ g[r].cancelled = f[r].cancelled
BY DEF RequestData

LEMMA WatchEffect ==
  ASSUME BusTypeOK, NEW w \in BOOLEAN, SetWatch(w)
  PROVE  /\ UNCHANGED <<daemon, started, changes, requests, link, handlers, told>> /\ bus.exists
         /\ bus' \in BusData /\ bus'.watch = w /\ bus'.exists = bus.exists
         /\ bus'.address = bus.address
         /\ bus'.connection = bus.connection /\ bus'.connected = bus.connected
         /\ bus'.subscribed \in {bus.subscribed, Null, bus.connection}
         /\ IsConnected => bus'.subscribed = IF ~w THEN Null
                                             ELSE IF bus.subscribed = Null THEN bus.connection
                                             ELSE bus.subscribed
<1> DEFINE b == [bus EXCEPT !.watch = w]
           s == [b EXCEPT !.subscribed = Null]
<1>1. /\ UNCHANGED <<daemon, started, changes, requests, link, handlers, told>>
      /\ bus' = CASE ~IsConnected -> b
                  [] IsConnected /\ w -> Watched(b)
                  [] OTHER -> s
      /\ bus.exists
  BY DEF SetWatch, daemonVars
<1>2. /\ b \in BusData /\ b.watch = w /\ b.exists = bus.exists /\ b.address = bus.address
      /\ b.connection = bus.connection /\ b.connected = bus.connected
      /\ b.subscribed = bus.subscribed
  BY BusTypes DEF BusData
<1>3. /\ s \in BusData /\ s.watch = w /\ s.exists = bus.exists /\ s.address = bus.address
      /\ s.connection = bus.connection /\ s.connected = bus.connected
      /\ s.subscribed = Null
  BY BusTypes DEF BusData
<1> HIDE DEF b, s
<1>4. bus' = IF ~IsConnected THEN b ELSE IF w THEN Watched(b) ELSE s
  BY <1>1
<1> QED BY <1>1, <1>2, <1>3, <1>4, WatchedFields

LEMMA BusInvStep ==
  ASSUME ClientBusAssumption, BusInv, [BusNext]_busVars
  PROVE  BusInv'
<1> DEFINE Good == ~AnyCancelled => OneRequest /\ BusInOrder
<1>0. /\ daemon \in 0..MaxStarts /\ started \in 0..MaxStarts /\ changes \in 0..2
      /\ bus \in BusData /\ requests \in [RequestIds -> RequestData]
      /\ link \in [RequestIds -> {"none", "open", "closing", "closed"}]
      /\ handlers \subseteq RequestIds /\ told \in BOOLEAN
      /\ BusTypeOK /\ daemon \in {0, started} /\ refused' \in BOOLEAN
  BY BusTypes, RefusalLasts DEF BusInv, Fresh
<1>a. Null \notin RequestIds
  BY DEF ClientBusAssumption, RequestIds
<1>b. BusAddress \in Addresses \cup {Null}
  BY <1>0 DEF BusAddress, Addresses, ClientBusAssumption
\* a step that only the daemon notices
<1>1. ASSUME UNCHANGED <<bus, requests, handlers, told>>, daemon' \in {0, started'},
             \A r \in RequestIds : link'[r] = link[r] \/ (link[r] # "none" /\ link'[r] \notin {"open"})
      PROVE  Fresh' /\ Good'
  <2>1. Fresh' /\ (AnyCancelled' <=> AnyCancelled) /\ Unfinished' = Unfinished
    BY <1>1 DEF BusInv, Fresh, Unused, AnyCancelled, Unfinished
  <2>2. OneRequest => OneRequest'
    BY <1>1, <2>1 DEF OneRequest
  <2>3. IsConnected' => IsConnected
    BY <1>0, <1>1 DEF IsConnected, BusData
  <2>4. BusInOrder /\ ~AnyCancelled => BusInOrder'
    BY <1>1, <2>1, <2>3 DEF BusInOrder
  <2> QED BY <2>1, <2>2, <2>4 DEF BusInv
<1>2. CASE DaemonStarts
  <2>1. BusTypeOK'
    BY <1>0, <1>2, BusTypesNext DEF DaemonStarts, ClientBusAssumption
  <2>2. Fresh' /\ Good'
    BY <1>1, <1>2 DEF DaemonStarts
  <2> QED BY <2>1, <2>2 DEF BusInv
<1>3. CASE DaemonExits
  <2>1. BusTypeOK'
    BY <1>0, <1>3, BusTypesNext DEF DaemonExits, ClientBusAssumption
  <2>2. Fresh' /\ Good'
    BY <1>0, <1>1, <1>3 DEF DaemonExits
  <2> QED BY <2>1, <2>2 DEF BusInv
<1>4. ASSUME NEW r \in RequestIds, ConnectAsync(r), daemon' = daemon, started' = started,
             changes' \in 0..2
      PROVE  BusInv'
  <2>1. /\ bus' \in BusData /\ bus'.exists /\ bus'.address = BusAddress
        /\ bus'.connection = Null /\ ~bus'.connected /\ bus'.subscribed = Null
        /\ requests' \in [RequestIds -> RequestData]
        /\ requests'[r].phase = "running" /\ requests'[r].address = BusAddress
        /\ \A q \in RequestIds \ {r} :
             /\ requests'[q].phase = requests[q].phase
             /\ requests'[q].cancelled <=> requests[q].cancelled \/ q \in Unfinished
        /\ r \in Unused
        /\ handlers' = handlers \ {bus.connection}
        /\ told' = (told /\ bus.connection = Null)
        /\ link' \in [RequestIds -> {"none", "open", "closing", "closed"}]
        /\ \A q \in RequestIds : link'[q] = IF q = bus.connection THEN "closed" ELSE link[q]
    BY <1>0, <1>4, ConnectAsyncEffect
  <2>2. BusTypeOK'
    BY <1>0, <1>4, <2>1, BusTypesNext
  <2>3. Fresh'
    <3>1. bus'.exists /\ bus'.connection = Null /\ daemon' \in {0, started'}
      BY <1>0, <1>4, <2>1
    <3>2. \A q \in Unused' : q # r /\ q \in Unused /\ q \notin Unfinished
      BY <2>1 DEF Unused, Unfinished
    <3>3. \A q \in Unused' : ~requests'[q].cancelled
      BY <2>1, <3>2 DEF BusInv, Fresh, Unused
    <3>4. ASSUME NEW q \in RequestIds, requests'[q].phase \in {"unused", "running", "failed"}
          PROVE  link'[q] = "none"
      <4>1. requests[q].phase \in {"unused", "running", "failed"}
        BY <2>1, <3>4 DEF Unused
      <4>2. link[q] = "none" /\ q # bus.connection
        BY <1>a, <4>1 DEF BusInv, Fresh
      <4> QED BY <2>1, <4>2
    <3> QED BY <3>1, <3>3, <3>4 DEF Fresh
  <2>4. ASSUME ~AnyCancelled' PROVE OneRequest' /\ BusInOrder'
    <3>1. ~AnyCancelled /\ Unfinished = {}
      BY <2>1, <2>4 DEF AnyCancelled, Unfinished, Unused, BusInv, Fresh
    <3>2. OneRequest /\ BusInOrder
      BY <3>1 DEF BusInv
    <3>3. Unfinished' = {r}
      BY <2>1, <3>1 DEF Unfinished
    <3>4. handlers' = {}
      BY <2>1, <3>2 DEF OneRequest
    <3>5. OneRequest'
      BY <2>1, <3>3, <3>4 DEF OneRequest
    <3>6. ~told'
      BY <2>1, <3>1, <3>2 DEF BusInOrder
    <3>7. \A q \in RequestIds : ~(link'[q] = "open" /\ requests'[q].phase = "done")
      BY <1>a, <2>1, <3>1, <3>2 DEF BusInOrder
    <3>8. ~IsConnected'
      BY <2>1 DEF IsConnected
    <3> QED BY <2>1, <3>4, <3>5, <3>6, <3>7, <3>8 DEF BusInOrder
  <2> QED BY <2>2, <2>3, <2>4 DEF BusInv
<1>5. ASSUME NEW r \in RequestIds, Connect(r), NewBus, UNCHANGED <<daemon, started, changes>>
      PROVE  BusInv'
  <2> DEFINE b == [bus EXCEPT !.exists = TRUE, !.address = BusAddress, !.connection = r]
             n == [address |-> BusAddress, cancelled |-> FALSE, phase |-> "done"]
  <2>1. Unused = RequestIds /\ bus.connection = Null /\ ~AnyCancelled
    BY <1>5 DEF BusInv, Fresh, NewBus, AnyCancelled
  <2>2. OneRequest /\ BusInOrder
    BY <2>1 DEF BusInv
  <2>3. /\ b \in BusData /\ b.exists /\ b.address = BusAddress /\ b.connection = r
        /\ b.subscribed = bus.subscribed /\ b.watch = bus.watch
    BY <1>0, <1>b DEF BusData
  <2>4. n \in RequestData /\ n.address = BusAddress /\ ~n.cancelled /\ n.phase = "done"
    BY <1>b DEF RequestData
  <2>5. /\ bus' = Completed(b) /\ requests' = [requests EXCEPT ![r] = n]
        /\ link' = [link EXCEPT ![r] = "open"] /\ handlers' = {r} /\ told' = TRUE
    BY <1>5 DEF Connect
  <2> HIDE DEF b, n
  <2>6. bus.subscribed = Null
    BY <2>1, <2>2 DEF BusInOrder
  <2>7. /\ bus' \in BusData /\ bus'.exists /\ bus'.address = BusAddress /\ bus'.connection = r
        /\ bus'.connected /\ bus'.subscribed = IF bus'.watch THEN r ELSE Null
    BY <2>3, <2>5, <2>6, CompletedFields
  <2>8. /\ requests' \in [RequestIds -> RequestData] /\ requests'[r] = n
        /\ \A q \in RequestIds \ {r} : requests'[q] = requests[q]
    BY <1>0, <2>4, <2>5
  <2>9. BusTypeOK'
    BY <1>0, <1>5, <2>5, <2>7, <2>8, BusTypesNext
  <2>10. Fresh'
    BY <1>0, <1>5, <2>4, <2>5, <2>7, <2>8 DEF BusInv, Fresh, Unused
  <2>11. Unfinished' = {}
    BY <2>1, <2>4, <2>8 DEF Unfinished, Unused
  <2>12. OneRequest'
    BY <1>a, <2>4, <2>5, <2>7, <2>8, <2>11 DEF OneRequest
  <2>13. \A q \in RequestIds : (link'[q] = "open" /\ requests'[q].phase = "done") \/ q \in handlers'
                                => q = r
    BY <2>1, <2>5, <2>8 DEF Unused
  <2>14. BusInOrder'
    BY <1>a, <2>4, <2>5, <2>7, <2>8, <2>13 DEF BusInOrder
  <2> QED BY <2>9, <2>10, <2>12, <2>14 DEF BusInv
<1>6. CASE NewBus
  <2>1. UNCHANGED <<daemon, started, changes>>
    BY <1>6 DEF NewBus, daemonVars
  <2>2. CASE /\ bus' = [bus EXCEPT !.exists = TRUE]
             /\ UNCHANGED <<requests, link, handlers, told>>
    <3>1. /\ bus' \in BusData /\ bus'.exists /\ bus'.address = bus.address
          /\ bus'.connection = bus.connection /\ bus'.connected = bus.connected
          /\ bus'.watch = bus.watch /\ bus'.subscribed = bus.subscribed
      BY <1>0, <2>2 DEF BusData
    <3>2. BusTypeOK'
      BY <1>0, <2>1, <2>2, <3>1, BusTypesNext
    <3>3. Fresh' /\ (AnyCancelled' <=> AnyCancelled) /\ Unfinished' = Unfinished
      BY <1>0, <2>1, <2>2, <3>1 DEF BusInv, Fresh, Unused, AnyCancelled, Unfinished
    <3>4. OneRequest => OneRequest'
      BY <2>2, <3>1, <3>3 DEF OneRequest
    <3>5. IsConnected' <=> IsConnected
      BY <2>2, <3>1 DEF IsConnected
    <3>6. BusInOrder => BusInOrder'
      BY <2>2, <3>1, <3>3, <3>5 DEF BusInOrder
    <3> QED BY <3>2, <3>3, <3>4, <3>6 DEF BusInv
  <2> QED BY <1>0, <1>4, <1>5, <1>6, <2>1, <2>2 DEF NewBus, ConnectFails
<1>7. CASE AddressChanged
  <2>1. UNCHANGED <<daemon, started>> /\ changes' \in 0..2
    BY <1>0, <1>7 DEF AddressChanged, daemonVars
  <2>2. CASE UNCHANGED <<bus, requests, link, handlers, told>>
    <3>1. Fresh' /\ Good'
      BY <1>0, <1>1, <2>1, <2>2
    <3>2. BusTypeOK'
      BY <1>0, <2>1, <2>2, BusTypesNext
    <3> QED BY <3>1, <3>2 DEF BusInv
  <2> QED BY <1>4, <1>7, <2>1, <2>2 DEF AddressChanged, AlreadyConnecting
<1>8. ASSUME NEW r \in RequestIds, RequestEnds(r) PROVE BusInv'
  <2>1. PICK x \in {"ok", "failed"} :
          /\ requests' = [requests EXCEPT ![r].phase = x]
          /\ link' = IF x = "ok" THEN [link EXCEPT ![r] = "open"] ELSE link
          /\ requests[r].phase = "running"
          /\ UNCHANGED <<daemon, started, changes, bus, handlers, told>>
    BY <1>8 DEF RequestEnds, daemonVars
  <2>2. /\ requests' \in [RequestIds -> RequestData]
        /\ \A q \in RequestIds \ {r} : requests'[q] = requests[q]
        /\ requests'[r].phase = x /\ requests'[r].address = requests[r].address
        /\ requests'[r].cancelled = requests[r].cancelled
    BY <1>0, <2>1, RequestUpdate
  <2>3. BusTypeOK'
    BY <1>0, <2>1, <2>2, BusTypesNext
  <2>4. Fresh' /\ (AnyCancelled' <=> AnyCancelled) /\ Unfinished' = Unfinished
    BY <1>0, <2>1, <2>2 DEF BusInv, Fresh, Unused, AnyCancelled, Unfinished
  <2>5. \A q \in RequestIds : /\ requests'[q].phase = "done" <=> requests[q].phase = "done"
                              /\ requests'[q].address = requests[q].address
                              /\ q # r => link'[q] = link[q]
    BY <1>0, <2>1, <2>2
  <2>6. ASSUME ~AnyCancelled PROVE OneRequest' /\ BusInOrder'
    <3>1. OneRequest /\ BusInOrder
      BY <2>6 DEF BusInv
    <3>2. bus.connection # r
      BY <1>a, <2>1 DEF BusInv, Fresh
    <3>3. bus.connection \in RequestIds \cup {Null}
      BY <1>0 DEF BusData
    <3>4. OneRequest'
      BY <2>1, <2>4, <2>5, <3>1, <3>3 DEF OneRequest, Unfinished
    <3>5. IsConnected' <=> IsConnected
      BY <2>1, <2>5, <3>2, <3>3 DEF IsConnected
    <3>6. BusInOrder'
      BY <2>1, <2>2, <2>5, <2>6, <3>1, <3>3, <3>5 DEF BusInOrder
    <3> QED BY <3>4, <3>6
  <2> QED BY <2>3, <2>4, <2>6 DEF BusInv
<1>9. ASSUME NEW r \in RequestIds, ConnectReady(r) PROVE BusInv'
  <2>1. /\ requests[r].phase \in {"ok", "failed"}
        /\ requests' = [requests EXCEPT ![r].phase = "done"]
        /\ UNCHANGED <<daemon, started, changes, link>>
    BY <1>9 DEF ConnectReady, daemonVars
  <2>2. /\ requests' \in [RequestIds -> RequestData]
        /\ \A q \in RequestIds \ {r} : requests'[q] = requests[q]
        /\ requests'[r].phase = "done" /\ requests'[r].address = requests[r].address
        /\ requests'[r].cancelled = requests[r].cancelled
    BY <1>0, <2>1, RequestUpdate
  <2>3. r \in Unfinished /\ r \notin Unused /\ bus.exists
    BY <2>1 DEF Unfinished, Unused, BusInv, Fresh
  <2>4. (AnyCancelled' <=> AnyCancelled) /\ Unfinished' = Unfinished \ {r} /\ Unused' = Unused
    BY <2>1, <2>2, <2>3 DEF AnyCancelled, Unfinished, Unused
  <2>5. \A q \in Unused : ~requests'[q].cancelled
    BY <2>2, <2>3 DEF BusInv, Fresh, Unused
  <2>6. ASSUME ~AnyCancelled
        PROVE  /\ OneRequest /\ BusInOrder /\ Unfinished' = {}
               /\ bus.connection = Null /\ bus.address = requests[r].address
               /\ handlers = {} /\ ~told /\ ~bus.connected /\ bus.subscribed = Null
    <3>1. OneRequest /\ BusInOrder
      BY <2>6 DEF BusInv
    <3>2. bus.connection = Null /\ Unfinished' = {} /\ bus.address = requests[r].address
      BY <2>3, <2>4, <3>1 DEF OneRequest
    <3>3. handlers = {}
      BY <3>1, <3>2 DEF OneRequest
    <3>4. ~told /\ ~bus.connected /\ bus.subscribed = Null
      BY <2>6, <3>1, <3>2 DEF BusInOrder
    <3> QED BY <3>1, <3>2, <3>3, <3>4
  <2>7. CASE requests[r].phase = "ok"
    <3> DEFINE b == [bus EXCEPT !.connection = r]
    <3>1. bus' = Completed(b) /\ handlers' = handlers \cup {r} /\ told' = TRUE
      BY <1>9, <2>7 DEF ConnectReady
    <3>2. /\ b \in BusData /\ b.exists = bus.exists /\ b.address = bus.address /\ b.connection = r
          /\ b.subscribed = bus.subscribed /\ b.watch = bus.watch
      BY <1>0 DEF BusData
    <3> HIDE DEF b
    <3>3. /\ bus' \in BusData /\ bus'.exists /\ bus'.address = bus.address
          /\ bus'.connection = r /\ bus'.connected
          /\ bus.subscribed = Null => bus'.subscribed = IF bus'.watch THEN r ELSE Null
      BY <2>3, <3>1, <3>2, CompletedFields
    <3>4. BusTypeOK'
      BY <1>0, <2>1, <2>2, <3>1, <3>3, BusTypesNext
    <3>5. Fresh'
      BY <1>0, <2>1, <2>2, <2>4, <2>5, <3>3 DEF BusInv, Fresh
    <3>6. ASSUME ~AnyCancelled PROVE OneRequest' /\ BusInOrder'
      <4>1. OneRequest'
        BY <1>a, <2>2, <2>6, <3>1, <3>3, <3>6 DEF OneRequest
      <4>2. \A q \in RequestIds : (link'[q] = "open" /\ requests'[q].phase = "done") \/ q \in handlers'
                                    => q = r
        BY <1>a, <2>1, <2>2, <2>6, <3>1, <3>6 DEF BusInOrder
      <4>3. BusInOrder'
        BY <1>a, <2>2, <2>6, <3>1, <3>3, <3>6, <4>2 DEF BusInOrder
      <4> QED BY <4>1, <4>3
    <3> QED BY <2>4, <3>4, <3>5, <3>6 DEF BusInv
  <2>8. CASE requests[r].phase # "ok"
    <3>1. bus' = Failed(bus) /\ UNCHANGED <<handlers, told>>
      BY <1>9, <2>8 DEF ConnectReady
    <3>2. /\ bus' \in BusData /\ bus'.exists /\ bus'.connection = Null
          /\ bus'.connected = bus.connected /\ bus'.subscribed = bus.subscribed
      BY <1>0, <2>3, <3>1, FailedFields
    <3>3. BusTypeOK'
      BY <1>0, <2>1, <2>2, <3>1, <3>2, BusTypesNext
    <3>4. Fresh'
      BY <1>0, <2>1, <2>2, <2>4, <2>5, <3>2 DEF BusInv, Fresh
    <3>5. ASSUME ~AnyCancelled PROVE OneRequest' /\ BusInOrder'
      <4>1. OneRequest'
        BY <2>6, <3>1, <3>2, <3>5 DEF OneRequest
      <4>2. link[r] # "open"
        BY <2>1, <2>8 DEF BusInv, Fresh
      <4>3. \A q \in RequestIds : ~((link'[q] = "open" /\ requests'[q].phase = "done") \/ q \in handlers')
        BY <1>a, <2>1, <2>2, <2>6, <3>1, <3>5, <4>2 DEF BusInOrder
      <4>4. ~IsConnected'
        BY <3>2 DEF IsConnected
      <4>5. BusInOrder'
        BY <2>6, <3>1, <3>2, <3>5, <4>3, <4>4 DEF BusInOrder
      <4> QED BY <4>1, <4>5
    <3> QED BY <2>4, <3>3, <3>4, <3>5 DEF BusInv
  <2> QED BY <2>7, <2>8
<1>10. ASSUME NEW r \in RequestIds, ConnectionLost(r) PROVE BusInv'
  <2>0. UNCHANGED <<daemon, started, changes>> /\ link[r] = "closing"
    BY <1>10 DEF ConnectionLost, daemonVars
  <2>1. CASE r \notin handlers
    <3>1. link' = [link EXCEPT ![r] = "closed"] /\ UNCHANGED <<bus, requests, handlers, told>>
      BY <1>10, <2>1 DEF ConnectionLost
    <3>2. Fresh' /\ Good'
      BY <1>0, <1>1, <2>0, <3>1
    <3>3. BusTypeOK'
      BY <1>0, <2>0, <3>1, BusTypesNext
    <3> QED BY <3>2, <3>3 DEF BusInv
  <2>2. CASE r \in handlers
    <3>1. /\ link' = [q \in RequestIds |-> IF q \in {r, bus.connection} THEN "closed" ELSE link[q]]
          /\ handlers' = handlers \ {bus.connection}
          /\ told' = (told /\ bus.connection = Null)
          /\ bus' = Closed(bus)
          /\ requests' = Cancelled
      BY <1>10, <2>2 DEF ConnectionLost
    <3>2. /\ bus' \in BusData /\ bus'.exists = bus.exists /\ bus'.connection = Null
          /\ ~bus'.connected /\ bus'.subscribed = Null
      BY <1>0, <3>1, ClosedFields
    <3>3. /\ requests' \in [RequestIds -> RequestData]
          /\ \A q \in RequestIds : /\ requests'[q].phase = requests[q].phase
                                   /\ requests'[q].cancelled
                                        <=> requests[q].cancelled \/ q \in Unfinished
      BY <1>0, <3>1, CancelledFields
    <3>4. BusTypeOK'
      BY <1>0, <2>0, <3>1, <3>2, <3>3, BusTypesNext
    <3>5. Fresh'
      <4>1. daemon' \in {0, started'} /\ bus'.connection = Null
            /\ (~bus'.exists => Unused' = RequestIds)
        BY <1>0, <2>0, <3>2, <3>3 DEF BusInv, Fresh, Unused
      <4>2. \A q \in Unused' : ~requests'[q].cancelled
        BY <3>3 DEF BusInv, Fresh, Unused, Unfinished
      <4>3. ASSUME NEW q \in RequestIds, requests'[q].phase \in {"unused", "running", "failed"}
            PROVE  link'[q] = "none"
        <5>1. link[q] = "none" /\ q # bus.connection
          BY <1>a, <3>3, <4>3 DEF BusInv, Fresh
        <5> QED BY <2>0, <3>1, <5>1
      <4> QED BY <4>1, <4>2, <4>3 DEF Fresh
    <3>6. ASSUME ~AnyCancelled' PROVE OneRequest' /\ BusInOrder'
      <4>1. ~AnyCancelled /\ Unfinished = {}
        BY <3>3, <3>6 DEF AnyCancelled, Unfinished
      <4>2. OneRequest /\ BusInOrder
        BY <4>1 DEF BusInv
      <4>3. Unfinished' = {}
        BY <3>3, <4>1 DEF Unfinished
      <4>4. handlers' = {}
        BY <3>1, <4>2 DEF OneRequest
      <4>5. ~told'
        BY <3>1, <4>1, <4>2 DEF BusInOrder
      <4>6. OneRequest'
        BY <3>2, <4>3, <4>4 DEF OneRequest
      <4>7. \A q \in RequestIds : ~(link'[q] = "open" /\ requests'[q].phase = "done")
        BY <3>1, <3>3, <4>1, <4>2 DEF BusInOrder
      <4>8. ~IsConnected'
        BY <3>2 DEF IsConnected
      <4>9. BusInOrder'
        BY <3>2, <4>4, <4>5, <4>7, <4>8 DEF BusInOrder
      <4> QED BY <4>6, <4>9
    <3> QED BY <3>4, <3>5, <3>6 DEF BusInv
  <2> QED BY <2>1, <2>2
<1>11. ASSUME NEW w \in BOOLEAN, SetWatch(w) PROVE BusInv'
  <2>1. UNCHANGED <<daemon, started, changes, requests, link, handlers, told>> /\ bus.exists
    BY <1>0, <1>11, WatchEffect
  <2>2. /\ bus' \in BusData /\ bus'.watch = w /\ bus'.exists = bus.exists
        /\ bus'.address = bus.address
        /\ bus'.connection = bus.connection /\ bus'.connected = bus.connected
        /\ bus'.subscribed \in {bus.subscribed, Null, bus.connection}
        /\ IsConnected => bus'.subscribed = IF ~w THEN Null
                                            ELSE IF bus.subscribed = Null THEN bus.connection
                                            ELSE bus.subscribed
    BY <1>0, <1>11, WatchEffect
  <2>3. BusTypeOK'
    BY <1>0, <2>1, <2>2, BusTypesNext
  <2>4. Fresh' /\ (AnyCancelled' <=> AnyCancelled) /\ Unfinished' = Unfinished
    BY <2>1, <2>2 DEF BusInv, Fresh, Unused, AnyCancelled, Unfinished
  <2>5. OneRequest => OneRequest'
    BY <2>1, <2>2, <2>4 DEF OneRequest
  <2>6. IsConnected' <=> IsConnected
    BY <2>1, <2>2 DEF IsConnected
  <2>7. BusInOrder => BusInOrder'
    BY <2>1, <2>2, <2>4, <2>6 DEF BusInOrder
  <2> QED BY <2>3, <2>4, <2>5, <2>7 DEF BusInv
<1>12. CASE UNCHANGED busVars
  <2>1. UNCHANGED <<daemon, started, changes, bus, requests, link, handlers, told>>
    BY <1>12 DEF busVars, daemonVars
  <2>2. BusTypeOK'
    BY <1>0, <2>1, BusTypesNext
  <2> QED BY <1>0, <1>1, <2>1, <2>2 DEF BusInv
<1> QED BY <1>2, <1>3, <1>6, <1>7, <1>8, <1>9, <1>10, <1>11, <1>12 DEF BusNext

LEMMA BusInvariance == BusSpec => []BusInv
<1>1. BusInit => BusInv
  BY BusInvInit, ClientBusAssumption
<1>2. BusInv /\ [BusNext]_busVars => BusInv'
  BY BusInvStep, ClientBusAssumption
<1> QED BY <1>1, <1>2, PTL DEF BusSpec

(***************************************************************************)
(* What the application sees of the bus agrees with its connection, for    *)
(* any number of daemons and of attempts, until a request is cancelled.    *)
(***************************************************************************)
THEOREM BusAgrees == BusSpec => []BusInOrder
<1>1. BusInv => BusInOrder
  BY DEF BusInv, BusInOrder
<1> QED BY <1>1, BusInvariance, PTL

\* The state of the client's bus is well formed.
THEOREM BusTypeCorrect == BusSpec => []BusTypeOK
<1>1. BusInv => BusTypeOK
  BY DEF BusInv
<1> QED BY <1>1, BusInvariance, PTL

(***************************************************************************)
(* A client gets connected.  While a daemon stays the client is in one of  *)
(* four phases, and each but the last ends: the file monitor is going to   *)
(* speak of an address the client does not know, a thread connects to that *)
(* address, the thread has connected, the client is connected.  A request  *)
(* or a connection of an earlier daemon cannot undo a phase, because it is *)
(* never the one the client works with.                                    *)
(***************************************************************************)
AddressSeen == bus.address = Null \/ bus.address <= started

Connected == IsConnected /\ requests[bus.connection].address = started

Underway == DaemonStays => Outdated \/ Connecting \/ Established \/ Connected

BusPhases == BusInv /\ AddressSeen /\ Underway

LEMMA AddressSeenStep ==
  ASSUME ClientBusAssumption, BusInv, AddressSeen, [BusNext]_busVars
  PROVE  AddressSeen'
<1>0. /\ daemon \in 0..MaxStarts /\ started \in 0..MaxStarts /\ MaxStarts \in Nat /\ bus \in BusData
      /\ requests \in [RequestIds -> RequestData] /\ BusTypeOK /\ daemon \in {0, started}
  BY BusTypes DEF BusInv, Fresh, ClientBusAssumption
<1>1. BusAddress = Null \/ BusAddress = started
  BY DEF BusAddress
<1>a. BusAddress \in Addresses \cup {Null}
  BY <1>0 DEF BusAddress, Addresses
<1>2. CASE DaemonStarts
  BY <1>0, <1>2 DEF DaemonStarts, AddressSeen, BusData, Addresses
<1>3. CASE DaemonExits \/ UNCHANGED busVars \/ \E r \in RequestIds : RequestEnds(r)
  BY <1>3 DEF DaemonExits, RequestEnds, busVars, daemonVars, AddressSeen
<1>4. ASSUME NEW r \in RequestIds, ConnectAsync(r), started' = started PROVE AddressSeen'
  <2>1. bus'.address = BusAddress
    BY <1>0, <1>4, ConnectAsyncEffect
  <2> QED BY <1>0, <1>1, <1>4, <2>1 DEF AddressSeen
<1>5. ASSUME NEW r \in RequestIds, Connect(r), started' = started PROVE AddressSeen'
  <2> DEFINE b == [bus EXCEPT !.exists = TRUE, !.address = BusAddress, !.connection = r]
  <2>1. b \in BusData /\ b.address = BusAddress
    BY <1>0, <1>a DEF BusData
  <2>2. bus' = Completed(b)
    BY <1>5 DEF Connect
  <2> HIDE DEF b
  <2>3. bus'.address = BusAddress
    BY <2>1, <2>2, CompletedFields
  <2> QED BY <1>0, <1>1, <1>5, <2>3 DEF AddressSeen
<1>6. CASE NewBus
  <2>1. started' = started
    BY <1>6 DEF NewBus, daemonVars
  <2>2. CASE bus' = [bus EXCEPT !.exists = TRUE]
    BY <1>0, <2>1, <2>2 DEF AddressSeen, BusData
  <2> QED BY <1>4, <1>5, <1>6, <2>1, <2>2 DEF NewBus, ConnectFails
<1>7. CASE AddressChanged
  BY <1>4, <1>7 DEF AddressChanged, AlreadyConnecting, daemonVars, AddressSeen
<1>8. ASSUME NEW r \in RequestIds, ConnectReady(r) PROVE AddressSeen'
  <2> DEFINE b == [bus EXCEPT !.connection = r]
  <2>1. b \in BusData /\ b.address = bus.address
    BY <1>0 DEF BusData
  <2>2. started' = started /\ (bus' = Completed(b) \/ bus' = Failed(bus))
    BY <1>8 DEF ConnectReady, daemonVars
  <2> HIDE DEF b
  <2>3. bus'.address \in {bus.address, Null}
    BY <1>0, <2>1, <2>2, CompletedFields, FailedFields
  <2> QED BY <2>2, <2>3 DEF AddressSeen
<1>9. ASSUME NEW r \in RequestIds, ConnectionLost(r) PROVE AddressSeen'
  <2>1. started' = started /\ (bus' = bus \/ bus' = Closed(bus))
    BY <1>9 DEF ConnectionLost, daemonVars
  <2> QED BY <1>0, <2>1, ClosedFields DEF AddressSeen
<1>10. ASSUME NEW w \in BOOLEAN, SetWatch(w) PROVE AddressSeen'
  BY <1>0, <1>10, WatchEffect DEF AddressSeen
<1> QED BY <1>2, <1>3, <1>6, <1>7, <1>8, <1>9, <1>10 DEF BusNext

LEMMA ConnectEffect ==
  ASSUME ClientBusAssumption, BusTypeOK, daemon \in {0, started},
         NEW r \in RequestIds, Connect(r)
  PROVE  /\ bus' \in BusData /\ bus'.address = BusAddress /\ bus'.connection = r /\ bus'.connected
         /\ requests'[r].address = BusAddress /\ link'[r] = "open"
<1> DEFINE b == [bus EXCEPT !.exists = TRUE, !.address = BusAddress, !.connection = r]
           n == [address |-> BusAddress, cancelled |-> FALSE, phase |-> "done"]
<1>1. BusAddress \in Addresses \cup {Null}
  BY DEF BusTypeOK, BusAddress, ClientBusAssumption, Addresses
<1>2. b \in BusData /\ b.address = BusAddress /\ b.connection = r
  BY <1>1, BusTypes DEF BusData
<1>3. n.address = BusAddress
  OBVIOUS
<1>4. bus' = Completed(b) /\ requests' = [requests EXCEPT ![r] = n] /\ link' = [link EXCEPT ![r] = "open"]
  BY DEF Connect
<1> HIDE DEF b, n
<1>5. requests'[r] = n /\ link'[r] = "open"
  BY <1>4, BusTypes
<1> QED BY <1>2, <1>3, <1>4, <1>5, CompletedFields

\* An attempt begins, for the daemon that runs.
LEMMA ConnectingBegins ==
  ASSUME ClientBusAssumption, BusInv, NEW r \in RequestIds, ConnectAsync(r), daemon # 0,
         started' = started
  PROVE  Connecting'
<1>1. BusTypeOK /\ daemon \in {0, started}
  BY DEF BusInv, Fresh
<1>2. requests'[r].phase = "running" /\ requests'[r].address = BusAddress
  BY <1>1, ConnectAsyncEffect
<1> QED BY <1>1, <1>2 DEF Connecting, BusAddress

\* The request of the daemon that runs is the only one.
LEMMA OnlyRequest ==
  ASSUME BusInv, ~AnyCancelled, NEW r \in Unfinished
  PROVE  /\ bus.connection = Null /\ handlers = {}
         /\ \A q \in Unfinished : q = r
         /\ bus.address = requests[r].address
         /\ ~Connected
BY DEF BusInv, OneRequest, Connected, IsConnected

\* How the daemon comes to stay.
LEMMA StayBegins ==
  ASSUME ClientBusAssumption, BusInv, AddressSeen, [BusNext]_busVars, ~DaemonStays, DaemonStays'
  PROVE  Outdated' \/ Connecting' \/ Connected'
<1>0. /\ daemon \in {0, started} /\ BusTypeOK /\ bus \in BusData
      /\ started \in 0..MaxStarts /\ MaxStarts \in Nat /\ Null \notin Nat
  BY BusTypes DEF BusInv, Fresh, ClientBusAssumption
<1>1. CASE DaemonStarts
  BY <1>0, <1>1 DEF DaemonStarts, AddressSeen, Outdated, DaemonStays, BusData, Addresses
<1>r. SUFFICES ASSUME ~refused PROVE Outdated' \/ Connecting' \/ Connected'
  BY <1>1, RefusalLasts DEF DaemonStays, BusTypeOK, BusInv
<1>2. CASE NewBus
  <2>1. daemon # 0 /\ UNCHANGED <<daemon, started>>
    BY <1>2 DEF NewBus, daemonVars, DaemonStays
  <2>2. BusAddress = started /\ BusAddress # Null
    BY <1>0, <2>1 DEF BusAddress
  <2>3. ASSUME NEW r \in RequestIds, Connect(r) PROVE Connected'
    <3>1. bus'.connection = r /\ bus'.connected /\ requests'[r].address = started /\ link'[r] = "open"
      BY <1>0, <2>2, <2>3, ConnectEffect
    <3>2. r # Null
      BY <1>0 DEF RequestIds
    <3> QED BY <2>1, <3>1, <3>2 DEF Connected, IsConnected
  <2>4. ~ConnectFails
    BY <2>2 DEF ConnectFails, DaemonStays
  <2> QED BY <1>2, <2>1, <2>2, <2>3, <2>4, ConnectingBegins DEF NewBus
<1>3. CASE AddressChanged
  <2>1. daemon # 0 /\ UNCHANGED <<daemon, started>>
    BY <1>3 DEF AddressChanged, daemonVars, DaemonStays
  <2>2. ~AlreadyConnecting
    BY <1>0, <1>r, <2>1 DEF AlreadyConnecting, DaemonStays, AnyCancelled
  <2> QED BY <1>3, <2>1, <2>2, ConnectingBegins DEF AddressChanged
<1>4. ASSUME UNCHANGED <<daemon, bus>>, \A r \in RequestIds : requests'[r].cancelled <=> requests[r].cancelled
      PROVE  FALSE
  BY <1>4, <1>r DEF DaemonStays, AnyCancelled
<1>5. ASSUME NEW r \in RequestIds, RequestEnds(r) PROVE FALSE
  BY <1>0, <1>4, <1>5, RequestUpdate, BusTypes DEF RequestEnds, daemonVars
<1>6. ASSUME NEW r \in RequestIds, ConnectReady(r) PROVE FALSE
  <2>1. requests' = [requests EXCEPT ![r].phase = "done"] /\ daemon' = daemon
        /\ requests[r].phase # "unused"
    BY <1>6 DEF ConnectReady, daemonVars
  <2>2. \A q \in RequestIds : requests'[q].cancelled <=> requests[q].cancelled
    BY <1>0, <2>1, RequestUpdate, BusTypes
  <2>3. bus.exists
    BY <2>1 DEF BusInv, Fresh, Unused
  <2> QED BY <1>r, <2>1, <2>2, <2>3 DEF DaemonStays, AnyCancelled
<1>7. ASSUME NEW r \in RequestIds, ConnectionLost(r) PROVE FALSE
  <2>1. /\ daemon' = daemon
        /\ \/ bus' = bus /\ requests' = requests
           \/ bus' = Closed(bus) /\ requests' = Cancelled
    BY <1>7 DEF ConnectionLost, daemonVars
  <2>2. bus'.exists = bus.exists
    BY <1>0, <2>1, ClosedFields
  <2>3. \A q \in RequestIds : requests[q].cancelled => requests'[q].cancelled
    BY <1>0, <2>1, CancelledFields
  <2> QED BY <1>r, <2>1, <2>2, <2>3 DEF DaemonStays, AnyCancelled
<1>8. ASSUME NEW w \in BOOLEAN, SetWatch(w) PROVE FALSE
  BY <1>0, <1>8, <1>r, WatchEffect DEF DaemonStays, AnyCancelled
<1> QED BY <1>1, <1>2, <1>3, <1>4, <1>5, <1>6, <1>7, <1>8, <1>r
        DEF BusNext, busVars, daemonVars, DaemonExits, DaemonStays

\* While the daemon stays no phase goes back, and the step that is due ends it.
LEMMA PhaseHolds ==
  ASSUME ClientBusAssumption, BusInv, [BusNext]_busVars, DaemonStays, DaemonStays'
  PROVE  /\ Outdated => Outdated' \/ Connecting'
         /\ Connecting => Connecting' \/ Established'
         /\ Established => Established' \/ Connected'
         /\ Connected => Connected'
         /\ Outdated /\ AddressChanged => Connecting'
         /\ Connecting /\ SomeRequestEnds => Established'
         /\ Established /\ SomeConnectReady => Connected'
<1>0. /\ daemon \in {0, started} /\ daemon # 0 /\ bus.exists /\ ~AnyCancelled
      /\ BusTypeOK /\ bus \in BusData /\ requests \in [RequestIds -> RequestData]
      /\ started \in 0..MaxStarts /\ MaxStarts \in Nat /\ Null \notin Nat
      /\ OneRequest /\ ~refused'
  BY BusTypes DEF BusInv, Fresh, ClientBusAssumption, DaemonStays
<1>a. BusAddress = started /\ BusAddress # Null
  BY <1>0 DEF BusAddress
<1>b. Connecting \/ Established => Unfinished # {} /\ bus.address = started /\ ~Connected
  BY <1>0, OnlyRequest DEF Connecting, Established, Unfinished
<1>c. Connected => bus.connection # Null /\ bus.address = started /\ Unfinished = {}
  BY <1>0, OnlyRequest DEF BusInv, BusInOrder, Connected, IsConnected
\* a step without consequences
<1>1. ASSUME UNCHANGED <<started, requests>>, bus'.address = bus.address,
             bus'.connection = bus.connection, bus'.connected = bus.connected,
             \A r \in RequestIds : link[r] = "open" => link'[r] = "open"
      PROVE  /\ Connecting => Connecting'
             /\ Established => Established'
             /\ Connected => Connected'
             /\ changes' = changes /\ Outdated => Outdated'
  BY <1>0, <1>1 DEF Connecting, Established, Connected, IsConnected, Outdated, BusData
<1>2. ASSUME AddressChanged
      PROVE  /\ Outdated => Connecting'
             /\ Connecting => Connecting'
             /\ Established => Established'
             /\ Connected => Connected'
  <2>1. UNCHANGED <<daemon, started>>
    BY <1>2 DEF AddressChanged, daemonVars
  <2>2. CASE AlreadyConnecting
    <3>1. UNCHANGED <<bus, requests, link, handlers, told>> /\ bus.address = started
      BY <1>a, <2>2 DEF AlreadyConnecting, IsNewAddress
    <3> QED BY <1>1, <2>1, <3>1 DEF Outdated
  <2>3. ASSUME NEW r \in RequestIds, ConnectAsync(r)
        PROVE  Connecting' /\ bus.address # started
    BY <1>0, <1>a, <2>1, <2>3, ConnectingBegins DEF ConnectAsync, IsNewAddress
  <2> QED BY <1>2, <1>b, <1>c, <2>2, <2>3 DEF AddressChanged
<1>3. ASSUME NEW r \in RequestIds, RequestEnds(r)
      PROVE  /\ Outdated => Outdated'
             /\ Connecting => Established'
             /\ ~Established /\ ~Connected
  <2>1. r \in Unfinished /\ requests[r].phase = "running"
        /\ UNCHANGED <<daemon, started, changes, bus>>
    BY <1>3 DEF RequestEnds, Unfinished, daemonVars
  <2>2. ~Established /\ ~Connected
    BY <1>0, <2>1, OnlyRequest DEF Established, Unfinished
  <2>3. ASSUME Connecting PROVE Established'
    <3>1. requests[r].address = started /\ ~requests[r].cancelled
      BY <1>0, <2>1, <2>3, OnlyRequest DEF Connecting, Unfinished, AnyCancelled
    <3>2. /\ requests' = [requests EXCEPT ![r].phase = "ok"]
          /\ link' = [link EXCEPT ![r] = "open"]
      BY <1>0, <1>3, <3>1 DEF RequestEnds
    <3>3. requests'[r].phase = "ok" /\ requests'[r].address = started
      BY <1>0, <3>1, <3>2, RequestUpdate
    <3>4. link'[r] = "open"
      BY <1>0, <3>2 DEF BusTypeOK
    <3> QED BY <2>1, <3>3, <3>4 DEF Established
  <2> QED BY <2>1, <2>2, <2>3 DEF Outdated
<1>4. ASSUME NEW r \in RequestIds, ConnectReady(r)
      PROVE  /\ Outdated => Outdated'
             /\ Established => Connected'
             /\ ~Connecting /\ ~Connected
  <2> DEFINE b == [bus EXCEPT !.connection = r]
  <2>1. /\ r \in Unfinished /\ requests[r].phase \in {"ok", "failed"}
        /\ requests' = [requests EXCEPT ![r].phase = "done"]
        /\ UNCHANGED <<daemon, started, changes, link>>
    BY <1>4 DEF ConnectReady, Unfinished, daemonVars
  <2>2. ~Connecting /\ ~Connected
    BY <1>0, <2>1, OnlyRequest DEF Connecting, Unfinished
  <2>3. b \in BusData /\ b.address = bus.address /\ b.connection = r
    BY <1>0 DEF BusData
  <2>4. /\ requests[r].phase = "ok" => bus' = Completed(b)
        /\ requests[r].phase # "ok" => bus' = Failed(bus)
    BY <1>4 DEF ConnectReady
  <2> HIDE DEF b
  <2>5. bus'.address \in {bus.address, Null}
    BY <1>0, <2>1, <2>3, <2>4, CompletedFields, FailedFields
  <2>6. Outdated => Outdated'
    BY <1>0, <2>1, <2>5 DEF Outdated
  <2>7. ASSUME Established PROVE Connected'
    <3>1. requests[r].address = started /\ requests[r].phase = "ok" /\ link[r] = "open"
      BY <1>0, <2>1, <2>7, OnlyRequest DEF Established, Unfinished
    <3>2. bus'.connection = r /\ bus'.connected
      BY <2>3, <2>4, <3>1, CompletedFields
    <3>3. requests'[r].address = started
      BY <1>0, <2>1, <3>1, RequestUpdate
    <3>4. r # Null
      BY <1>0 DEF RequestIds
    <3> QED BY <2>1, <3>1, <3>2, <3>3, <3>4 DEF Connected, IsConnected
  <2> QED BY <2>2, <2>6, <2>7
<1>5. ASSUME NEW r \in RequestIds, ConnectionLost(r)
      PROVE  /\ Outdated => Outdated'
             /\ Connecting => Connecting'
             /\ Established => Established'
             /\ Connected => Connected'
  <2>1. link[r] = "closing" /\ UNCHANGED <<started, changes>>
    BY <1>5 DEF ConnectionLost, daemonVars
  <2>2. CASE r \in handlers
    <3>1. r = bus.connection /\ bus' = Closed(bus)
      BY <1>0, <1>5, <2>2 DEF ConnectionLost, OneRequest
    <3>2. ~Connecting /\ ~Established
      BY <1>0, <2>2, OnlyRequest DEF Connecting, Established, Unfinished
    <3>3. ~Connected
      BY <2>1, <3>1 DEF Connected, IsConnected
    <3>4. bus'.address = Null
      BY <1>0, <3>1, ClosedFields
    <3> QED BY <1>0, <2>1, <3>2, <3>3, <3>4 DEF Outdated
  <2>3. CASE r \notin handlers
    <3>1. link' = [link EXCEPT ![r] = "closed"] /\ UNCHANGED <<bus, requests>>
      BY <1>5, <2>3 DEF ConnectionLost
    <3>2. \A q \in RequestIds : link[q] = "open" => link'[q] = "open"
      BY <1>0, <2>1, <3>1 DEF BusTypeOK
    <3> QED BY <1>1, <2>1, <3>1, <3>2
  <2> QED BY <2>2, <2>3
<1>6. ASSUME NEW w \in BOOLEAN, SetWatch(w)
      PROVE  /\ Outdated => Outdated'
             /\ Connecting => Connecting'
             /\ Established => Established'
             /\ Connected => Connected'
  BY <1>0, <1>1, <1>6, WatchEffect
<1>7. ASSUME UNCHANGED busVars
      PROVE  /\ Outdated => Outdated'
             /\ Connecting => Connecting'
             /\ Established => Established'
             /\ Connected => Connected'
  BY <1>1, <1>7 DEF busVars, daemonVars
<1>8. ~DaemonStarts /\ ~DaemonExits /\ ~NewBus
  BY <1>0 DEF DaemonStarts, DaemonExits, NewBus, DaemonStays
<1> QED BY <1>2, <1>3, <1>4, <1>5, <1>6, <1>7, <1>8
        DEF BusNext, SomeRequestEnds, SomeConnectReady

LEMMA BusPhasesInvariance == BusSpec => []BusPhases
<1>1. BusInit => BusInv /\ AddressSeen /\ Underway
  <2> SUFFICES ASSUME BusInit PROVE BusInv /\ AddressSeen /\ Underway
    OBVIOUS
  <2>1. BusInv
    BY BusInvInit, ClientBusAssumption
  <2>2. bus.address = Null /\ daemon = 0
    BY DEF BusInit
  <2> QED BY <2>1, <2>2 DEF AddressSeen, Underway, DaemonStays
<1>2. BusInv /\ AddressSeen /\ Underway /\ [BusNext]_busVars => BusInv' /\ AddressSeen' /\ Underway'
  <2> SUFFICES ASSUME BusInv, AddressSeen, Underway, [BusNext]_busVars, DaemonStays'
               PROVE  (Outdated \/ Connecting \/ Established \/ Connected)'
    BY AddressSeenStep, BusInvStep, ClientBusAssumption DEF Underway
  <2>1. CASE DaemonStays
    BY <2>1, PhaseHolds, ClientBusAssumption DEF Underway
  <2>2. CASE ~DaemonStays
    BY <2>2, StayBegins, ClientBusAssumption
  <2> QED BY <2>1, <2>2
<1> QED BY <1>1, <1>2, PTL DEF BusSpec, BusPhases

(***************************************************************************)
(* A client whose daemon stays and refuses no connection, and of whose     *)
(* requests none was cancelled, gets connected and remains so, for any     *)
(* number of daemons and attempts, if the steps that are due can be taken  *)
(* (BusStepsEnabled) and threads, monitor and callbacks get their turn     *)
(* (BusFairness).                                                          *)
(***************************************************************************)
THEOREM ClientsGetConnected == BusSpec /\ BusFairness /\ []BusStepsEnabled => GetsConnected
<1> DEFINE Fair == BusSpec /\ BusFairness /\ []BusStepsEnabled
<1>1. BusPhases /\ [BusNext]_busVars /\ DaemonStays /\ DaemonStays'
        => /\ Outdated => Outdated' \/ Connecting'
           /\ Connecting => Connecting' \/ Established'
           /\ Established => Established' \/ Connected'
           /\ Connected => Connected'
  BY PhaseHolds, ClientBusAssumption DEF BusPhases
<1>2. BusPhases /\ [BusNext]_busVars /\ DaemonStays /\ DaemonStays'
        => /\ Outdated /\ <<AddressChanged>>_busVars => Connecting'
           /\ Connecting /\ <<SomeRequestEnds>>_busVars => Established'
           /\ Established /\ <<SomeConnectReady>>_busVars => Connected'
  BY PhaseHolds, ClientBusAssumption DEF BusPhases
<1>3. BusPhases /\ DaemonStays => Outdated \/ Connecting \/ Established \/ Connected
  BY DEF BusPhases, Underway
<1>4. BusStepsEnabled /\ DaemonStays
        => /\ Outdated => ENABLED <<AddressChanged>>_busVars
           /\ Connecting => ENABLED <<SomeRequestEnds>>_busVars
           /\ Established => ENABLED <<SomeConnectReady>>_busVars
  BY DEF BusStepsEnabled
<1>5. Connected => IsConnected
  BY DEF Connected
<1>6. Fair => []([]DaemonStays => (Outdated ~> Connecting))
  BY <1>1, <1>2, <1>4, BusPhasesInvariance, PTL DEF BusSpec, BusFairness
<1>7. Fair => []([]DaemonStays => (Connecting ~> Established))
  BY <1>1, <1>2, <1>4, BusPhasesInvariance, PTL DEF BusSpec, BusFairness
<1>8. Fair => []([]DaemonStays => (Established ~> Connected))
  BY <1>1, <1>2, <1>4, BusPhasesInvariance, PTL DEF BusSpec, BusFairness
<1>9. Fair => []([]DaemonStays => [](Connected => []Connected))
  BY <1>1, BusPhasesInvariance, PTL DEF BusSpec
<1>10. Fair => []([]DaemonStays => <>[]IsConnected)
  BY <1>3, <1>5, <1>6, <1>7, <1>8, <1>9, BusPhasesInvariance, PTL
<1> QED BY <1>10, PTL DEF GetsConnected
=============================================================================
