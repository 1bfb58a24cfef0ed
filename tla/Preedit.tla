------------------------------ MODULE Preedit ------------------------------
(***************************************************************************)
(* The preedit text of one input context, from the engine through the      *)
(* context to the client or the panel, and who commits it when the context *)
(* loses the focus or is reset.  An engine that shows its text with        *)
(* IBUS_ENGINE_PREEDIT_COMMIT leaves this to the others.  A client with    *)
(* ClientCommitPreedit (GTK, Wayland) commits what it shows before it      *)
(* calls FocusOut or Reset; for any other client (XIM) the daemon commits  *)
(* what the context has.                                                   *)
(*                                                                         *)
(* Client, daemon and engine are processes, and the calls and signals      *)
(* between two of them keep their order.  A text is the number of the      *)
(* composition it belongs to, 0 is the empty text.                         *)
(***************************************************************************)
EXTENDS Naturals, Sequences, SequencesExt

CONSTANTS
  MaxTexts,    \* bound: the compositions the engine begins
  MaxEvents,   \* bound: the keys, resets and changes of focus of the client
  MaxTurns     \* bound: how often the engine is replaced or taken away

ASSUME PreeditBounds == MaxTexts \in Nat /\ MaxEvents \in Nat /\ MaxTurns \in Nat

VARIABLES
  clientCommits, \* client_commit_preedit of the context
  wayland,       \* the session is one of Wayland, and the client none of its input method
  embedded,      \* PREEDIT_CONDITION: the client, and not the panel, shows the text
  engineText,    \* the preedit as the engine has it
  contextText,   \* preedit_text, preedit_visible and preedit_mode of the context
  panelText,     \* the preedit the panel shows
  clientText,    \* preedit_string, preedit_visible and preedit_mode of the client
  contextFocus,  \* has_focus of the context
  attached,      \* the engine is the context's
  ignoring,      \* ignore_focus_out
  clientFocus,   \* has_focus of the client
  toContext,     \* method calls of the client
  toEngine,      \* method calls of the daemon
  fromEngine,    \* signals of the engine
  toClient,      \* signals of the context
  begun,         \* the compositions so far
  committed,     \* history: the texts the application has got
  due,           \* history: the texts it should get
  mishaps,       \* history: what has happened that loses or doubles a text
  events, turns  \* what the bounds count

setup == <<clientCommits, wayland>>
history == <<due, mishaps>>
icVars == <<contextText, panelText, contextFocus, attached, embedded, ignoring>>
clientVariables == <<clientText, clientFocus, committed>>
engineVars == <<engineText, begun>>
preeditVars ==
  <<setup, engineVars, icVars, clientVariables, history,
    toContext, toEngine, fromEngine, toClient, events, turns>>

Texts == [text : 0..MaxTexts, visible : BOOLEAN, mode : {"clear", "commit"}]
Empty == [text |-> 0, visible |-> FALSE, mode |-> "clear"]

UpdateSignal(t) == [kind |-> "update", shown |-> t]
CommitSignal(n) == [kind |-> "commit", text |-> n]

\* The preedit is one that is committed when the context loses the focus
Kept(t) == t.visible /\ t.mode = "commit" /\ t.text # 0

PreeditInit ==
  /\ clientCommits \in BOOLEAN /\ wayland \in BOOLEAN /\ embedded \in BOOLEAN
  /\ ignoring = FALSE
  /\ engineText = Empty /\ contextText = Empty /\ panelText = Empty /\ clientText = Empty
  /\ contextFocus = FALSE /\ attached = FALSE /\ clientFocus = FALSE
  /\ toContext = <<>> /\ toEngine = <<>> /\ fromEngine = <<>> /\ toClient = <<>>
  /\ begun = 0 /\ committed = <<>> /\ due = {} /\ mishaps = {}
  /\ events = 0 /\ turns = 0

-----------------------------------------------------------------------------
(* The client. *)

Sends(method) ==
  /\ events < MaxEvents
  /\ events' = events + 1
  /\ toContext' = Append(toContext, method)

\* The text is cleared before it is committed; it stays visible
ImClearPreedit ==
  /\ clientText' = [clientText EXCEPT !.text = 0, !.mode = "clear"]
  /\ committed' = IF Kept(clientText) THEN Append(committed, clientText.text) ELSE committed

PressKey ==
  /\ clientFocus /\ Sends("key")
  /\ UNCHANGED <<setup, clientVariables, icVars, engineVars, history,
                 toEngine, fromEngine, toClient, turns>>

ImFocusIn ==
  /\ ~clientFocus /\ Sends("focus_in")
  /\ clientFocus' = TRUE
  /\ UNCHANGED <<setup, clientText, committed, icVars, engineVars, history,
                 toEngine, fromEngine, toClient, turns>>

\* A key or an update on its way: the client ends its preedit without it.
Crossing ==
  IF \/ "key" \in Range(toContext) \cup Range(toEngine)
     \/ fromEngine # <<>> \/ toClient # <<>>
  THEN {"crossed"} ELSE {}

ImFocusOut ==
  /\ clientFocus /\ Sends("focus_out")
  /\ clientFocus' = FALSE
  /\ IF clientCommits THEN ImClearPreedit ELSE UNCHANGED <<clientText, committed>>
  /\ mishaps' = mishaps \cup Crossing
  /\ UNCHANGED <<setup, icVars, engineVars, due, toEngine, fromEngine, toClient, turns>>

\* A button press, or the reset of the toolkit in the synchronous modes.  In
\* the asynchronous mode the reset of the toolkit leaves the text as it is.
ImReset(clears) ==
  /\ Sends("reset")
  /\ IF clientCommits /\ clears THEN ImClearPreedit ELSE UNCHANGED <<clientText, committed>>
  /\ mishaps' = mishaps \cup Crossing
                        \cup (IF clientCommits /\ ~clears /\ Kept(clientText)
                            THEN {"uncleared"} ELSE {})
  /\ UNCHANGED <<setup, clientFocus, icVars, engineVars, due,
                 toEngine, fromEngine, toClient, turns>>

\* set_use_preedit of the toolkit
ImSetCapabilities ==
  /\ Sends("set_capabilities")
  /\ UNCHANGED <<setup, clientVariables, icVars, engineVars, history,
                 toEngine, fromEngine, toClient, turns>>

\* The signal handlers of the client
ImSignal ==
  /\ toClient # <<>> /\ toClient' = Tail(toClient)
  /\ LET signal == Head(toClient) IN
     /\ clientText' =
          CASE signal.kind = "update" -> signal.shown
            [] signal.kind = "commit" -> clientText
            [] OTHER -> [clientText EXCEPT !.visible = (signal.kind = "show")]
     /\ committed' =
          IF signal.kind = "commit" THEN Append(committed, signal.text) ELSE committed
  /\ UNCHANGED <<setup, clientFocus, icVars, engineVars, history,
                 toContext, toEngine, fromEngine, events, turns>>

-----------------------------------------------------------------------------
(* The context. *)

\* bus_input_context_update_preedit_text: to the client or the panel.  While
\* the panel, which takes the focus in Wayland, shows a text, the client's
\* FocusOut and Reset are ignored.
Shows(text) ==
  /\ contextText' = text
  /\ panelText' = IF embedded THEN panelText ELSE text
  /\ ignoring' = (~embedded /\ text.visible /\ wayland)

Showing(text) == IF embedded THEN <<UpdateSignal(text)>> ELSE <<>>

\* bus_input_context_clear_preedit_text, and what it sends.  Without a signal,
\* the client has cleared the text.
Clears(withSignal) ==
  IF withSignal THEN Shows(Empty)
  ELSE contextText' = Empty /\ UNCHANGED <<panelText, ignoring>>

Clearing(withSignal) ==
  IF ~withSignal THEN <<>>
  ELSE Showing(Empty)
         \o (IF Kept(contextText) THEN <<CommitSignal(contextText.text)>> ELSE <<>>)

\* The client is to commit a text that the panel shows.
Unseen == IF clientCommits /\ ~embedded /\ Kept(contextText) THEN {"unseen"} ELSE {}

Received(method) ==
  /\ toContext # <<>> /\ Head(toContext) = method
  /\ toContext' = Tail(toContext)
  /\ UNCHANGED <<setup, engineVars, clientVariables, due, fromEngine, events, turns>>

\* The engine comes from the context that had the focus.
FocusCalls == IF attached THEN <<>> ELSE <<"focus_in">>

TakesFocus ==
  /\ attached' = TRUE
  /\ panelText' = IF contextText.visible /\ ~embedded THEN contextText ELSE panelText

ContextFocusIn ==
  /\ Received("focus_in")
  /\ contextFocus' = TRUE
  /\ IF contextFocus THEN UNCHANGED <<attached, panelText, toEngine>>
     ELSE TakesFocus /\ toEngine' = toEngine \o FocusCalls
  /\ UNCHANGED <<contextText, embedded, ignoring, mishaps, toClient>>

\* Mutant: the daemon commits the text of a client that commits itself
ContextFocusOutCommitsToo ==
  /\ Received("focus_out")
  /\ UNCHANGED embedded
  /\ IF ignoring \/ ~contextFocus
     THEN UNCHANGED <<contextText, panelText, contextFocus, attached, ignoring,
                      toEngine, toClient, mishaps>>
     ELSE /\ contextFocus' = FALSE /\ attached' = FALSE
          /\ Clears(TRUE)
          /\ toClient' = toClient \o Clearing(TRUE)
                           \o (IF attached THEN Showing(Empty) ELSE <<>>)
          /\ toEngine' = IF attached THEN Append(toEngine, "focus_out") ELSE toEngine
          /\ mishaps' = mishaps \cup Unseen

\* The text is cleared by the context, and twice again when the engine goes to
\* the fake context.  The two signals of the latter are one here.
ContextFocusOut ==
  /\ Received("focus_out")
  /\ UNCHANGED embedded
  /\ IF ignoring \/ ~contextFocus
     THEN UNCHANGED <<contextText, panelText, contextFocus, attached, ignoring,
                      toEngine, toClient, mishaps>>
     ELSE /\ contextFocus' = FALSE /\ attached' = FALSE
          /\ Clears(attached \/ ~clientCommits)
          /\ toClient' = toClient \o Clearing(~clientCommits)
                           \o (IF attached THEN Showing(Empty) ELSE <<>>)
          /\ toEngine' = IF attached THEN Append(toEngine, "focus_out") ELSE toEngine
          /\ mishaps' = mishaps \cup Unseen

ContextReset ==
  /\ Received("reset")
  /\ UNCHANGED <<contextFocus, attached, embedded>>
  /\ IF attached /\ ~ignoring
     THEN /\ IF contextText.mode = "commit"
             THEN /\ Clears(~clientCommits)
                  /\ toClient' = toClient \o Clearing(~clientCommits)
                  /\ mishaps' = mishaps \cup Unseen
             ELSE UNCHANGED <<contextText, panelText, ignoring, toClient, mishaps>>
          /\ toEngine' = Append(toEngine, "reset")
     ELSE UNCHANGED <<contextText, panelText, ignoring, toClient, toEngine, mishaps>>

\* A context that has lost its engine to another takes it back with a key.
ProcessKey ==
  /\ Received("key")
  /\ contextFocus' = TRUE
  /\ IF contextFocus /\ attached THEN UNCHANGED <<attached, panelText>> ELSE TakesFocus
  /\ toEngine' = toEngine \o FocusCalls \o <<"key">>
  /\ UNCHANGED <<contextText, embedded, ignoring, mishaps, toClient>>

\* A text there is stays where it is shown.
SetCapabilities ==
  /\ Received("set_capabilities")
  /\ embedded' = ~embedded
  /\ mishaps' = mishaps \cup (IF contextText = Empty THEN {} ELSE {"moved"})
  /\ UNCHANGED <<contextText, panelText, contextFocus, attached, ignoring, toEngine, toClient>>

Turn ==
  /\ attached /\ turns < MaxTurns
  /\ turns' = turns + 1
  /\ UNCHANGED <<setup, clientVariables, contextFocus, embedded, toContext, events>>

\* What the engine has yet to say of its text does not reach the context.
EngineUnheard ==
  IF fromEngine # <<>> \/ "key" \in Range(toEngine) THEN {"crossed"} ELSE {}

Ended == Range(toContext) \cap {"focus_out", "reset"} # {}

\* The context of another client gets the focus, perhaps before the FocusOut
\* of this one arrives: a committing client commits with its FocusOut, and the
\* context forgets the text without a signal.  Then the engine is detached,
\* which clears the text in the client too: one that is not that far yet has
\* nothing left to commit.
OtherFocusIn ==
  /\ Turn
  /\ Shows(Empty)
  /\ toClient' = toClient \o Showing(Empty)
  /\ attached' = FALSE
  /\ toEngine' = Append(toEngine, "focus_out")
  /\ mishaps' = mishaps \cup EngineUnheard
       \cup (IF Kept(contextText) /\ ~(clientCommits /\ embedded /\ Ended)
             THEN {"overtaken"} ELSE {})
  /\ UNCHANGED <<engineVars, due, fromEngine>>

\* Another engine is chosen, or the engine is lost and the previous one comes.
SetEngine ==
  /\ Turn
  /\ Clears(TRUE)
  /\ toClient' = toClient \o Clearing(TRUE)
  /\ engineText' = Empty
  /\ toEngine' = <<"focus_in">> /\ fromEngine' = <<>>
  /\ due' = due \cup (IF Kept(engineText) THEN {engineText.text} ELSE {})
  /\ mishaps' = mishaps \cup EngineUnheard \cup (IF Ended THEN {"crossed"} ELSE {})
  /\ UNCHANGED <<begun, attached>>

\* The signals of the engine.  The handlers are connected while it is attached.
Turns(visible) ==
  IF contextText.visible = visible THEN UNCHANGED <<contextText, panelText, toClient>>
  ELSE /\ contextText' = [contextText EXCEPT !.visible = visible]
       /\ IF embedded
          THEN /\ toClient' = Append(toClient, [kind |-> IF visible THEN "show" ELSE "hide"])
               /\ UNCHANGED panelText
          ELSE /\ panelText' = [panelText EXCEPT !.visible = visible]
               /\ UNCHANGED toClient

EngineSignal ==
  /\ fromEngine # <<>> /\ fromEngine' = Tail(fromEngine)
  /\ LET signal == Head(fromEngine) IN
     CASE ~attached -> UNCHANGED <<contextText, panelText, ignoring, toClient>>
       [] attached /\ signal.kind = "update" ->
            Shows(signal.shown) /\ toClient' = toClient \o Showing(signal.shown)
       [] attached /\ signal.kind = "commit" ->
            /\ toClient' = Append(toClient, signal)
            /\ UNCHANGED <<contextText, panelText, ignoring>>
       [] attached /\ signal.kind \in {"show", "hide"} ->
            Turns(signal.kind = "show") /\ UNCHANGED ignoring
  /\ UNCHANGED <<setup, engineVars, contextFocus, attached, embedded, clientVariables, history,
                 toContext, toEngine, events, turns>>

-----------------------------------------------------------------------------
(* The engine: what it may do with a key, and what it must do otherwise.    *)

Hears(method) ==
  /\ toEngine # <<>> /\ Head(toEngine) = method
  /\ toEngine' = Tail(toEngine)
  /\ UNCHANGED <<setup, icVars, clientVariables, mishaps,
                 toContext, toClient, events, turns>>

Says(words) == fromEngine' = fromEngine \o words

ComposeText ==
  /\ engineText.text = 0 /\ begun < MaxTexts
  /\ begun' = begun + 1
  /\ \E mode \in {"clear", "commit"} :
       engineText' = [text |-> begun + 1, visible |-> TRUE, mode |-> mode]
  /\ Says(<<UpdateSignal(engineText')>>)
  /\ UNCHANGED due

CommitText ==
  /\ engineText.text # 0
  /\ engineText' = Empty
  /\ \/ Says(<<CommitSignal(engineText.text), UpdateSignal(Empty)>>)
     \/ Says(<<UpdateSignal(Empty), CommitSignal(engineText.text)>>)
  /\ due' = due \cup {engineText.text}
  /\ UNCHANGED begun

Cancel ==
  /\ engineText.text # 0
  /\ engineText' = Empty
  /\ Says(<<UpdateSignal(Empty)>>)
  /\ UNCHANGED <<begun, due>>

HideOrShow ==
  /\ engineText.text # 0
  /\ engineText' = [engineText EXCEPT !.visible = ~@]
  /\ Says(<<[kind |-> IF engineText.visible THEN "hide" ELSE "show"]>>)
  /\ UNCHANGED <<begun, due>>

EngineKey ==
  /\ Hears("key")
  /\ \/ ComposeText \/ CommitText \/ Cancel \/ HideOrShow
     \/ UNCHANGED <<engineVars, due, fromEngine>>

\* A text that is committed for the engine is forgotten, another one cleared.
EngineEnds(method) ==
  /\ Hears(method)
  /\ engineText' = Empty
  /\ due' = due \cup (IF Kept(engineText) THEN {engineText.text} ELSE {})
  /\ \/ Says(<<UpdateSignal(Empty)>>)
     \/ (Kept(engineText) \/ engineText = Empty) /\ UNCHANGED fromEngine
  /\ UNCHANGED begun

EngineFocusIn == Hears("focus_in") /\ UNCHANGED <<engineVars, due, fromEngine>>

PreeditNext ==
  \/ PressKey \/ ImFocusIn \/ ImFocusOut \/ ImSetCapabilities \/ ImSignal
  \/ \E clears \in BOOLEAN : ImReset(clears)
  \/ ContextFocusIn \/ ContextFocusOut \/ ContextReset \/ ProcessKey \/ SetCapabilities
  \/ OtherFocusIn \/ SetEngine
  \/ EngineSignal
  \/ EngineKey \/ EngineFocusIn
  \/ \E method \in {"focus_out", "reset"} : EngineEnds(method)

-----------------------------------------------------------------------------
PreeditTypeOK ==
  /\ {engineText, contextText, panelText, clientText} \subseteq Texts
  /\ {clientCommits, wayland, embedded, contextFocus, attached, ignoring, clientFocus}
       \subseteq BOOLEAN
  /\ committed \in Seq(1..MaxTexts) /\ due \subseteq 1..MaxTexts
  /\ mishaps \subseteq {"crossed", "uncleared", "unseen", "moved", "overtaken"}
  /\ begun <= MaxTexts /\ events <= MaxEvents /\ turns <= MaxTurns

CommittedInOrder ==
  \A i, j \in DOMAIN committed : i < j => committed[i] < committed[j]

CommittedIsDue ==
  \A n \in Range(committed) \ due : Kept(engineText) /\ engineText.text = n

Looks(t) == IF t.visible THEN t.text ELSE 0

AtRest == toContext = <<>> /\ toEngine = <<>> /\ fromEngine = <<>> /\ toClient = <<>>

\* When nothing is on its way: who shows the text shows the engine's, nobody
\* else shows any, and all that was due is committed.
Agreed ==
  /\ Looks(contextText) = Looks(engineText)
  /\ Looks(clientText) = IF embedded THEN Looks(contextText) ELSE 0
  /\ Looks(panelText) = IF embedded THEN 0 ELSE Looks(contextText)
  /\ Range(committed) = due

(***************************************************************************)
(* Barring the mishaps, a text that is to be committed when the context    *)
(* loses the focus, is reset or gets another engine is committed once, by  *)
(* the client or by the daemon, in the order of the texts; and what is     *)
(* shown of the preedit in the end is what the engine has.                 *)
(***************************************************************************)
PreeditSettles ==
  mishaps = {} => CommittedInOrder /\ CommittedIsDue /\ (AtRest => Agreed)
=============================================================================
