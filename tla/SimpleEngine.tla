---------------------------- MODULE SimpleEngine ----------------------------
(***************************************************************************)
(* IBusEngineSimple, the engine of the keyboard layouts: compose sequences *)
(* from tables, dead keys, and characters entered by their hexadecimal     *)
(* number (src/src/ibusenginesimple.c, the searches of ibuscomposetable.c).*)
(*                                                                         *)
(* A key event is one step, except that no_sequence_matches calls the      *)
(* handler again: these calls are the steps ProcessAgain.  Between the     *)
(* keys come the timer that shows a hidden preedit again, the loading of   *)
(* the user's table, which engine/main.vala leaves to an idle callback of  *)
(* the process, and the focus.  The emoji sequences of the code cannot be  *)
(* started (is_emoji_start is never TRUE) and are left out.                *)
(***************************************************************************)
EXTENDS Naturals, SequencesExt, Functions

CONSTANTS
  Keysyms,
  DeadKeys,
  HexKeys, Zero,       \* the hexadecimal digits and the one that is 0
  KeyU, Space, BackSpace, Escape,
  SystemTables,        \* en_compose_table: its arrays, from sequences to texts
  UserTables,          \* those of the user's Compose file
  Compositions,        \* what check_normalize_nfc gives, and doubled dead keys
  IsScalar(_),         \* is the number with these digits a Unicode scalar?
  MAX_COMPOSE_LEN,     \* the length of compose_buffer
  MAX_COMPOSE_ALGORITHM_LEN,  \* how many keys may be composed without a table
  MaxNested            \* bounds the calls of the handler by itself

NUL == <<"NUL">>       \* the text that has length 1 and is empty as a C string

\* What the parser of Compose files accepts.  It also accepts the escaped octal
\* "\0" for a text: files that have it are left out.
IsTable(t) ==
  \A s \in DOMAIN t :
    s \in Seq(Keysyms) /\ Len(s) \in 1..(MAX_COMPOSE_LEN - 1) /\ t[s] \notin {<<>>, NUL}

ASSUME SimpleAssumption ==
  /\ DeadKeys \cup HexKeys \cup {KeyU, Space, BackSpace, Escape} \subseteq Keysyms
  /\ Zero \in HexKeys
  /\ MAX_COMPOSE_LEN \in Nat /\ MaxNested \in Nat
  /\ MAX_COMPOSE_ALGORITHM_LEN \in Nat /\ MAX_COMPOSE_ALGORITHM_LEN < MAX_COMPOSE_LEN
  /\ SystemTables \in Seq(ToSet(SystemTables)) /\ UserTables \in Seq(ToSet(UserTables))
  /\ \A t \in ToSet(SystemTables) \cup ToSet(UserTables) \cup {Compositions} : IsTable(t)
  /\ \A s \in DOMAIN Compositions : Len(s) <= MAX_COMPOSE_ALGORITHM_LEN

VARIABLES
  simple,  \* IBusEngineSimplePrivate, and the preedit that the daemon shows
  nested,  \* the calls of the handler that it still owes to itself
  loaded,  \* the user's table: "no", with 'include "%L"', or "alone"
  held     \* the modifiers that are pressed

simpleVars == <<simple, nested, loaded, held>>

Modifiers == {"Control", "Shift"}
ClientNames   == {"gedit", "gnome-shell", "none"}

SimpleInit ==
  /\ simple = [compose_buffer |-> <<>>, tentative_match |-> <<>>, tentative_match_len |-> 0,
               in_hex |-> FALSE, modifiers_dropped |-> FALSE, in_compose |-> FALSE,
               inform |-> FALSE, timer |-> FALSE, client |-> "none",
               updated_preedit |-> <<>>, sent |-> <<>>, visible |-> FALSE,
               committed |-> <<>>, reply |-> "forwarded"]
  /\ nested = <<>> /\ loaded = "no" /\ held = {}

-----------------------------------------------------------------------------
(* The tables.  A user's table without include replaces the system's.      *)

Loaded(l) ==
  CASE l = "no"      -> SystemTables
    [] l = "include" -> UserTables \o SystemTables
    [] l = "alone"   -> UserTables

tables == Loaded(loaded)

Continues(t, s) == \E u \in DOMAIN t : IsPrefix(s, u)

Finished(t, s) == s \in DOMAIN t /\ ~ \E u \in DOMAIN t : IsStrictPrefix(s, u)

-----------------------------------------------------------------------------
(* The preedit of p and what is told to the daemon. *)

Preedit(p) ==
  IF p.in_hex THEN <<"u">> \o p.compose_buffer
  ELSE IF ~p.in_compose \/ p.compose_buffer = <<>> \/ p.tentative_match = NUL THEN <<>>
  ELSE IF p.tentative_match # <<>> THEN p.tentative_match ELSE p.compose_buffer

Told(p)   == p.client = "gnome-shell"   \* no messages there: the preedit blinks

\* MUTANT: the timer that would show the preedit again is not removed.
HideKeepingTimer(p) ==
  [p EXCEPT !.visible = FALSE, !.inform = FALSE, !.updated_preedit = <<>>]

Hide(p) ==
  [p EXCEPT !.visible = FALSE, !.inform = FALSE, !.timer = FALSE, !.updated_preedit = <<>>]

\* ibus_engine_simple_update_preedit_text
UpdatePreedit(p) ==
  IF Preedit(p) = <<>>
  THEN IF p.updated_preedit = <<>> THEN p ELSE Hide(p)
  ELSE IF p.inform /\ Told(p)
  THEN [p EXCEPT !.visible = FALSE, !.timer = TRUE, !.updated_preedit = Preedit(p)]
  ELSE [p EXCEPT !.visible = TRUE, !.sent = Preedit(p), !.updated_preedit = Preedit(p)]

\* INVALID_COMPOSE_SEQUENCE
SendMessage(p) == [p EXCEPT !.inform = TRUE, !.reply = "cancelled"]

\* ibus_engine_simple_commit_str and _char, which refuse an empty C string.
Commit(p, text) ==
  IF text \in {<<>>, NUL} THEN p
  ELSE IF p.in_hex \/ p.tentative_match_len > 0 \/ p.compose_buffer # <<>>
  THEN [p EXCEPT !.tentative_match = <<>>, !.tentative_match_len = 0, !.in_hex = FALSE,
                 !.in_compose = FALSE, !.compose_buffer = <<>>, !.committed = text]
  ELSE [p EXCEPT !.committed = text]

\* ibus_engine_simple_reset
Reset(p) ==
  [Hide(p) EXCEPT !.compose_buffer = <<>>, !.tentative_match = <<>>,
                  !.tentative_match_len = 0, !.in_hex = FALSE,
                  !.committed = <<>>, !.reply = "reset"]

-----------------------------------------------------------------------------
(* The search of compose sequences, and what happens when there is none.   *)

(* ibus_engine_simple_check_all_compose_table: the first array that has a  *)
(* sequence with these keys decides, and a few dead keys need no table.     *)
Found(s) ==
  \/ \E i \in DOMAIN tables : Continues(tables[i], s)
  \/ s \in DOMAIN Compositions
  \/ ToSet(s) \subseteq DeadKeys /\ Len(s) <= MAX_COMPOSE_ALGORITHM_LEN

CheckAll(p) ==
  LET s    == p.compose_buffer
      hits == {i \in DOMAIN tables : Continues(tables[i], s)}
      t    == tables[CHOOSE i \in hits : \A j \in hits : i <= j]
      q    == [p EXCEPT !.in_compose = TRUE]
  IN  UpdatePreedit(
        IF hits = {}
        THEN IF s \in DOMAIN Compositions
             THEN [Commit(q, Compositions[s]) EXCEPT !.compose_buffer = <<>>]
             ELSE q
        ELSE IF Finished(t, s)
        THEN Commit([q EXCEPT !.compose_buffer = <<>>], t[s])
        ELSE IF s \in DOMAIN t
        THEN [q EXCEPT !.tentative_match = t[s], !.tentative_match_len = Len(s)]
        ELSE q)

Call(k, mods) == [key |-> k, modifiers |-> mods]

(* no_sequence_matches with n keys in the buffer: a complete part of the   *)
(* sequence is entered and the other keys are processed again, a dead key  *)
(* and one more are entered as they are, and anything else is cancelled.   *)
NoSequenceMatches(p, n, k, mods, rest) ==
  LET q == [p EXCEPT !.in_compose = FALSE]
      m == p.tentative_match_len
      c == [q EXCEPT !.compose_buffer = <<>>]
  IN
  IF m > 0
  THEN /\ simple' = UpdatePreedit(Commit(q, p.tentative_match))
       /\ nested' = [i \in 1..(n - m - 1) |-> Call(p.compose_buffer[m + i], {})]
                      \o <<Call(k, mods)>> \o rest
  ELSE /\ nested' = rest
       /\ simple' = IF n = 2 /\ p.compose_buffer[1] \in DeadKeys
                    THEN UpdatePreedit(Commit(q, SubSeq(p.compose_buffer, 1, 2)))
                    ELSE IF n > 1 THEN UpdatePreedit(SendMessage(c))
                    ELSE IF p.in_hex THEN UpdatePreedit(c)
                    ELSE [UpdatePreedit(c) EXCEPT !.reply = "forwarded"]

-----------------------------------------------------------------------------
(* ibus_engine_simple_process_key_event for a key that is pressed.  p is   *)
(* the state at its beginning, rest the calls of the handler that are left *)
(* when it returns; each action is one way through it.                     *)

Begin == [simple EXCEPT !.committed = <<>>, !.reply = "taken"]

HaveHexMods(p, mods) == (p.in_hex /\ p.modifiers_dropped) \/ mods = Modifiers

\* An accelerator of the application: the key is forwarded.
Accelerator(p, k, mods) ==
  LET n == Len(p.compose_buffer) IN
  /\ "Control" \in mods
  /\ \/ ~HaveHexMods(p, mods)
     \/ ~p.in_hex /\ (n > 0 \/ k # KeyU)
     \/ p.in_hex /\ k \notin HexKeys \cup {KeyU, Space, BackSpace, Escape}

ForwardAccelerator(p, k, mods, rest) ==
  /\ Accelerator(p, k, mods)
  /\ simple' = [p EXCEPT !.reply = "forwarded"]
  /\ nested' = rest

\* check_hex: the number of no digits is 0, like that of zeros only.
CheckHex(p) ==
  LET s    == p.compose_buffer
      text == IF \A i \in DOMAIN s : s[i] = Zero THEN NUL
              ELSE IF IsScalar(s) THEN <<"U+">> \o s ELSE <<>>
  IN  [p EXCEPT !.tentative_match = text,
                !.tentative_match_len = IF text = <<>> THEN 0 ELSE Len(s)]

EraseDigit(p, k, mods, rest) ==
  /\ p.in_hex /\ HaveHexMods(p, mods) /\ k = BackSpace
  /\ simple' = UpdatePreedit(IF p.compose_buffer = <<>>
                      THEN [p EXCEPT !.in_hex = FALSE]
                      ELSE CheckHex([p EXCEPT !.compose_buffer = Front(@)]))
  /\ nested' = rest

Erased(p) ==
  [p EXCEPT !.compose_buffer = Front(@), !.tentative_match = <<>>, !.tentative_match_len = 0]

EraseKey(p, k, rest) ==
  /\ ~p.in_hex /\ k = BackSpace /\ p.compose_buffer # <<>>
  /\ simple' = IF Found(Front(p.compose_buffer)) THEN CheckAll(Erased(p)) ELSE Erased(p)
  /\ nested' = rest

StartedHex(p) ==
  UpdatePreedit([p EXCEPT !.compose_buffer = <<>>, !.in_hex = TRUE, !.modifiers_dropped = FALSE,
                   !.tentative_match = <<>>])

CancelledHex(p) ==
  [SendMessage(p) EXCEPT !.tentative_match = <<>>, !.in_hex = FALSE, !.compose_buffer = <<>>]

StartHex(p, k, mods, rest) ==
  /\ ~p.in_hex /\ HaveHexMods(p, mods) /\ k = KeyU
  /\ simple' = StartedHex(p)
  /\ nested' = rest

RestartHex(p, k, mods, rest) ==
  LET q == IF p.tentative_match # <<>> THEN UpdatePreedit(Commit(p, p.tentative_match))
           ELSE IF p.compose_buffer # <<>> THEN CancelledHex(p) ELSE p
  IN
  /\ p.in_hex /\ HaveHexMods(p, mods) /\ k = KeyU
  /\ simple' = IF q.in_hex THEN SendMessage(q) ELSE StartedHex(q)
  /\ nested' = rest

EndWithEscape(p, k, rest) ==
  /\ k = Escape /\ (p.in_hex \/ p.compose_buffer # <<>>)
  /\ simple' = Reset(p)
  /\ nested' = rest

RefuseNonHex(p, k, mods, rest) ==
  /\ p.in_hex /\ k \notin HexKeys \cup {Space, Escape}
  /\ k \in {KeyU, BackSpace} => ~HaveHexMods(p, mods)
  /\ simple' = SendMessage(p)
  /\ nested' = rest

\* SET_COMPOSE_BUFFER_ELEMENT_NEXT: a full buffer drops the key.
Put(p, k) ==
  IF Len(p.compose_buffer) < MAX_COMPOSE_LEN
  THEN [p EXCEPT !.compose_buffer = Append(@, k)] ELSE p

TypeDigit(p, k, mods, rest) ==
  /\ p.in_hex /\ HaveHexMods(p, mods) /\ k \in HexKeys
  /\ simple' = UpdatePreedit(CheckHex(Put(p, k)))
  /\ nested' = rest

EndHex(p, k, mods, rest) ==
  /\ p.in_hex /\ HaveHexMods(p, mods) /\ k = Space
  /\ simple' = UpdatePreedit(IF p.compose_buffer = <<>> THEN CheckHex(p)
                      ELSE IF p.tentative_match # <<>> THEN Commit(p, p.tentative_match)
                      ELSE CancelledHex(p))
  /\ nested' = rest

\* Neither are the modifiers held nor was their release seen.
HexWithoutModifiers(p, k, mods, rest) ==
  LET q == IF k = Space THEN p ELSE Put(p, k) IN
  /\ p.in_hex /\ ~HaveHexMods(p, mods) /\ k \in HexKeys \cup {Space}
  /\ NoSequenceMatches(q, Len(q.compose_buffer), k, mods, rest)

\* MUTANT: the key is left in the buffer when the sequence before it is shown again.
ShownAgain(p, k) == CheckAll(SendMessage(Put(p, k)))

\* "Show the previous preedit text."
ShowPrevious(p, k) == CheckAll(SendMessage(p))

Compose(p, k, mods, rest) ==
  LET n == Len(p.compose_buffer)
      q == Put(p, k)
  IN
  /\ ~p.in_hex
  /\ k \in {BackSpace, Escape} => n = 0
  /\ ~(HaveHexMods(p, mods) /\ k = KeyU)
  /\ IF Found(q.compose_buffer)
     THEN simple' = CheckAll(q) /\ nested' = rest
     ELSE IF n = 0
     THEN NoSequenceMatches(q, 1, k, mods, rest)
     ELSE IF Found(p.compose_buffer)
     THEN simple' = ShowPrevious(p, k) /\ nested' = rest
     ELSE NoSequenceMatches(SendMessage(q), n, k, mods, rest)

KeyEvent(p, k, mods, rest) ==
  \/ ForwardAccelerator(p, k, mods, rest)
  \/ /\ ~Accelerator(p, k, mods)
     /\ \/ EraseDigit(p, k, mods, rest)
        \/ EraseKey(p, k, rest)
        \/ StartHex(p, k, mods, rest)
        \/ RestartHex(p, k, mods, rest)
        \/ EndWithEscape(p, k, rest)
        \/ RefuseNonHex(p, k, mods, rest)
        \/ TypeDigit(p, k, mods, rest)
        \/ EndHex(p, k, mods, rest)
        \/ HexWithoutModifiers(p, k, mods, rest)
        \/ Compose(p, k, mods, rest)

-----------------------------------------------------------------------------
(* The steps of the engine's process.  Nothing comes between the calls of  *)
(* the handler by itself.                                                  *)

Idle == nested = <<>>

TypeKey(k) ==
  /\ Idle /\ simple.client # "none"
  /\ KeyEvent(Begin, k, held, <<>>)
  /\ UNCHANGED <<loaded, held>>

\* One more call of the handler; the bound stands for the size of the stack.
ProcessAgain ==
  /\ ~Idle /\ Len(nested) <= MaxNested
  /\ KeyEvent(Begin, Head(nested).key, Head(nested).modifiers, Tail(nested))
  /\ UNCHANGED <<loaded, held>>

Forwarded == [Begin EXCEPT !.reply = "forwarded"]

PressModifier(m) ==
  /\ Idle /\ simple.client # "none" /\ m \notin held
  /\ held' = held \cup {m}
  /\ simple' = Forwarded
  /\ UNCHANGED <<nested, loaded>>

ReleaseModifier(m) ==
  LET p == Begin IN
  /\ Idle /\ simple.client # "none" /\ m \in held
  /\ held' = held \ {m}
  /\ simple' = IF ~p.in_hex THEN Forwarded
               ELSE IF p.tentative_match # <<>> THEN UpdatePreedit(Commit(p, p.tentative_match))
               ELSE IF p.compose_buffer = <<>> THEN [p EXCEPT !.modifiers_dropped = TRUE]
               ELSE UpdatePreedit(CancelledHex(p))
  /\ UNCHANGED <<nested, loaded>>

\* inform_user_error_timeout_cb: the daemon shows the text it was sent last.
InformTimeout ==
  /\ Idle /\ simple.timer
  /\ simple' = [simple EXCEPT !.inform = FALSE, !.timer = FALSE, !.visible = TRUE]
  /\ UNCHANGED <<nested, loaded, held>>

\* The idle callback of engine/main.vala.
LoadUserTable(l) ==
  /\ Idle /\ loaded = "no" /\ loaded' = l
  /\ UNCHANGED <<simple, nested, held>>

FocusIn(c) ==
  /\ Idle /\ simple.client = "none"
  /\ simple' = [simple EXCEPT !.client = c]
  /\ UNCHANGED <<nested, loaded, held>>

FocusLeft == [Reset(simple) EXCEPT !.client = "none"]

SimpleFocusOut ==
  /\ Idle /\ simple.client # "none"
  /\ simple' = FocusLeft
  /\ UNCHANGED <<nested, loaded, held>>

SimpleReset ==
  /\ Idle
  /\ simple' = Reset(simple)
  /\ UNCHANGED <<nested, loaded, held>>

SimpleNext ==
  \/ \E k \in Keysyms : TypeKey(k)
  \/ ProcessAgain
  \/ \E m \in Modifiers : PressModifier(m) \/ ReleaseModifier(m)
  \/ InformTimeout
  \/ \E l \in {"include", "alone"} : LoadUserTable(l)
  \/ \E c \in ClientNames \ {"none"} : FocusIn(c)
  \/ SimpleFocusOut
  \/ SimpleReset

SimpleSpec == SimpleInit /\ [][SimpleNext]_simpleVars

SimpleFairness == WF_simpleVars(ProcessAgain) /\ WF_simpleVars(InformTimeout)

SimpleFairSpec == SimpleSpec /\ SimpleFairness

-----------------------------------------------------------------------------
SimpleTypeOK ==
  /\ simple.compose_buffer \in Seq(Keysyms) /\ Len(simple.compose_buffer) <= MAX_COMPOSE_LEN
  /\ simple.tentative_match_len \in 0..MAX_COMPOSE_LEN
  /\ {simple.in_hex, simple.modifiers_dropped, simple.in_compose, simple.inform,
      simple.timer, simple.visible} \subseteq BOOLEAN
  /\ simple.client \in ClientNames /\ loaded \in {"no", "include", "alone"}
  /\ held \subseteq Modifiers

(* The preedit is shown exactly while a sequence is being typed and it     *)
(* shows this sequence, whatever the order of keys, messages and the timer.*)
(* A client without messages has it hidden for a while, and never shown    *)
(* with no sequence.  Left out are the number of zeros only, after which   *)
(* nothing is shown (see HexSequenceEnds), and a sequence that is no longer*)
(* in the tables: erasing its last key does not change the preedit.        *)
Typing == simple.in_hex \/ simple.compose_buffer # <<>>

PreeditFollows ==
  Idle =>
    /\ simple.visible => Typing
    /\ simple.client # "gnome-shell" /\ simple.tentative_match # NUL
         /\ (simple.in_hex \/ Found(simple.compose_buffer)) =>
         /\ simple.visible = Typing
         /\ simple.visible => simple.sent = Preedit(simple)
    /\ simple.timer => Typing /\ ~simple.visible

\* What is entered is what the tables give for the keys that were typed.
Composer == INSTANCE Composer WITH
  pending   <- IF simple.in_hex THEN <<>> ELSE simple.compose_buffer,
  partial   <- IF simple.in_hex \/ simple.tentative_match_len = 0
               THEN <<>> ELSE simple.tentative_match,
  committed <- simple.committed,
  reply     <- simple.reply

Composes == Composer!Composes

(* "Releasing one of the modifiers or pressing space while the modifiers   *)
(* are still held commits the character": digits never outlive it.         *)
HexSequenceEnds ==
  [][\A m \in Modifiers :
       ReleaseModifier(m) /\ simple.in_hex /\ simple.compose_buffer # <<>> => ~simple'.in_hex]_simpleVars
=============================================================================
