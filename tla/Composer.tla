------------------------------ MODULE Composer ------------------------------
(***************************************************************************)
(* What a user of compose sequences is promised, whatever the order in     *)
(* which the tables are searched and whatever is shown meanwhile: the keys *)
(* that are neither erased nor refused form a sequence, and the text that  *)
(* is entered is what some table, or the composition of dead keys with a   *)
(* base character, gives for exactly this sequence.                        *)
(***************************************************************************)
EXTENDS SequencesExt

CONSTANTS
  Keysyms,
  DeadKeys,
  Compositions  \* the texts of dead keys followed by a base character

VARIABLES
  tables,     \* the arrays of sequences that can be entered
  pending,    \* the keys of the sequence that is being typed
  partial,    \* the text of the part of it that is complete already, or <<>>
  committed,  \* the text that the last step entered, or <<>>
  reply       \* what became of the last key: "taken", "forwarded" to the
              \* application, "cancelled" with a message to the user, or "reset"
              \* when the user or the focus ended the sequence

composerVars == <<tables, pending, partial, committed, reply>>

Texts(s) ==
  {t[s] : t \in {u \in ToSet(tables) : s \in DOMAIN u}}
    \cup (IF s \in DOMAIN Compositions THEN {Compositions[s]} ELSE {})

Alive(s) ==
  \/ \E t \in ToSet(tables) : \E u \in DOMAIN t : IsPrefix(s, u)
  \/ ToSet(s) \subseteq DeadKeys

\* The sequence that is being typed is s from now on, or it is complete.
Becomes(s, part) ==
  \/ /\ pending' = s /\ Alive(s) /\ committed' = <<>>
     /\ partial' \in Texts(s) \cup {part}
  \/ /\ pending' = <<>> /\ partial' = <<>>
     /\ committed' \in Texts(s)

Type(k) == Becomes(Append(pending, k), partial) /\ reply' = "taken"

Refuse == pending # <<>> /\ Becomes(pending, partial) /\ reply' = "cancelled"

\* A change of the tables may have left a sequence that none of them has.
Erase ==
  /\ pending # <<>> /\ reply' = "taken"
  /\ \/ Becomes(Front(pending), <<>>)
     \/ pending' = Front(pending) /\ partial' = <<>> /\ committed' = <<>>

\* The complete part is entered, or the dead key and its successor as they are.
Settle ==
  /\ pending # <<>> /\ pending' = <<>> /\ partial' = <<>>
  /\ \/ partial # <<>> /\ committed' = partial
     \/ /\ Len(pending) > 1 /\ Head(pending) \in DeadKeys
        /\ committed' = SubSeq(pending, 1, 2)

\* A sequence never ends without a text unless somebody was told or asked for it.
Abandon ==
  /\ pending' = <<>> /\ partial' = <<>> /\ committed' = <<>>
  /\ reply' # "taken"

Forward == committed' = <<>> /\ reply' = "forwarded" /\ UNCHANGED <<pending, partial>>

\* A character may also be entered by its number, outside of any sequence.
Number == pending = <<>> /\ UNCHANGED <<pending, partial>>

Change == UNCHANGED <<pending, partial, committed, reply>>

ComposerNext ==
  \/ Change
  \/ /\ UNCHANGED tables
     /\ Refuse \/ Erase \/ Settle \/ Abandon \/ Forward \/ Number \/ \E k \in Keysyms : Type(k)

Composes ==
  /\ pending = <<>> /\ partial = <<>> /\ committed = <<>>
  /\ [][ComposerNext]_composerVars
=============================================================================
