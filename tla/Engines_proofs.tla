--------------------------- MODULE Engines_proofs ---------------------------
(***************************************************************************)
(* Theorems about what an engine keeps for the user: the sequence that     *)
(* IBusEngineSimple composes and its preedit, and the table of candidates. *)
(*                                                                         *)
(* The simple engine is proved for every set of keysyms, dead keys and     *)
(* tables.  Its record is Ready between two keys: the fields have their    *)
(* types (Record), the buffer and the tentative match agree (Matched), the *)
(* buffer has room for a key (Composing), what is on the screen was told   *)
(* to the daemon (Announced) and is the preedit of the buffer (Follows).   *)
(* Each helper of the engine has a lemma that says which of these it keeps;*)
(* each way through the handler has one that ends in Result: Ready again,  *)
(* and a step of the abstract composer.                                    *)
(***************************************************************************)
EXTENDS SimpleEngine, LookupTable, WellFoundedInduction, SequenceTheorems, TLAPS

(* The fields of the engine's record. *)
Fields == {"compose_buffer", "tentative_match", "tentative_match_len", "in_hex",
           "modifiers_dropped", "in_compose", "inform", "timer", "client",
           "updated_preedit", "sent", "visible", "committed", "reply"}

Calls == [key : Keysyms, modifiers : SUBSET Modifiers]

Record(p) ==
  /\ DOMAIN p = Fields
  /\ p.compose_buffer \in Seq(Keysyms) /\ Len(p.compose_buffer) <= MAX_COMPOSE_LEN
  /\ p.tentative_match_len \in 0..MAX_COMPOSE_LEN
  /\ p.in_hex \in BOOLEAN /\ p.modifiers_dropped \in BOOLEAN /\ p.in_compose \in BOOLEAN
  /\ p.inform \in BOOLEAN /\ p.timer \in BOOLEAN /\ p.visible \in BOOLEAN
  /\ p.client \in ClientNames

(* What the buffer and the tentative match say of each other.  Outside of  *)
(* a number the buffer is never full: a sequence of that length is in no   *)
(* table.                                                                  *)
Matched(p) ==
  /\ p.tentative_match_len > 0 =>
       p.tentative_match # <<>> /\ p.tentative_match_len <= Len(p.compose_buffer)
  /\ ~p.in_hex /\ p.tentative_match_len > 0 => p.tentative_match # NUL

Composing(p) ==
  ~p.in_hex =>
    /\ Len(p.compose_buffer) < MAX_COMPOSE_LEN
    /\ p.compose_buffer # <<>> => p.in_compose

(* What is on the screen was told to the daemon, and the timer only runs   *)
(* where it hides a preedit.                                               *)
Announced(p) ==
  /\ p.visible \/ p.timer => p.updated_preedit # <<>>
  /\ p.timer => p.client = "gnome-shell" /\ p.inform /\ ~p.visible

TypingIn(p) == p.in_hex \/ p.compose_buffer # <<>>

Follows(p) ==
  /\ p.visible \/ p.timer => TypingIn(p)
  /\ p.client # "gnome-shell" /\ p.tentative_match # NUL
       /\ (p.in_hex \/ Found(p.compose_buffer)) =>
       /\ p.visible = TypingIn(p)
       /\ p.visible => p.sent = Preedit(p)

Before(p) == Record(p) /\ Matched(p) /\ Announced(p)

Ready(p) == Before(p) /\ Composing(p) /\ Follows(p)

-----------------------------------------------------------------------------
(* What the helpers do to the fields of the record. *)

(* A step that changes nothing but the screen. *)
SameKeys(p, q) ==
  /\ DOMAIN q = Fields
  /\ q.compose_buffer = p.compose_buffer
  /\ q.tentative_match = p.tentative_match
  /\ q.tentative_match_len = p.tentative_match_len
  /\ q.in_hex = p.in_hex /\ q.modifiers_dropped = p.modifiers_dropped
  /\ q.in_compose = p.in_compose /\ q.client = p.client
  /\ q.committed = p.committed /\ q.reply = p.reply

(* A step that leaves the screen to the next UpdatePreedit. *)
SameScreen(p, q) ==
  /\ DOMAIN q = Fields
  /\ q.visible = p.visible /\ q.timer = p.timer /\ q.client = p.client
  /\ q.updated_preedit = p.updated_preedit /\ q.sent = p.sent
  /\ q.inform \in {TRUE, p.inform}

LEMMA HideFields ==
  ASSUME NEW p, DOMAIN p = Fields
  PROVE  /\ SameKeys(p, Hide(p))
         /\ ~Hide(p).visible /\ ~Hide(p).timer /\ Hide(p).inform = FALSE
         /\ Hide(p).visible = FALSE /\ Hide(p).timer = FALSE
         /\ Hide(p).updated_preedit = <<>>
  BY DEF Fields, SameKeys, Hide

LEMMA UpdateSameKeys ==
  ASSUME NEW p, DOMAIN p = Fields
  PROVE  SameKeys(p, UpdatePreedit(p))
  BY DEF Fields, SameKeys, Hide, UpdatePreedit

(* Something is shown of every sequence that is being typed, unless its    *)
(* text is empty as a C string.                                            *)
LEMMA PreeditOfTyping ==
  ASSUME NEW p, Record(p), Composing(p)
  PROVE  /\ ~TypingIn(p) => Preedit(p) = <<>>
         /\ TypingIn(p) /\ (p.in_hex \/ p.tentative_match # NUL) => Preedit(p) # <<>>
  <1>1. CASE p.in_hex
    <2>1. <<"u">> \o p.compose_buffer # <<>>
      BY DEF Record
    <2> QED
      BY <1>1, <2>1 DEF Preedit, TypingIn
  <1>2. CASE ~p.in_hex
    BY <1>2 DEF Preedit, TypingIn, Composing
  <1> QED
    BY <1>1, <1>2

(* The preedit follows whatever was done before the update. *)
LEMMA UpdateIsReady ==
  ASSUME NEW p, Before(p), Composing(p)
  PROVE  Ready(UpdatePreedit(p))
  <1> DEFINE q == UpdatePreedit(p)
  <1>0. DOMAIN p = Fields
    BY DEF Before, Record
  <1>1. SameKeys(p, q)
    BY <1>0, UpdateSameKeys
  <1>2. Preedit(q) = Preedit(p) /\ TypingIn(q) = TypingIn(p)
    BY <1>1 DEF SameKeys, Preedit, TypingIn
  <1>3. CASE Preedit(p) = <<>>
    <2>1. q.visible = FALSE /\ q.timer = FALSE /\ q.inform \in BOOLEAN
      BY <1>0, <1>3, HideFields DEF UpdatePreedit, Before, Record, Announced
    <2>2. TypingIn(p) => ~p.in_hex /\ p.tentative_match = NUL
      BY <1>3, PreeditOfTyping DEF Before
    <2> HIDE DEF q
    <2>3. Record(q) /\ Matched(q) /\ Composing(q) /\ Announced(q)
      BY <1>1, <2>1 DEF SameKeys, Before, Record, Matched, Composing, Announced
    <2>4. Follows(q)
      BY <1>1, <1>2, <2>1, <2>2 DEF SameKeys, Follows, TypingIn
    <2> QED
      BY <2>3, <2>4 DEF Ready, Before, q
  <1>4. CASE Preedit(p) # <<>>
    <2>1. TypingIn(p)
      BY <1>4, PreeditOfTyping DEF Before
    <2>2. /\ q.visible \in BOOLEAN /\ q.timer \in BOOLEAN /\ q.inform \in BOOLEAN
          /\ q.updated_preedit # <<>>
          /\ q.timer => p.client = "gnome-shell" /\ q.inform /\ ~q.visible
          /\ p.client # "gnome-shell" => q.visible /\ q.sent = Preedit(p)
      BY <1>0, <1>4 DEF Fields, UpdatePreedit, Told, Before, Record, Announced
    <2> HIDE DEF q
    <2>3. Record(q) /\ Matched(q) /\ Composing(q) /\ Announced(q)
      BY <1>1, <2>2 DEF SameKeys, Before, Record, Matched, Composing, Announced
    <2>4. Follows(q)
      BY <1>1, <1>2, <2>1, <2>2 DEF SameKeys, Follows, TypingIn
    <2> QED
      BY <2>3, <2>4 DEF Ready, Before, q
  <1> QED
    BY <1>3, <1>4

LEMMA BufferLength == MAX_COMPOSE_LEN \in Nat \ {0}
  BY SimpleAssumption

(* What is entered ends the sequence; an empty text is refused. *)
Entered(p, text, q) ==
  /\ SameScreen(p, q) /\ q.inform = p.inform /\ q.reply = p.reply
  /\ q.modifiers_dropped = p.modifiers_dropped
  /\ q.committed = text /\ q.compose_buffer = <<>>
  /\ q.tentative_match_len = 0 /\ q.in_hex = FALSE /\ q.in_compose \in BOOLEAN

LEMMA CommitEnters ==
  ASSUME NEW p, Record(p), NEW text, text \notin {<<>>, NUL}
  PROVE  Entered(p, text, Commit(p, text))
  <1> DEFINE full == p.in_hex \/ p.tentative_match_len > 0 \/ p.compose_buffer # <<>>
  <1>1. CASE full
    <2>1. Commit(p, text) =
            [p EXCEPT !.tentative_match = <<>>, !.tentative_match_len = 0, !.in_hex = FALSE,
                      !.in_compose = FALSE, !.compose_buffer = <<>>, !.committed = text]
      BY <1>1, Zenon DEF Commit
    <2> QED
      BY <1>1, <2>1 DEF Record, Fields, SameScreen, Entered
  <1>2. CASE ~full
    <2>1. Commit(p, text) = [p EXCEPT !.committed = text]
      BY <1>2, Zenon DEF Commit
    <2> QED
      BY <1>2, <2>1 DEF Record, Fields, SameScreen, Entered
  <1> QED
    BY <1>1, <1>2

LEMMA CommitRefuses ==
  ASSUME NEW p, NEW text, text \in {<<>>, NUL}
  PROVE  Commit(p, text) = p
  BY DEF Commit

LEMMA EnteredIsComposing ==
  ASSUME NEW p, Record(p), Announced(p), NEW text, NEW q, Entered(p, text, q)
  PROVE  Before(q) /\ Composing(q)
  <1>1. MAX_COMPOSE_LEN \in Nat \ {0} /\ q.compose_buffer \in Seq(Keysyms)
        /\ Len(q.compose_buffer) = 0
    BY SimpleAssumption DEF Entered
  <1>2. Record(q)
    <2>1. /\ DOMAIN q = Fields /\ q.compose_buffer \in Seq(Keysyms)
          /\ Len(q.compose_buffer) <= MAX_COMPOSE_LEN
          /\ q.tentative_match_len \in 0..MAX_COMPOSE_LEN
      BY <1>1 DEF Entered, SameScreen
    <2>2. /\ q.in_hex \in BOOLEAN /\ q.modifiers_dropped \in BOOLEAN /\ q.in_compose \in BOOLEAN
          /\ q.inform \in BOOLEAN /\ q.timer \in BOOLEAN /\ q.visible \in BOOLEAN
      BY Zenon DEF Entered, SameScreen, Record
    <2>3. q.client \in ClientNames
      BY DEF Entered, SameScreen, Record
    <2> QED
      BY <2>1, <2>2, <2>3 DEF Record
  <1>3. Matched(q) /\ Composing(q) /\ Announced(q)
    BY <1>1 DEF Entered, SameScreen, Matched, Composing, Announced
  <1> QED
    BY <1>2, <1>3 DEF Before

-----------------------------------------------------------------------------
(* The search in the tables. *)

Tables == {"no", "include", "alone"}

LEMMA TablesAreTables ==
  ASSUME loaded \in Tables
  PROVE  /\ DOMAIN tables \in SUBSET Nat
         /\ \A i \in DOMAIN tables : IsTable(tables[i]) /\ tables[i] \in ToSet(tables)
  <1> DEFINE T == ToSet(SystemTables) \cup ToSet(UserTables)
  <1>1. tables \in Seq(T)
    <2>1. SystemTables \in Seq(T) /\ UserTables \in Seq(T)
      BY SimpleAssumption
    <2> HIDE DEF T
    <2> QED
      BY <2>1 DEF tables, Loaded, Tables
  <1>2. \A t \in T : IsTable(t)
    BY SimpleAssumption
  <1> HIDE DEF T
  <1> QED
    BY <1>1, <1>2 DEF ToSet

LEMMA Smallest ==
  ASSUME NEW A \in SUBSET Nat, A # {}
  PROVE  \E k \in A : \A m \in A : k <= m
  <1> DEFINE R == OpToRel(<, Nat)
  <1>1. IsWellFoundedOn(R, Nat)
    BY NatLessThanWellFounded
  <1>2. PICK k \in A : \A m \in A : ~ (<<m, k>> \in R)
    <2> HIDE DEF R
    <2> QED
      BY <1>1, WFMin
  <1>3. \A m \in A : m \in Nat /\ k \in Nat /\ (<<m, k>> \in R <=> m < k)
    BY DEF OpToRel
  <1> HIDE DEF R
  <1>4. ASSUME NEW m \in A
        PROVE  k <= m
    <2>1. ~(m < k) /\ m \in Nat /\ k \in Nat
      BY <1>2, <1>3
    <2> QED
      BY <2>1
  <1> QED
    BY <1>4

(* No sequence that is found fills the buffer. *)
LEMMA FoundLength ==
  ASSUME loaded \in Tables, NEW s \in Seq(Keysyms), Found(s)
  PROVE  Len(s) < MAX_COMPOSE_LEN
  <1>1. CASE \E i \in DOMAIN tables : Continues(tables[i], s)
    <2>1. PICK i \in DOMAIN tables : Continues(tables[i], s)
      BY <1>1
    <2>2. PICK u \in DOMAIN tables[i] : IsPrefix(s, u)
      BY <2>1 DEF Continues
    <2>3. Len(u) \in 1..(MAX_COMPOSE_LEN - 1)
      BY <2>2, TablesAreTables DEF IsTable
    <2> QED
      BY <2>2, <2>3, SimpleAssumption DEF IsPrefix
  <1>2. CASE s \in DOMAIN Compositions
    BY <1>2, SimpleAssumption
  <1>3. CASE Len(s) <= MAX_COMPOSE_ALGORITHM_LEN
    BY <1>3, SimpleAssumption
  <1> QED
    BY <1>1, <1>2, <1>3 DEF Found

LEMMA NothingIsFound == Found(<<>>)
  BY SimpleAssumption DEF Found, ToSet

-----------------------------------------------------------------------------
(* What the abstract composer sees of the record, and the sequence s with  *)
(* the text part of it that is complete: q goes on with it or enters it.   *)

Pending(p) == IF p.in_hex THEN <<>> ELSE p.compose_buffer

Partial(p) == IF p.in_hex \/ p.tentative_match_len = 0 THEN <<>> ELSE p.tentative_match

Becomes(s, part, q) ==
  \/ /\ Pending(q) = s /\ Composer!Alive(s) /\ q.committed = <<>>
     /\ Partial(q) \in Composer!Texts(s) \cup {part}
  \/ Pending(q) = <<>> /\ Partial(q) = <<>> /\ q.committed \in Composer!Texts(s)

(* A sequence that stays in the buffer after a search.  With a sequence its *)
(* beginnings are kept, which is not so of what Found accepts.             *)
Kept(s) ==
  \/ \E i \in DOMAIN tables : Continues(tables[i], s)
  \/ ToSet(s) \subseteq DeadKeys /\ Len(s) <= MAX_COMPOSE_ALGORITHM_LEN

LEMMA NothingIsKept == Kept(<<>>)
  BY SimpleAssumption DEF Kept, ToSet

LEMMA KeptIsFound ==
  ASSUME NEW s, Kept(s)
  PROVE  Found(s)
  BY DEF Kept, Found

LEMMA KeptIsAlive ==
  ASSUME loaded \in Tables, NEW s, Kept(s)
  PROVE  Composer!Alive(s)
  <1>1. ASSUME NEW i \in DOMAIN tables, Continues(tables[i], s)
        PROVE  Composer!Alive(s)
    <2>1. tables[i] \in ToSet(tables)
      BY TablesAreTables
    <2> QED
      BY <1>1, <2>1 DEF Continues, Composer!Alive, Composer!ToSet, ToSet,
                        Composer!IsPrefix, IsPrefix
  <1>2. CASE ToSet(s) \subseteq DeadKeys
    BY <1>2, Zenon DEF Composer!Alive, Composer!ToSet, ToSet
  <1> QED
    BY <1>1, <1>2 DEF Kept

LEMMA FrontOfSequence ==
  ASSUME NEW s \in Seq(Keysyms), s # <<>>
  PROVE  /\ Front(s) \in Seq(Keysyms) /\ Len(Front(s)) = Len(s) - 1
         /\ \A i \in 1..Len(Front(s)) : Front(s)[i] = s[i]
  <1>1. Len(s) \in Nat /\ Len(s) >= 1 /\ \A i \in 1..Len(s) : s[i] \in Keysyms
    OBVIOUS
  <1>2. Len(s) - 1 \in 0..Len(s)
    BY <1>1
  <1>3. \A n \in 0..Len(s) : /\ SubSeq(s, 1, n) \in Seq(Keysyms)
                              /\ Len(SubSeq(s, 1, n)) = n
                              /\ \A i \in 1..n : SubSeq(s, 1, n)[i] = s[i]
    OBVIOUS
  <1> QED
    BY <1>2, <1>3 DEF Front

LEMMA KeptFront ==
  ASSUME NEW s \in Seq(Keysyms), s # <<>>, Kept(s), loaded \in Tables
  PROVE  Kept(Front(s)) /\ Front(s) \in Seq(Keysyms) /\ Len(Front(s)) = Len(s) - 1
  <1>1. Front(s) \in Seq(Keysyms) /\ Len(Front(s)) = Len(s) - 1
        /\ \A i \in 1..Len(Front(s)) : Front(s)[i] = s[i]
    BY FrontOfSequence
  <1>2. ASSUME NEW i \in DOMAIN tables, Continues(tables[i], s)
        PROVE  Continues(tables[i], Front(s))
    <2>1. PICK u \in DOMAIN tables[i] : IsPrefix(s, u)
      BY <1>2 DEF Continues
    <2>2. u \in Seq(Keysyms)
      BY TablesAreTables DEF IsTable
    <2>3. IsPrefix(Front(s), u)
      BY <2>1, <2>2 DEF IsPrefix, Front
    <2> QED
      BY <2>3 DEF Continues
  <1>3. CASE ToSet(s) \subseteq DeadKeys /\ Len(s) <= MAX_COMPOSE_ALGORITHM_LEN
    <2>1. ToSet(Front(s)) \subseteq ToSet(s)
      BY <1>1 DEF ToSet
    <2>2. Len(Front(s)) <= MAX_COMPOSE_ALGORITHM_LEN
      BY <1>1, <1>3, SimpleAssumption
    <2> QED
      BY <1>1, <1>3, <2>1, <2>2 DEF Kept
  <1> QED
    BY <1>1, <1>2, <1>3 DEF Kept

(* The result q of searching for the keys of p, before it is shown. *)
Searched(p, q) ==
  /\ Before(q) /\ Composing(q)
  /\ Becomes(p.compose_buffer, Partial(p), q)
  /\ q.in_hex = FALSE /\ q.reply = p.reply /\ q.client = p.client
  /\ q.compose_buffer \in {<<>>, p.compose_buffer} /\ Kept(q.compose_buffer)

(* The search is about to begin for the keys of p. *)
Searching(p) ==
  /\ Before(p) /\ p.in_hex = FALSE /\ p.committed = <<>>
  /\ Found(p.compose_buffer)

Found1(p) == [p EXCEPT !.in_compose = TRUE]

LEMMA SearchGoesOn ==
  ASSUME loaded \in Tables, NEW p, Searching(p), Kept(p.compose_buffer)
  PROVE  Searched(p, Found1(p))
  <1> DEFINE q == Found1(p)
  <1>1. /\ SameScreen(p, q) /\ q.inform = p.inform /\ q.compose_buffer = p.compose_buffer
        /\ q.tentative_match_len = p.tentative_match_len /\ q.in_hex = FALSE
        /\ q.tentative_match = p.tentative_match
        /\ q.in_compose = TRUE /\ q.reply = p.reply /\ q.committed = <<>>
        /\ q.modifiers_dropped = p.modifiers_dropped
    BY DEF Searching, Before, Record, Fields, Found1, SameScreen
  <1> HIDE DEF q
  <1>2. Record(q)
    BY <1>1, Zenon DEF Searching, Before, Record, SameScreen
  <1>3. Len(p.compose_buffer) < MAX_COMPOSE_LEN
    BY FoundLength DEF Searching, Before, Record
  <1>4. Matched(q) /\ Composing(q) /\ Announced(q)
    BY <1>1, <1>3 DEF Searching, Before, Matched, Composing, Announced, SameScreen
  <1>5. Becomes(p.compose_buffer, Partial(p), q)
    BY <1>1, KeptIsAlive DEF Searching, Becomes, Pending, Partial
  <1>6. q.client = p.client
    BY <1>1 DEF SameScreen
  <1> QED
    BY <1>1, <1>2, <1>4, <1>5, <1>6 DEF Searched, Before, q

LEMMA SearchFindsPart ==
  ASSUME loaded \in Tables, NEW p, Searching(p), Kept(p.compose_buffer),
         NEW text, text \in Composer!Texts(p.compose_buffer), text \notin {<<>>, NUL},
         Len(p.compose_buffer) > 0
  PROVE  Searched(p, [Found1(p) EXCEPT !.tentative_match = text,
                                       !.tentative_match_len = Len(p.compose_buffer)])
  <1> DEFINE q == [Found1(p) EXCEPT !.tentative_match = text,
                                    !.tentative_match_len = Len(p.compose_buffer)]
  <1>1. /\ SameScreen(p, q) /\ q.inform = p.inform /\ q.compose_buffer = p.compose_buffer
        /\ q.tentative_match_len = Len(p.compose_buffer) /\ q.in_hex = FALSE
        /\ q.tentative_match = text
        /\ q.in_compose = TRUE /\ q.reply = p.reply /\ q.committed = <<>>
        /\ q.modifiers_dropped = p.modifiers_dropped
    BY DEF Searching, Before, Record, Fields, Found1, SameScreen
  <1> HIDE DEF q
  <1>2. Len(p.compose_buffer) < MAX_COMPOSE_LEN
    BY FoundLength DEF Searching, Before, Record
  <1>3. q.tentative_match_len \in 0..MAX_COMPOSE_LEN
    BY <1>1, <1>2, SimpleAssumption DEF Searching, Before, Record
  <1>4. Record(q)
    BY <1>1, <1>3, Zenon DEF Searching, Before, Record, SameScreen
  <1>5. Matched(q) /\ Composing(q) /\ Announced(q)
    BY <1>1, <1>2 DEF Searching, Before, Record, Matched, Composing, Announced, SameScreen
  <1>6. Becomes(p.compose_buffer, Partial(p), q)
    BY <1>1, KeptIsAlive DEF Searching, Becomes, Pending, Partial
  <1>7. q.client = p.client
    BY <1>1 DEF SameScreen
  <1> QED
    BY <1>1, <1>4, <1>5, <1>6, <1>7 DEF Searched, Before, q

LEMMA ShorterFits ==
  ASSUME NEW c \in Seq(Keysyms), Len(c) <= MAX_COMPOSE_LEN, NEW b \in {<<>>, c}
  PROVE  MAX_COMPOSE_LEN \in Nat /\ b \in Seq(Keysyms) /\ Len(b) <= MAX_COMPOSE_LEN
  <1>1. CASE b = c
    BY <1>1, BufferLength
  <1>2. CASE b = <<>>
    <2>1. b \in Seq(Keysyms) /\ Len(b) = 0
      BY <1>2
    <2> QED
      BY <2>1, BufferLength
  <1> QED
    BY <1>1, <1>2

(* A text that is entered, whether the keys were taken from the buffer     *)
(* before or are taken after it.                                           *)
LEMMA SearchEnters ==
  ASSUME NEW p, Searching(p),
         NEW r, r \in {Found1(p), [Found1(p) EXCEPT !.compose_buffer = <<>>]},
         NEW text, text \in Composer!Texts(p.compose_buffer), text \notin {<<>>, NUL}
  PROVE  /\ Record(r)
         /\ \A q : Entered(r, text, q) => Searched(p, q)
  <1>1. /\ SameScreen(p, r) /\ r.inform = p.inform
        /\ r.compose_buffer \in {<<>>, p.compose_buffer}
        /\ r.tentative_match_len = p.tentative_match_len /\ r.in_hex = FALSE
        /\ r.in_compose = TRUE /\ r.reply = p.reply
        /\ r.modifiers_dropped = p.modifiers_dropped
    BY DEF Searching, Before, Record, Fields, Found1, SameScreen
  <1>2. MAX_COMPOSE_LEN \in Nat /\ r.compose_buffer \in Seq(Keysyms)
        /\ Len(r.compose_buffer) <= MAX_COMPOSE_LEN
    <2>1. p.compose_buffer \in Seq(Keysyms) /\ Len(p.compose_buffer) <= MAX_COMPOSE_LEN
      BY DEF Searching, Before, Record
    <2> QED
      BY <1>1, <2>1, ShorterFits
  <1>3. Record(r)
    BY <1>1, <1>2, Zenon DEF Searching, Before, Record, SameScreen
  <1>4. Announced(r)
    BY <1>1 DEF Searching, Before, Announced, SameScreen
  <1>5. ASSUME NEW q, Entered(r, text, q)
        PROVE  Searched(p, q)
    <2>1. Before(q) /\ Composing(q)
      BY <1>3, <1>4, <1>5, EnteredIsComposing
    <2>2. Becomes(p.compose_buffer, Partial(p), q)
      BY <1>5 DEF Entered, Becomes, Pending, Partial
    <2> QED
      BY <1>1, <1>5, <2>1, <2>2, NothingIsKept DEF Entered, SameScreen, Searched
  <1> QED
    BY <1>3, <1>5

LEMMA EntersAndClears ==
  ASSUME NEW r, NEW text, NEW q, Entered(r, text, q)
  PROVE  Entered(r, text, [q EXCEPT !.compose_buffer = <<>>])
  BY DEF Entered, SameScreen, Fields

(* The part of CheckAll that is done before the preedit is updated. *)
SearchFor(p) ==
  LET s    == p.compose_buffer
      hits == {i \in DOMAIN tables : Continues(tables[i], s)}
      t    == tables[CHOOSE i \in hits : \A j \in hits : i <= j]
      q    == Found1(p)
  IN  IF hits = {}
      THEN IF s \in DOMAIN Compositions
           THEN [Commit(q, Compositions[s]) EXCEPT !.compose_buffer = <<>>]
           ELSE q
      ELSE IF Finished(t, s)
      THEN Commit([q EXCEPT !.compose_buffer = <<>>], t[s])
      ELSE IF s \in DOMAIN t
      THEN [q EXCEPT !.tentative_match = t[s], !.tentative_match_len = Len(s)]
      ELSE q

LEMMA CheckAllSearches ==
  ASSUME NEW p
  PROVE  CheckAll(p) = UpdatePreedit(SearchFor(p))
  BY Zenon DEF CheckAll, SearchFor, Found1

(* The text of a table is one of the texts of the composer. *)
LEMMA TextOfTable ==
  ASSUME loaded \in Tables, NEW i \in DOMAIN tables, NEW s, s \in DOMAIN tables[i]
  PROVE  /\ tables[i][s] \in Composer!Texts(s)
         /\ tables[i][s] \notin {<<>>, NUL} /\ Len(s) > 0
  <1>1. IsTable(tables[i]) /\ tables[i] \in ToSet(tables)
    BY TablesAreTables
  <1>2. tables[i][s] \in Composer!Texts(s)
    BY <1>1 DEF Composer!Texts, Composer!ToSet, ToSet
  <1> QED
    BY <1>1, <1>2 DEF IsTable

LEMMA TextOfComposition ==
  ASSUME NEW s, s \in DOMAIN Compositions
  PROVE  /\ Compositions[s] \in Composer!Texts(s)
         /\ Compositions[s] \notin {<<>>, NUL}
  <1>1. IsTable(Compositions)
    BY SimpleAssumption
  <1> QED
    BY <1>1 DEF IsTable, Composer!Texts

LEMMA SearchForSearches ==
  ASSUME loaded \in Tables, NEW p, Searching(p)
  PROVE  Searched(p, SearchFor(p))
  <1> DEFINE s == p.compose_buffer
             hits == {i \in DOMAIN tables : Continues(tables[i], s)}
             h == CHOOSE i \in hits : \A j \in hits : i <= j
             c == [Found1(p) EXCEPT !.compose_buffer = <<>>]
  <1>1. CASE hits = {} /\ s \in DOMAIN Compositions
    <2> DEFINE q == Commit(Found1(p), Compositions[s])
    <2>1. SearchFor(p) = [q EXCEPT !.compose_buffer = <<>>]
      BY <1>1, Zenon DEF SearchFor
    <2>2. Compositions[s] \in Composer!Texts(s) /\ Compositions[s] \notin {<<>>, NUL}
      BY <1>1, TextOfComposition
    <2>3. /\ Record(Found1(p))
          /\ \A x : Entered(Found1(p), Compositions[s], x) => Searched(p, x)
      BY <2>2, SearchEnters
    <2>4. Entered(Found1(p), Compositions[s], q)
      BY <2>2, <2>3, CommitEnters
    <2> HIDE DEF q
    <2>5. Entered(Found1(p), Compositions[s], [q EXCEPT !.compose_buffer = <<>>])
      BY <2>4, EntersAndClears
    <2> QED
      BY <2>1, <2>3, <2>5
  <1>2. CASE hits = {} /\ s \notin DOMAIN Compositions
    <2>1. SearchFor(p) = Found1(p)
      BY <1>2, Zenon DEF SearchFor
    <2>2. Kept(s)
      BY <1>2 DEF Searching, Found, Kept
    <2> QED
      BY <2>1, <2>2, SearchGoesOn
  <1>3. CASE hits # {}
    <2>1. h \in DOMAIN tables /\ Continues(tables[h], s)
      <3>1. hits \in SUBSET Nat
        BY TablesAreTables
      <3>2. \E i \in hits : \A j \in hits : i <= j
        <4> HIDE DEF hits
        <4> QED
          BY <1>3, <3>1, Smallest
      <3>3. h \in hits
        <4> HIDE DEF hits
        <4> QED
          BY <3>2, Zenon
      <3> QED
        BY <3>3
    <2>2. SearchFor(p) =
            IF Finished(tables[h], s) THEN Commit(c, tables[h][s])
            ELSE IF s \in DOMAIN tables[h]
            THEN [Found1(p) EXCEPT !.tentative_match = tables[h][s],
                                   !.tentative_match_len = Len(s)]
            ELSE Found1(p)
      BY <1>3, Zenon DEF SearchFor
    <2> HIDE DEF h
    <2>3. Kept(s)
      BY <2>1 DEF Kept
    <2>4. CASE Finished(tables[h], s)
      <3> DEFINE text == tables[h][s]
      <3>1. text \in Composer!Texts(s) /\ text \notin {<<>>, NUL}
        BY <2>1, <2>4, TextOfTable DEF Finished
      <3>2. SearchFor(p) = Commit(c, text)
        BY <2>2, <2>4
      <3> HIDE DEF text
      <3>3. /\ Record(c)
            /\ \A x : Entered(c, text, x) => Searched(p, x)
        BY <3>1, SearchEnters
      <3>4. Entered(c, text, Commit(c, text))
        BY <3>1, <3>3, CommitEnters
      <3> QED
        BY <3>2, <3>3, <3>4
    <2>5. CASE ~Finished(tables[h], s) /\ s \in DOMAIN tables[h]
      <3> DEFINE text == tables[h][s]
      <3>1. text \in Composer!Texts(s) /\ text \notin {<<>>, NUL} /\ Len(s) > 0
        BY <2>1, <2>5, TextOfTable
      <3>2. SearchFor(p) = [Found1(p) EXCEPT !.tentative_match = text,
                                             !.tentative_match_len = Len(s)]
        BY <2>2, <2>5
      <3> HIDE DEF text
      <3> QED
        BY <2>3, <3>1, <3>2, SearchFindsPart
    <2>6. CASE ~Finished(tables[h], s) /\ s \notin DOMAIN tables[h]
      BY <2>2, <2>3, <2>6, SearchGoesOn
    <2> QED
      BY <2>4, <2>5, <2>6
  <1> QED
    BY <1>1, <1>2, <1>3

(* The keys of q are shown, whatever they became. *)
Handled(p, q) == Ready(q) /\ q.client = p.client

LEMMA CheckAllHandles ==
  ASSUME loaded \in Tables, NEW p, Searching(p)
  PROVE  LET q == CheckAll(p) IN
         /\ Handled(p, q) /\ q.reply = p.reply /\ q.in_hex = FALSE
         /\ q.compose_buffer \in {<<>>, p.compose_buffer} /\ Kept(q.compose_buffer)
         /\ Becomes(p.compose_buffer, Partial(p), q)
  <1> DEFINE r == SearchFor(p)
             q == UpdatePreedit(r)
  <1>1. Searched(p, r)
    BY SearchForSearches
  <1> HIDE DEF r
  <1>2. Ready(q)
    BY <1>1, UpdateIsReady DEF Searched
  <1>3. SameKeys(r, q)
    BY <1>1, UpdateSameKeys DEF Searched, Before, Record
  <1>4. CheckAll(p) = q
    BY CheckAllSearches DEF r
  <1> HIDE DEF q
  <1>5. /\ q.reply = p.reply /\ q.in_hex = FALSE /\ q.client = p.client
        /\ q.compose_buffer \in {<<>>, p.compose_buffer} /\ Kept(q.compose_buffer)
    BY <1>1, <1>3 DEF Searched, SameKeys
  <1>6. Becomes(p.compose_buffer, Partial(p), q)
    BY <1>1, <1>3 DEF Searched, SameKeys, Becomes, Pending, Partial
  <1> QED
    BY <1>2, <1>4, <1>5, <1>6 DEF Handled

LEMMA UpdateHandles ==
  ASSUME NEW p, NEW r, Before(r), Composing(r), r.client = p.client
  PROVE  Handled(p, UpdatePreedit(r)) /\ SameKeys(r, UpdatePreedit(r))
  <1> DEFINE q == UpdatePreedit(r)
  <1>1. Ready(q) /\ SameKeys(r, q)
    BY UpdateIsReady, UpdateSameKeys DEF Before, Record
  <1> HIDE DEF q
  <1>2. Handled(p, q) /\ SameKeys(r, q)
    BY <1>1 DEF Handled, SameKeys
  <1> QED
    BY <1>2 DEF q

(* What became of the last key is not part of what is shown. *)
LEMMA ReplyKeepsReady ==
  ASSUME NEW p, Ready(p), NEW c, NEW a
  PROVE  /\ Ready([p EXCEPT !.committed = c, !.reply = a])
         /\ Ready([p EXCEPT !.reply = a])
  <1> DEFINE Same(q) == /\ SameScreen(p, q) /\ q.inform = p.inform
                        /\ q.compose_buffer = p.compose_buffer
                        /\ q.tentative_match_len = p.tentative_match_len
                        /\ q.in_hex = p.in_hex /\ q.tentative_match = p.tentative_match
                        /\ q.in_compose = p.in_compose
                        /\ q.modifiers_dropped = p.modifiers_dropped
  <1>1. ASSUME NEW q, Same(q)
        PROVE  Ready(q)
    <2>1. Record(q)
      BY <1>1, Zenon DEF Ready, Before, Record, SameScreen
    <2>2. Matched(q) /\ Composing(q) /\ Announced(q)
      BY <1>1 DEF Ready, Before, Matched, Composing, Announced, SameScreen
    <2>3. Preedit(q) = Preedit(p) /\ TypingIn(q) = TypingIn(p)
      BY <1>1 DEF Preedit, TypingIn
    <2>4. Follows(q)
      BY <1>1, <2>3 DEF Ready, Follows, SameScreen, TypingIn
    <2> QED
      BY <2>1, <2>2, <2>4 DEF Ready, Before
  <1>2. Same([p EXCEPT !.committed = c, !.reply = a]) /\ Same([p EXCEPT !.reply = a])
    BY DEF Ready, Before, Record, Fields, SameScreen
  <1> QED
    BY <1>1, <1>2, Zenon

LEMMA SendMessageFields ==
  ASSUME NEW p, DOMAIN p = Fields
  PROVE  /\ SameScreen(p, SendMessage(p))
         /\ SendMessage(p).compose_buffer = p.compose_buffer
         /\ SendMessage(p).tentative_match_len = p.tentative_match_len
         /\ SendMessage(p).in_hex = p.in_hex
         /\ SendMessage(p).tentative_match = p.tentative_match
         /\ SendMessage(p).in_compose = p.in_compose
         /\ SendMessage(p).modifiers_dropped = p.modifiers_dropped
         /\ SendMessage(p).committed = p.committed
         /\ SendMessage(p).reply = "cancelled"
         /\ SendMessage(p).inform = TRUE
  BY DEF Fields, SameScreen, SendMessage

LEMMA SendMessageKeeps ==
  ASSUME NEW p, Record(p)
  PROVE  /\ Record(SendMessage(p))
         /\ Matched(p) => Matched(SendMessage(p))
         /\ Announced(p) => Announced(SendMessage(p))
         /\ Composing(p) => Composing(SendMessage(p))
         /\ Follows(p) => Follows(SendMessage(p))
  <1> DEFINE q == SendMessage(p)
  <1>0. DOMAIN p = Fields
    BY DEF Record
  <1>1. /\ SameScreen(p, q) /\ q.inform = TRUE
        /\ q.compose_buffer = p.compose_buffer
        /\ q.tentative_match_len = p.tentative_match_len
        /\ q.in_hex = p.in_hex /\ q.tentative_match = p.tentative_match
        /\ q.in_compose = p.in_compose /\ q.modifiers_dropped = p.modifiers_dropped
    BY <1>0, SendMessageFields
  <1> HIDE DEF q
  <1>2. Record(q)
    BY <1>1, Zenon DEF Record, SameScreen
  <1>3. /\ Matched(p) => Matched(q)
        /\ Announced(p) => Announced(q)
        /\ Composing(p) => Composing(q)
    BY <1>1 DEF Record, Matched, Composing, Announced, SameScreen
  <1>4. Preedit(q) = Preedit(p) /\ TypingIn(q) = TypingIn(p)
    BY <1>1 DEF Preedit, TypingIn
  <1>5. Follows(p) => Follows(q)
    BY <1>1, <1>4 DEF Follows, SameScreen, TypingIn
  <1> QED
    BY <1>2, <1>3, <1>5 DEF q

LEMMA PutFields ==
  ASSUME NEW p, Record(p), NEW k \in Keysyms
  PROVE  LET q == Put(p, k) IN
         /\ SameScreen(p, q) /\ q.inform = p.inform
         /\ q.compose_buffer \in {p.compose_buffer, Append(p.compose_buffer, k)}
         /\ Len(p.compose_buffer) < MAX_COMPOSE_LEN =>
              q.compose_buffer = Append(p.compose_buffer, k)
         /\ Len(q.compose_buffer) <= MAX_COMPOSE_LEN
         /\ q.tentative_match_len = p.tentative_match_len
         /\ q.in_hex = p.in_hex /\ q.tentative_match = p.tentative_match
         /\ q.in_compose = p.in_compose /\ q.modifiers_dropped = p.modifiers_dropped
         /\ q.committed = p.committed /\ q.reply = p.reply
  <1>1. CASE Len(p.compose_buffer) < MAX_COMPOSE_LEN
    BY <1>1, BufferLength DEF Record, Fields, Put, SameScreen
  <1>2. CASE ~(Len(p.compose_buffer) < MAX_COMPOSE_LEN)
    BY <1>2 DEF Record, Put, SameScreen
  <1> QED
    BY <1>1, <1>2

LEMMA PutKeeps ==
  ASSUME NEW p, Record(p), NEW k \in Keysyms
  PROVE  /\ Record(Put(p, k))
         /\ Matched(p) => Matched(Put(p, k))
         /\ Announced(p) => Announced(Put(p, k))
  <1> DEFINE q == Put(p, k)
  <1>1. /\ SameScreen(p, q) /\ q.inform = p.inform
        /\ q.compose_buffer \in {p.compose_buffer, Append(p.compose_buffer, k)}
        /\ Len(q.compose_buffer) <= MAX_COMPOSE_LEN
        /\ q.tentative_match_len = p.tentative_match_len
        /\ q.in_hex = p.in_hex /\ q.tentative_match = p.tentative_match
        /\ q.in_compose = p.in_compose /\ q.modifiers_dropped = p.modifiers_dropped
    BY PutFields, Zenon
  <1> HIDE DEF q
  <1>2. q.compose_buffer \in Seq(Keysyms) /\ Len(q.compose_buffer) >= Len(p.compose_buffer)
    <2> DEFINE s == p.compose_buffer
               t == q.compose_buffer
    <2>1. s \in Seq(Keysyms) /\ t \in {s, Append(s, k)}
      BY <1>1 DEF Record
    <2> HIDE DEF s, t
    <2>2. t \in Seq(Keysyms) /\ Len(t) >= Len(s)
      BY <2>1
    <2> QED
      BY <2>2 DEF s, t
  <1>3. Record(q)
    BY <1>1, <1>2, Zenon DEF Record, SameScreen
  <1>4. /\ Matched(p) => Matched(q)
        /\ Announced(p) => Announced(q)
    BY <1>1, <1>2 DEF Record, Matched, Announced, SameScreen
  <1> QED
    BY <1>3, <1>4 DEF q

-----------------------------------------------------------------------------
(* no_sequence_matches *)

(* The sequence of p with n keys is settled, abandoned or its key is       *)
(* forwarded; in a number there was none.                                  *)
Settled(p, n, q) ==
  /\ Pending(q) = <<>> /\ Partial(q) = <<>>
  /\ ~p.in_hex =>
       \/ p.tentative_match_len > 0 /\ q.committed = p.tentative_match
       \/ /\ n = 2 /\ p.compose_buffer[1] \in DeadKeys
          /\ q.committed = SubSeq(p.compose_buffer, 1, 2)
       \/ n > 1 /\ q.committed = p.committed /\ q.reply = "cancelled"
       \/ n <= 1 /\ q.committed = p.committed /\ q.reply = "forwarded"

Left(p) == [p EXCEPT !.in_compose = FALSE]

Emptied(p) == [Left(p) EXCEPT !.compose_buffer = <<>>]

LEMMA LeftKeeps ==
  ASSUME NEW p, Before(p)
  PROVE  /\ Before(Left(p)) /\ Left(p).in_hex = p.in_hex /\ Left(p).client = p.client
         /\ Left(p).compose_buffer = p.compose_buffer
         /\ Left(p).tentative_match_len = p.tentative_match_len
         /\ Left(p).tentative_match = p.tentative_match
  <1> DEFINE q == Left(p)
  <1>1. /\ SameScreen(p, q) /\ q.inform = p.inform
        /\ q.compose_buffer = p.compose_buffer
        /\ q.tentative_match_len = p.tentative_match_len
        /\ q.in_hex = p.in_hex /\ q.tentative_match = p.tentative_match
        /\ q.in_compose = FALSE /\ q.modifiers_dropped = p.modifiers_dropped
    BY DEF Before, Record, Fields, Left, SameScreen
  <1> HIDE DEF q
  <1>2. Record(q)
    BY <1>1, Zenon DEF Before, Record, SameScreen
  <1>3. Matched(q) /\ Announced(q)
    BY <1>1 DEF Before, Matched, Announced, SameScreen
  <1> QED
    BY <1>1, <1>2, <1>3 DEF Before, SameScreen, q

LEMMA EmptiedKeeps ==
  ASSUME NEW p, Before(p), p.tentative_match_len = 0
  PROVE  /\ Before(Emptied(p)) /\ Composing(Emptied(p))
         /\ Emptied(p).in_hex = p.in_hex /\ Emptied(p).client = p.client
         /\ Emptied(p).compose_buffer = <<>>
         /\ Emptied(p).tentative_match_len = 0
         /\ Emptied(p).committed = p.committed
  <1> DEFINE q == Emptied(p)
  <1>1. /\ SameScreen(p, q) /\ q.inform = p.inform
        /\ q.compose_buffer = <<>>
        /\ q.tentative_match_len = p.tentative_match_len
        /\ q.in_hex = p.in_hex /\ q.tentative_match = p.tentative_match
        /\ q.in_compose = FALSE /\ q.modifiers_dropped = p.modifiers_dropped
        /\ q.committed = p.committed
    BY DEF Before, Record, Fields, Left, Emptied, SameScreen
  <1> HIDE DEF q
  <1>2. /\ q.compose_buffer \in Seq(Keysyms) /\ Len(q.compose_buffer) = 0
        /\ Len(q.compose_buffer) <= MAX_COMPOSE_LEN
    BY <1>1, BufferLength
  <1>3. Record(q)
    BY <1>1, <1>2, Zenon DEF Before, Record, SameScreen
  <1>4. Matched(q) /\ Announced(q) /\ Composing(q)
    BY <1>1, <1>2, BufferLength DEF Before, Matched, Announced, Composing, SameScreen
  <1> QED
    BY <1>1, <1>3, <1>4 DEF Before, SameScreen, q

(* A text is entered of a sequence, or refused in a number. *)
LEMMA CommitHandles ==
  ASSUME NEW p, NEW r, Before(r), r.client = p.client, NEW text,
         text \in {<<>>, NUL} => r.in_hex
  PROVE  LET q == UpdatePreedit(Commit(r, text)) IN
         /\ Handled(p, q) /\ Pending(q) = <<>> /\ Partial(q) = <<>>
         /\ text \notin {<<>>, NUL} => q.committed = text
  <1> DEFINE c == Commit(r, text)
             q == UpdatePreedit(c)
  <1>1. CASE text \in {<<>>, NUL}
    <2>1. c = r
      BY <1>1, CommitRefuses
    <2>2. Before(c) /\ Composing(c) /\ c.client = p.client /\ c.in_hex
      BY <1>1, <2>1 DEF Composing
    <2> HIDE DEF c
    <2>3. Handled(p, q) /\ SameKeys(c, q)
      BY <2>2, UpdateHandles
    <2> QED
      BY <1>1, <2>2, <2>3 DEF SameKeys, Pending, Partial, c
  <1>2. CASE text \notin {<<>>, NUL}
    <2>1. Entered(r, text, c)
      BY <1>2, CommitEnters DEF Before
    <2> HIDE DEF c
    <2>2. Before(c) /\ Composing(c)
      BY <2>1, EnteredIsComposing DEF Before
    <2>3. c.client = p.client
      BY <2>1 DEF Entered, SameScreen
    <2>4. Handled(p, q) /\ SameKeys(c, q)
      BY <2>2, <2>3, UpdateHandles
    <2> QED
      BY <1>2, <2>1, <2>4 DEF Entered, SameKeys, Pending, Partial, c
  <1> QED
    BY <1>1, <1>2

LEMMA NoSequenceHandles ==
  ASSUME NEW p, Before(p), NEW n \in Nat, n <= Len(p.compose_buffer), NEW k, NEW mods, NEW rest,
         NoSequenceMatches(p, n, k, mods, rest)
  PROVE  Handled(p, simple') /\ Settled(p, n, simple')
  <1> DEFINE m == p.tentative_match_len
             text == SubSeq(p.compose_buffer, 1, 2)
  <1>0. Record(p) /\ m \in Nat
    BY DEF Before, Record
  <1>1. CASE m > 0
    <2>1. simple' = UpdatePreedit(Commit(Left(p), p.tentative_match))
      BY <1>1 DEF NoSequenceMatches, Left
    <2>2. p.tentative_match \in {<<>>, NUL} => Left(p).in_hex
      BY <1>1, LeftKeeps DEF Before, Matched
    <2>3. /\ Handled(p, simple') /\ Pending(simple') = <<>> /\ Partial(simple') = <<>>
          /\ p.tentative_match \notin {<<>>, NUL} => simple'.committed = p.tentative_match
      BY <2>1, <2>2, LeftKeeps, CommitHandles
    <2> QED
      BY <1>1, <2>2, <2>3, LeftKeeps DEF Settled
  <1>2. CASE m = 0 /\ n = 2 /\ p.compose_buffer[1] \in DeadKeys
    <2>0. ~(m > 0)
      BY <1>2
    <2>1. simple' = UpdatePreedit(Commit(Left(p), text))
      BY <1>2, <2>0, Zenon DEF NoSequenceMatches, Left
    <2>2. text \notin {<<>>, NUL}
      <3> DEFINE s == p.compose_buffer
      <3>1. s \in Seq(Keysyms) /\ Len(s) >= 2
        BY <1>2 DEF Before, Record
      <3> HIDE DEF s
      <3>2. Len(SubSeq(s, 1, 2)) = 2
        BY <3>1
      <3> QED
        <4> DEFINE t == SubSeq(s, 1, 2)
        <4> HIDE DEF t
        <4>1. Len(t) = 2
          BY <3>2 DEF t
        <4>2. t \notin {<<>>, NUL}
          BY <4>1 DEF NUL
        <4> QED
          BY <4>2 DEF s, t
    <2>3. /\ Handled(p, simple') /\ Pending(simple') = <<>> /\ Partial(simple') = <<>>
          /\ simple'.committed = text
      BY <2>1, <2>2, LeftKeeps, CommitHandles
    <2> QED
      BY <1>2, <2>3 DEF Settled
  <1>3. CASE m = 0 /\ ~(n = 2 /\ p.compose_buffer[1] \in DeadKeys) /\ n > 1
    <2> DEFINE c == SendMessage(Emptied(p))
    <2>0. ~(m > 0)
      BY <1>3
    <2>1. simple' = UpdatePreedit(c)
      BY <1>3, <2>0, Zenon DEF NoSequenceMatches, Left, Emptied
    <2>2. /\ Before(c) /\ Composing(c)
          /\ c.client = p.client /\ c.in_hex = p.in_hex /\ c.compose_buffer = <<>>
          /\ c.tentative_match_len = 0 /\ c.committed = p.committed /\ c.reply = "cancelled"
      <3> DEFINE e == Emptied(p)
      <3>1. /\ Before(e) /\ Composing(e) /\ e.in_hex = p.in_hex /\ e.client = p.client
            /\ e.compose_buffer = <<>> /\ e.tentative_match_len = 0
            /\ e.committed = p.committed
        BY <1>3, EmptiedKeeps
      <3> HIDE DEF e
      <3>2. Before(SendMessage(e)) /\ Composing(SendMessage(e))
        BY <3>1, SendMessageKeeps DEF Before
      <3>3. /\ SendMessage(e).client = p.client /\ SendMessage(e).in_hex = p.in_hex
            /\ SendMessage(e).compose_buffer = <<>>
            /\ SendMessage(e).tentative_match_len = 0
            /\ SendMessage(e).committed = p.committed /\ SendMessage(e).reply = "cancelled"
        BY <3>1, SendMessageFields DEF Before, Record, SameScreen
      <3> QED
        BY <3>2, <3>3 DEF e
    <2> HIDE DEF c
    <2>3. Handled(p, simple') /\ SameKeys(c, simple')
      BY <2>1, <2>2, UpdateHandles
    <2> QED
      BY <1>3, <2>2, <2>3 DEF Settled, SameKeys, Pending, Partial
  <1>4. CASE m = 0 /\ n <= 1
    <2> DEFINE c == Emptied(p)
               d == UpdatePreedit(c)
    <2>0. ~(m > 0) /\ n # 2 /\ ~(n > 1)
      BY <1>4
    <2>1. simple' = IF p.in_hex THEN d ELSE [d EXCEPT !.reply = "forwarded"]
      BY <1>4, <2>0, Zenon DEF NoSequenceMatches, Left, Emptied
    <2>2. /\ Before(c) /\ Composing(c)
          /\ c.client = p.client /\ c.in_hex = p.in_hex /\ c.compose_buffer = <<>>
          /\ c.tentative_match_len = 0 /\ c.committed = p.committed
      BY <1>4, EmptiedKeeps
    <2> HIDE DEF c
    <2>3. Handled(p, d) /\ SameKeys(c, d)
      BY <2>2, UpdateHandles
    <2> HIDE DEF d
    <2>4. CASE p.in_hex
      BY <1>4, <2>1, <2>2, <2>3, <2>4 DEF Settled, SameKeys, Pending, Partial
    <2>5. CASE ~p.in_hex
      <3>1. /\ simple'.client = d.client /\ simple'.committed = d.committed
            /\ simple'.reply = "forwarded" /\ simple'.in_hex = d.in_hex
            /\ simple'.compose_buffer = d.compose_buffer
            /\ simple'.tentative_match_len = d.tentative_match_len
        BY <2>1, <2>3, <2>5 DEF SameKeys, Fields
      <3>2. Ready(simple')
        BY <2>1, <2>3, <2>5, ReplyKeepsReady DEF Handled
      <3>3. Handled(p, simple')
        BY <2>3, <3>1, <3>2 DEF Handled
      <3> QED
        BY <1>4, <2>2, <2>3, <3>1, <3>3 DEF Settled, SameKeys, Pending, Partial
    <2> QED
      BY <2>4, <2>5
  <1> QED
    BY <1>0, <1>1, <1>2, <1>3, <1>4

LEMMA EmptyRange ==
  ASSUME NEW x \in Int, NEW S, NEW f, DOMAIN f = 1..x, \A i \in 1..x : f[i] \in S,
         f = [i \in 1..x |-> f[i]]
  PROVE  f \in Seq(S)
  <1>1. CASE x >= 0
    BY <1>1
  <1>2. CASE x < 0
    <2>1. 1..x = 1..0
      BY <1>2
    <2>2. f \in [1..0 -> S]
      BY <2>1
    <2> QED
      BY <2>2
  <1> QED
    BY <1>1, <1>2

LEMMA NoSequenceCalls ==
  ASSUME NEW p, Before(p), NEW n \in Nat, n <= Len(p.compose_buffer),
         NEW k \in Keysyms, NEW mods \in SUBSET Modifiers, NEW rest \in Seq(Calls),
         NoSequenceMatches(p, n, k, mods, rest)
  PROVE  nested' \in Seq(Calls)
  <1> DEFINE m == p.tentative_match_len
             s == p.compose_buffer
             again == [i \in 1..(n - m - 1) |-> Call(s[m + i], {})]
  <1>1. m \in Nat /\ s \in Seq(Keysyms)
    BY BufferLength DEF Before, Record
  <1>2. CASE m > 0
    <2>1. nested' = again \o <<Call(k, mods)>> \o rest
      BY <1>2 DEF NoSequenceMatches
    <2> HIDE DEF m, s
    <2>2. \A i \in 1..(n - m - 1) : s[m + i] \in Keysyms
      BY <1>1 DEF s
    <2>3. again \in Seq(Calls)
      <3>1. \A i \in 1..(n - m - 1) : again[i] \in Calls
        BY <2>2 DEF Call, Calls
      <3> QED
        BY <1>1, <3>1, EmptyRange
    <2>4. <<Call(k, mods)>> \in Seq(Calls)
      BY DEF Call, Calls
    <2> HIDE DEF again
    <2> QED
      BY <2>1, <2>3, <2>4
  <1>3. CASE ~(m > 0)
    BY <1>3 DEF NoSequenceMatches
  <1> QED
    BY <1>2, <1>3

-----------------------------------------------------------------------------
(* The ways through the handler of key events.  Each leaves the record     *)
(* ready for the next one, and is a step of the composer.                  *)

Started(p) == Ready(p) /\ p.committed = <<>> /\ p.reply = "taken"

(* Until the user's table is loaded the system's have what is in the buffer. *)
Listed(p) == loaded = "no" /\ ~p.in_hex => Kept(p.compose_buffer)

TypeStep(p, k, q) == Becomes(Append(Pending(p), k), Partial(p), q) /\ q.reply = "taken"

RefuseStep(p, q) ==
  Pending(p) # <<>> /\ Becomes(Pending(p), Partial(p), q) /\ q.reply = "cancelled"

EraseStep(p, q) ==
  /\ Pending(p) # <<>> /\ q.reply = "taken"
  /\ \/ Becomes(Front(Pending(p)), <<>>, q)
     \/ Pending(q) = Front(Pending(p)) /\ Partial(q) = <<>> /\ q.committed = <<>>

SettleStep(p, q) ==
  /\ Pending(p) # <<>> /\ Pending(q) = <<>> /\ Partial(q) = <<>>
  /\ \/ Partial(p) # <<>> /\ q.committed = Partial(p)
     \/ /\ Len(Pending(p)) > 1 /\ Head(Pending(p)) \in DeadKeys
        /\ q.committed = SubSeq(Pending(p), 1, 2)

AbandonStep(q) ==
  Pending(q) = <<>> /\ Partial(q) = <<>> /\ q.committed = <<>> /\ q.reply # "taken"

ForwardStep(p, q) ==
  /\ q.committed = <<>> /\ q.reply = "forwarded"
  /\ Pending(q) = Pending(p) /\ Partial(q) = Partial(p)

NumberStep(p, q) == Pending(p) = <<>> /\ Pending(q) = <<>> /\ Partial(q) = Partial(p)

Step(p, q) ==
  \/ \E k \in Keysyms : TypeStep(p, k, q)
  \/ RefuseStep(p, q) \/ EraseStep(p, q) \/ SettleStep(p, q)
  \/ AbandonStep(q) \/ ForwardStep(p, q) \/ NumberStep(p, q)

Result(p, q) == Handled(p, q) /\ Step(p, q) /\ (Listed(p) => Listed(q))

LEMMA StartedReply ==
  ASSUME NEW p, Started(p), NEW a
  PROVE  LET q == [p EXCEPT !.reply = a] IN
         /\ Ready(q) /\ q.reply = a /\ q.committed = <<>> /\ q.client = p.client
         /\ q.in_hex = p.in_hex /\ q.compose_buffer = p.compose_buffer
         /\ Pending(q) = Pending(p) /\ Partial(q) = Partial(p)
  <1> DEFINE q == [p EXCEPT !.reply = a]
  <1>1. Ready(q)
    BY ReplyKeepsReady DEF Started
  <1>2. /\ q.reply = a /\ q.committed = <<>> /\ q.client = p.client
        /\ q.in_hex = p.in_hex /\ q.compose_buffer = p.compose_buffer
        /\ Pending(q) = Pending(p) /\ Partial(q) = Partial(p)
    BY DEF Started, Ready, Before, Record, Fields, Pending, Partial
  <1> QED
    BY <1>1, <1>2

LEMMA ForwardedResult ==
  ASSUME NEW p, Started(p)
  PROVE  Result(p, [p EXCEPT !.reply = "forwarded"])
  <1> DEFINE q == [p EXCEPT !.reply = "forwarded"]
  <1>1. /\ Ready(q) /\ q.reply = "forwarded" /\ q.committed = <<>>
        /\ q.client = p.client /\ q.in_hex = p.in_hex
        /\ q.compose_buffer = p.compose_buffer
        /\ Pending(q) = Pending(p) /\ Partial(q) = Partial(p)
    BY StartedReply
  <1> HIDE DEF q
  <1>2. Result(p, q)
    BY <1>1 DEF Result, Handled, Listed, Step, ForwardStep
  <1> QED
    BY <1>2 DEF q

LEMMA ForwardAcceleratorResult ==
  ASSUME NEW p, Started(p), NEW k, NEW mods, NEW rest, ForwardAccelerator(p, k, mods, rest)
  PROVE  Result(p, simple')
  BY ForwardedResult DEF ForwardAccelerator

(* In a number nothing is being composed, before or after. *)
LEMMA NumberResult ==
  ASSUME NEW p, NEW r, Pending(p) = <<>>, Partial(p) = <<>>, Before(r), Composing(r),
         r.client = p.client, Pending(r) = <<>>, Partial(r) = <<>>
  PROVE  Result(p, UpdatePreedit(r))
  <1> DEFINE q == UpdatePreedit(r)
  <1>1. Handled(p, q) /\ SameKeys(r, q)
    BY UpdateHandles
  <1> HIDE DEF q
  <1>2. Pending(q) = <<>> /\ Partial(q) = <<>>
    BY <1>1 DEF SameKeys, Pending, Partial
  <1>3. Listed(q)
    BY <1>2, NothingIsKept DEF Listed, Pending
  <1> QED
    BY <1>1, <1>2, <1>3 DEF Result, Step, NumberStep, q

LEMMA CheckHexHandles ==
  ASSUME NEW p, Record(p), Announced(p), p.in_hex
  PROVE  LET q == CheckHex(p) IN
         /\ Before(q) /\ Composing(q) /\ q.in_hex = TRUE /\ q.client = p.client
  <1> DEFINE s == p.compose_buffer
             text == IF \A i \in DOMAIN s : s[i] = Zero THEN NUL
                     ELSE IF IsScalar(s) THEN <<"U+">> \o s ELSE <<>>
             q == CheckHex(p)
  <1>1. q = [p EXCEPT !.tentative_match = text,
                      !.tentative_match_len = IF text = <<>> THEN 0 ELSE Len(s)]
    BY Zenon DEF CheckHex
  <1> HIDE DEF text, q
  <1>2. /\ SameScreen(p, q) /\ q.inform = p.inform
        /\ q.compose_buffer = s /\ q.in_hex = TRUE /\ q.tentative_match = text
        /\ q.tentative_match_len = IF text = <<>> THEN 0 ELSE Len(s)
        /\ q.in_compose = p.in_compose /\ q.modifiers_dropped = p.modifiers_dropped
    BY <1>1 DEF Record, Fields, SameScreen
  <1>3. q.tentative_match_len \in 0..MAX_COMPOSE_LEN
    BY <1>2, BufferLength DEF Record
  <1>4. Record(q)
    BY <1>2, <1>3, Zenon DEF Record, SameScreen
  <1>5. Matched(q) /\ Composing(q) /\ Announced(q)
    BY <1>2 DEF Record, Matched, Composing, Announced, SameScreen
  <1> QED
    BY <1>2, <1>4, <1>5 DEF Before, SameScreen, q

LEMMA InNumber ==
  ASSUME NEW p, p.in_hex
  PROVE  Pending(p) = <<>> /\ Partial(p) = <<>>
  BY DEF Pending, Partial

LEMMA NotTyping ==
  ASSUME NEW p, Before(p), p.compose_buffer = <<>>
  PROVE  p.tentative_match_len = 0 /\ Pending(p) = <<>> /\ Partial(p) = <<>>
  <1>1. Len(p.compose_buffer) = 0 /\ p.tentative_match_len \in Nat
    BY BufferLength DEF Before, Record
  <1>2. p.tentative_match_len = 0
    BY <1>1 DEF Before, Matched
  <1> QED
    BY <1>2 DEF Pending, Partial

LEMMA EraseDigitResult ==
  ASSUME NEW p, Started(p), NEW k, NEW mods, NEW rest, EraseDigit(p, k, mods, rest)
  PROVE  Result(p, simple')
  <1>1. Pending(p) = <<>> /\ Partial(p) = <<>> /\ p.in_hex
    BY InNumber DEF EraseDigit
  <1>2. CASE p.compose_buffer = <<>>
    <2> DEFINE r == [p EXCEPT !.in_hex = FALSE]
    <2>1. simple' = UpdatePreedit(r)
      BY <1>2 DEF EraseDigit
    <2>2. p.tentative_match_len = 0 /\ Len(p.compose_buffer) = 0
      BY <1>2, NotTyping DEF Started, Ready
    <2>3. /\ SameScreen(p, r) /\ r.inform = p.inform
          /\ r.compose_buffer = p.compose_buffer /\ r.in_hex = FALSE
          /\ r.tentative_match = p.tentative_match
          /\ r.tentative_match_len = p.tentative_match_len
          /\ r.in_compose = p.in_compose /\ r.modifiers_dropped = p.modifiers_dropped
      BY DEF Started, Ready, Before, Record, Fields, SameScreen
    <2> HIDE DEF r
    <2>4. Record(r)
      BY <2>3, Zenon DEF Started, Ready, Before, Record, SameScreen
    <2>5. Matched(r) /\ Composing(r) /\ Announced(r)
      BY <1>2, <2>2, <2>3, BufferLength
         DEF Started, Ready, Before, Matched, Composing, Announced, SameScreen
    <2>6. Before(r) /\ r.client = p.client /\ r.compose_buffer = <<>>
      BY <1>2, <2>3, <2>4, <2>5 DEF Before, SameScreen
    <2> QED
      BY <1>1, <2>1, <2>5, <2>6, NotTyping, NumberResult
  <1>3. CASE p.compose_buffer # <<>>
    <2> DEFINE r == [p EXCEPT !.compose_buffer = Front(@)]
    <2>1. simple' = UpdatePreedit(CheckHex(r))
      BY <1>3 DEF EraseDigit
    <2>2. /\ Front(p.compose_buffer) \in Seq(Keysyms)
          /\ Len(Front(p.compose_buffer)) <= MAX_COMPOSE_LEN
      <3>1. /\ p.compose_buffer \in Seq(Keysyms) /\ Len(p.compose_buffer) <= MAX_COMPOSE_LEN
        BY DEF Started, Ready, Before, Record
      <3>2. Len(Front(p.compose_buffer)) = Len(p.compose_buffer) - 1
            /\ Front(p.compose_buffer) \in Seq(Keysyms)
        BY <1>3, <3>1, FrontOfSequence
      <3> QED
        BY <3>1, <3>2, BufferLength
    <2>3. /\ SameScreen(p, r) /\ r.inform = p.inform
          /\ r.compose_buffer = Front(p.compose_buffer) /\ r.in_hex = p.in_hex
          /\ r.tentative_match_len = p.tentative_match_len
          /\ r.in_compose = p.in_compose /\ r.modifiers_dropped = p.modifiers_dropped
      BY DEF Started, Ready, Before, Record, Fields, SameScreen
    <2> HIDE DEF r
    <2>4. Record(r)
      BY <2>2, <2>3, Zenon DEF Started, Ready, Before, Record, SameScreen
    <2>5. Announced(r) /\ r.in_hex /\ r.client = p.client
      BY <1>1, <2>3 DEF Started, Ready, Before, Announced, SameScreen
    <2> DEFINE c == CheckHex(r)
    <2>6. Before(c) /\ Composing(c) /\ c.in_hex = TRUE /\ c.client = p.client
      BY <2>4, <2>5, CheckHexHandles
    <2> HIDE DEF c
    <2>7. Pending(c) = <<>> /\ Partial(c) = <<>>
      BY <2>6, InNumber
    <2>8. Result(p, UpdatePreedit(c))
      BY <1>1, <2>6, <2>7, NumberResult
    <2> QED
      BY <2>1, <2>8 DEF c
  <1> QED
    BY <1>2, <1>3

LEMMA EraseKeyResult ==
  ASSUME loaded \in Tables,
         NEW p, Started(p), NEW k, NEW rest, EraseKey(p, k, rest)
  PROVE  Result(p, simple')
  <1> DEFINE r == Erased(p)
             s == p.compose_buffer
  <1>1. /\ SameScreen(p, r) /\ r.inform = p.inform
        /\ r.compose_buffer = Front(s) /\ r.in_hex = p.in_hex
        /\ r.tentative_match = <<>> /\ r.tentative_match_len = 0
        /\ r.in_compose = p.in_compose /\ r.modifiers_dropped = p.modifiers_dropped
        /\ r.committed = <<>> /\ r.reply = "taken"
    BY DEF Started, Ready, Before, Record, Fields, SameScreen, Erased
  <1> HIDE DEF r
  <1>2. /\ s \in Seq(Keysyms) /\ Len(s) <= MAX_COMPOSE_LEN /\ s # <<>> /\ p.in_hex = FALSE
    BY DEF Started, Ready, Before, Record, EraseKey
  <1>3. /\ Front(s) \in Seq(Keysyms) /\ Len(Front(s)) = Len(s) - 1
        /\ Len(Front(s)) <= MAX_COMPOSE_LEN
    <2>1. Front(s) \in Seq(Keysyms) /\ Len(Front(s)) = Len(s) - 1
      BY <1>2, FrontOfSequence
    <2> QED
      BY <1>2, <2>1, BufferLength
  <1>4. Record(r)
    <2>1. r.tentative_match_len \in 0..MAX_COMPOSE_LEN
      BY <1>1, BufferLength
    <2> QED
      BY <1>1, <1>3, <2>1, Zenon DEF Started, Ready, Before, Record, SameScreen
  <1>5. Matched(r) /\ Announced(r) /\ Composing(r)
    <2>1. Len(s) < MAX_COMPOSE_LEN /\ p.in_compose
      BY <1>2 DEF Started, Ready, Composing
    <2>2. Len(r.compose_buffer) < MAX_COMPOSE_LEN
      BY <1>1, <1>2, <1>3, <2>1, BufferLength
    <2> QED
      BY <1>1, <2>1, <2>2
         DEF Started, Ready, Before, Matched, Announced, Composing, SameScreen
  <1>6. Pending(p) = s /\ s # <<>>
    BY <1>2 DEF Pending
  <1>7. CASE Found(Front(s))
    <2> DEFINE q == CheckAll(r)
    <2>1. simple' = q
      BY <1>7 DEF EraseKey, r
    <2>2. Searching(r)
      BY <1>1, <1>2, <1>4, <1>5, <1>7 DEF Searching, Before
    <2>3. /\ Handled(r, q) /\ q.reply = r.reply /\ q.in_hex = FALSE
          /\ Kept(q.compose_buffer)
          /\ Becomes(r.compose_buffer, Partial(r), q)
      BY <2>2, CheckAllHandles
    <2> HIDE DEF q
    <2>4. Partial(r) = <<>>
      BY <1>1 DEF Partial
    <2>5. EraseStep(p, q)
      BY <1>1, <1>6, <2>3, <2>4 DEF EraseStep
    <2>6. Handled(p, q)
      BY <1>1, <2>3 DEF Handled, SameScreen
    <2> QED
      BY <2>1, <2>3, <2>5, <2>6 DEF Result, Step, Listed
  <1>8. CASE ~Found(Front(s))
    <2>1. simple' = r
      BY <1>8 DEF EraseKey, r
    <2>2. Front(s) # <<>>
      BY <1>8, NothingIsFound
    <2>3. Follows(r)
      BY <1>1, <1>2, <1>8, <2>2 DEF Follows, TypingIn
    <2>4. Handled(p, r)
      BY <1>1, <1>4, <1>5, <2>3 DEF Handled, Ready, Before, SameScreen
    <2>5. Pending(r) = Front(s) /\ Partial(r) = <<>>
      BY <1>1, <1>2 DEF Pending, Partial
    <2>6. EraseStep(p, r)
      BY <1>1, <1>6, <2>5 DEF EraseStep
    <2>7. ~Listed(p) \/ loaded # "no"
      BY <1>2, <1>8, KeptFront, KeptIsFound DEF Listed
    <2> QED
      BY <2>1, <2>4, <2>6, <2>7 DEF Result, Step, Listed
  <1> QED
    BY <1>7, <1>8

LEMMA StartedHexResult ==
  ASSUME NEW p, Pending(p) = <<>>, Partial(p) = <<>>,
         NEW r, Before(r), r.tentative_match_len = 0, r.client = p.client
  PROVE  Result(p, StartedHex(r))
  <1> DEFINE q == [r EXCEPT !.compose_buffer = <<>>, !.in_hex = TRUE,
                            !.modifiers_dropped = FALSE, !.tentative_match = <<>>]
  <1>1. /\ SameScreen(r, q) /\ q.inform = r.inform /\ q.compose_buffer = <<>>
        /\ q.in_hex = TRUE /\ q.tentative_match = <<>>
        /\ q.tentative_match_len = r.tentative_match_len
        /\ q.in_compose = r.in_compose /\ q.modifiers_dropped = FALSE
    BY DEF Before, Record, Fields, SameScreen
  <1> HIDE DEF q
  <1>2. q.compose_buffer \in Seq(Keysyms) /\ Len(q.compose_buffer) <= MAX_COMPOSE_LEN
    BY <1>1, BufferLength
  <1>3. Record(q)
    BY <1>1, <1>2, Zenon DEF Before, Record, SameScreen
  <1>4. Matched(q) /\ Announced(q) /\ Composing(q)
    BY <1>1 DEF Before, Matched, Announced, Composing, SameScreen
  <1>5. Before(q) /\ q.client = p.client /\ q.in_hex
    BY <1>1, <1>3, <1>4 DEF Before, SameScreen
  <1>6. Result(p, UpdatePreedit(q))
    BY <1>4, <1>5, InNumber, NumberResult
  <1> QED
    BY <1>6 DEF StartedHex, q

LEMMA StartHexResult ==
  ASSUME NEW p, Started(p), NEW k, NEW mods, NEW rest, ~Accelerator(p, k, mods),
         StartHex(p, k, mods, rest)
  PROVE  Result(p, simple')
  <1>1. "Control" \in mods
    BY DEF StartHex, HaveHexMods, Modifiers
  <1>2. ~(Len(p.compose_buffer) > 0)
    BY <1>1 DEF StartHex, Accelerator
  <1>3. p.compose_buffer = <<>>
    BY <1>2 DEF Started, Ready, Before, Record
  <1>4. p.tentative_match_len = 0 /\ Pending(p) = <<>> /\ Partial(p) = <<>> /\ Before(p)
    BY <1>3, NotTyping DEF Started, Ready
  <1> QED
    BY <1>4, StartedHexResult DEF StartHex

LEMMA CancelledHexHandles ==
  ASSUME NEW p, Before(p), p.tentative_match = <<>>
  PROVE  LET q == CancelledHex(p) IN
         /\ Before(q) /\ Composing(q) /\ q.tentative_match_len = 0 /\ q.client = p.client
         /\ q.in_hex = FALSE /\ q.compose_buffer = <<>>
  <1> DEFINE q == CancelledHex(p)
  <1>1. /\ SameScreen(p, q) /\ q.inform = TRUE /\ q.compose_buffer = <<>>
        /\ q.in_hex = FALSE /\ q.tentative_match = <<>>
        /\ q.tentative_match_len = p.tentative_match_len
        /\ q.in_compose = p.in_compose /\ q.modifiers_dropped = p.modifiers_dropped
    BY DEF Before, Record, Fields, SameScreen, CancelledHex, SendMessage
  <1> HIDE DEF q
  <1>2. /\ q.compose_buffer \in Seq(Keysyms) /\ Len(q.compose_buffer) = 0
        /\ Len(q.compose_buffer) <= MAX_COMPOSE_LEN
    BY <1>1, BufferLength
  <1>3. Record(q)
    BY <1>1, <1>2, Zenon DEF Before, Record, SameScreen
  <1>4. p.tentative_match_len = 0
    BY BufferLength DEF Before, Record, Matched
  <1>5. Matched(q) /\ Announced(q) /\ Composing(q)
    BY <1>1, <1>2, <1>4, BufferLength
       DEF Before, Matched, Announced, Composing, SameScreen
  <1> QED
    BY <1>1, <1>3, <1>4, <1>5 DEF Before, SameScreen, q

(* The key of a number is refused with a message. *)
LEMMA RefusedResult ==
  ASSUME NEW p, Pending(p) = <<>>, Partial(p) = <<>>, NEW r, Ready(r), r.client = p.client,
         r.in_hex
  PROVE  Result(p, SendMessage(r))
  <1> DEFINE q == SendMessage(r)
  <1>1. Ready(q)
    BY SendMessageKeeps DEF Ready, Before
  <1>2. q.client = p.client /\ q.in_hex
    BY SendMessageFields DEF Ready, Before, Record, SameScreen
  <1> HIDE DEF q
  <1>3. Pending(q) = <<>> /\ Partial(q) = <<>>
    BY <1>2, InNumber
  <1> QED
    BY <1>1, <1>2, <1>3 DEF Result, Handled, Step, NumberStep, Listed, q

LEMMA RefuseNonHexResult ==
  ASSUME NEW p, Started(p), NEW k, NEW mods, NEW rest, RefuseNonHex(p, k, mods, rest)
  PROVE  Result(p, simple')
  <1>1. simple' = SendMessage(p) /\ p.in_hex
    BY DEF RefuseNonHex
  <1> QED
    BY <1>1, InNumber, RefusedResult DEF Started

LEMMA RestartHexResult ==
  ASSUME NEW p, Started(p), NEW k, NEW mods, NEW rest, RestartHex(p, k, mods, rest)
  PROVE  Result(p, simple')
  <1>1. /\ p.in_hex /\ Pending(p) = <<>> /\ Partial(p) = <<>> /\ Before(p)
    BY InNumber DEF RestartHex, Started, Ready
  <1>2. CASE p.tentative_match # <<>>
    <2> DEFINE q == UpdatePreedit(Commit(p, p.tentative_match))
    <2>1. simple' = IF q.in_hex THEN SendMessage(q) ELSE StartedHex(q)
      BY <1>2 DEF RestartHex
    <2>2. Handled(p, q) /\ Pending(q) = <<>> /\ Partial(q) = <<>>
      BY <1>1, CommitHandles
    <2> HIDE DEF q
    <2>3. CASE q.in_hex
      BY <1>1, <2>1, <2>2, <2>3, RefusedResult DEF Handled
    <2>4. CASE ~q.in_hex
      <3>1. q.tentative_match_len = 0
        BY <2>2, <2>4, BufferLength DEF Partial, Handled, Ready, Before, Record, Matched
      <3> QED
        BY <1>1, <2>1, <2>2, <2>4, <3>1, StartedHexResult DEF Handled, Ready
    <2> QED
      BY <2>3, <2>4
  <1>3. CASE p.tentative_match = <<>> /\ p.compose_buffer # <<>>
    <2> DEFINE q == CancelledHex(p)
    <2>1. simple' = IF q.in_hex THEN SendMessage(q) ELSE StartedHex(q)
      BY <1>3 DEF RestartHex
    <2>2. Before(q) /\ q.tentative_match_len = 0 /\ q.client = p.client /\ q.in_hex = FALSE
      BY <1>1, <1>3, CancelledHexHandles
    <2> HIDE DEF q
    <2> QED
      BY <1>1, <2>1, <2>2, StartedHexResult
  <1>4. CASE p.tentative_match = <<>> /\ p.compose_buffer = <<>>
    <2>1. simple' = SendMessage(p)
      BY <1>1, <1>4 DEF RestartHex
    <2> QED
      BY <1>1, <2>1, RefusedResult DEF Started
  <1> QED
    BY <1>2, <1>3, <1>4

LEMMA ResetHandles ==
  ASSUME NEW p, Record(p)
  PROVE  /\ Handled(p, Reset(p)) /\ AbandonStep(Reset(p)) /\ Listed(Reset(p))
         /\ ~TypingIn(Reset(p)) /\ ~Reset(p).visible /\ ~Reset(p).timer
  <1> DEFINE q == Reset(p)
  <1>1. /\ DOMAIN q = Fields /\ q.visible = FALSE /\ q.timer = FALSE /\ q.inform = FALSE
        /\ q.client = p.client /\ q.compose_buffer = <<>> /\ q.tentative_match = <<>>
        /\ q.tentative_match_len = 0 /\ q.in_hex = FALSE /\ q.in_compose = p.in_compose
        /\ q.modifiers_dropped = p.modifiers_dropped
        /\ q.committed = <<>> /\ q.reply = "reset"
    BY DEF Record, Fields, Reset, Hide
  <1> HIDE DEF q
  <1>2. /\ q.compose_buffer \in Seq(Keysyms) /\ Len(q.compose_buffer) < MAX_COMPOSE_LEN
        /\ Len(q.compose_buffer) <= MAX_COMPOSE_LEN
        /\ q.tentative_match_len \in 0..MAX_COMPOSE_LEN
    BY <1>1, BufferLength
  <1>3. Record(q)
    BY <1>1, <1>2, Zenon DEF Record
  <1>4. Matched(q) /\ Announced(q) /\ Composing(q) /\ Follows(q) /\ ~TypingIn(q)
    <2>1. Matched(q) /\ Announced(q) /\ Composing(q)
      BY <1>1, <1>2 DEF Matched, Announced, Composing
    <2>2. TypingIn(q) = FALSE
      BY <1>1 DEF TypingIn
    <2>3. Follows(q)
      BY <1>1, <2>2 DEF Follows
    <2> QED
      BY <2>1, <2>2, <2>3
  <1>5. Listed(q)
    BY <1>1, NothingIsKept DEF Listed
  <1>6. AbandonStep(q)
    BY <1>1 DEF AbandonStep, Pending, Partial
  <1> QED
    BY <1>1, <1>3, <1>4, <1>5, <1>6 DEF Handled, Ready, Before, q

LEMMA EndWithEscapeResult ==
  ASSUME NEW p, Started(p), NEW k, NEW rest, EndWithEscape(p, k, rest)
  PROVE  Result(p, simple')
  BY ResetHandles DEF EndWithEscape, Started, Ready, Before, Result, Step

LEMMA TypeDigitResult ==
  ASSUME NEW p, Started(p), NEW k \in Keysyms, NEW mods, NEW rest, TypeDigit(p, k, mods, rest)
  PROVE  Result(p, simple')
  <1> DEFINE r == Put(p, k)
             c == CheckHex(r)
  <1>1. simple' = UpdatePreedit(c) /\ p.in_hex /\ Before(p)
    BY DEF TypeDigit, Started, Ready
  <1>2. Record(r) /\ Announced(r)
    BY <1>1, PutKeeps DEF Before
  <1>3. r.in_hex /\ r.client = p.client
    BY <1>1, PutFields DEF Before, SameScreen
  <1> HIDE DEF r
  <1>4. Before(c) /\ Composing(c) /\ c.in_hex = TRUE /\ c.client = p.client
    BY <1>2, <1>3, CheckHexHandles
  <1> HIDE DEF c
  <1>5. /\ Pending(p) = <<>> /\ Partial(p) = <<>>
        /\ Pending(c) = <<>> /\ Partial(c) = <<>>
    BY <1>1, <1>4, InNumber
  <1> QED
    BY <1>1, <1>4, <1>5, NumberResult

(* A number's text is entered, or refused if it is empty. *)
LEMMA EnteredNumberResult ==
  ASSUME NEW p, Before(p), p.in_hex, NEW text
  PROVE  Result(p, UpdatePreedit(Commit(p, text)))
  <1> DEFINE q == UpdatePreedit(Commit(p, text))
  <1>1. Handled(p, q) /\ Pending(q) = <<>> /\ Partial(q) = <<>>
    BY CommitHandles
  <1> HIDE DEF q
  <1>2. Pending(p) = <<>> /\ Partial(p) = <<>>
    BY InNumber
  <1>3. Listed(q)
    BY <1>1, NothingIsKept DEF Listed, Pending
  <1> QED
    BY <1>1, <1>2, <1>3 DEF Result, Step, NumberStep, q

LEMMA CancelledNumberResult ==
  ASSUME NEW p, Before(p), p.in_hex, p.tentative_match = <<>>
  PROVE  Result(p, UpdatePreedit(CancelledHex(p)))
  <1> DEFINE r == CancelledHex(p)
  <1>1. /\ Before(r) /\ Composing(r) /\ r.client = p.client /\ r.compose_buffer = <<>>
    BY CancelledHexHandles
  <1> HIDE DEF r
  <1>2. Pending(r) = <<>> /\ Partial(r) = <<>> /\ Pending(p) = <<>> /\ Partial(p) = <<>>
    BY <1>1, InNumber, NotTyping
  <1>3. Result(p, UpdatePreedit(r))
    BY <1>1, <1>2, NumberResult
  <1> QED
    BY <1>3 DEF r

LEMMA EndHexResult ==
  ASSUME NEW p, Started(p), NEW k, NEW mods, NEW rest, EndHex(p, k, mods, rest)
  PROVE  Result(p, simple')
  <1>1. p.in_hex /\ Before(p)
    BY DEF EndHex, Started, Ready
  <1>2. CASE p.compose_buffer = <<>>
    <2> DEFINE c == CheckHex(p)
    <2>1. simple' = UpdatePreedit(c)
      BY <1>2 DEF EndHex
    <2>2. Before(c) /\ Composing(c) /\ c.in_hex = TRUE /\ c.client = p.client
      BY <1>1, CheckHexHandles DEF Before
    <2> HIDE DEF c
    <2>3. Pending(c) = <<>> /\ Partial(c) = <<>> /\ Pending(p) = <<>> /\ Partial(p) = <<>>
      BY <1>1, <2>2, InNumber
    <2> QED
      BY <2>1, <2>2, <2>3, NumberResult
  <1>3. CASE p.compose_buffer # <<>> /\ p.tentative_match # <<>>
    <2>1. simple' = UpdatePreedit(Commit(p, p.tentative_match))
      BY <1>3 DEF EndHex
    <2> QED
      BY <1>1, <2>1, EnteredNumberResult
  <1>4. CASE p.compose_buffer # <<>> /\ p.tentative_match = <<>>
    <2>1. simple' = UpdatePreedit(CancelledHex(p))
      BY <1>4 DEF EndHex
    <2> QED
      BY <1>1, <1>4, <2>1, CancelledNumberResult
  <1> QED
    BY <1>2, <1>3, <1>4

LEMMA HexWithoutModifiersResult ==
  ASSUME NEW p, Started(p), NEW k \in Keysyms, NEW mods \in SUBSET Modifiers,
         NEW rest \in Seq(Calls), HexWithoutModifiers(p, k, mods, rest)
  PROVE  Result(p, simple') /\ nested' \in Seq(Calls)
  <1> DEFINE q == IF k = Space THEN p ELSE Put(p, k)
             n == Len(q.compose_buffer)
  <1>1. p.in_hex /\ Before(p) /\ NoSequenceMatches(q, n, k, mods, rest)
    BY DEF HexWithoutModifiers, Started, Ready
  <1>2. Before(q)
    BY <1>1, PutKeeps DEF Before
  <1>3. q.in_hex /\ q.client = p.client
    BY <1>1, PutFields DEF Before, SameScreen
  <1> HIDE DEF q
  <1>4. n \in Nat
    BY <1>2 DEF Before, Record
  <1>5. Handled(q, simple') /\ Settled(q, n, simple') /\ nested' \in Seq(Calls)
    BY <1>1, <1>2, <1>4, NoSequenceHandles, NoSequenceCalls
  <1>6. Pending(p) = <<>> /\ Partial(p) = <<>>
    BY <1>1, InNumber
  <1>7. Pending(simple') = <<>> /\ Partial(simple') = <<>> /\ Handled(p, simple')
    BY <1>3, <1>5 DEF Settled, Handled
  <1>8. Listed(simple')
    BY <1>7, NothingIsKept DEF Listed, Pending
  <1> QED
    BY <1>5, <1>6, <1>7, <1>8 DEF Result, Step, NumberStep

LEMMA AppendedPrefix ==
  ASSUME NEW s \in Seq(Keysyms), NEW k \in Keysyms, NEW n \in 1..Len(s)
  PROVE  /\ SubSeq(Append(s, k), 1, n) = SubSeq(s, 1, n)
         /\ Append(s, k)[1] = Head(s)
  <1> DEFINE a == Append(s, k)
             x == SubSeq(a, 1, n)
             y == SubSeq(s, 1, n)
  <1>1. /\ a \in Seq(Keysyms) /\ Len(a) = Len(s) + 1 /\ n \in 0..Len(a) /\ n \in 0..Len(s)
        /\ \A i \in 1..n : a[i] = s[i]
        /\ a[1] = Head(s)
    OBVIOUS
  <1>2. \A r \in Seq(Keysyms) : \A m \in 0..Len(r) :
          /\ SubSeq(r, 1, m) \in Seq(Keysyms) /\ Len(SubSeq(r, 1, m)) = m
          /\ \A i \in 1..m : SubSeq(r, 1, m)[i] = r[i]
    OBVIOUS
  <1> HIDE DEF a
  <1>3. x \in Seq(Keysyms) /\ Len(x) = n /\ \A i \in 1..n : x[i] = a[i]
    BY <1>1, <1>2
  <1>4. y \in Seq(Keysyms) /\ Len(y) = n /\ \A i \in 1..n : y[i] = s[i]
    BY <1>1, <1>2
  <1> HIDE DEF x, y
  <1>5. x = y
    <2>1. \A i \in 1..Len(x) : x[i] = y[i]
      BY <1>1, <1>3, <1>4
    <2> QED
      BY <1>3, <1>4, <2>1, SeqEqual
  <1> QED
    BY <1>1, <1>5 DEF x, y, a

LEMMA SettledResult ==
  ASSUME NEW p, Started(p), ~p.in_hex, NEW q, NEW n \in Nat, NEW r,
         q.client = p.client, ~q.in_hex, q.committed = <<>>,
         q.tentative_match_len = p.tentative_match_len,
         q.tentative_match = p.tentative_match,
         n = 2 => /\ SubSeq(q.compose_buffer, 1, 2) = SubSeq(p.compose_buffer, 1, 2)
                  /\ q.compose_buffer[1] = Head(p.compose_buffer)
                  /\ Len(p.compose_buffer) = 2,
         Handled(q, r), Settled(q, n, r)
  PROVE  Result(p, r)
  <1>1. Handled(p, r) /\ Pending(r) = <<>> /\ Partial(r) = <<>>
    BY DEF Handled, Settled
  <1>2. Listed(r)
    BY <1>1, NothingIsKept DEF Listed, Pending
  <1>3. CASE p.tentative_match_len > 0 /\ r.committed = p.tentative_match
    <2>1. p.tentative_match # <<>> /\ p.compose_buffer # <<>>
      BY <1>3, BufferLength DEF Started, Ready, Before, Matched, Record
    <2>2. Partial(p) = p.tentative_match /\ Pending(p) = p.compose_buffer
      BY <1>3 DEF Partial, Pending
    <2> QED
      BY <1>1, <1>2, <1>3, <2>1, <2>2 DEF Result, Step, SettleStep
  <1>4. CASE /\ n = 2 /\ q.compose_buffer[1] \in DeadKeys
             /\ r.committed = SubSeq(q.compose_buffer, 1, 2)
    <2>1. /\ Pending(p) = p.compose_buffer /\ Len(p.compose_buffer) = 2
          /\ Head(p.compose_buffer) \in DeadKeys
          /\ r.committed = SubSeq(p.compose_buffer, 1, 2)
      BY <1>4 DEF Pending
    <2>2. Len(Pending(p)) > 1 /\ Pending(p) # <<>>
      BY <2>1
    <2>3. SettleStep(p, r)
      BY <1>1, <2>1, <2>2 DEF SettleStep
    <2> QED
      BY <1>1, <1>2, <2>3 DEF Result, Step
  <1>5. CASE r.committed = <<>> /\ r.reply \in {"cancelled", "forwarded"}
    BY <1>1, <1>2, <1>5 DEF Result, Step, AbandonStep
  <1> QED
    BY <1>3, <1>4, <1>5 DEF Settled

LEMMA ComposeResult ==
  ASSUME loaded \in Tables,
         NEW p, Started(p), NEW k \in Keysyms, NEW mods \in SUBSET Modifiers,
         NEW rest \in Seq(Calls), Compose(p, k, mods, rest)
  PROVE  Result(p, simple') /\ nested' \in Seq(Calls)
  <1> DEFINE q == Put(p, k)
             n == Len(p.compose_buffer)
  <1>1. /\ ~p.in_hex /\ p.in_hex = FALSE /\ Before(p) /\ Record(p)
        /\ p.compose_buffer \in Seq(Keysyms) /\ n \in Nat /\ n < MAX_COMPOSE_LEN
    BY DEF Compose, Started, Ready, Before, Record, Composing
  <1>2. /\ q.compose_buffer = Append(p.compose_buffer, k) /\ q.client = p.client
        /\ q.in_hex = FALSE /\ q.committed = <<>> /\ q.reply = "taken"
        /\ q.tentative_match_len = p.tentative_match_len
        /\ q.tentative_match = p.tentative_match
    BY <1>1, PutFields DEF Started, SameScreen
  <1>3. Before(q) /\ Len(q.compose_buffer) = n + 1
    BY <1>1, <1>2, PutKeeps DEF Before
  <1>4. Pending(p) = p.compose_buffer /\ Partial(q) = Partial(p)
    BY <1>1, <1>2 DEF Pending, Partial
  <1>a. CASE Found(q.compose_buffer)
    <2> DEFINE r == CheckAll(q)
    <2>1. simple' = r /\ nested' = rest
      BY <1>a DEF Compose
    <2> HIDE DEF q
    <2>2. Searching(q)
      BY <1>2, <1>3, <1>a DEF Searching
    <2>3. /\ Handled(q, r) /\ r.reply = q.reply /\ r.in_hex = FALSE
          /\ Kept(r.compose_buffer)
          /\ Becomes(q.compose_buffer, Partial(q), r)
      BY <2>2, CheckAllHandles
    <2> HIDE DEF r
    <2>4. TypeStep(p, k, r)
      BY <1>2, <1>4, <2>3 DEF TypeStep
    <2> QED
      BY <1>2, <2>1, <2>3, <2>4 DEF Result, Handled, Step, Listed
  <1>b. CASE ~Found(q.compose_buffer) /\ n = 0
    <2>1. NoSequenceMatches(q, 1, k, mods, rest)
      BY <1>b DEF Compose
    <2> HIDE DEF q
    <2>2. 1 <= Len(q.compose_buffer) /\ 1 # 2 /\ 1 \in Nat
      BY <1>1, <1>3
    <2>3. Handled(q, simple') /\ Settled(q, 1, simple') /\ nested' \in Seq(Calls)
      BY <1>3, <2>1, <2>2, NoSequenceHandles, NoSequenceCalls
    <2>4. Result(p, simple')
      BY <1>1, <1>2, <2>2, <2>3, SettledResult
    <2> QED
      BY <2>3, <2>4
  <1>c. CASE ~Found(q.compose_buffer) /\ n # 0 /\ Found(p.compose_buffer)
    <2> DEFINE e == SendMessage(p)
               r == CheckAll(e)
    <2>1. simple' = r /\ nested' = rest
      BY <1>c DEF Compose, ShowPrevious
    <2>2. /\ Before(e) /\ e.in_hex = FALSE /\ e.committed = <<>>
          /\ e.reply = "cancelled" /\ e.compose_buffer = p.compose_buffer
          /\ e.tentative_match_len = p.tentative_match_len
          /\ e.tentative_match = p.tentative_match
          /\ e.client = p.client
      BY <1>1, SendMessageKeeps, SendMessageFields DEF Started, Before, Record, SameScreen
    <2> HIDE DEF e
    <2>3. Searching(e)
      BY <1>c, <2>2 DEF Searching
    <2>4. /\ Handled(e, r) /\ r.reply = e.reply /\ r.in_hex = FALSE
          /\ Kept(r.compose_buffer)
          /\ Becomes(e.compose_buffer, Partial(e), r)
      BY <2>3, CheckAllHandles
    <2> HIDE DEF r
    <2>5. Partial(e) = Partial(p) /\ Pending(p) # <<>>
      BY <1>1, <1>4, <1>c, <2>2 DEF Partial
    <2>6. RefuseStep(p, r)
      BY <1>4, <2>2, <2>4, <2>5 DEF RefuseStep
    <2> QED
      BY <2>1, <2>2, <2>4, <2>6 DEF Result, Handled, Step, Listed
  <1>d. CASE ~Found(q.compose_buffer) /\ n # 0 /\ ~Found(p.compose_buffer)
    <2> DEFINE e == SendMessage(q)
    <2>1. NoSequenceMatches(e, n, k, mods, rest)
      BY <1>d DEF Compose
    <2> HIDE DEF q
    <2>2. /\ Before(e) /\ ~e.in_hex /\ e.committed = <<>>
          /\ e.compose_buffer = q.compose_buffer
          /\ e.tentative_match_len = p.tentative_match_len
          /\ e.tentative_match = p.tentative_match
          /\ e.client = p.client
      BY <1>2, <1>3, SendMessageKeeps, SendMessageFields DEF Before, Record, SameScreen
    <2> HIDE DEF e
    <2>3. n <= Len(e.compose_buffer)
      BY <1>1, <1>3, <2>2
    <2>4. Handled(e, simple') /\ Settled(e, n, simple') /\ nested' \in Seq(Calls)
      BY <1>1, <2>1, <2>2, <2>3, NoSequenceHandles, NoSequenceCalls
    <2>5. n = 2 => /\ SubSeq(e.compose_buffer, 1, 2) = SubSeq(p.compose_buffer, 1, 2)
                   /\ e.compose_buffer[1] = Head(p.compose_buffer)
                   /\ Len(p.compose_buffer) = 2
      <3>1. n = 2 => 2 \in 1..n
        OBVIOUS
      <3> QED
        BY <1>1, <1>2, <2>2, <3>1, AppendedPrefix
    <2>6. Result(p, simple')
      BY <1>1, <2>2, <2>4, <2>5, SettledResult
    <2> QED
      BY <2>4, <2>6
  <1> QED
    BY <1>a, <1>b, <1>c, <1>d

LEMMA KeyEventResult ==
  ASSUME loaded \in Tables,
         NEW p, Started(p), NEW k \in Keysyms, NEW mods \in SUBSET Modifiers,
         NEW rest \in Seq(Calls), KeyEvent(p, k, mods, rest)
  PROVE  Result(p, simple') /\ nested' \in Seq(Calls)
  <1>1. CASE ForwardAccelerator(p, k, mods, rest)
    BY <1>1, ForwardAcceleratorResult DEF ForwardAccelerator
  <1>2. CASE EraseDigit(p, k, mods, rest)
    BY <1>2, EraseDigitResult DEF EraseDigit
  <1>3. CASE EraseKey(p, k, rest)
    BY <1>3, EraseKeyResult DEF EraseKey
  <1>4. CASE ~Accelerator(p, k, mods) /\ StartHex(p, k, mods, rest)
    BY <1>4, StartHexResult DEF StartHex
  <1>5. CASE RestartHex(p, k, mods, rest)
    BY <1>5, RestartHexResult DEF RestartHex
  <1>6. CASE EndWithEscape(p, k, rest)
    BY <1>6, EndWithEscapeResult DEF EndWithEscape
  <1>7. CASE RefuseNonHex(p, k, mods, rest)
    BY <1>7, RefuseNonHexResult DEF RefuseNonHex
  <1>8. CASE TypeDigit(p, k, mods, rest)
    BY <1>8, TypeDigitResult DEF TypeDigit
  <1>9. CASE EndHex(p, k, mods, rest)
    BY <1>9, EndHexResult DEF EndHex
  <1>10. CASE HexWithoutModifiers(p, k, mods, rest)
    BY <1>10, HexWithoutModifiersResult
  <1>11. CASE Compose(p, k, mods, rest)
    BY <1>11, ComposeResult
  <1> QED
    BY <1>1, <1>2, <1>3, <1>4, <1>5, <1>6, <1>7, <1>8, <1>9, <1>10, <1>11, Zenon DEF KeyEvent

-----------------------------------------------------------------------------
(* The steps of the engine's process. *)

(* The inductive invariant.  Nothing is being typed without the focus, and *)
(* the handler owes itself no calls then.                                  *)
EngineInv ==
  /\ Ready(simple) /\ Listed(simple)
  /\ loaded \in Tables /\ held \in SUBSET Modifiers /\ nested \in Seq(Calls)
  /\ simple.client = "none" => ~TypingIn(simple)
  /\ nested # <<>> => simple.client # "none"

LEMMA EngineInit == SimpleInit => EngineInv
  <1> SUFFICES ASSUME SimpleInit
               PROVE  EngineInv
    OBVIOUS
  <1> DEFINE q == simple
  <1>1. /\ DOMAIN q = Fields /\ q.visible = FALSE /\ q.timer = FALSE /\ q.inform = FALSE
        /\ q.client = "none" /\ q.compose_buffer = <<>> /\ q.tentative_match = <<>>
        /\ q.tentative_match_len = 0 /\ q.in_hex = FALSE /\ q.in_compose = FALSE
        /\ q.modifiers_dropped = FALSE
    BY DEF SimpleInit, Fields
  <1>2. /\ q.compose_buffer \in Seq(Keysyms) /\ Len(q.compose_buffer) < MAX_COMPOSE_LEN
        /\ Len(q.compose_buffer) <= MAX_COMPOSE_LEN
        /\ q.tentative_match_len \in 0..MAX_COMPOSE_LEN
    BY <1>1, BufferLength
  <1>3. Record(q)
    BY <1>1, <1>2 DEF Record, ClientNames
  <1>4. Matched(q) /\ Announced(q) /\ Composing(q) /\ ~TypingIn(q)
    BY <1>1, <1>2 DEF Matched, Announced, Composing, TypingIn
  <1>5. Follows(q)
    BY <1>1, <1>4 DEF Follows, TypingIn
  <1>6. Listed(q)
    BY <1>1, NothingIsKept DEF Listed
  <1>7. nested = <<>> /\ loaded = "no" /\ held = {}
    BY DEF SimpleInit
  <1> QED
    BY <1>3, <1>4, <1>5, <1>6, <1>7 DEF EngineInv, Ready, Before, Tables

(* The tables are those of the state before the step: they only change     *)
(* when the user's are loaded.                                             *)
LEMMA SameTables ==
  ASSUME UNCHANGED loaded
  PROVE  /\ Ready(simple') => Ready(simple)'
         /\ Listed(simple') => Listed(simple)'
  <1>1. \A x : Found(x) <=> Found(x)'
    BY DEF Found, tables, Loaded
  <1>2. \A x : Kept(x) <=> Kept(x)'
    BY DEF Kept, tables, Loaded
  <1>3. Follows(simple') => Follows(simple)'
    BY <1>1, Zenon DEF Follows, Preedit, TypingIn
  <1>4. Before(simple') /\ Composing(simple') => Before(simple)' /\ Composing(simple)'
    BY Zenon DEF Before, Record, Matched, Announced, Composing
  <1>5. Listed(simple') => Listed(simple)'
    BY <1>2, Zenon DEF Listed
  <1> QED
    BY <1>3, <1>4, <1>5 DEF Ready

(* A step of the record that is a step of the composer, and the invariant  *)
(* after it.                                                               *)
ComposerStep == Composer!ComposerNext \/ UNCHANGED Composer!composerVars

LEMMA StepOfComposer ==
  ASSUME UNCHANGED loaded, NEW p, Step(p, simple'),
         Pending(p) = Pending(simple), Partial(p) = Partial(simple)
  PROVE  ComposerStep
  <1>1. UNCHANGED tables
    BY DEF tables, Loaded
  <1>2. ASSUME NEW k \in Keysyms, TypeStep(p, k, simple')
        PROVE  Composer!Type(k)
    BY <1>2 DEF TypeStep, Becomes, Pending, Partial, Composer!Type, Composer!Becomes
  <1>3. CASE RefuseStep(p, simple')
    <2>1. Composer!Refuse
      BY <1>3 DEF RefuseStep, Becomes, Pending, Partial, Composer!Refuse, Composer!Becomes
    <2> QED
      BY <1>1, <2>1 DEF ComposerStep, Composer!ComposerNext
  <1>4. CASE EraseStep(p, simple')
    <2>1. Composer!Erase
      BY <1>4 DEF EraseStep, Becomes, Pending, Partial, Composer!Erase, Composer!Becomes,
                  Composer!Front, Front
    <2> QED
      BY <1>1, <2>1 DEF ComposerStep, Composer!ComposerNext
  <1>5. CASE SettleStep(p, simple')
    <2>1. Composer!Settle
      BY <1>5 DEF SettleStep, Pending, Partial, Composer!Settle
    <2> QED
      BY <1>1, <2>1 DEF ComposerStep, Composer!ComposerNext
  <1>6. CASE AbandonStep(simple')
    <2>1. Composer!Abandon
      BY <1>6 DEF AbandonStep, Pending, Partial, Composer!Abandon
    <2> QED
      BY <1>1, <2>1 DEF ComposerStep, Composer!ComposerNext
  <1>7. CASE ForwardStep(p, simple')
    <2>1. Composer!Forward
      BY <1>7 DEF ForwardStep, Pending, Partial, Composer!Forward
    <2> QED
      BY <1>1, <2>1 DEF ComposerStep, Composer!ComposerNext
  <1>8. CASE NumberStep(p, simple')
    <2>1. Composer!Number
      BY <1>8 DEF NumberStep, Pending, Partial, Composer!Number
    <2> QED
      BY <1>1, <2>1 DEF ComposerStep, Composer!ComposerNext
  <1>9. CASE \E k \in Keysyms : TypeStep(p, k, simple')
    BY <1>1, <1>2, <1>9, Zenon DEF ComposerStep, Composer!ComposerNext
  <1> QED
    BY <1>3, <1>4, <1>5, <1>6, <1>7, <1>8, <1>9 DEF Step

LEMMA BeginIsStarted ==
  ASSUME Ready(simple)
  PROVE  /\ Started(Begin) /\ Begin.client = simple.client
         /\ Begin.in_hex = simple.in_hex /\ Begin.compose_buffer = simple.compose_buffer
         /\ Begin.tentative_match = simple.tentative_match
         /\ Pending(Begin) = Pending(simple) /\ Partial(Begin) = Partial(simple)
         /\ Listed(Begin) <=> Listed(simple)
  <1>1. Ready(Begin)
    BY ReplyKeepsReady DEF Begin
  <1>2. /\ Begin.client = simple.client /\ Begin.committed = <<>> /\ Begin.reply = "taken"
        /\ Begin.in_hex = simple.in_hex /\ Begin.compose_buffer = simple.compose_buffer
        /\ Begin.tentative_match = simple.tentative_match
        /\ Begin.tentative_match_len = simple.tentative_match_len
    BY DEF Begin, Ready, Before, Record, Fields
  <1> QED
    BY <1>1, <1>2 DEF Started, Pending, Partial, Listed

LEMMA BeginStep ==
  ASSUME EngineInv, UNCHANGED loaded, simple.client # "none",
         held' \in SUBSET Modifiers, nested' \in Seq(Calls),
         Result(Begin, simple')
  PROVE  EngineInv' /\ ComposerStep
  <1>1. /\ Started(Begin) /\ Begin.client = simple.client
        /\ Pending(Begin) = Pending(simple) /\ Partial(Begin) = Partial(simple)
        /\ Listed(Begin)
    BY BeginIsStarted DEF EngineInv
  <1>2. Ready(simple)' /\ Listed(simple)'
    BY <1>1, SameTables DEF Result, Handled
  <1>3. simple'.client # "none"
    BY <1>1 DEF Result, Handled
  <1>4. EngineInv'
    BY <1>2, <1>3 DEF EngineInv
  <1>5. ComposerStep
    BY <1>1, StepOfComposer DEF Result
  <1> QED
    BY <1>4, <1>5

(* A step that shows or hides the preedit, or that only gives the focus. *)
SameSequence(p, q) ==
  /\ q.in_hex = p.in_hex /\ q.compose_buffer = p.compose_buffer
  /\ q.tentative_match = p.tentative_match /\ q.tentative_match_len = p.tentative_match_len
  /\ q.committed = p.committed /\ q.reply = p.reply

LEMMA OtherStep ==
  ASSUME EngineInv, UNCHANGED <<nested, held>>, loaded' \in Tables, Ready(simple)', Listed(simple)',
         SameSequence(simple, simple'),
         simple'.client = "none" => simple.client = "none",
         UNCHANGED loaded \/ simple' = simple
  PROVE  EngineInv' /\ ComposerStep
  <1>1. /\ simple'.in_hex = simple.in_hex /\ simple'.compose_buffer = simple.compose_buffer
        /\ simple'.tentative_match = simple.tentative_match
        /\ simple'.tentative_match_len = simple.tentative_match_len
        /\ simple'.committed = simple.committed /\ simple'.reply = simple.reply
    BY DEF SameSequence
  <1>2. EngineInv'
    BY <1>1 DEF EngineInv, TypingIn
  <1>3. Composer!Change
    BY <1>1 DEF Composer!Change
  <1> QED
    BY <1>2, <1>3 DEF ComposerStep, Composer!ComposerNext

(* The modifiers of a number that has no digits yet are released. *)
LEMMA DroppedResult ==
  ASSUME NEW p, Started(p), p.in_hex
  PROVE  Result(p, [p EXCEPT !.modifiers_dropped = TRUE])
  <1> DEFINE q == [p EXCEPT !.modifiers_dropped = TRUE]
  <1>1. /\ SameScreen(p, q) /\ q.inform = p.inform
        /\ q.compose_buffer = p.compose_buffer
        /\ q.tentative_match_len = p.tentative_match_len
        /\ q.in_hex = p.in_hex /\ q.tentative_match = p.tentative_match
        /\ q.in_compose = p.in_compose /\ q.modifiers_dropped = TRUE
    BY DEF Started, Ready, Before, Record, Fields, SameScreen
  <1> HIDE DEF q
  <1>2. Record(q)
    BY <1>1, Zenon DEF Started, Ready, Before, Record, SameScreen
  <1>3. Matched(q) /\ Composing(q) /\ Announced(q)
    BY <1>1 DEF Started, Ready, Before, Matched, Composing, Announced, SameScreen
  <1>4. Preedit(q) = Preedit(p) /\ TypingIn(q) = TypingIn(p)
    BY <1>1 DEF Preedit, TypingIn
  <1>5. Follows(q)
    BY <1>1, <1>4 DEF Started, Ready, Follows, SameScreen, TypingIn
  <1>6. /\ Pending(p) = <<>> /\ Partial(p) = <<>>
        /\ Pending(q) = <<>> /\ Partial(q) = <<>>
    BY <1>1, InNumber
  <1>7. Listed(q)
    BY <1>1 DEF Listed
  <1>8. Handled(p, q)
    BY <1>1, <1>2, <1>3, <1>5 DEF Handled, Ready, Before, SameScreen
  <1> QED
    BY <1>6, <1>7, <1>8 DEF Result, Step, NumberStep, q

(* The timer shows the preedit that was hidden. *)
LEMMA ShownIsReady ==
  ASSUME NEW p, Ready(p), p.timer
  PROVE  LET q == [p EXCEPT !.inform = FALSE, !.timer = FALSE, !.visible = TRUE] IN
         Ready(q) /\ SameKeys(p, q)
  <1> DEFINE q == [p EXCEPT !.inform = FALSE, !.timer = FALSE, !.visible = TRUE]
  <1>1. /\ SameKeys(p, q) /\ q.inform = FALSE /\ q.timer = FALSE /\ q.visible = TRUE
        /\ q.updated_preedit = p.updated_preedit
    BY DEF Ready, Before, Record, Fields, SameKeys
  <1> HIDE DEF q
  <1>2. Record(q)
    BY <1>1, Zenon DEF Ready, Before, Record, SameKeys
  <1>3. Matched(q) /\ Composing(q) /\ Announced(q)
    BY <1>1 DEF Ready, Before, Matched, Composing, Announced, SameKeys
  <1>4. Follows(q)
    BY <1>1 DEF Ready, Before, Announced, Follows, SameKeys, TypingIn
  <1> QED
    BY <1>1, <1>2, <1>3, <1>4 DEF Ready, Before, q

(* The focus changes where nothing is being typed. *)
LEMMA FocusIsReady ==
  ASSUME NEW p, Ready(p), ~TypingIn(p), NEW c \in ClientNames
  PROVE  LET q == [p EXCEPT !.client = c] IN
         Ready(q) /\ SameSequence(p, q) /\ q.client = c
  <1> DEFINE q == [p EXCEPT !.client = c]
  <1>1. /\ DOMAIN q = Fields /\ q.client = c
        /\ q.compose_buffer = p.compose_buffer
        /\ q.tentative_match_len = p.tentative_match_len
        /\ q.in_hex = p.in_hex /\ q.tentative_match = p.tentative_match
        /\ q.in_compose = p.in_compose /\ q.modifiers_dropped = p.modifiers_dropped
        /\ q.inform = p.inform /\ q.timer = p.timer /\ q.visible = p.visible
        /\ q.updated_preedit = p.updated_preedit
        /\ q.committed = p.committed /\ q.reply = p.reply
    BY DEF Ready, Before, Record, Fields
  <1> HIDE DEF q
  <1>2. Record(q)
    BY <1>1, Zenon DEF Ready, Before, Record
  <1>3. q.visible = FALSE /\ q.timer = FALSE
    <2>1. p.visible \in BOOLEAN /\ p.timer \in BOOLEAN /\ ~p.visible /\ ~p.timer
      BY Zenon DEF Ready, Before, Record, Follows
    <2> QED
      BY <1>1, <2>1
  <1>4. Matched(q) /\ Composing(q) /\ Announced(q)
    BY <1>1, <1>3 DEF Ready, Before, Matched, Composing, Announced
  <1>5. TypingIn(q) = FALSE
    BY <1>1 DEF TypingIn
  <1>6. Follows(q)
    BY <1>3, <1>5 DEF Follows
  <1> QED
    BY <1>1, <1>2, <1>4, <1>6 DEF Ready, Before, SameSequence, q

(* The sequence is ended by the user or the focus. *)
LEMMA AbandonedStep ==
  ASSUME EngineInv, UNCHANGED <<nested, loaded, held>>, nested = <<>>,
         Ready(simple)', Listed(simple)', AbandonStep(simple'), ~TypingIn(simple')
  PROVE  EngineInv' /\ ComposerStep
  <1>1. EngineInv'
    BY DEF EngineInv, TypingIn
  <1>2. Composer!Abandon /\ UNCHANGED tables
    BY DEF AbandonStep, Pending, Partial, Composer!Abandon, tables, Loaded
  <1> QED
    BY <1>1, <1>2 DEF ComposerStep, Composer!ComposerNext

LEMMA EngineStep == EngineInv /\ [SimpleNext]_simpleVars => EngineInv' /\ ComposerStep
  <1> SUFFICES ASSUME EngineInv, [SimpleNext]_simpleVars
               PROVE  EngineInv' /\ ComposerStep
    OBVIOUS
  <1>0. /\ Ready(simple) /\ Record(simple) /\ Listed(simple) /\ loaded \in Tables
        /\ held \in SUBSET Modifiers /\ nested \in Seq(Calls)
        /\ Started(Begin) /\ Begin.client = simple.client
        /\ Begin.in_hex = simple.in_hex /\ Begin.compose_buffer = simple.compose_buffer
        /\ Begin.tentative_match = simple.tentative_match /\ Listed(Begin)
        /\ Pending(Begin) = Pending(simple) /\ Partial(Begin) = Partial(simple)
    BY BeginIsStarted DEF EngineInv, Ready, Before
  <1>1. ASSUME NEW k \in Keysyms, TypeKey(k)
        PROVE  EngineInv' /\ ComposerStep
    <2>1. <<>> \in Seq(Calls)
      OBVIOUS
    <2>2. Result(Begin, simple') /\ nested' \in Seq(Calls)
      BY <1>0, <1>1, <2>1, KeyEventResult DEF TypeKey
    <2> QED
      BY <1>0, <1>1, <2>2, BeginStep DEF TypeKey
  <1>2. CASE ProcessAgain
    <2>1. /\ Head(nested) \in Calls /\ Tail(nested) \in Seq(Calls) /\ nested # <<>>
      BY <1>0, <1>2 DEF ProcessAgain, Idle
    <2>2. Head(nested).key \in Keysyms /\ Head(nested).modifiers \in SUBSET Modifiers
      BY <2>1 DEF Calls
    <2>3. Result(Begin, simple') /\ nested' \in Seq(Calls)
      BY <1>0, <1>2, <2>1, <2>2, KeyEventResult DEF ProcessAgain
    <2>4. simple.client # "none"
      BY <2>1 DEF EngineInv
    <2> QED
      BY <1>0, <1>2, <2>3, <2>4, BeginStep DEF ProcessAgain
  <1>f. Result(Begin, Forwarded)
    BY <1>0, ForwardedResult, Zenon DEF Forwarded
  <1>3. ASSUME NEW m \in Modifiers, PressModifier(m)
        PROVE  EngineInv' /\ ComposerStep
    BY <1>0, <1>3, <1>f, BeginStep DEF PressModifier
  <1>4. ASSUME NEW m \in Modifiers, ReleaseModifier(m)
        PROVE  EngineInv' /\ ComposerStep
    <2> DEFINE p == Begin
    <2>1. simple' = IF ~p.in_hex THEN Forwarded
                    ELSE IF p.tentative_match # <<>>
                    THEN UpdatePreedit(Commit(p, p.tentative_match))
                    ELSE IF p.compose_buffer = <<>> THEN [p EXCEPT !.modifiers_dropped = TRUE]
                    ELSE UpdatePreedit(CancelledHex(p))
      BY <1>4, Zenon DEF ReleaseModifier
    <2>2. Started(p) /\ Before(p)
      BY <1>0 DEF Started, Ready
    <2>3. /\ held' \in SUBSET Modifiers /\ UNCHANGED loaded /\ nested' = nested
          /\ simple.client # "none"
      BY <1>0, <1>4 DEF ReleaseModifier
    <2> SUFFICES Result(p, simple')
      BY <1>0, <2>3, BeginStep
    <2>4. Result(p, Forwarded)
      BY <1>f
    <2> HIDE DEF p
    <2>5. CASE ~p.in_hex
      BY <2>1, <2>4, <2>5
    <2>6. CASE p.in_hex /\ p.tentative_match # <<>>
      BY <2>1, <2>2, <2>6, EnteredNumberResult
    <2>7. CASE p.in_hex /\ p.tentative_match = <<>> /\ p.compose_buffer = <<>>
      BY <2>1, <2>2, <2>7, DroppedResult
    <2>8. CASE p.in_hex /\ p.tentative_match = <<>> /\ p.compose_buffer # <<>>
      BY <2>1, <2>2, <2>8, CancelledNumberResult
    <2> QED
      BY <2>5, <2>6, <2>7, <2>8
  <1>5. CASE InformTimeout
    <2>1. /\ simple' = [simple EXCEPT !.inform = FALSE, !.timer = FALSE, !.visible = TRUE]
          /\ simple.timer /\ UNCHANGED <<nested, loaded, held>>
      BY <1>5 DEF InformTimeout
    <2>2. Ready(simple') /\ SameKeys(simple, simple')
      BY <1>0, <2>1, ShownIsReady
    <2>3. Listed(simple') /\ simple'.client = simple.client
      BY <1>0, <2>2 DEF Listed, SameKeys
    <2>4. Ready(simple)' /\ Listed(simple)'
      BY <2>1, <2>2, <2>3, SameTables
    <2> QED
      BY <1>0, <2>1, <2>2, <2>3, <2>4, OtherStep DEF SameKeys, SameSequence
  <1>6. ASSUME NEW l \in {"include", "alone"}, LoadUserTable(l)
        PROVE  EngineInv' /\ ComposerStep
    <2>1. /\ loaded = "no" /\ loaded' = l /\ loaded' \in Tables /\ loaded' # "no"
          /\ UNCHANGED <<simple, nested, held>>
      BY <1>6 DEF LoadUserTable, Tables
    <2>2. Listed(simple)'
      BY <2>1 DEF Listed
    <2>3. simple.in_hex \/ Found(simple.compose_buffer)
      BY <1>0, <2>1, KeptIsFound DEF Listed
    <2>4. (Before(simple) /\ Composing(simple))'
      BY <1>0, <2>1, Zenon DEF Ready, Before, Record, Matched, Announced, Composing
    <2>5. Follows(simple)'
      BY <1>0, <2>1, <2>3, Zenon DEF Ready, Follows, Preedit, TypingIn
    <2>6. Ready(simple)'
      BY <2>4, <2>5 DEF Ready
    <2>7. SameSequence(simple, simple')
      BY <2>1 DEF SameSequence
    <2> QED
      BY <1>0, <2>1, <2>2, <2>6, <2>7, OtherStep
  <1>7. ASSUME NEW c \in ClientNames \ {"none"}, FocusIn(c)
        PROVE  EngineInv' /\ ComposerStep
    <2>1. /\ simple' = [simple EXCEPT !.client = c] /\ simple.client = "none"
          /\ UNCHANGED <<nested, loaded, held>> /\ ~TypingIn(simple)
      BY <1>0, <1>7 DEF FocusIn, EngineInv
    <2>2. Ready(simple') /\ SameSequence(simple, simple') /\ simple'.client = c
      BY <1>0, <2>1, FocusIsReady
    <2>3. Listed(simple')
      BY <1>0, <2>1, <2>2, NothingIsKept DEF Listed, SameSequence, TypingIn
    <2>4. Ready(simple)' /\ Listed(simple)'
      BY <2>1, <2>2, <2>3, SameTables
    <2> QED
      BY <1>0, <2>1, <2>2, <2>4, OtherStep
  <1>r. /\ Ready(Reset(simple)) /\ AbandonStep(Reset(simple)) /\ Listed(Reset(simple))
        /\ ~TypingIn(Reset(simple)) /\ ~Reset(simple).visible /\ ~Reset(simple).timer
    BY <1>0, ResetHandles DEF Handled
  <1>8. CASE SimpleFocusOut
    <2>1. simple' = FocusLeft /\ UNCHANGED <<nested, loaded, held>> /\ nested = <<>>
      BY <1>8 DEF SimpleFocusOut, Idle
    <2> DEFINE r == Reset(simple)
    <2>2. simple' = [r EXCEPT !.client = "none"]
      BY <2>1 DEF FocusLeft
    <2> HIDE DEF r
    <2>3. /\ Ready(r) /\ AbandonStep(r) /\ Listed(r) /\ ~TypingIn(r)
      BY <1>r DEF r
    <2>4. Ready(simple')
      BY <2>2, <2>3, FocusIsReady DEF ClientNames
    <2>5. Listed(simple') /\ ~TypingIn(simple') /\ AbandonStep(simple')
      BY <2>2, <2>3 DEF Listed, TypingIn, AbandonStep, Pending, Partial, Ready, Before, Record, Fields
    <2>6. Ready(simple)' /\ Listed(simple)'
      BY <2>1, <2>4, <2>5, SameTables
    <2> QED
      BY <1>0, <2>1, <2>5, <2>6, AbandonedStep
  <1>9. CASE SimpleReset
    <2>1. simple' = Reset(simple) /\ UNCHANGED <<nested, loaded, held>> /\ nested = <<>>
      BY <1>9 DEF SimpleReset, Idle
    <2>2. Ready(simple)' /\ Listed(simple)'
      BY <1>r, <2>1, SameTables
    <2> QED
      BY <1>0, <1>r, <2>1, <2>2, AbandonedStep
  <1>10. CASE UNCHANGED simpleVars
    <2>1. EngineInv'
      <3>1. UNCHANGED loaded /\ UNCHANGED simple /\ UNCHANGED <<nested, held>>
        BY <1>10 DEF simpleVars
      <3>2. Ready(simple)' /\ Listed(simple)'
        BY <1>0, <3>1, SameTables
      <3> QED
        BY <3>1, <3>2 DEF EngineInv, TypingIn
    <2>2. UNCHANGED Composer!composerVars
      BY <1>10 DEF simpleVars, Composer!composerVars, tables, Loaded
    <2> QED
      BY <2>1, <2>2 DEF ComposerStep
  <1> QED
    BY <1>1, <1>2, <1>3, <1>4, <1>5, <1>6, <1>7, <1>8, <1>9, <1>10, Zenon DEF SimpleNext

LEMMA EngineInvariant == SimpleSpec => []EngineInv
  BY EngineInit, EngineStep, PTL DEF SimpleSpec

(* The buffer never holds more keys than it has room for, nor the length   *)
(* of the part that can be entered more than a buffer of them, whatever the*)
(* keys, the calls of the handler by itself, the focus, the timer and the  *)
(* loading of the user's table do to the fields of IBusEngineSimplePrivate.*)
THEOREM SimpleTypeCorrect == SimpleSpec => []SimpleTypeOK
  <1>1. EngineInv => SimpleTypeOK
    BY Zenon DEF EngineInv, Ready, Before, Record, SimpleTypeOK, Tables
  <1> QED
    BY <1>1, EngineInvariant, PTL

(* The preedit on the screen is that of the sequence that is being typed,  *)
(* and the timer of ibus_engine_simple_update_preedit_text only waits where*)
(* a preedit was hidden for a message.                                     *)
THEOREM PreeditFollowsTyping == SimpleSpec => []PreeditFollows
  <1>1. EngineInv => PreeditFollows
    <2> SUFFICES ASSUME EngineInv
                 PROVE  PreeditFollows
      OBVIOUS
    <2>1. Follows(simple) /\ Announced(simple)
      BY DEF EngineInv, Ready, Before
    <2> QED
      BY <2>1 DEF Follows, Announced, TypingIn, PreeditFollows, Typing
  <1> QED
    BY <1>1, EngineInvariant, PTL

(* The engine implements the abstract composer: what is entered is what the*)
(* tables give for the keys that were typed, and a sequence only ends      *)
(* without a text if somebody was told or asked for it.                    *)
THEOREM EngineComposes == SimpleSpec => Composes
  <1>1. SimpleInit => /\ Pending(simple) = <<>> /\ Partial(simple) = <<>>
                      /\ simple.committed = <<>>
    BY DEF SimpleInit, Pending, Partial
  <1>2. EngineInv /\ [SimpleNext]_simpleVars
          => [Composer!ComposerNext]_(Composer!composerVars)
    BY EngineStep DEF ComposerStep
  <1> QED
    BY <1>1, <1>2, EngineInvariant, PTL DEF SimpleSpec, Composes, Composer!Composes, Pending, Partial

-----------------------------------------------------------------------------
(* The lookup table.  For every number of candidates and every size of a   *)
(* page: the cursor stays in the table, and a panel shows of the three     *)
(* pages it is sent what it would show of the whole table.                 *)

(* A position is the beginning of its page plus its place in the page. *)
LEMMA PageOfPosition ==
  ASSUME NEW pos \in Nat, NEW size \in Nat \ {0}
  PROVE  /\ pos \div size \in Nat
         /\ pos % size \in 0..(size - 1)
         /\ pos = (pos \div size) * size + (pos % size)
  BY SMT

LEMMA PlaceInPage ==
  ASSUME NEW pos \in Nat, NEW size \in Nat \ {0}
  PROVE  pos % size \in Nat /\ pos % size <= pos
  <1>1. pos \div size \in Nat /\ pos % size \in Nat
    BY PageOfPosition
  <1>2. (pos \div size) * size \in Nat
    BY <1>1, SMT
  <1> QED
    BY <1>1, <1>2, PageOfPosition

(* The type and the place of the cursor are inductive together: a move     *)
(* keeps the cursor only in a table whose length it knows.                 *)
TableInv == LookupTableTypeOK /\ CursorInTable

LEMMA MoveKeepsInv ==
  ASSUME TableInv, NEW pos \in Nat, pos < table.len, MoveTo(pos)
  PROVE  TableInv'
  BY DEF TableInv, LookupTableTypeOK, CursorInTable, MoveTo

LEMMA ClampedInTable ==
  ASSUME TableInv, table.len > 0, NEW pos \in Nat
  PROVE  Clamped(table, pos) \in Nat /\ Clamped(table, pos) < table.len
  BY DEF TableInv, LookupTableTypeOK, Clamped

(* Page_up from the first page computes a position beyond the table, which *)
(* is a number all the same.                                               *)
LEMMA PageCountIsNatural ==
  ASSUME TableInv
  PROVE  PageCount(table) * table.page_size + CursorInPage(table) \in Nat
  <1>1. table.len + table.page_size - 1 \in Nat /\ table.page_size \in Nat \ {0}
        /\ table.cursor_pos \in Nat
    BY LookupTableAssumption DEF TableInv, LookupTableTypeOK, PageSizes
  <1>2. CursorInPage(table) \in Nat
    BY <1>1, PlaceInPage, Zenon DEF CursorInPage
  <1>3. PageCount(table) \in Nat
    BY <1>1, PageOfPosition, Zenon DEF PageCount
  <1> QED
    BY <1>1, <1>2, <1>3, SMT

LEMMA TableInvStep == TableInv /\ [LookupTableNext]_table => TableInv'
  <1> SUFFICES ASSUME TableInv, [LookupTableNext]_table
               PROVE  TableInv'
    OBVIOUS
  <1> USE LookupTableAssumption DEF PageSizes
  <1>0. /\ table.len \in 0..MaxCandidates /\ table.cursor_pos \in Nat
        /\ table.page_size \in Nat \ {0}
    BY DEF TableInv, LookupTableTypeOK
  <1>1. CASE AppendCandidate
    BY <1>1 DEF AppendCandidate, TableInv, LookupTableTypeOK, CursorInTable
  <1>2. CASE Clear
    <2>1. table'.len = 0 /\ table'.cursor_pos = 0
      BY <1>2 DEF Clear, TableInv, LookupTableTypeOK
    <2>2. LookupTableTypeOK'
      <3> DEFINE cleared == [table EXCEPT !.len = 0]
      <3>1. cleared \in [len : 0..MaxCandidates, page_size : PageSizes, cursor_pos : Nat,
                         round : BOOLEAN]
        BY DEF TableInv, LookupTableTypeOK
      <3>2. table' = [cleared EXCEPT !.cursor_pos = 0]
        BY <1>2 DEF Clear
      <3> HIDE DEF cleared
      <3> QED
        BY <3>1, <3>2 DEF LookupTableTypeOK
    <2> QED
      BY <2>1, <2>2 DEF TableInv, CursorInTable
  <1>3. CASE \E pos \in 0..(MaxCandidates - 1) : SetCursorPos(pos)
    BY <1>3, <1>0, MoveKeepsInv DEF SetCursorPos
  <1>4. CASE \E size \in PageSizes : SetPageSize(size)
    BY <1>4 DEF SetPageSize, TableInv, LookupTableTypeOK, CursorInTable
  <1>5. CASE \E round \in BOOLEAN : SetRound(round)
    BY <1>5 DEF SetRound, TableInv, LookupTableTypeOK, CursorInTable
  <1>6. CASE PageUp
    <2>1. CASE table.cursor_pos < table.page_size
      <3> DEFINE pos == Clamped(table, PageCount(table) * table.page_size + CursorInPage(table))
      <3>1. pos \in Nat /\ pos < table.len
        BY <1>6, PageCountIsNatural, ClampedInTable DEF PageUp
      <3>2. MoveTo(pos)
        BY <1>6, <2>1 DEF PageUp
      <3> QED
        BY <3>1, <3>2, MoveKeepsInv
    <2>2. CASE ~(table.cursor_pos < table.page_size)
      <3>1. MoveTo(table.cursor_pos - table.page_size)
        BY <1>6, <2>2 DEF PageUp
      <3>2. table.cursor_pos < table.len
        BY <1>6 DEF PageUp, TableInv, CursorInTable
      <3> QED
        BY <3>1, <3>2, <2>2, <1>0, MoveKeepsInv
    <2> QED
      BY <2>1, <2>2
  <1>7. CASE PageDown
    <2>1. CASE Page(table) = PageCount(table) - 1
      <3>1. MoveTo(CursorInPage(table))
        BY <1>7, <2>1 DEF PageDown
      <3>2. CursorInPage(table) \in Nat /\ CursorInPage(table) <= table.cursor_pos
        BY <1>0, PlaceInPage, Zenon DEF CursorInPage
      <3>3. table.cursor_pos < table.len
        BY <1>7 DEF PageDown, TableInv, CursorInTable
      <3> QED
        BY <3>1, <3>2, <3>3, <1>0, MoveKeepsInv
    <2>2. CASE Page(table) # PageCount(table) - 1
      BY <1>7, <2>2, <1>0, ClampedInTable, MoveKeepsInv DEF PageDown
    <2> QED
      BY <2>1, <2>2
  <1>8. CASE CursorUp
    BY <1>8, <1>0, MoveKeepsInv DEF CursorUp, TableInv, CursorInTable
  <1>9. CASE CursorDown
    BY <1>9, <1>0, MoveKeepsInv DEF CursorDown, TableInv, CursorInTable
  <1>10. CASE UNCHANGED table
    BY <1>10 DEF TableInv, LookupTableTypeOK, CursorInTable
  <1> QED
    BY <1>1, <1>2, <1>3, <1>4, <1>5, <1>6, <1>7, <1>8, <1>9, <1>10 DEF LookupTableNext

LEMMA TableInvariant == LookupTableSpec => []TableInv
  <1>1. LookupTableInit => TableInv
    BY LookupTableAssumption
       DEF LookupTableInit, TableInv, LookupTableTypeOK, CursorInTable, PageSizes
  <1> QED
    BY <1>1, TableInvStep, PTL DEF LookupTableSpec

\* The table is well formed; no move makes the position of the cursor negative.
THEOREM LookupTableTypeCorrect == LookupTableSpec => []LookupTableTypeOK
  <1>1. TableInv => LookupTableTypeOK
    BY DEF TableInv
  <1> QED
    BY <1>1, TableInvariant, PTL

(* The cursor is always at a candidate of the table, however the pages of  *)
(* its moves wrap around (ibus_lookup_table_page_up, _page_down, ...).     *)
THEOREM CursorStaysInTable == LookupTableSpec => []CursorInTable
  <1>1. TableInv => CursorInTable
    BY DEF TableInv
  <1> QED
    BY <1>1, TableInvariant, PTL

-----------------------------------------------------------------------------

LEMMA FirstPage ==
  ASSUME NEW place \in Nat, NEW size \in Nat \ {0}, place < size
  PROVE  place \div size = 0
  BY SMT

LEMMA SecondPage ==
  ASSUME NEW place \in Nat, NEW size \in Nat \ {0}, place < size
  PROVE  (place + size) \div size = 1
  BY SMT

LEMMA LaterPage ==
  ASSUME NEW pos \in Nat, NEW size \in Nat \ {0}, pos >= size
  PROVE  (pos \div size) * size >= size
  <1>1. /\ pos \div size \in Nat
        /\ pos % size \in 0..(size - 1)
        /\ pos = (pos \div size) * size + (pos % size)
    BY PageOfPosition
  <1>2. pos \div size # 0
    BY <1>1, SMT
  <1> QED
    BY <1>1, <1>2, SMT

(* The panel's page of a table or of a part of it is known as soon as the  *)
(* beginning of the page is.                                               *)
ShownFrom(s, begin, size) ==
  [first  |-> s.first + begin,
   last   |-> s.first + (IF begin + size < s.len THEN begin + size ELSE s.len),
   cursor |-> s.first + s.cursor_pos,
   up     |-> begin > 0,
   down   |-> begin + size < s.len]

LEMMA SameFirstPage ==
  ASSUME NEW len \in Nat, NEW size \in Nat \ {0}, NEW pos \in Nat, ~(len < 4 * size)
  PROVE  ShownFrom([first |-> 0, len |-> 3 * size, cursor_pos |-> pos], 0, size)
           = ShownFrom([first |-> 0, len |-> len, cursor_pos |-> pos], 0, size)
  BY DEF ShownFrom

(* The length of three pages of a table, unless the table ends before *)
ThreePagesLength(begin, size, len) ==
  IF begin + 2 * size < len THEN 3 * size ELSE len - (begin - size)

LEMMA SameLaterPage ==
  ASSUME NEW len \in Nat, NEW size \in Nat \ {0}, NEW begin \in Nat, NEW place \in Nat,
         begin >= size, begin + place < len, place < size
  PROVE  ShownFrom([first |-> begin - size, len |-> ThreePagesLength(begin, size, len),
                    cursor_pos |-> place + size], size, size)
           = ShownFrom([first |-> 0, len |-> len, cursor_pos |-> begin + place], begin, size)
  <1> DEFINE sent == ThreePagesLength(begin, size, len)
  <1>0. sent \in Nat /\ sent = IF begin + 2 * size < len THEN 3 * size ELSE len - (begin - size)
    BY DEF ThreePagesLength
  <1> HIDE DEF sent
  <1>1. size + size < sent <=> begin + size < len
    BY <1>0, SMT
  <1>2. begin - size + (IF size + size < sent THEN size + size ELSE sent)
          = IF begin + size < len THEN begin + size ELSE len
    BY <1>0, SMT
  <1>3. begin - size + (place + size) = begin + place /\ begin - size + size = begin
    BY SMT
  <1>4. size > 0 /\ begin > 0
    BY SMT
  <1>5. ShownFrom([first |-> begin - size, len |-> sent, cursor_pos |-> place + size], size, size)
          = ShownFrom([first |-> 0, len |-> len, cursor_pos |-> begin + place], begin, size)
    BY <1>0, <1>1, <1>2, <1>3, <1>4 DEF ShownFrom
  <1> QED
    BY <1>5 DEF sent

LEMMA PagesSuffice == TableInv => ShownAlike
  <1> SUFFICES ASSUME TableInv, table.len > 0
               PROVE  Shown(Sent(table), table.page_size) = Shown(Whole(table), table.page_size)
    BY DEF ShownAlike
  <1> DEFINE len == table.len
             size == table.page_size
             pos == table.cursor_pos
             place == pos % size
             begin == (pos \div size) * size
  <1>1. len \in Nat /\ size \in Nat \ {0} /\ pos \in Nat /\ pos < len
    BY LookupTableAssumption DEF TableInv, LookupTableTypeOK, CursorInTable, PageSizes
  <1>2. begin \in Nat /\ place \in 0..(size - 1) /\ pos = begin + place
    <2>1. pos \div size \in Nat /\ place \in 0..(size - 1) /\ pos = begin + place
      BY <1>1, PageOfPosition
    <2> QED
      BY <2>1, <1>1, SMT
  <1>3. Shown(Whole(table), size) = ShownFrom([first |-> 0, len |-> len, cursor_pos |-> pos], begin, size)
    BY DEF Shown, ShownFrom, Whole
  <1>4. CASE len < 4 * size
    BY <1>4 DEF Sent
  <1>5. CASE ~(len < 4 * size) /\ pos < size
    <2>1. pos \div size = 0
      BY <1>1, <1>5, FirstPage
    <2>2. begin = 0 /\ place = pos
      BY <2>1, <1>1, <1>2, SMT
    <2>3. Sent(table) = [first |-> 0, len |-> 3 * size, cursor_pos |-> pos]
      <3>1. Sent(table) = ThreePages(table)
        BY <1>5 DEF Sent
      <3>2. Page(table) * size - 0 = 0 /\ CursorInPage(table) + 0 = pos
        BY <2>1, <2>2, <1>1 DEF Page, CursorInPage
      <3> QED
        BY <3>1, <3>2, <1>1, <1>5 DEF ThreePages
    <2>4. Shown(Sent(table), size)
            = ShownFrom([first |-> 0, len |-> 3 * size, cursor_pos |-> pos], 0, size)
      BY <2>1, <2>2, <2>3, <1>1 DEF Shown, ShownFrom
    <2>5. ShownFrom([first |-> 0, len |-> 3 * size, cursor_pos |-> pos], 0, size)
            = ShownFrom([first |-> 0, len |-> len, cursor_pos |-> pos], begin, size)
      BY <2>2, <1>1, <1>5, SameFirstPage
    <2> QED
      BY <2>4, <2>5, <1>3, Zenon
  <1>6. CASE ~(len < 4 * size) /\ ~(pos < size)
    <2> DEFINE three == ThreePagesLength(begin, size, len)
    <2>1. begin >= size
      BY <1>1, <1>6, LaterPage
    <2>2. Sent(table) = [first |-> begin - size, len |-> three, cursor_pos |-> place + size]
      <3>1. Sent(table) = ThreePages(table)
        BY <1>6 DEF Sent
      <3>2. Page(table) * size = begin /\ CursorInPage(table) = place
        BY DEF Page, CursorInPage
      <3>3. ThreePages(table)
              = [first |-> begin - size,
                 len |-> (IF begin - size + 3 * size < len THEN begin - size + 3 * size ELSE len)
                           - (begin - size),
                 cursor_pos |-> place + size]
        BY <3>2, <1>1, <1>6 DEF ThreePages
      <3>4. (IF begin - size + 3 * size < len THEN begin - size + 3 * size ELSE len)
              - (begin - size) = three
        BY <1>1, <1>2, SMT DEF ThreePagesLength
      <3> QED
        BY <3>1, <3>3, <3>4, Zenon
    <2>3. (place + size) \div size = 1
      <3>1. place \in Nat /\ place < size
        BY <1>1, <1>2
      <3> HIDE DEF place, size
      <3> QED
        BY <3>1, <1>1, SecondPage
    <2>4. Shown(Sent(table), size)
            = ShownFrom([first |-> begin - size, len |-> three, cursor_pos |-> place + size], size, size)
      <3>1. 1 * size = size
        BY <1>1
      <3> HIDE DEF place, size, begin, three
      <3> QED
        BY <2>2, <2>3, <3>1 DEF Shown, ShownFrom
    <2>5. ShownFrom([first |-> begin - size, len |-> three, cursor_pos |-> place + size], size, size)
            = ShownFrom([first |-> 0, len |-> len, cursor_pos |-> begin + place], begin, size)
      <3>1. place \in Nat /\ place < size /\ begin + place < len
        <4> HIDE DEF place, size, begin, len, pos
        <4> QED
          BY <2>1, <1>1, <1>2
      <3> HIDE DEF place, size, begin, len
      <3> QED
        BY <3>1, <2>1, <1>1, <1>2, SameLaterPage
    <2>6. begin + place = pos
      BY <1>2
    <2> QED
      BY <2>4, <2>5, <2>6, <1>3, Zenon
  <1> QED
    BY <1>4, <1>5, <1>6

(* The three pages that engines send are enough for the panel, for all     *)
(* tables (ibus_engine_update_lookup_table_fast).                          *)
THEOREM ThreePagesSuffice == LookupTableSpec => []ShownAlike
  BY TableInvariant, PagesSuffice, PTL

\* Both: the cursor is at a candidate, and the panel shows it at that one.
THEOREM CursorIsSeen == LookupTableSpec => []PanelSeesCursor
  <1>1. CursorInTable /\ ShownAlike => PanelSeesCursor
    BY DEF PanelSeesCursor
  <1> QED
    BY <1>1, CursorStaysInTable, ThreePagesSuffice, PTL
=============================================================================
