------------------------ MODULE GlobalEngine_proofs ------------------------
(***************************************************************************)
(* The focus protocol of GlobalEngine for any number of contexts, engines  *)
(* and requests.  Each handler changes the attachment in one of two ways:  *)
(* an engine moves (MoveEngine) or some contexts lose theirs (DropEngines).*)
(* The two lemmas carry the invariant, each step only shows which it is.   *)
(* The last part is about the departures that the runs find: each happens  *)
(* under one condition only.                                               *)
(***************************************************************************)
EXTENDS GlobalEngine, SequenceTheorems, TLAPS

(***************************************************************************)
(* The attachment of engines to contexts, as predicates of its parts.      *)
(***************************************************************************)
Attachment == [Contexts -> Engines \cup {None}]

Exclusive(eng) ==
  \A c, d \in Contexts : eng[c] # None /\ eng[c] = eng[d] => c = d

Mirrors(F, eng, hf) ==
  /\ F \subseteq Engines
  /\ \A e \in Engines : e \in F <=> \E c \in Contexts : hf[c] /\ eng[c] = e

Sound(F, eng, hf) == eng \in Attachment /\ Exclusive(eng) /\ Mirrors(F, eng, hf)

LEMMA NoneIsNoEngine ==
  ASSUME GlobalEngineAssumption
  PROVE  None \notin Engines /\ None \notin Contexts /\ None \notin Requests
         /\ None \notin Request /\ None \notin Names
  BY DEF GlobalEngineAssumption

LEMMA FakeIsContext == Fake \in Contexts
  BY DEF Contexts

(***************************************************************************)
(* An engine that no context but old holds goes to new: the engines old    *)
(* and new held before are out, the moved one follows the focus of new.    *)
(***************************************************************************)
LEMMA MoveEngine ==
  ASSUME GlobalEngineAssumption,
         NEW eng \in Attachment, NEW hf \in [Contexts -> BOOLEAN], NEW F, NEW G,
         NEW old \in Contexts, NEW new \in Contexts, NEW e \in Engines,
         Exclusive(eng),
         \A c \in Contexts : eng[c] = e => c = old,
         \A x \in Engines \ {e, eng[old], eng[new]} :
            x \in F <=> \E c \in Contexts : hf[c] /\ eng[c] = x,
         G \subseteq Engines,
         \A x \in Engines : x \in G <=>
            IF x = e THEN hf[new] ELSE x \in F /\ x # eng[old] /\ x # eng[new]
  PROVE  Sound(G, [eng EXCEPT ![old] = None, ![new] = e], hf)
<1> DEFINE eng2 == [eng EXCEPT ![old] = None, ![new] = e]
<1>1. eng2 \in Attachment
  BY DEF Attachment
<1>2. \A c \in Contexts : eng2[c] = IF c = new THEN e ELSE IF c = old THEN None ELSE eng[c]
  BY DEF Attachment
<1>3. e # None
  BY NoneIsNoEngine
<1> HIDE DEF eng2
<1>4. Exclusive(eng2)
  BY <1>2, <1>3 DEF Exclusive
<1>5. ASSUME NEW x \in Engines
      PROVE  x \in G <=> \E c \in Contexts : hf[c] /\ eng2[c] = x
  <2>1. x # None
    BY NoneIsNoEngine
  <2>2. CASE x = e
    <3>1. \A c \in Contexts : eng2[c] = e => c = new
      BY <1>2, <1>3
    <3> QED BY <2>2, <3>1, <1>2
  <2>3. CASE x # e /\ (x = eng[old] \/ x = eng[new])
    <3>1. x \notin G
      BY <2>3
    <3>2. \A c \in Contexts : eng[c] = x => c = old \/ c = new
      BY <2>1, <2>3 DEF Exclusive
    <3>3. \A c \in Contexts : eng2[c] # x
      BY <2>1, <2>3, <3>2, <1>2
    <3> QED BY <3>1, <3>3
  <2>4. CASE x # e /\ x # eng[old] /\ x # eng[new]
    <3>1. \A c \in Contexts : eng2[c] = x <=> eng[c] = x
      BY <2>1, <2>4, <1>2
    <3>2. x \in G <=> x \in F
      BY <2>4
    <3>3. x \in F <=> \E c \in Contexts : hf[c] /\ eng[c] = x
      BY <2>4
    <3> QED BY <3>1, <3>2, <3>3
  <2> QED BY <2>2, <2>3, <2>4
<1>6. Sound(G, eng2, hf)
  BY <1>1, <1>4, <1>5 DEF Sound, Mirrors
<1> QED BY <1>6 DEF eng2

(***************************************************************************)
(* Contexts lose their engines, and only such a context changes its focus. *)
(***************************************************************************)
LEMMA DropEngines ==
  ASSUME GlobalEngineAssumption,
         NEW eng \in Attachment, NEW eng2 \in Attachment,
         NEW hf \in [Contexts -> BOOLEAN], NEW hf2 \in [Contexts -> BOOLEAN],
         NEW F, NEW G,
         Sound(F, eng, hf),
         \A c \in Contexts : eng2[c] = None \/ (eng2[c] = eng[c] /\ hf2[c] = hf[c]),
         G \subseteq Engines,
         \A x \in Engines :
            x \in G <=> x \in F /\ \A c \in Contexts : eng[c] = x => eng2[c] = x
  PROVE  Sound(G, eng2, hf2)
<1>1. Exclusive(eng2)
  BY DEF Sound, Exclusive
<1>2. ASSUME NEW x \in Engines
      PROVE  x \in G <=> \E c \in Contexts : hf2[c] /\ eng2[c] = x
  <2>1. x # None
    BY NoneIsNoEngine
  <2>2. x \in F <=> \E c \in Contexts : hf[c] /\ eng[c] = x
    BY DEF Sound, Mirrors
  <2>3. ASSUME x \in G PROVE \E c \in Contexts : hf2[c] /\ eng2[c] = x
    BY <2>1, <2>2, <2>3
  <2>4. ASSUME NEW c \in Contexts, hf2[c], eng2[c] = x PROVE x \in G
    <3>1. eng[c] = x /\ hf[c]
      BY <2>1, <2>4
    <3>2. \A d \in Contexts : eng[d] = x => d = c
      BY <2>1, <3>1 DEF Sound, Exclusive
    <3> QED BY <2>2, <2>4, <3>1, <3>2
  <2> QED BY <2>3, <2>4
<1> QED BY <1>1, <1>2 DEF Sound, Mirrors

LEMMA MirrorsAsSet ==
  ASSUME GlobalEngineAssumption,
         NEW eng \in Attachment, NEW hf \in [Contexts -> BOOLEAN], NEW F
  PROVE  Mirrors(F, eng, hf) <=> F = {eng[c] : c \in {x \in Contexts : hf[x]}} \ {None}
<1>1. \A c \in Contexts : eng[c] # None => eng[c] \in Engines
  BY DEF Attachment
<1>2. \A x : x \in {eng[c] : c \in {y \in Contexts : hf[y]}} \ {None}
                <=> x # None /\ \E c \in Contexts : hf[c] /\ eng[c] = x
  OBVIOUS
<1>3. ASSUME Mirrors(F, eng, hf)
      PROVE  \A x : x \in F <=> x \in {eng[c] : c \in {y \in Contexts : hf[y]}} \ {None}
  BY <1>1, <1>2, <1>3, NoneIsNoEngine DEF Mirrors
<1>4. ASSUME F = {eng[c] : c \in {x \in Contexts : hf[x]}} \ {None}
      PROVE  Mirrors(F, eng, hf)
  BY <1>1, <1>2, <1>4, NoneIsNoEngine DEF Mirrors
<1>5. ASSUME Mirrors(F, eng, hf)
      PROVE  F = {eng[c] : c \in {x \in Contexts : hf[x]}} \ {None}
  BY <1>3, <1>5
<1> QED BY <1>4, <1>5

----------------------------------------------------------------------------
(* The invariant, and the two ways in which the focus changes hands.       *)

FocusInvariant == FocusedOwner /\ ExclusiveEngine /\ EngineFocus

NamesTyped ==
  /\ global_engine_name \in Names \cup {None}
  /\ global_previous_engine_name \in Names \cup {None}

LEMMA SoundNow ==
  ASSUME GlobalEngineAssumption, TypeOK, FocusInvariant
  PROVE  Sound(in_focus, engine, has_focus)
<1>1. engine \in Attachment /\ has_focus \in [Contexts -> BOOLEAN]
  BY DEF TypeOK, Attachment
<1>2. Mirrors(in_focus, engine, has_focus)
  BY <1>1, MirrorsAsSet DEF FocusInvariant, EngineFocus
<1> QED BY <1>1, <1>2 DEF Sound, FocusInvariant, ExclusiveEngine, Exclusive

LEMMA SoundNext ==
  ASSUME GlobalEngineAssumption, has_focus' \in [Contexts -> BOOLEAN],
         Sound(in_focus', engine', has_focus')
  PROVE  /\ engine' \in [Contexts -> Engines \cup {None}] /\ in_focus' \subseteq Engines
         /\ ExclusiveEngine' /\ EngineFocus'
<1>1. engine' \in Attachment
  BY DEF Sound
<1>2. in_focus' = {engine'[c] : c \in {x \in Contexts : has_focus'[x]}} \ {None}
  BY <1>1, MirrorsAsSet DEF Sound
<1>3. ExclusiveEngine'
  BY DEF Sound, Exclusive, ExclusiveEngine
<1>4. EngineFocus'
  BY <1>2 DEF EngineFocus
<1> QED BY <1>1, <1>3, <1>4 DEF Sound, Mirrors, Attachment

LEMMA EngineChangedTyped ==
  ASSUME NamesTyped, NEW e \in Engines, EngineChanged(e)
  PROVE  NamesTyped'
<1>1. e.desc \in Names
  BY DEF Engines
<1> QED BY <1>1 DEF EngineChanged, NamesTyped, nameVars

LEMMA SetFocusedSound ==
  ASSUME GlobalEngineAssumption, TypeOK, ExclusiveEngine,
         has_focus' \in [Contexts -> BOOLEAN],
         NEW c \in Contexts, c # focused_context, has_focus'[c],
         NEW F \in SUBSET Engines,
         \A x \in Engines \ {engine[focused_context]} :
            x \in F <=> \E d \in Contexts : has_focus'[d] /\ engine[d] = x,
         SetFocusedContext(c, F)
  PROVE  /\ Sound(in_focus', engine', has_focus')
         /\ focused_context' = c
         /\ NamesTyped'
<1>1. engine \in Attachment /\ focused_context \in Contexts /\ NamesTyped
  BY DEF TypeOK, Attachment, NamesTyped
<1>2. Exclusive(engine)
  BY DEF ExclusiveEngine, Exclusive
<1>3. focused_context' = c
  BY DEF SetFocusedContext
<1>4. CASE engine[focused_context] = None
  <2>1. in_focus' = F /\ engine' = engine /\ UNCHANGED nameVars
    BY <1>4 DEF SetFocusedContext
  <2>2. Sound(in_focus', engine', has_focus')
    BY <2>1, <1>1, <1>2, <1>4, NoneIsNoEngine DEF Sound, Mirrors
  <2> QED BY <2>1, <2>2, <1>1, <1>3 DEF nameVars, NamesTyped
<1>5. CASE engine[focused_context] # None
  <2> DEFINE e == engine[focused_context]
  <2>1. e \in Engines
    BY <1>1, <1>5 DEF Attachment
  <2>2. /\ engine' = [engine EXCEPT ![focused_context] = None, ![c] = e]
        /\ in_focus' = ((F \ {e}) \ {engine[c]}) \cup {e}
        /\ EngineChanged(e)
    BY <1>5 DEF SetFocusedContext, Moved, EngineFocusIn, EngineFocusOut
  <2>3. \A x \in Contexts : engine[x] = e => x = focused_context
    BY <1>1, <1>2, <1>5 DEF Exclusive
  <2>4. NamesTyped'
    BY <2>1, <2>2, <1>1, EngineChangedTyped
  <2> HIDE DEF e
  <2>5. in_focus' \subseteq Engines
    BY <2>1, <2>2
  <2>6. \A x \in Engines : x \in in_focus' <=>
           IF x = e THEN has_focus'[c]
           ELSE x \in F /\ x # engine[focused_context] /\ x # engine[c]
    BY <2>2 DEF e
  <2>7. \A x \in Engines \ {e, engine[focused_context], engine[c]} :
           x \in F <=> \E d \in Contexts : has_focus'[d] /\ engine[d] = x
    OBVIOUS
  <2>8. Sound(in_focus', [engine EXCEPT ![focused_context] = None, ![c] = e], has_focus')
    BY <1>1, <1>2, <2>1, <2>3, <2>5, <2>6, <2>7, MoveEngine
  <2> QED BY <2>2, <2>4, <2>8, <1>3
<1> QED BY <1>4, <1>5

LEMMA GainFocusSound ==
  ASSUME GlobalEngineAssumption, TypeOK, FocusInvariant,
         NEW c \in Contexts, NEW s \in BOOLEAN, GainFocus(c, s)
  PROVE  /\ Sound(in_focus', engine', has_focus')
         /\ has_focus' = [has_focus EXCEPT ![c] = TRUE]
         /\ has_focus' \in [Contexts -> BOOLEAN]
         /\ focused_context' \in {focused_context, c}
         /\ NamesTyped'
<1> DEFINE F == EngineFocusIn(in_focus, engine[c])
<1>1. Sound(in_focus, engine, has_focus)
  BY SoundNow
<1>2. has_focus' = [has_focus EXCEPT ![c] = TRUE]
  BY DEF GainFocus
<1>3. has_focus' \in [Contexts -> BOOLEAN]
  BY <1>2 DEF TypeOK
<1>4. \A d \in Contexts : has_focus'[d] = (d = c \/ has_focus[d])
  BY <1>2 DEF TypeOK
<1>5. F \in SUBSET Engines
  BY DEF TypeOK, EngineFocusIn
<1>6. \A x \in Engines : x \in F <=> x \in in_focus \/ x = engine[c]
  BY NoneIsNoEngine DEF EngineFocusIn
<1>7. \A x \in Engines : x \in F <=> \E d \in Contexts : has_focus'[d] /\ engine[d] = x
  BY <1>1, <1>4, <1>6 DEF Sound, Mirrors
<1> HIDE DEF F
<1>8. CASE s /\ focused_context # c
  <2>1. SetFocusedContext(c, F)
    BY <1>8 DEF GainFocus, F
  <2>2. has_focus'[c]
    BY <1>4
  <2>3. ExclusiveEngine
    BY DEF FocusInvariant
  <2>4. /\ Sound(in_focus', engine', has_focus')
        /\ focused_context' = c
        /\ NamesTyped'
    BY <2>1, <2>2, <2>3, <1>3, <1>5, <1>7, <1>8, SetFocusedSound
  <2> QED BY <2>4, <1>2, <1>3
<1>9. CASE ~(s /\ focused_context # c)
  <2>1. in_focus' = F /\ UNCHANGED <<engine, focused_context, nameVars>>
    BY <1>9 DEF GainFocus, F
  <2>2. Sound(in_focus', engine', has_focus')
    BY <2>1, <1>1, <1>5, <1>7 DEF Sound, Mirrors
  <2> QED BY <2>1, <2>2, <1>2, <1>3 DEF TypeOK, NamesTyped, nameVars
<1> QED BY <1>8, <1>9
----------------------------------------------------------------------------
(* The steps, one lemma each.                                              *)

Inv == TypeOK /\ FocusInvariant

\* The variables that the focus and the engines do not depend on.
RestTyped ==
  /\ status \in [Contexts -> {"free", "live", "zombie"}]
  /\ cap_focus \in [Contexts -> BOOLEAN]
  /\ data \in [Contexts -> Requests \cup {None}]
  /\ request \in [Requests -> Request \cup {None}]
  /\ register_engine_list \in Seq(Registrable)

LEMMA Assemble ==
  ASSUME GlobalEngineAssumption, RestTyped', NamesTyped', FocusedOwner',
         has_focus' \in [Contexts -> BOOLEAN], focused_context' \in Contexts,
         Sound(in_focus', engine', has_focus')
  PROVE  Inv'
<1>1. /\ engine' \in [Contexts -> Engines \cup {None}] /\ in_focus' \subseteq Engines
      /\ ExclusiveEngine' /\ EngineFocus'
  BY SoundNext
<1>2. TypeOK'
  BY <1>1 DEF TypeOK, RestTyped, NamesTyped
<1> QED BY <1>1, <1>2 DEF Inv, FocusInvariant

LEMMA ClientIsContext ==
  ASSUME GlobalEngineAssumption, NEW c \in Clients
  PROVE  c \in Contexts /\ c # Fake
  BY DEF GlobalEngineAssumption, Contexts

LEMMA CreateStep ==
  ASSUME GlobalEngineAssumption, Inv, NEW c \in Clients, CreateInputContext(c)
  PROVE  Inv'
<1>1. c \in Contexts /\ c # Fake
  BY ClientIsContext
<1>2. Sound(in_focus', engine', has_focus')
  BY SoundNow DEF Inv, CreateInputContext
<1>3. RestTyped'
  BY <1>1 DEF Inv, TypeOK, RestTyped, CreateInputContext, requestVars
<1>4. FocusedOwner'
  BY <1>1 DEF Inv, TypeOK, FocusInvariant, FocusedOwner, CreateInputContext
<1>5. NamesTyped' /\ has_focus' \in [Contexts -> BOOLEAN] /\ focused_context' \in Contexts
  BY DEF Inv, TypeOK, NamesTyped, CreateInputContext, nameVars
<1> QED BY <1>2, <1>3, <1>4, <1>5, Assemble

\* FocusIn and the key events: a live context gains the focus.
LEMMA GainStep ==
  ASSUME GlobalEngineAssumption, Inv, NEW c \in Clients, NEW s \in BOOLEAN,
         status[c] = "live", GainFocus(c, s), UNCHANGED <<status, requestVars>>,
         UNCHANGED register_engine_list, cap_focus' \in [Contexts -> BOOLEAN]
  PROVE  Inv'
<1>1. c \in Contexts /\ c # Fake
  BY ClientIsContext
<1>2. /\ Sound(in_focus', engine', has_focus')
      /\ has_focus' = [has_focus EXCEPT ![c] = TRUE]
      /\ has_focus' \in [Contexts -> BOOLEAN]
      /\ focused_context' \in {focused_context, c}
      /\ NamesTyped'
  BY <1>1, GainFocusSound DEF Inv
<1>3. RestTyped'
  BY DEF Inv, TypeOK, RestTyped, requestVars
<1>4. focused_context' \in Contexts
  BY <1>1, <1>2 DEF Inv, TypeOK
<1>5. FocusedOwner'
  BY <1>1, <1>2 DEF Inv, TypeOK, FocusInvariant, FocusedOwner
<1> QED BY <1>2, <1>3, <1>4, <1>5, Assemble

LEMMA SetCapabilitiesStep ==
  ASSUME GlobalEngineAssumption, Inv, NEW c \in Clients, NEW cap \in BOOLEAN,
         SetCapabilities(c, cap)
  PROVE  Inv'
<1>1. c \in Contexts
  BY ClientIsContext
<1>2. cap_focus' \in [Contexts -> BOOLEAN]
  BY <1>1 DEF Inv, TypeOK, SetCapabilities
<1>3. CASE cap \/ has_focus[c]
  <2>1. UNCHANGED <<status, has_focus, engine, in_focus, focused_context, nameVars,
                    requestVars, register_engine_list>>
    BY <1>3 DEF SetCapabilities
  <2>2. Sound(in_focus', engine', has_focus')
    BY <2>1, SoundNow DEF Inv
  <2>3. RestTyped'
    BY <1>2, <2>1 DEF Inv, TypeOK, RestTyped, requestVars
  <2>4. FocusedOwner'
    BY <2>1 DEF Inv, FocusInvariant, FocusedOwner
  <2>5. NamesTyped' /\ has_focus' \in [Contexts -> BOOLEAN] /\ focused_context' \in Contexts
    BY <2>1 DEF Inv, TypeOK, NamesTyped, nameVars
  <2> QED BY <2>2, <2>3, <2>4, <2>5, Assemble
<1>4. CASE ~(cap \/ has_focus[c])
  <2>1. GainFocus(c, FALSE)
    BY <1>4 DEF SetCapabilities
  <2> QED BY <1>2, <2>1, GainStep DEF SetCapabilities
<1> QED BY <1>3, <1>4

(***************************************************************************)
(* A context gives up the focus, and its engine goes to the fake context   *)
(* when it was the focused one.                                            *)
(***************************************************************************)
LEMMA LoseFocusSound ==
  ASSUME GlobalEngineAssumption, Inv, NEW c \in Clients,
         has_focus' = [has_focus EXCEPT ![c] = FALSE],
         NEW F \in SUBSET Engines,
         \A x \in Engines \ {engine[c]} : x \in F <=> x \in in_focus,
         focused_context = c, SetFocusedContext(Fake, F)
  PROVE  /\ Sound(in_focus', engine', has_focus')
         /\ has_focus' \in [Contexts -> BOOLEAN]
         /\ focused_context' = Fake
         /\ NamesTyped'
<1>1. c \in Contexts /\ c # Fake /\ Fake \in Contexts
  BY ClientIsContext, FakeIsContext
<1>2. has_focus' \in [Contexts -> BOOLEAN]
  BY <1>1 DEF Inv, TypeOK
<1>3. \A d \in Contexts : has_focus'[d] = (has_focus[d] /\ d # c)
  BY DEF Inv, TypeOK
<1>4. has_focus'[Fake]
  BY <1>1, <1>3 DEF Inv, FocusInvariant, FocusedOwner
<1>5. \A x \in Engines \ {engine[focused_context]} :
         x \in F <=> \E d \in Contexts : has_focus'[d] /\ engine[d] = x
  <2> SUFFICES ASSUME NEW x \in Engines, x # engine[c]
               PROVE  x \in F <=> \E d \in Contexts : has_focus'[d] /\ engine[d] = x
    OBVIOUS
  <2>1. x \in F <=> \E d \in Contexts : has_focus[d] /\ engine[d] = x
    BY SoundNow DEF Inv, Sound, Mirrors
  <2> QED BY <2>1, <1>3
<1>6. TypeOK /\ ExclusiveEngine
  BY DEF Inv, FocusInvariant
<1> QED BY <1>1, <1>2, <1>4, <1>5, <1>6, SetFocusedSound

LEMMA FocusOutStep ==
  ASSUME GlobalEngineAssumption, Inv, NEW c \in Clients, FocusOut(c)
  PROVE  Inv'
<1> DEFINE F == EngineFocusOut(in_focus, engine[c])
<1>1. c \in Contexts /\ c # Fake /\ Fake \in Contexts
  BY ClientIsContext, FakeIsContext
<1>2. has_focus' = [has_focus EXCEPT ![c] = FALSE]
  BY DEF FocusOut
<1>3. has_focus' \in [Contexts -> BOOLEAN]
  BY <1>1, <1>2 DEF Inv, TypeOK
<1>4. \A d \in Contexts : has_focus'[d] = (has_focus[d] /\ d # c)
  BY <1>2 DEF Inv, TypeOK
<1>5. F \in SUBSET Engines /\ F = in_focus \ {engine[c]}
  BY DEF Inv, TypeOK, EngineFocusOut
<1>6. RestTyped'
  BY DEF Inv, TypeOK, RestTyped, FocusOut, contextVars, requestVars
<1>7. UNCHANGED status
  BY DEF FocusOut, contextVars
<1>8. CASE focused_context = c
  <2>1. SetFocusedContext(Fake, F)
    BY <1>8 DEF FocusOut, IsFocused
  <2> HIDE DEF F
  <2>2. Sound(in_focus', engine', has_focus') /\ focused_context' = Fake /\ NamesTyped'
    BY <1>2, <1>5, <1>8, <2>1, LoseFocusSound
  <2>3. FocusedOwner'
    BY <1>1, <1>4, <1>7, <2>2 DEF Inv, FocusInvariant, FocusedOwner
  <2> QED BY <1>1, <1>3, <1>6, <2>2, <2>3, Assemble
<1>9. CASE focused_context # c
  <2>1. in_focus' = F /\ UNCHANGED <<engine, focused_context, nameVars>>
    BY <1>9 DEF FocusOut, IsFocused
  <2> HIDE DEF F
  <2>2. Sound(in_focus, engine, has_focus)
    BY SoundNow DEF Inv
  <2>3. \A x \in Engines : x \in F <=> \E d \in Contexts : has_focus'[d] /\ engine[d] = x
    <3> SUFFICES ASSUME NEW x \in Engines
                 PROVE  x \in F <=> \E d \in Contexts : has_focus'[d] /\ engine[d] = x
      OBVIOUS
    <3>1. x \in in_focus <=> \E d \in Contexts : has_focus[d] /\ engine[d] = x
      BY <2>2 DEF Sound, Mirrors
    <3>2. engine[c] = x => \A d \in Contexts : engine[d] = x => d = c
      BY <1>1, <2>2, NoneIsNoEngine DEF Sound, Exclusive
    <3> QED BY <1>4, <1>5, <3>1, <3>2
  <2>4. Sound(in_focus', engine', has_focus')
    BY <1>5, <2>1, <2>2, <2>3 DEF Sound, Mirrors
  <2>5. FocusedOwner'
    BY <1>1, <1>4, <1>7, <1>9, <2>1 DEF Inv, TypeOK, FocusInvariant, FocusedOwner
  <2>6. NamesTyped' /\ focused_context' \in Contexts
    BY <2>1 DEF Inv, TypeOK, NamesTyped, nameVars
  <2> QED BY <1>3, <1>6, <2>4, <2>5, <2>6, Assemble
<1> QED BY <1>8, <1>9

LEMMA DestroyStep ==
  ASSUME GlobalEngineAssumption, Inv, NEW c \in Clients, DestroyContext(c)
  PROVE  Inv'
<1>1. c \in Contexts /\ c # Fake /\ Fake \in Contexts
  BY ClientIsContext, FakeIsContext
<1>2. has_focus' = [has_focus EXCEPT ![c] = FALSE]
  BY DEF DestroyContext
<1>3. has_focus' \in [Contexts -> BOOLEAN]
  BY <1>1, <1>2 DEF Inv, TypeOK
<1>4. \A d \in Contexts : has_focus'[d] = (has_focus[d] /\ d # c)
  BY <1>2 DEF Inv, TypeOK
<1>5. RestTyped'
  BY <1>1 DEF Inv, TypeOK, RestTyped, DestroyContext, requestVars
<1>6. \A d \in Contexts \ {c} : status'[d] = status[d]
  BY DEF DestroyContext, Inv, TypeOK
<1>7. CASE focused_context = c
  <2>1. SetFocusedContext(Fake, in_focus)
    BY <1>7 DEF DestroyContext, IsFocused
  <2>2. in_focus \in SUBSET Engines
    BY DEF Inv, TypeOK
  <2>3. Sound(in_focus', engine', has_focus') /\ focused_context' = Fake /\ NamesTyped'
    BY <1>2, <1>7, <2>1, <2>2, LoseFocusSound
  <2>4. FocusedOwner'
    BY <1>1, <1>4, <1>6, <2>3 DEF Inv, FocusInvariant, FocusedOwner
  <2> QED BY <1>1, <1>3, <1>5, <2>3, <2>4, Assemble
<1>8. CASE focused_context # c
  <2>1. /\ engine' = [engine EXCEPT ![c] = None]
        /\ in_focus' = in_focus \ {engine[c]}
        /\ UNCHANGED <<focused_context, nameVars>>
    BY <1>8 DEF DestroyContext, IsFocused, EngineFocusOut
  <2>2. Sound(in_focus, engine, has_focus)
    BY SoundNow DEF Inv
  <2>3. engine \in Attachment /\ engine' \in Attachment /\ has_focus \in [Contexts -> BOOLEAN]
    BY <2>1 DEF Inv, TypeOK, Attachment
  <2>4. \A d \in Contexts : engine'[d] = None
                            \/ (engine'[d] = engine[d] /\ has_focus'[d] = has_focus[d])
    BY <1>1, <1>4, <2>1, <2>3 DEF Attachment
  <2>5. in_focus' \subseteq Engines
    BY <2>1 DEF Inv, TypeOK
  <2>6. \A x \in Engines : x \in in_focus' <=>
           x \in in_focus /\ \A d \in Contexts : engine[d] = x => engine'[d] = x
    <3> SUFFICES ASSUME NEW x \in Engines
                 PROVE  x \in in_focus' <=>
                          x \in in_focus /\ \A d \in Contexts : engine[d] = x => engine'[d] = x
      OBVIOUS
    <3>1. x # None
      BY NoneIsNoEngine
    <3>2. (\A d \in Contexts : engine[d] = x => engine'[d] = x) <=> engine[c] # x
      BY <1>1, <2>1, <2>3, <3>1 DEF Attachment
    <3> QED BY <2>1, <3>2
  <2>7. Sound(in_focus', engine', has_focus')
    BY <1>3, <2>2, <2>3, <2>4, <2>5, <2>6, DropEngines
  <2>8. FocusedOwner'
    BY <1>1, <1>4, <1>6, <1>8, <2>1 DEF Inv, TypeOK, FocusInvariant, FocusedOwner
  <2>9. NamesTyped' /\ focused_context' \in Contexts
    BY <2>1 DEF Inv, TypeOK, NamesTyped, nameVars
  <2> QED BY <1>3, <1>5, <2>7, <2>8, <2>9, Assemble
<1> QED BY <1>7, <1>8
----------------------------------------------------------------------------
(* Requests. *)

LEMMA SetEngineByDescTyped ==
  ASSUME GlobalEngineAssumption, data \in [Contexts -> Requests \cup {None}],
         NEW pending \in [Requests -> Request \cup {None}],
         NEW r \in Requests, NEW c \in Contexts, NEW n \in Names, NEW caller \in Callers,
         SetEngineByDesc(r, c, n, caller, pending)
  PROVE  /\ request' \in [Requests -> Request \cup {None}]
         /\ data' \in [Contexts -> Requests \cup {None}]
<1>1. [context |-> c, name |-> n, caller |-> caller, lost |-> FALSE] \in Request
  BY DEF Request
<1> QED BY <1>1 DEF SetEngineByDesc

\* A step that leaves the attachment and the focus alone.
LEMMA QuietStep ==
  ASSUME GlobalEngineAssumption, Inv, RestTyped', FocusedOwner',
         UNCHANGED <<has_focus, engine, in_focus, focused_context, nameVars>>
  PROVE  Inv'
<1>1. Sound(in_focus', engine', has_focus')
  BY SoundNow DEF Inv
<1>2. NamesTyped' /\ has_focus' \in [Contexts -> BOOLEAN] /\ focused_context' \in Contexts
  BY DEF Inv, TypeOK, NamesTyped, nameVars
<1> QED BY <1>1, <1>2, Assemble

LEMMA SetGlobalEngineStep ==
  ASSUME GlobalEngineAssumption, Inv, NEW r \in Requests, NEW n \in Names,
         SetGlobalEngine(r, n)
  PROVE  Inv'
<1>1. /\ request' \in [Requests -> Request \cup {None}]
      /\ data' \in [Contexts -> Requests \cup {None}]
  BY SetEngineByDescTyped DEF SetGlobalEngine, Inv, TypeOK, Callers
<1>2. RestTyped'
  BY <1>1 DEF RestTyped, SetGlobalEngine, Inv, TypeOK, contextVars
<1>3. FocusedOwner'
  BY DEF FocusedOwner, SetGlobalEngine, Inv, FocusInvariant, contextVars
<1>4. UNCHANGED <<has_focus, engine, in_focus, focused_context, nameVars>>
  BY DEF SetGlobalEngine
<1> QED BY <1>2, <1>3, <1>4, QuietStep

\* The end of a request frees its context at most, and a live one never.
LEMMA FinishedStatus ==
  ASSUME GlobalEngineAssumption, Inv, NEW r \in Requests, NEW c \in Contexts, NEW eng,
         status' = [status EXCEPT ![c] = Finished(r, c, eng)]
  PROVE  /\ status' \in [Contexts -> {"free", "live", "zombie"}]
         /\ \A d \in Contexts : status[d] = "live" => status'[d] = "live"
  BY DEF Inv, TypeOK, Finished

LEMMA EngineFailedStep ==
  ASSUME GlobalEngineAssumption, Inv, NEW r \in Requests, EngineFailed(r)
  PROVE  Inv'
<1> DEFINE c == request[r].context
<1>1. c \in Contexts
  BY DEF EngineFailed, Inv, TypeOK, Request
<1>2. /\ request' = [request EXCEPT ![r] = None]
      /\ data' = [data EXCEPT ![c] = IF data[c] = r THEN None ELSE data[c]]
      /\ status' = [status EXCEPT ![c] = Finished(r, c, engine)]
  BY DEF EngineFailed, DataCleared
<1>3. UNCHANGED <<cap_focus, has_focus, engine, in_focus, focused_context, nameVars,
                  register_engine_list>>
  BY DEF EngineFailed
<1> HIDE DEF c
<1>4. /\ status' \in [Contexts -> {"free", "live", "zombie"}]
      /\ \A d \in Contexts : status[d] = "live" => status'[d] = "live"
  BY <1>1, <1>2, FinishedStatus
<1>5. RestTyped'
  BY <1>1, <1>2, <1>3, <1>4 DEF RestTyped, Inv, TypeOK
<1>6. FocusedOwner'
  BY <1>3, <1>4, FakeIsContext DEF FocusedOwner, Inv, FocusInvariant
<1> QED BY <1>3, <1>5, <1>6, QuietStep

LEMMA EngineReadyStep ==
  ASSUME GlobalEngineAssumption, Inv, NEW r \in Requests, EngineReady(r)
  PROVE  Inv'
<1> DEFINE c == request[r].context
           d == Destination(r)
           F == EngineFocusOut(EngineFocusOut(in_focus, engine[c]), engine[d])
<1>1. c \in Contexts /\ d \in Contexts
  BY DEF EngineReady, Inv, TypeOK, Request, Destination
<1>2. PICK e \in FreshEngines(request[r].name) :
         /\ engine' = Moved(c, d, e)
         /\ in_focus' = IF has_focus[d] THEN EngineFocusIn(F, e) ELSE F
         /\ IF IsFocused(d) THEN EngineChanged(e) ELSE UNCHANGED nameVars
         /\ request' = [request EXCEPT ![r] = None]
         /\ data' = DataCleared(r, c)
         /\ status' = [status EXCEPT ![c] = Finished(r, c, engine')]
  BY DEF EngineReady
<1>3. UNCHANGED <<cap_focus, has_focus, focused_context, register_engine_list>>
  BY DEF EngineReady
<1>4. e \in Engines /\ \A x \in Contexts : engine[x] # e
  BY DEF FreshEngines
<1>5. engine' = [engine EXCEPT ![c] = None, ![d] = e]
  BY <1>2 DEF Moved
<1>6. \A x \in Engines : x \in F <=> x \in in_focus /\ x # engine[c] /\ x # engine[d]
  BY DEF EngineFocusOut
<1>7. F \subseteq Engines
  BY <1>6 DEF EngineFocusOut, Inv, TypeOK
<1>8. in_focus' = IF has_focus[d] THEN F \cup {e} ELSE F
  BY <1>2, <1>4, NoneIsNoEngine DEF EngineFocusIn
<1>9. data' = [data EXCEPT ![c] = IF data[c] = r THEN None ELSE data[c]]
  BY <1>2 DEF DataCleared
<1> HIDE DEF c, d, F
<1>10. Sound(in_focus, engine, has_focus)
  BY SoundNow DEF Inv
<1>11. engine \in Attachment /\ has_focus \in [Contexts -> BOOLEAN]
  BY DEF Inv, TypeOK, Attachment
<1>12. \A x \in Engines : x \in in_focus <=> \E y \in Contexts : has_focus[y] /\ engine[y] = x
  BY <1>10 DEF Sound, Mirrors
<1>13. e \notin in_focus
  BY <1>4, <1>12
<1>14. \A x \in Engines : x \in in_focus' <=>
          IF x = e THEN has_focus[d] ELSE x \in in_focus /\ x # engine[c] /\ x # engine[d]
  BY <1>1, <1>6, <1>8, <1>11, <1>13
<1>15. in_focus' \subseteq Engines
  BY <1>4, <1>7, <1>8
<1>16. Exclusive(engine) /\ \A x \in Contexts : engine[x] = e => x = c
  BY <1>4, <1>10 DEF Sound
<1>17. \A x \in Engines \ {e, engine[c], engine[d]} :
          x \in in_focus <=> \E y \in Contexts : has_focus[y] /\ engine[y] = x
  BY <1>12
<1>18. Sound(in_focus', [engine EXCEPT ![c] = None, ![d] = e], has_focus)
  BY <1>1, <1>4, <1>11, <1>14, <1>15, <1>16, <1>17, MoveEngine
<1>19. Sound(in_focus', engine', has_focus')
  BY <1>3, <1>5, <1>18
<1>20. NamesTyped
  BY DEF Inv, TypeOK, NamesTyped
<1>21. NamesTyped'
  <2>1. CASE EngineChanged(e)
    BY <1>4, <1>20, <2>1, EngineChangedTyped
  <2>2. CASE UNCHANGED nameVars
    BY <1>20, <2>2 DEF NamesTyped, nameVars
  <2> QED BY <1>2, <2>1, <2>2
<1>22. /\ status' \in [Contexts -> {"free", "live", "zombie"}]
       /\ \A x \in Contexts : status[x] = "live" => status'[x] = "live"
  BY <1>1, <1>2, FinishedStatus
<1>23. RestTyped'
  BY <1>1, <1>2, <1>3, <1>9, <1>22 DEF RestTyped, Inv, TypeOK
<1>24. FocusedOwner'
  BY <1>3, <1>22, FakeIsContext DEF FocusedOwner, Inv, FocusInvariant
<1>25. has_focus' \in [Contexts -> BOOLEAN] /\ focused_context' \in Contexts
  BY <1>3 DEF Inv, TypeOK
<1> QED BY <1>19, <1>21, <1>23, <1>24, <1>25, Assemble
----------------------------------------------------------------------------
(* Components. *)

LEMMA RegisterStep ==
  ASSUME GlobalEngineAssumption, Inv, NEW n \in Registrable, RegisterComponent(n)
  PROVE  Inv'
<1>1. RestTyped'
  BY DEF RestTyped, RegisterComponent, Inv, TypeOK, contextVars, requestVars
<1>2. FocusedOwner'
  BY DEF FocusedOwner, RegisterComponent, Inv, FocusInvariant, contextVars
<1>3. UNCHANGED <<has_focus, engine, in_focus, focused_context, nameVars>>
  BY DEF RegisterComponent
<1> QED BY <1>1, <1>2, <1>3, QuietStep

(***************************************************************************)
(* The engines of a component go, and the focused context loses its engine *)
(* too when unset holds.                                                   *)
(***************************************************************************)
LEMMA ComponentLossSound ==
  ASSUME GlobalEngineAssumption, Inv, NEW n \in Names, NEW unset \in BOOLEAN,
         engine' = IF unset THEN [Surviving(n) EXCEPT ![focused_context] = None]
                   ELSE Surviving(n),
         in_focus' = IF unset THEN (in_focus \ EnginesOf(n)) \ {engine[focused_context]}
                     ELSE in_focus \ EnginesOf(n),
         has_focus' = has_focus
  PROVE  Sound(in_focus', engine', has_focus')
<1>1. Sound(in_focus, engine, has_focus)
  BY SoundNow DEF Inv
<1>2. engine \in Attachment /\ has_focus \in [Contexts -> BOOLEAN] /\ focused_context \in Contexts
  BY DEF Inv, TypeOK, Attachment
<1>3. Surviving(n) \in Attachment
  BY <1>2 DEF Surviving, Attachment
<1>4. \A c \in Contexts :
        engine'[c] = IF HasEngineOf(c, n) \/ (unset /\ c = focused_context) THEN None
                     ELSE engine[c]
  BY <1>2, <1>3 DEF Surviving, Attachment
<1>5. engine' \in Attachment
  BY <1>2, <1>3 DEF Attachment
<1>6. in_focus' \subseteq Engines
  BY DEF Inv, TypeOK
<1>7. ASSUME NEW x \in Engines
      PROVE  x \in in_focus' <=>
               x \in in_focus /\ \A c \in Contexts : engine[c] = x => engine'[c] = x
  <2>1. x # None
    BY NoneIsNoEngine
  <2>2. x \in EnginesOf(n) <=> x.desc = n
    BY DEF EnginesOf
  <2>3. \A c \in Contexts : engine[c] = x => (HasEngineOf(c, n) <=> x.desc = n)
    BY <2>1 DEF HasEngineOf
  <2>4. ASSUME x \in in_focus'
        PROVE  x \in in_focus /\ \A c \in Contexts : engine[c] = x => engine'[c] = x
    BY <1>4, <2>2, <2>3, <2>4
  <2>5. ASSUME x \in in_focus, \A c \in Contexts : engine[c] = x => engine'[c] = x
        PROVE  x \in in_focus'
    <3>1. PICK c \in Contexts : engine[c] = x
      BY <1>1, <2>5 DEF Sound, Mirrors
    <3>2. x.desc # n
      BY <1>4, <2>1, <2>3, <2>5, <3>1
    <3>3. unset => engine[focused_context] # x
      BY <1>2, <1>4, <2>1, <2>5
    <3> QED BY <2>2, <2>5, <3>2, <3>3
  <2> QED BY <2>4, <2>5
<1>8. \A c \in Contexts : engine'[c] = None
                          \/ (engine'[c] = engine[c] /\ has_focus'[c] = has_focus[c])
  BY <1>4
<1>9. has_focus' \in [Contexts -> BOOLEAN]
  BY <1>2
<1>10. \A x \in Engines : x \in in_focus' <=>
          x \in in_focus /\ \A c \in Contexts : engine[c] = x => engine'[c] = x
  BY <1>7
<1> DEFINE eng2 == engine'
           hf2  == has_focus'
           G    == in_focus'
<1>11. eng2 \in Attachment /\ hf2 \in [Contexts -> BOOLEAN] /\ G \subseteq Engines
  BY <1>5, <1>6, <1>9
<1>12. \A c \in Contexts : eng2[c] = None \/ (eng2[c] = engine[c] /\ hf2[c] = has_focus[c])
  BY <1>8
<1>13. \A x \in Engines : x \in G <=>
          x \in in_focus /\ \A c \in Contexts : engine[c] = x => eng2[c] = x
  BY <1>10
<1> HIDE DEF eng2, hf2, G
<1>14. Sound(G, eng2, hf2)
  BY <1>1, <1>2, <1>11, <1>12, <1>13, DropEngines
<1> QED BY <1>14 DEF eng2, hf2, G

LEMMA RegistryComponentStep ==
  ASSUME GlobalEngineAssumption, Inv, NEW n \in Registry, RegistryComponentGone(n)
  PROVE  Inv'
<1>1. n \in Names
  BY DEF Names
<1>2. /\ engine' = Surviving(n) /\ in_focus' = in_focus \ EnginesOf(n)
      /\ UNCHANGED <<contextVars, has_focus, focused_context, nameVars, requestVars,
                     register_engine_list>>
  BY DEF RegistryComponentGone
<1>3. Sound(in_focus', engine', has_focus')
  BY <1>1, <1>2, ComponentLossSound
<1>4. RestTyped' /\ NamesTyped'
  BY <1>2 DEF RestTyped, NamesTyped, Inv, TypeOK, contextVars, requestVars, nameVars
<1>5. FocusedOwner'
  BY <1>2 DEF FocusedOwner, Inv, FocusInvariant, contextVars
<1>6. has_focus' \in [Contexts -> BOOLEAN] /\ focused_context' \in Contexts
  BY <1>2 DEF Inv, TypeOK
<1> QED BY <1>3, <1>4, <1>5, <1>6, Assemble

LEMMA RemoveAtTyped ==
  ASSUME NEW S, NEW s \in Seq(S), NEW i \in 1..Len(s)
  PROVE  RemoveAt(s, i) \in Seq(S)
<1>1. Len(s) \in Nat /\ \A j \in 1..Len(s) : s[j] \in S
  OBVIOUS
<1>2. i - 1 \in Int /\ i + 1 \in Int /\ Len(s) \in Int
  BY <1>1
<1>3. \A j \in 1..(i - 1) : s[j] \in S
  BY <1>1
<1>4. \A j \in (i + 1)..Len(s) : s[j] \in S
  BY <1>1
<1>5. SubSeq(s, 1, i - 1) \in Seq(S)
  BY <1>2, <1>3, SubSeqProperties
<1>6. SubSeq(s, i + 1, Len(s)) \in Seq(S)
  BY <1>2, <1>4, SubSeqProperties
<1> QED BY <1>5, <1>6, ConcatProperties DEF RemoveAt

LEMMA WithoutTyped ==
  ASSUME register_engine_list \in Seq(Registrable),
         NEW n \in ToSet(register_engine_list)
  PROVE  Without(n) \in Seq(Registrable)
<1> DEFINE i == CHOOSE j \in 1..Len(register_engine_list) : register_engine_list[j] = n
<1>1. i \in 1..Len(register_engine_list)
  BY DEF ToSet
<1>2. Without(n) = RemoveAt(register_engine_list, i)
  BY DEF Without
<1> HIDE DEF i
<1> QED BY <1>1, <1>2, RemoveAtTyped

LEMMA RequestsLostTyped ==
  ASSUME request \in [Requests -> Request \cup {None}], NEW n
  PROVE  RequestsLost(n) \in [Requests -> Request \cup {None}]
<1>1. \A r \in Requests : request[r] # None => [request[r] EXCEPT !.lost = TRUE] \in Request
  BY DEF Request
<1> QED BY <1>1 DEF RequestsLost

LEMMA SuccessorIsName ==
  ASSUME NEW ns \in Seq(Registrable), ns # <<>>
  PROVE  Successor(ns) \in Names
<1>1. Head(ns) \in Registrable
  OBVIOUS
<1>2. ToSet(ns) \subseteq Registrable
  BY DEF ToSet
<1> QED BY <1>1, <1>2 DEF Successor, Names

LEMMA RegisteredComponentStep ==
  ASSUME GlobalEngineAssumption, Inv, NEW n \in Registrable, RegisteredComponentGone(n)
  PROVE  Inv'
<1> DEFINE ns == Without(n)
<1>1. n \in Names
  BY DEF Names
<1>2. ns \in Seq(Registrable) /\ register_engine_list' = ns
  BY WithoutTyped DEF RegisteredComponentGone, Inv, TypeOK
<1>3. UNCHANGED <<contextVars, has_focus, focused_context, nameVars>>
  BY DEF RegisteredComponentGone
<1>4. RequestsLost(n) \in [Requests -> Request \cup {None}]
  BY RequestsLostTyped DEF Inv, TypeOK
<1>5. /\ request' \in [Requests -> Request \cup {None}]
      /\ data' \in [Contexts -> Requests \cup {None}]
      /\ Sound(in_focus', engine', has_focus')
  <2>1. data \in [Contexts -> Requests \cup {None}] /\ focused_context \in Contexts
    BY DEF Inv, TypeOK
  <2>2. CASE GlobalEngineKept(n, ns)
    <3>1. Sound(in_focus', engine', has_focus')
      BY <1>1, <1>3, <2>2, ComponentLossSound DEF GlobalEngineKept
    <3> QED BY <1>4, <2>1, <2>2, <3>1 DEF GlobalEngineKept
  <2>3. ASSUME NEW r \in Requests, GlobalEngineSwitched(n, ns, r)
        PROVE  /\ request' \in [Requests -> Request \cup {None}]
               /\ data' \in [Contexts -> Requests \cup {None}]
               /\ Sound(in_focus', engine', has_focus')
    <3>1. Sound(in_focus', engine', has_focus')
      BY <1>1, <1>3, <2>3, ComponentLossSound DEF GlobalEngineSwitched
    <3>2. Successor(ns) \in Names
      BY <1>2, <2>3, SuccessorIsName DEF GlobalEngineSwitched
    <3>3. "check_global_engine" \in Callers
      BY DEF Callers
    <3>4. SetEngineByDesc(r, focused_context, Successor(ns), "check_global_engine",
                          RequestsLost(n))
      BY <2>3 DEF GlobalEngineSwitched
    <3> HIDE DEF ns
    <3> QED BY <1>4, <2>1, <3>1, <3>2, <3>3, <3>4, SetEngineByDescTyped
  <2>4. CASE GlobalEngineUnset(n, ns)
    <3>1. Sound(in_focus', engine', has_focus')
      BY <1>1, <1>3, <2>4, ComponentLossSound DEF GlobalEngineUnset, EngineFocusOut
    <3> QED BY <1>4, <2>1, <2>4, <3>1 DEF GlobalEngineUnset
  <2> QED BY <2>2, <2>3, <2>4 DEF RegisteredComponentGone
<1> HIDE DEF ns
<1>6. RestTyped' /\ NamesTyped'
  BY <1>2, <1>3, <1>5 DEF RestTyped, NamesTyped, Inv, TypeOK, contextVars, nameVars
<1>7. FocusedOwner'
  BY <1>3 DEF FocusedOwner, Inv, FocusInvariant, contextVars
<1>8. has_focus' \in [Contexts -> BOOLEAN] /\ focused_context' \in Contexts
  BY <1>3 DEF Inv, TypeOK
<1> QED BY <1>5, <1>6, <1>7, <1>8, Assemble

----------------------------------------------------------------------------
(* The theorems. *)

LEMMA InitHolds ==
  ASSUME GlobalEngineAssumption, Init
  PROVE  Inv
<1>1. TypeOK
  BY FakeIsContext DEF Init, TypeOK
<1>2. FocusedOwner
  BY FakeIsContext DEF Init, FocusedOwner
<1>3. ExclusiveEngine
  BY DEF Init, ExclusiveEngine
<1>4. EngineFocus
  BY DEF Init, EngineFocus
<1> QED BY <1>1, <1>2, <1>3, <1>4 DEF Inv, FocusInvariant

LEMMA InvStep ==
  ASSUME GlobalEngineAssumption, Inv, [Next]_vars
  PROVE  Inv'
<1>1. ASSUME NEW c \in Clients, CreateInputContext(c) PROVE Inv'
  BY <1>1, CreateStep
<1>2. ASSUME NEW c \in Clients, FocusIn(c) PROVE Inv'
  BY <1>2, GainStep DEF FocusIn, contextVars, Inv, TypeOK
<1>3. ASSUME NEW c \in Clients, FocusOut(c) PROVE Inv'
  BY <1>3, FocusOutStep
<1>4. ASSUME NEW c \in Clients, NEW cap \in BOOLEAN, SetCapabilities(c, cap) PROVE Inv'
  BY <1>4, SetCapabilitiesStep
<1>5. ASSUME NEW c \in Clients, KeyWithoutFocus(c) PROVE Inv'
  <2>1. cap_focus[c] \in BOOLEAN
    BY ClientIsContext DEF Inv, TypeOK
  <2> QED BY <1>5, <2>1, GainStep DEF KeyWithoutFocus, contextVars, Inv, TypeOK
<1>6. ASSUME NEW c \in Clients, KeyAfterLostFocus(c) PROVE Inv'
  BY <1>6, GainStep DEF KeyAfterLostFocus, contextVars, Inv, TypeOK
<1>7. ASSUME NEW c \in Clients, DestroyContext(c) PROVE Inv'
  BY <1>7, DestroyStep
<1>8. ASSUME NEW r \in Requests, NEW n \in Names, SetGlobalEngine(r, n) PROVE Inv'
  BY <1>8, SetGlobalEngineStep
<1>9. ASSUME NEW r \in Requests, EngineReady(r) \/ EngineFailed(r) PROVE Inv'
  BY <1>9, EngineReadyStep, EngineFailedStep
<1>10. ASSUME NEW n \in Registrable, RegisterComponent(n) \/ RegisteredComponentGone(n)
       PROVE  Inv'
  BY <1>10, RegisterStep, RegisteredComponentStep
<1>11. ASSUME NEW n \in Registry, RegistryComponentGone(n) PROVE Inv'
  BY <1>11, RegistryComponentStep
<1>12. CASE UNCHANGED vars
  <2>1. UNCHANGED <<has_focus, engine, in_focus, focused_context, nameVars>>
    BY <1>12 DEF vars
  <2>2. RestTyped'
    BY <1>12 DEF vars, contextVars, requestVars, RestTyped, Inv, TypeOK
  <2>3. FocusedOwner'
    BY <1>12 DEF vars, contextVars, FocusedOwner, Inv, FocusInvariant
  <2> QED BY <2>1, <2>2, <2>3, QuietStep
<1> QED BY <1>1, <1>2, <1>3, <1>4, <1>5, <1>6, <1>7, <1>8, <1>9, <1>10, <1>11, <1>12
        DEF Next, ProcessKeyEvent

LEMMA Invariance == Spec => []Inv
<1>1. Init => Inv
  BY GlobalEngineAssumption, InitHolds
<1>2. Inv /\ [Next]_vars => Inv'
  BY GlobalEngineAssumption, InvStep
<1> QED BY <1>1, <1>2, PTL DEF Spec

(***************************************************************************)
(* Through every interleaving of focus changes, destroyed contexts,        *)
(* requests and dying components an engine is attached to one context, the *)
(* engine process knows the focus of that context, and the focused context *)
(* is one that exists and has the focus.                                   *)
(***************************************************************************)
THEOREM FocusProtocol == Spec => [](TypeOK /\ ExclusiveEngine /\ FocusAgrees)
<1>1. Inv => TypeOK /\ ExclusiveEngine /\ FocusAgrees
  BY DEF Inv, FocusInvariant, FocusAgrees
<1> QED BY <1>1, Invariance, PTL

(***************************************************************************)
(* Handlers keep the shapes of contexts, engines and requests: a freed     *)
(* context or request is never written to.                                 *)
(***************************************************************************)
THEOREM TypeCorrect == Spec => []TypeOK
BY FocusProtocol, PTL

(***************************************************************************)
(* An engine proxy is attached to one context at most.                     *)
(***************************************************************************)
THEOREM EngineHasOneContext == Spec => []ExclusiveEngine
BY FocusProtocol, PTL

----------------------------------------------------------------------------
(* The focus moves with the engine. *)

LEMMA EngineGoesAlong ==
  ASSUME TypeOK, NEW c \in Contexts, NEW F, SetFocusedContext(c, F),
         engine[focused_context] # None
  PROVE  engine'[focused_context'] = engine[focused_context]
  BY DEF TypeOK, SetFocusedContext, Moved

HandOverStep ==
  focused_context' # focused_context /\ engine[focused_context] # None
    => engine'[focused_context'] = engine[focused_context]

LEMMA GainHandsOver ==
  ASSUME TypeOK, NEW c \in Contexts, NEW s \in BOOLEAN, GainFocus(c, s)
  PROVE  HandOverStep
<1>1. CASE s /\ focused_context # c
  <2>1. PICK F : SetFocusedContext(c, F)
    BY <1>1 DEF GainFocus
  <2> QED BY <2>1, EngineGoesAlong DEF HandOverStep
<1>2. CASE ~(s /\ focused_context # c)
  BY <1>2 DEF GainFocus, HandOverStep
<1> QED BY <1>1, <1>2

(***************************************************************************)
(* Whatever makes the focus move, the engine in use moves with it.         *)
(***************************************************************************)
THEOREM FocusKeepsEngine == Spec => HandOver
<1>1. ASSUME GlobalEngineAssumption, Inv, [Next]_vars PROVE HandOverStep
  <2>1. TypeOK /\ \A c \in Clients : c \in Contexts
    BY <1>1 DEF Inv, Contexts
  <2>2. ASSUME NEW c \in Clients, FocusIn(c) PROVE HandOverStep
    BY <2>1, <2>2, GainHandsOver DEF FocusIn
  <2>3. ASSUME NEW c \in Clients, FocusOut(c) PROVE HandOverStep
    <3>1. CASE IsFocused(c)
      <4>1. PICK F : SetFocusedContext(Fake, F)
        BY <2>3, <3>1 DEF FocusOut
      <4> QED BY <2>1, <4>1, EngineGoesAlong, FakeIsContext DEF HandOverStep
    <3>2. CASE ~IsFocused(c)
      BY <2>3, <3>2 DEF FocusOut, HandOverStep
    <3> QED BY <3>1, <3>2
  <2>4. ASSUME NEW c \in Clients, NEW cap \in BOOLEAN, SetCapabilities(c, cap)
        PROVE  HandOverStep
    <3>1. CASE cap \/ has_focus[c]
      BY <2>4, <3>1 DEF SetCapabilities, HandOverStep
    <3>2. CASE ~(cap \/ has_focus[c])
      BY <2>1, <2>4, <3>2, GainHandsOver DEF SetCapabilities
    <3> QED BY <3>1, <3>2
  <2>5. ASSUME NEW c \in Clients, ProcessKeyEvent(c) PROVE HandOverStep
    <3>1. cap_focus[c] \in BOOLEAN
      BY <2>1 DEF TypeOK
    <3> QED BY <2>1, <2>5, <3>1, GainHandsOver
            DEF ProcessKeyEvent, KeyWithoutFocus, KeyAfterLostFocus
  <2>6. ASSUME NEW c \in Clients, DestroyContext(c) PROVE HandOverStep
    <3>1. CASE IsFocused(c)
      BY <2>1, <2>6, <3>1, EngineGoesAlong, FakeIsContext DEF DestroyContext, HandOverStep
    <3>2. CASE ~IsFocused(c)
      BY <2>6, <3>2 DEF DestroyContext, HandOverStep
    <3> QED BY <3>1, <3>2
  <2>7. ASSUME UNCHANGED focused_context PROVE HandOverStep
    BY <2>7 DEF HandOverStep
  <2>8. ASSUME NEW c \in Clients, CreateInputContext(c) PROVE UNCHANGED focused_context
    BY <2>8 DEF CreateInputContext
  <2>9. ASSUME NEW r \in Requests, EngineReady(r) \/ EngineFailed(r)
        PROVE  UNCHANGED focused_context
    BY <2>9 DEF EngineReady, EngineFailed
  <2>10. ASSUME NEW r \in Requests, NEW n \in Names, SetGlobalEngine(r, n)
         PROVE  UNCHANGED focused_context
    BY <2>10 DEF SetGlobalEngine
  <2>11. ASSUME NEW n \in Registrable, RegisterComponent(n) \/ RegisteredComponentGone(n)
         PROVE  UNCHANGED focused_context
    BY <2>11 DEF RegisterComponent, RegisteredComponentGone
  <2>12. ASSUME NEW n \in Registry, RegistryComponentGone(n) PROVE UNCHANGED focused_context
    BY <2>12 DEF RegistryComponentGone
  <2>13. CASE UNCHANGED vars
    BY <2>7, <2>13 DEF vars
  <2> QED BY <1>1, <2>2, <2>3, <2>4, <2>5, <2>6, <2>7, <2>8, <2>9, <2>10, <2>11, <2>12,
             <2>13 DEF Next
<1>2. Inv /\ [Next]_vars => [HandOverStep]_vars
  BY <1>1, GlobalEngineAssumption
<1>3. Spec => [][HandOverStep]_vars
  BY <1>2, Invariance, PTL DEF Spec
<1> QED BY <1>3 DEF HandOver, HandOverStep

----------------------------------------------------------------------------
(* Requests and the contexts that wait for them. *)

LEMMA IssueKeepsPending ==
  ASSUME GlobalEngineAssumption, TypeOK, NEW pending \in [Requests -> Request \cup {None}],
         \A x \in Requests : /\ request[x] = None => pending[x] = None
                             /\ request[x] # None =>
                                  pending[x] # None /\ pending[x].context = request[x].context,
         PendingData, NEW r \in Requests, NEW c \in Contexts, NEW n \in Names,
         NEW caller \in Callers, SetEngineByDesc(r, c, n, caller, pending)
  PROVE  PendingData'
<1>1. [context |-> c, name |-> n, caller |-> caller, lost |-> FALSE] \in Request
  BY DEF Request
<1>2. request'[r] # None /\ request'[r].context = c
  BY <1>1, NoneIsNoEngine DEF SetEngineByDesc
<1>3. \A x \in Requests : x # r => request'[x] = pending[x]
  BY DEF SetEngineByDesc
<1>4. \A x \in Contexts : data'[x] = IF x = c THEN r ELSE data[x]
  BY DEF SetEngineByDesc, TypeOK
<1>5. \A x \in Contexts : data[x] # None => data[x] \in Requests /\ data[x] # r
  BY DEF TypeOK, PendingData, SetEngineByDesc
<1> QED BY <1>2, <1>3, <1>4, <1>5 DEF PendingData

LEMMA EndKeepsPending ==
  ASSUME TypeOK, PendingData, NEW r \in Requests, request[r] # None,
         request' = [request EXCEPT ![r] = None], data' = DataCleared(r, request[r].context)
  PROVE  PendingData'
<1> DEFINE c == request[r].context
<1>1. c \in Contexts
  BY DEF TypeOK, Request
<1>2. \A x \in Contexts : data'[x] = IF x = c /\ data[c] = r THEN None ELSE data[x]
  BY <1>1 DEF DataCleared, TypeOK
<1>3. \A x \in Contexts : data[x] # None => data[x] \in Requests
  BY DEF TypeOK
<1>4. \A x \in Requests : x # r => request'[x] = request[x]
  BY DEF TypeOK
<1>5. \A x \in Contexts : data[x] = r /\ r # None => x = c
  BY DEF PendingData
<1> HIDE DEF c
<1> QED BY <1>2, <1>3, <1>4, <1>5 DEF PendingData

LEMMA LostKeepsPending ==
  ASSUME GlobalEngineAssumption, TypeOK, NEW n, NEW x \in Requests
  PROVE  /\ request[x] = None => RequestsLost(n)[x] = None
         /\ request[x] # None =>
              RequestsLost(n)[x] # None /\ RequestsLost(n)[x].context = request[x].context
<1>1. request[x] # None => /\ [request[x] EXCEPT !.lost = TRUE] \in Request
                           /\ [request[x] EXCEPT !.lost = TRUE].context = request[x].context
  BY DEF TypeOK, Request
<1> QED BY <1>1, NoneIsNoEngine DEF RequestsLost

(***************************************************************************)
(* A reply always finds its own request, and context->data is never stale. *)
(***************************************************************************)
THEOREM NoStaleData == Spec => []PendingData
<1>1. Init => PendingData
  BY DEF Init, PendingData
<1>2. ASSUME GlobalEngineAssumption, Inv, PendingData, [Next]_vars PROVE PendingData'
  <2>1. TypeOK
    BY <1>2 DEF Inv
  <2>2. ASSUME UNCHANGED requestVars PROVE PendingData'
    BY <1>2, <2>2 DEF PendingData, requestVars
  <2>3. ASSUME NEW c \in Clients,
               CreateInputContext(c) \/ FocusIn(c) \/ FocusOut(c) \/ ProcessKeyEvent(c)
               \/ DestroyContext(c) \/ \E cap \in BOOLEAN : SetCapabilities(c, cap)
        PROVE  UNCHANGED requestVars
    BY <2>3 DEF CreateInputContext, FocusIn, FocusOut, ProcessKeyEvent, KeyWithoutFocus,
                KeyAfterLostFocus, DestroyContext, SetCapabilities
  <2>4. ASSUME NEW r \in Requests, NEW n \in Names, SetGlobalEngine(r, n) PROVE PendingData'
    <3>1. request \in [Requests -> Request \cup {None}] /\ focused_context \in Contexts
      BY <2>1 DEF TypeOK
    <3>2. "SetGlobalEngine" \in Callers
      BY DEF Callers
    <3>3. SetEngineByDesc(r, focused_context, n, "SetGlobalEngine", request)
      BY <2>4 DEF SetGlobalEngine
    <3> QED BY <1>2, <2>1, <3>1, <3>2, <3>3, IssueKeepsPending
  <2>5. ASSUME NEW r \in Requests, EngineReady(r) \/ EngineFailed(r) PROVE PendingData'
    BY <1>2, <2>1, <2>5, EndKeepsPending DEF EngineReady, EngineFailed
  <2>6. ASSUME NEW n \in Registrable, RegisteredComponentGone(n) PROVE PendingData'
    <3>1. RequestsLost(n) \in [Requests -> Request \cup {None}] /\ focused_context \in Contexts
      BY <2>1, RequestsLostTyped DEF TypeOK
    <3>2. ASSUME request' = RequestsLost(n), UNCHANGED data PROVE PendingData'
      <4>1. \A c \in Contexts : data[c] # None => data[c] \in Requests
        BY <2>1 DEF TypeOK
      <4> QED BY <1>2, <2>1, <3>2, <4>1, LostKeepsPending DEF PendingData
    <3>3. ASSUME NEW r \in Requests, GlobalEngineSwitched(n, Without(n), r)
          PROVE  PendingData'
      <4>1. Without(n) \in Seq(Registrable)
        BY <2>1, <2>6, WithoutTyped DEF TypeOK, RegisteredComponentGone
      <4>2. Successor(Without(n)) \in Names
        BY <3>3, <4>1, SuccessorIsName DEF GlobalEngineSwitched
      <4>3. "check_global_engine" \in Callers
        BY DEF Callers
      <4>4. SetEngineByDesc(r, focused_context, Successor(Without(n)),
                            "check_global_engine", RequestsLost(n))
        BY <3>3 DEF GlobalEngineSwitched
      <4>5. \A x \in Requests :
               /\ request[x] = None => RequestsLost(n)[x] = None
               /\ request[x] # None => /\ RequestsLost(n)[x] # None
                                       /\ RequestsLost(n)[x].context = request[x].context
        BY <1>2, <2>1, LostKeepsPending
      <4> QED BY <1>2, <2>1, <3>1, <4>2, <4>3, <4>4, <4>5, IssueKeepsPending
    <3> QED BY <2>6, <3>2, <3>3
            DEF RegisteredComponentGone, GlobalEngineKept, GlobalEngineUnset
  <2>7. ASSUME NEW n \in Registrable, RegisterComponent(n) PROVE UNCHANGED requestVars
    BY <2>7 DEF RegisterComponent
  <2>8. ASSUME NEW n \in Registry, RegistryComponentGone(n) PROVE UNCHANGED requestVars
    BY <2>8 DEF RegistryComponentGone
  <2>9. CASE UNCHANGED vars
    BY <2>2, <2>9 DEF vars
  <2> QED BY <1>2, <2>2, <2>3, <2>4, <2>5, <2>6, <2>7, <2>8, <2>9 DEF Next
<1>3. Inv /\ PendingData /\ [Next]_vars => PendingData'
  BY <1>2, GlobalEngineAssumption
<1> QED BY <1>1, <1>3, Invariance, PTL DEF Spec

----------------------------------------------------------------------------
(* What ends a request, and what its end does. *)

\* Only the answer of a request, or its failure, ends it.
LEMMA LostIsNotEnded ==
  ASSUME GlobalEngineAssumption, TypeOK, NEW n, NEW r \in Requests, request[r] # None
  PROVE  RequestsLost(n)[r] # None
  BY NoneIsNoEngine DEF TypeOK, RequestsLost, Request

LEMMA IssueEndsNothing ==
  ASSUME GlobalEngineAssumption, NEW q \in Requests, NEW c, NEW n, NEW caller,
         NEW pending, SetEngineByDesc(q, c, n, caller, pending),
         DOMAIN pending = Requests, NEW r \in Requests, pending[r] # None
  PROVE  request'[r] # None
  BY DEF SetEngineByDesc

LEMMA EndedByAnswer ==
  ASSUME GlobalEngineAssumption, TypeOK, [Next]_vars,
         NEW r \in Requests, request[r] # None, request'[r] = None
  PROVE  EngineReady(r) \/ EngineFailed(r)
<1>1. DOMAIN request = Requests
  BY DEF TypeOK
<1>2. request' # request
  OBVIOUS
<1>3. ASSUME NEW c \in Clients,
             CreateInputContext(c) \/ FocusIn(c) \/ FocusOut(c) \/ ProcessKeyEvent(c)
             \/ DestroyContext(c) \/ \E cap \in BOOLEAN : SetCapabilities(c, cap)
      PROVE  FALSE
  BY <1>2, <1>3 DEF CreateInputContext, FocusIn, FocusOut, ProcessKeyEvent, KeyWithoutFocus,
                    KeyAfterLostFocus, DestroyContext, SetCapabilities, requestVars
<1>4. ASSUME NEW q \in Requests, NEW n \in Names, SetGlobalEngine(q, n) PROVE FALSE
  BY <1>1, <1>4, IssueEndsNothing DEF SetGlobalEngine
<1>5. ASSUME NEW q \in Requests, EngineReady(q) \/ EngineFailed(q)
      PROVE  EngineReady(r) \/ EngineFailed(r)
  <2>1. request' = [request EXCEPT ![q] = None]
    BY <1>5 DEF EngineReady, EngineFailed
  <2>2. q = r
    BY <1>1, <2>1
  <2> QED BY <1>5, <2>2
<1>6. ASSUME NEW n \in Registrable, RegisteredComponentGone(n) PROVE FALSE
  <2>1. RequestsLost(n)[r] # None
    BY LostIsNotEnded
  <2>2. ASSUME NEW q \in Requests, GlobalEngineSwitched(n, Without(n), q) PROVE FALSE
    <3>1. DOMAIN RequestsLost(n) = Requests
      BY DEF RequestsLost
    <3> QED BY <2>1, <2>2, <3>1, IssueEndsNothing DEF GlobalEngineSwitched
  <2> QED BY <1>6, <2>1, <2>2
          DEF RegisteredComponentGone, GlobalEngineKept, GlobalEngineUnset
<1>7. ASSUME NEW n \in Registrable, RegisterComponent(n) PROVE FALSE
  BY <1>2, <1>7 DEF RegisterComponent, requestVars
<1>8. ASSUME NEW n \in Registry, RegistryComponentGone(n) PROVE FALSE
  BY <1>2, <1>8 DEF RegistryComponentGone, requestVars
<1>9. CASE UNCHANGED vars
  BY <1>2, <1>9 DEF vars, requestVars
<1> QED BY <1>3, <1>4, <1>5, <1>6, <1>7, <1>8, <1>9 DEF Next

AnswerStep ==
  \A r \in Requests :
    /\ request[r] # None /\ request[r].caller = "SetGlobalEngine"
    /\ request'[r] = None /\ engine' # engine
    => /\ engine'[focused_context] # None
       /\ engine'[focused_context].desc = request[r].name
       /\ global_engine_name' = request[r].name

(***************************************************************************)
(* A SetGlobalEngine that succeeds gives its engine to the context that    *)
(* has the focus then, and the global engine is the one it asked for.      *)
(***************************************************************************)
THEOREM GlobalEngineIsSet == Spec => SetGlobalEngineAnswer
<1>1. ASSUME GlobalEngineAssumption, Inv, [Next]_vars PROVE AnswerStep
  <2> SUFFICES ASSUME NEW r \in Requests, request[r] # None,
                      request[r].caller = "SetGlobalEngine",
                      request'[r] = None, engine' # engine
               PROVE  /\ engine'[focused_context] # None
                      /\ engine'[focused_context].desc = request[r].name
                      /\ global_engine_name' = request[r].name
    BY DEF AnswerStep
  <2>1. TypeOK
    BY <1>1 DEF Inv
  <2>2. EngineReady(r)
    <3>1. EngineReady(r) \/ EngineFailed(r)
      BY <1>1, <2>1, EndedByAnswer
    <3> QED BY <3>1 DEF EngineFailed
  <2>3. Destination(r) = focused_context
    BY DEF Destination
  <2>4. PICK e \in FreshEngines(request[r].name) :
          /\ engine' = Moved(request[r].context, focused_context, e)
          /\ IF IsFocused(focused_context) THEN EngineChanged(e) ELSE UNCHANGED nameVars
    BY <2>2, <2>3 DEF EngineReady
  <2>5. e \in Engines /\ e.desc = request[r].name
    BY <2>4 DEF FreshEngines
  <2>6. engine'[focused_context] = e
    BY <2>1, <2>4 DEF TypeOK, Moved
  <2>7. EngineChanged(e)
    BY <2>4 DEF IsFocused
  <2>8. global_engine_name' = e.desc
    BY <2>7 DEF EngineChanged, nameVars
  <2> QED BY <2>5, <2>6, <2>8, NoneIsNoEngine, GlobalEngineAssumption
<1>2. Inv /\ [Next]_vars => [AnswerStep]_vars
  BY <1>1, GlobalEngineAssumption
<1>3. Spec => [][AnswerStep]_vars
  BY <1>2, Invariance, PTL DEF Spec
<1> QED BY <1>3 DEF SetGlobalEngineAnswer, AnswerStep

----------------------------------------------------------------------------
(* The names of the engines. *)

LEMMA ChangeKeepsDifference ==
  ASSUME NEW e, EngineChanged(e), PreviousDiffers
  PROVE  PreviousDiffers'
  BY DEF EngineChanged, PreviousDiffers, nameVars

LEMMA FocusKeepsDifference ==
  ASSUME NEW c, NEW F, SetFocusedContext(c, F), PreviousDiffers
  PROVE  PreviousDiffers'
<1>1. CASE engine[focused_context] = None
  BY <1>1 DEF SetFocusedContext, PreviousDiffers, nameVars
<1>2. CASE engine[focused_context] # None
  BY <1>2, ChangeKeepsDifference DEF SetFocusedContext
<1> QED BY <1>1, <1>2

LEMMA GainKeepsDifference ==
  ASSUME NEW c, NEW s, GainFocus(c, s), PreviousDiffers
  PROVE  PreviousDiffers'
<1>1. CASE s /\ focused_context # c
  BY <1>1, FocusKeepsDifference DEF GainFocus
<1>2. CASE ~(s /\ focused_context # c)
  BY <1>2 DEF GainFocus, PreviousDiffers, nameVars
<1> QED BY <1>1, <1>2

(***************************************************************************)
(* The previous engine that check_global_engine falls back to is never the *)
(* one that has just gone, however engines and the focus changed before.   *)
(***************************************************************************)
THEOREM FallbackDiffers == Spec => []PreviousDiffers
<1>1. Init => PreviousDiffers
  BY DEF Init, PreviousDiffers
<1>2. ASSUME PreviousDiffers, [Next]_vars PROVE PreviousDiffers'
  <2>1. ASSUME UNCHANGED nameVars PROVE PreviousDiffers'
    BY <1>2, <2>1 DEF PreviousDiffers, nameVars
  <2>2. ASSUME NEW c \in Clients, FocusIn(c) \/ ProcessKeyEvent(c) PROVE PreviousDiffers'
    BY <1>2, <2>2, GainKeepsDifference
       DEF FocusIn, ProcessKeyEvent, KeyWithoutFocus, KeyAfterLostFocus
  <2>3. ASSUME NEW c \in Clients, FocusOut(c) PROVE PreviousDiffers'
    BY <1>2, <2>1, <2>3, FocusKeepsDifference DEF FocusOut
  <2>4. ASSUME NEW c \in Clients, NEW cap \in BOOLEAN, SetCapabilities(c, cap)
        PROVE  PreviousDiffers'
    BY <1>2, <2>1, <2>4, GainKeepsDifference DEF SetCapabilities
  <2>5. ASSUME NEW c \in Clients, DestroyContext(c) PROVE PreviousDiffers'
    BY <1>2, <2>1, <2>5, FocusKeepsDifference DEF DestroyContext
  <2>6. ASSUME NEW r \in Requests, EngineReady(r) PROVE PreviousDiffers'
    <3>1. PICK e : IF IsFocused(Destination(r)) THEN EngineChanged(e) ELSE UNCHANGED nameVars
      BY <2>6 DEF EngineReady
    <3> QED BY <1>2, <2>1, <3>1, ChangeKeepsDifference
  <2>7. ASSUME NEW c \in Clients, CreateInputContext(c) PROVE UNCHANGED nameVars
    BY <2>7 DEF CreateInputContext
  <2>8. ASSUME NEW r \in Requests, EngineFailed(r) \/ \E n \in Names : SetGlobalEngine(r, n)
        PROVE  UNCHANGED nameVars
    BY <2>8 DEF EngineFailed, SetGlobalEngine
  <2>9. ASSUME NEW n \in Registrable, RegisterComponent(n) \/ RegisteredComponentGone(n)
        PROVE  UNCHANGED nameVars
    BY <2>9 DEF RegisterComponent, RegisteredComponentGone
  <2>10. ASSUME NEW n \in Registry, RegistryComponentGone(n) PROVE UNCHANGED nameVars
    BY <2>10 DEF RegistryComponentGone
  <2>11. CASE UNCHANGED vars
    BY <2>1, <2>11 DEF vars
  <2> QED BY <1>2, <2>1, <2>2, <2>3, <2>4, <2>5, <2>6, <2>7, <2>8, <2>9, <2>10, <2>11 DEF Next
<1>3. PreviousDiffers /\ [Next]_vars => PreviousDiffers'
  BY <1>2
<1> QED BY <1>1, <1>3, PTL DEF Spec

----------------------------------------------------------------------------
(* The objects that requests hold. *)

LEMMA EndHolds ==
  ASSUME GlobalEngineAssumption, TypeOK, ContextsHeld, NEW r \in Requests, request[r] # None,
         NEW eng, request' = [request EXCEPT ![r] = None],
         status' = [status EXCEPT ![request[r].context] = Finished(r, request[r].context, eng)]
  PROVE  ContextsHeld'
<1>1. \A q \in Requests : request'[q] # None => request'[q] = request[q] /\ q # r
  BY DEF TypeOK
<1>2. ASSUME NEW q \in Requests, request'[q] # None
      PROVE  status'[request[q].context] # "free"
  <2>1. request[q].context \in Contexts /\ request[r].context \in Contexts
    BY <1>1, <1>2 DEF TypeOK, Request
  <2>2. status[request[q].context] # "free"
    BY <1>1, <1>2 DEF ContextsHeld
  <2>3. CASE request[q].context = request[r].context
    <3>1. q \in InFlight(request[r].context) /\ q # r
      BY <1>1, <1>2, <2>3 DEF InFlight
    <3>2. Finished(r, request[r].context, eng) = status[request[r].context]
      BY <3>1 DEF Finished
    <3> QED BY <2>1, <2>2, <2>3, <3>2 DEF TypeOK
  <2>4. CASE request[q].context # request[r].context
    BY <2>1, <2>2, <2>4 DEF TypeOK
  <2> QED BY <2>3, <2>4
<1> QED BY <1>1, <1>2 DEF ContextsHeld

LEMMA IssueHolds ==
  ASSUME GlobalEngineAssumption, TypeOK, FocusedOwner, NEW q \in Requests, NEW n, NEW caller,
         NEW pending, DOMAIN pending = Requests,
         SetEngineByDesc(q, focused_context, n, caller, pending), UNCHANGED status,
         \A r \in Requests : pending[r] # None => status[pending[r].context] # "free"
  PROVE  ContextsHeld'
<1>1. status[focused_context] = "live"
  BY DEF FocusedOwner, TypeOK
<1>2. request'[q].context = focused_context
  BY DEF SetEngineByDesc
<1>3. \A r \in Requests \ {q} : request'[r] = pending[r]
  BY DEF SetEngineByDesc
<1> QED BY <1>1, <1>2, <1>3 DEF ContextsHeld

LEMMA LostHeld ==
  ASSUME GlobalEngineAssumption, TypeOK, ContextsHeld, NEW n, NEW r \in Requests,
         RequestsLost(n)[r] # None
  PROVE  request[r] # None /\ status[RequestsLost(n)[r].context] # "free"
<1>1. request[r] # None
  BY DEF RequestsLost
<1>2. RequestsLost(n)[r].context = request[r].context
  BY <1>1 DEF RequestsLost, TypeOK, Request
<1> QED BY <1>1, <1>2 DEF ContextsHeld

LEMMA ContextsHeldStep ==
  ASSUME GlobalEngineAssumption, Inv, ContextsHeld, [Next]_vars
  PROVE  ContextsHeld'
<1>1. TypeOK /\ FocusedOwner /\ DOMAIN request = Requests
  BY DEF Inv, TypeOK, FocusInvariant
<1>2. ASSUME UNCHANGED <<request, status>> PROVE ContextsHeld'
  BY <1>2 DEF ContextsHeld
<1>3. ASSUME NEW c \in Clients, CreateInputContext(c) PROVE ContextsHeld'
  BY <1>1, <1>3 DEF CreateInputContext, ContextsHeld, requestVars, TypeOK, Request
<1>4. ASSUME NEW c \in Clients,
             FocusIn(c) \/ FocusOut(c) \/ ProcessKeyEvent(c)
             \/ \E cap \in BOOLEAN : SetCapabilities(c, cap)
      PROVE  ContextsHeld'
  BY <1>2, <1>4 DEF FocusIn, FocusOut, ProcessKeyEvent, KeyWithoutFocus, KeyAfterLostFocus,
                    SetCapabilities, contextVars, requestVars
<1>5. ASSUME NEW c \in Clients, DestroyContext(c) PROVE ContextsHeld'
  <2>1. /\ UNCHANGED request
        /\ status' = [status EXCEPT ![c] = IF InFlight(c) = {} THEN "free" ELSE "zombie"]
    BY <1>5 DEF DestroyContext, requestVars
  <2>2. ASSUME NEW r \in Requests, request[r] # None
        PROVE  status'[request[r].context] # "free"
    <3>1. request[r].context \in Contexts /\ status[request[r].context] # "free"
      BY <1>1, <2>2 DEF ContextsHeld, TypeOK, Request
    <3>2. request[r].context = c => InFlight(c) # {}
      BY <2>2 DEF InFlight
    <3> QED BY <1>1, <2>1, <3>1, <3>2 DEF TypeOK
  <2> QED BY <2>1, <2>2 DEF ContextsHeld
<1>6. ASSUME NEW r \in Requests, NEW n \in Names, SetGlobalEngine(r, n) PROVE ContextsHeld'
  <2>1. SetEngineByDesc(r, focused_context, n, "SetGlobalEngine", request) /\ UNCHANGED status
    BY <1>6 DEF SetGlobalEngine, contextVars
  <2>2. \A q \in Requests : request[q] # None => status[request[q].context] # "free"
    BY DEF ContextsHeld
  <2> QED BY <1>1, <2>1, <2>2, IssueHolds
<1>7. ASSUME NEW r \in Requests, EngineReady(r) \/ EngineFailed(r) PROVE ContextsHeld'
  <2>1. PICK eng :
          /\ request' = [request EXCEPT ![r] = None]
          /\ status' = [status EXCEPT ![request[r].context] =
                                        Finished(r, request[r].context, eng)]
    BY <1>7 DEF EngineReady, EngineFailed
  <2>2. request[r] # None
    BY <1>7 DEF EngineReady, EngineFailed
  <2> QED BY <1>1, <2>1, <2>2, EndHolds
<1>8. ASSUME NEW n \in Registrable, RegisteredComponentGone(n) PROVE ContextsHeld'
  <2>1. \A q \in Requests : RequestsLost(n)[q] # None =>
          status[RequestsLost(n)[q].context] # "free"
    BY <1>1, LostHeld
  <2>2. UNCHANGED status /\ DOMAIN RequestsLost(n) = Requests
    BY <1>8 DEF RegisteredComponentGone, contextVars, RequestsLost
  <2>3. ASSUME NEW q \in Requests, GlobalEngineSwitched(n, Without(n), q)
        PROVE  ContextsHeld'
    <3>1. SetEngineByDesc(q, focused_context, Successor(Without(n)), "check_global_engine",
                          RequestsLost(n))
      BY <2>3 DEF GlobalEngineSwitched
    <3> QED BY <1>1, <2>1, <2>2, <3>1, IssueHolds
  <2>4. ASSUME request' = RequestsLost(n) PROVE ContextsHeld'
    BY <2>1, <2>2, <2>4 DEF ContextsHeld
  <2> QED BY <1>8, <2>3, <2>4
          DEF RegisteredComponentGone, GlobalEngineKept, GlobalEngineUnset
<1>9. ASSUME NEW n \in Registrable, RegisterComponent(n) PROVE ContextsHeld'
  BY <1>2, <1>9 DEF RegisterComponent, contextVars, requestVars
<1>10. ASSUME NEW n \in Registry, RegistryComponentGone(n) PROVE ContextsHeld'
  BY <1>2, <1>10 DEF RegistryComponentGone, contextVars, requestVars
<1>11. CASE UNCHANGED vars
  BY <1>2, <1>11 DEF vars, contextVars, requestVars
<1> QED BY <1>3, <1>4, <1>5, <1>6, <1>7, <1>8, <1>9, <1>10, <1>11 DEF Next

(***************************************************************************)
(* While a request for an engine is under way its context is not freed,    *)
(* for any number of clients, destructions and requests.                   *)
(***************************************************************************)
THEOREM RequestsHoldContexts == Spec => []ContextsHeld
<1>1. Init => ContextsHeld
  BY DEF Init, ContextsHeld
<1>2. Inv /\ ContextsHeld /\ [Next]_vars => ContextsHeld'
  BY ContextsHeldStep, GlobalEngineAssumption
<1> QED BY <1>1, <1>2, Invariance, PTL DEF Spec

(***************************************************************************)
(* The data of a context is a request under way of that context, which is  *)
(* not freed before it ends, and the previous engine is another one than   *)
(* the present, for any number of clients, engines and requests.           *)
(* (inputcontext.c, ibusimpl.c)                                            *)
(***************************************************************************)
THEOREM RecordsStayCurrent == Spec => []RecordsCurrent
<1>1. Spec => [](PendingData /\ ContextsHeld /\ PreviousDiffers)
  BY NoStaleData, RequestsHoldContexts, FallbackDiffers, PTL
<1> QED BY <1>1 DEF RecordsCurrent

----------------------------------------------------------------------------
(***************************************************************************)
(* How far the three departures reach that the runs switch_lost,           *)
(* zombie_engine and unrelated_loss show: each comes from one cause only.  *)
(***************************************************************************)

SwitchStep ==
  \A r \in Requests :
    /\ request[r] # None /\ request[r].caller = "check_global_engine"
    /\ request'[r] = None /\ engine' # engine
    /\ request[r].context = focused_context
    => /\ engine'[focused_context] # None
       /\ engine'[focused_context].desc = request[r].name
       /\ global_engine_name' = request[r].name

(***************************************************************************)
(* A switch of check_global_engine changes the global engine, as its       *)
(* comment says (ibusimpl.c:1034), unless the focus has moved from the     *)
(* context it asked for: SwitchChangesGlobalEngine with that condition.    *)
(***************************************************************************)
THEOREM SwitchInFocus == Spec => [][SwitchStep]_vars
<1>1. ASSUME GlobalEngineAssumption, Inv, [Next]_vars PROVE SwitchStep
  <2> SUFFICES ASSUME NEW r \in Requests, request[r] # None,
                      request[r].caller = "check_global_engine",
                      request'[r] = None, engine' # engine,
                      request[r].context = focused_context
               PROVE  /\ engine'[focused_context] # None
                      /\ engine'[focused_context].desc = request[r].name
                      /\ global_engine_name' = request[r].name
    BY DEF SwitchStep
  <2>1. TypeOK
    BY <1>1 DEF Inv
  <2>2. EngineReady(r)
    <3>1. EngineReady(r) \/ EngineFailed(r)
      BY <1>1, <2>1, EndedByAnswer
    <3> QED BY <3>1 DEF EngineFailed
  <2>3. Destination(r) = focused_context
    BY DEF Destination
  <2>4. PICK e \in FreshEngines(request[r].name) :
          /\ engine' = Moved(request[r].context, focused_context, e)
          /\ IF IsFocused(focused_context) THEN EngineChanged(e) ELSE UNCHANGED nameVars
    BY <2>2, <2>3 DEF EngineReady
  <2>5. e \in Engines /\ e.desc = request[r].name
    BY <2>4 DEF FreshEngines
  <2>6. engine'[focused_context] = e
    BY <2>1, <2>4 DEF TypeOK, Moved
  <2>7. EngineChanged(e)
    BY <2>4 DEF IsFocused
  <2>8. global_engine_name' = e.desc
    BY <2>7 DEF EngineChanged, nameVars
  <2> QED BY <2>5, <2>6, <2>8, NoneIsNoEngine, GlobalEngineAssumption
<1>2. Inv /\ [Next]_vars => [SwitchStep]_vars
  BY <1>1, GlobalEngineAssumption
<1> QED BY <1>2, Invariance, PTL DEF Spec

OrphanStep ==
  \A c \in Contexts :
    Orphan(c)' /\ ~Orphan(c)
    => \E r \in Requests :
         /\ request[r] # None /\ request'[r] = None
         /\ request[r].caller = "check_global_engine"
         /\ request[r].context = c

\* Only the context the focus goes to gets an engine, and only the old one loses it.
LEMMA FocusGives ==
  ASSUME TypeOK, NEW x \in Contexts, NEW F, SetFocusedContext(x, F),
         NEW c \in Contexts, engine'[c] # None
  PROVE  c = x \/ (engine[c] # None /\ c # focused_context)
  BY DEF TypeOK, SetFocusedContext, Moved

LEMMA GainGives ==
  ASSUME TypeOK, NEW x \in Contexts, NEW s, GainFocus(x, s),
         NEW c \in Contexts, engine'[c] # None
  PROVE  c = x \/ engine[c] # None
<1>1. CASE s /\ focused_context # x
  BY <1>1, FocusGives DEF GainFocus
<1>2. CASE ~(s /\ focused_context # x)
  BY <1>2 DEF GainFocus
<1> QED BY <1>1, <1>2

LEMMA AnswerOrphans ==
  ASSUME GlobalEngineAssumption, Inv, NEW r \in Requests, EngineReady(r),
         NEW c \in Contexts, Orphan(c)', ~Orphan(c)
  PROVE  /\ request[r] # None /\ request'[r] = None
         /\ request[r].caller = "check_global_engine" /\ request[r].context = c
<1> DEFINE x == request[r].context
           d == Destination(r)
<1>1. TypeOK /\ FocusedOwner /\ request[r] # None
  BY DEF Inv, FocusInvariant, EngineReady
<1>2. x \in Contexts /\ d \in Contexts /\ request[r].caller \in Callers
  BY <1>1 DEF TypeOK, Request, Destination
<1>3. PICK e \in FreshEngines(request[r].name) :
         /\ engine' = Moved(x, d, e)
         /\ request' = [request EXCEPT ![r] = None]
         /\ status' = [status EXCEPT ![x] = Finished(r, x, engine')]
  BY DEF EngineReady
<1>4. request'[r] = None
  BY <1>1, <1>3 DEF TypeOK
<1>5. \A y \in Contexts : status[y] = "live" => status'[y] = "live"
  BY <1>2, <1>3, FinishedStatus
<1>6. status[focused_context] = "live"
  BY <1>1 DEF FocusedOwner, TypeOK
<1>7. engine'[c] # None /\ status'[c] # "live"
  BY DEF Orphan
<1>8. ASSUME c # d PROVE FALSE
  <2>1. c # x /\ engine[c] # None
    BY <1>1, <1>2, <1>3, <1>7, <1>8 DEF Moved, TypeOK
  <2>2. status'[c] = status[c]
    BY <1>1, <1>2, <1>3, <2>1 DEF TypeOK
  <2> QED BY <1>7, <2>1, <2>2 DEF Orphan
<1>9. request[r].caller = "check_global_engine" /\ x = c
  BY <1>2, <1>5, <1>6, <1>7, <1>8 DEF Destination, Callers
<1> QED BY <1>1, <1>4, <1>9

(***************************************************************************)
(* An engine comes to a context that is destroyed (the g_assert at         *)
(* inputcontext.c:2600, EngineOfLiveContext) in one way only: a switch of  *)
(* check_global_engine asked for it before, and its answer comes now.      *)
(* Neither SetGlobalEngine nor any move of the focus leaves one there.     *)
(***************************************************************************)
THEOREM OrphansBySwitchOnly == Spec => OrphansBySwitch
<1>1. ASSUME GlobalEngineAssumption, Inv, [Next]_vars PROVE OrphanStep
  <2> SUFFICES ASSUME NEW c \in Contexts, Orphan(c)', ~Orphan(c)
               PROVE  \E r \in Requests :
                        /\ request[r] # None /\ request'[r] = None
                        /\ request[r].caller = "check_global_engine"
                        /\ request[r].context = c
    BY DEF OrphanStep
  <2>1. TypeOK /\ FocusedOwner /\ Fake \in Contexts /\ \A x \in Clients : x \in Contexts /\ x # Fake
    BY <1>1, ClientIsContext, FakeIsContext DEF Inv, FocusInvariant
  <2>2. engine'[c] # None /\ status'[c] # "live"
    BY DEF Orphan
  <2>3. ASSUME engine[c] # None, status'[c] = status[c] PROVE FALSE
    BY <2>2, <2>3 DEF Orphan
  <2>4. ASSUME NEW x \in Clients, CreateInputContext(x) PROVE FALSE
    BY <2>1, <2>2, <2>3, <2>4 DEF CreateInputContext, TypeOK
  <2>5. ASSUME NEW x \in Clients, status[x] = "live", UNCHANGED status,
               NEW s, GainFocus(x, s)
        PROVE  FALSE
    BY <2>1, <2>2, <2>3, <2>5, GainGives
  <2>6. ASSUME NEW x \in Clients, FocusIn(x) \/ ProcessKeyEvent(x) PROVE FALSE
    BY <2>5, <2>6 DEF FocusIn, ProcessKeyEvent, KeyWithoutFocus, KeyAfterLostFocus, contextVars
  <2>7. ASSUME NEW x \in Clients, NEW cap \in BOOLEAN, SetCapabilities(x, cap) PROVE FALSE
    BY <2>2, <2>3, <2>5, <2>7 DEF SetCapabilities
  <2>8. ASSUME NEW x \in Clients, FocusOut(x) PROVE FALSE
    <3>1. status[Fake] = "live" /\ UNCHANGED status
      BY <2>1, <2>8 DEF FocusedOwner, FocusOut, contextVars
    <3>2. CASE IsFocused(x)
      <4>1. PICK F : SetFocusedContext(Fake, F)
        BY <2>8, <3>2 DEF FocusOut
      <4> QED BY <2>1, <2>2, <2>3, <3>1, <4>1, FocusGives
    <3>3. CASE ~IsFocused(x)
      BY <2>2, <2>3, <2>8, <3>1, <3>3 DEF FocusOut
    <3> QED BY <3>2, <3>3
  <2>9. ASSUME NEW x \in Clients, DestroyContext(x) PROVE FALSE
    <3>1. \A y \in Contexts \ {x} : status'[y] = status[y]
      BY <2>1, <2>9 DEF DestroyContext, TypeOK
    <3>2. status[Fake] = "live" /\ status'[Fake] = "live"
      BY <2>1, <2>9, <3>1 DEF FocusedOwner
    <3>3. CASE IsFocused(x)
      <4>1. SetFocusedContext(Fake, in_focus)
        BY <2>9, <3>3 DEF DestroyContext
      <4>2. c = Fake \/ (engine[c] # None /\ c # x)
        BY <2>1, <2>2, <3>3, <4>1, FocusGives DEF IsFocused
      <4> QED BY <2>2, <2>3, <3>1, <3>2, <4>2
    <3>4. CASE ~IsFocused(x)
      <4>1. engine' = [engine EXCEPT ![x] = None]
        BY <2>9, <3>4 DEF DestroyContext
      <4>2. c # x /\ engine[c] # None
        BY <2>1, <2>2, <4>1 DEF TypeOK
      <4> QED BY <2>3, <3>1, <4>2
    <3> QED BY <3>3, <3>4
  <2>10. ASSUME NEW r \in Requests, EngineFailed(r) PROVE FALSE
    <3>1. request[r].context \in Contexts /\ UNCHANGED engine
      BY <2>1, <2>10 DEF EngineFailed, TypeOK, Request
    <3>2. status[c] = "live" => status'[c] = "live"
      BY <1>1, <2>10, <3>1, FinishedStatus DEF EngineFailed
    <3> QED BY <2>2, <3>1, <3>2 DEF Orphan
  <2>11. ASSUME NEW n \in Names,
                (\E r \in Requests : SetGlobalEngine(r, n)) \/ RegisterComponent(n)
         PROVE  FALSE
    BY <2>2, <2>3, <2>11 DEF SetGlobalEngine, RegisterComponent, contextVars
  <2>12. ASSUME NEW n \in Names, RegistryComponentGone(n) \/ RegisteredComponentGone(n)
         PROVE  FALSE
    <3>1. /\ UNCHANGED status
          /\ \/ engine' = Surviving(n)
             \/ engine' = [Surviving(n) EXCEPT ![focused_context] = None]
      BY <2>12 DEF RegistryComponentGone, RegisteredComponentGone, GlobalEngineKept,
                   GlobalEngineSwitched, GlobalEngineUnset, contextVars
    <3>2. engine[c] # None
      BY <2>2, <3>1 DEF Surviving
    <3> QED BY <2>3, <3>1, <3>2
  <2>13. CASE UNCHANGED vars
    BY <2>2, <2>3, <2>13 DEF vars, contextVars
  <2>14. CASE \E r \in Requests : EngineReady(r)
    BY <1>1, <2>14, AnswerOrphans
  <2> QED BY <1>1, <2>4, <2>6, <2>7, <2>8, <2>9, <2>10, <2>11, <2>12, <2>13, <2>14
          DEF Next, Names
<1>2. Inv /\ [Next]_vars => [OrphanStep]_vars
  BY <1>1, GlobalEngineAssumption
<1>3. Spec => [][OrphanStep]_vars
  BY <1>2, Invariance, PTL DEF Spec
<1> QED BY <1>3 DEF OrphansBySwitch, OrphanStep

(* An engine of a component is in the list once. *)
Distinct(s) == \A i, j \in 1..Len(s) : s[i] = s[j] => i = j

LEMMA RemovedAt ==
  ASSUME NEW S, NEW s \in Seq(S), NEW i \in 1..Len(s)
  PROVE  /\ RemoveAt(s, i) \in Seq(S)
         /\ Len(RemoveAt(s, i)) = Len(s) - 1
         /\ \A j \in 1..(Len(s) - 1) : RemoveAt(s, i)[j] = IF j < i THEN s[j] ELSE s[j + 1]
<1> DEFINE a == SubSeq(s, 1, i - 1)
           b == SubSeq(s, i + 1, Len(s))
<1>1. /\ Len(s) \in Nat /\ i - 1 \in Int /\ i + 1 \in Int
      /\ \A j \in 1..(i - 1) : s[j] \in S
      /\ \A j \in (i + 1)..Len(s) : s[j] \in S
  OBVIOUS
<1>2. a \in Seq(S) /\ Len(a) = i - 1 /\ \A j \in 1..(i - 1) : a[j] = s[j]
  BY <1>1, SubSeqProperties
<1>3. b \in Seq(S) /\ Len(b) = Len(s) - i /\ \A j \in 1..(Len(s) - i) : b[j] = s[i + j]
  BY <1>1, SubSeqProperties
<1>4. RemoveAt(s, i) = a \o b
  BY DEF RemoveAt
<1> HIDE DEF a, b
<1>5. /\ a \o b \in Seq(S) /\ Len(a \o b) = Len(a) + Len(b)
      /\ \A j \in 1..(Len(a) + Len(b)) :
           (a \o b)[j] = IF j <= Len(a) THEN a[j] ELSE b[j - Len(a)]
  BY <1>2, <1>3, ConcatProperties
<1>6. Len(a) = i - 1 /\ Len(b) = Len(s) - i /\ Len(a) + Len(b) = Len(s) - 1
  BY <1>1, <1>2, <1>3
<1>7. ASSUME NEW j \in 1..(Len(s) - 1)
      PROVE  (a \o b)[j] = IF j < i THEN s[j] ELSE s[j + 1]
  <2>1. CASE j < i
    BY <2>1, <1>1, <1>2, <1>5, <1>6
  <2>2. CASE ~(j < i)
    <3>1. j - (i - 1) \in 1..(Len(s) - i) /\ i + (j - (i - 1)) = j + 1
      BY <2>2, <1>1
    <3>2. (a \o b)[j] = b[j - (i - 1)]
      BY <2>2, <1>1, <1>5, <1>6
    <3>3. b[j - (i - 1)] = s[i + (j - (i - 1))]
      BY <1>3, <3>1
    <3> QED BY <2>2, <3>1, <3>2, <3>3
  <2> QED BY <2>1, <2>2
<1> QED BY <1>4, <1>5, <1>6, <1>7

LEMMA WithoutIs ==
  ASSUME register_engine_list \in Seq(Registrable), Distinct(register_engine_list),
         NEW n \in ToSet(register_engine_list)
  PROVE  /\ Without(n) \in Seq(Registrable) /\ Distinct(Without(n))
         /\ n \notin ToSet(Without(n))
<1> DEFINE s == register_engine_list
           i == CHOOSE j \in 1..Len(register_engine_list) : register_engine_list[j] = n
<1>1. i \in 1..Len(s) /\ s[i] = n
  BY DEF ToSet
<1>2. Without(n) = RemoveAt(s, i)
  BY DEF Without
<1> HIDE DEF i
<1> DEFINE t == RemoveAt(s, i)
<1>3. /\ t \in Seq(Registrable) /\ Len(t) = Len(s) - 1 /\ Len(s) \in Nat
      /\ \A j \in 1..(Len(s) - 1) : t[j] = IF j < i THEN s[j] ELSE s[j + 1]
  BY <1>1, RemovedAt
<1> HIDE DEF t
<1>4. \A j \in 1..Len(t) : t[j] # n
  BY <1>1, <1>3 DEF Distinct
<1>5. Distinct(t)
  BY <1>1, <1>3 DEF Distinct
<1>6. n \notin ToSet(t)
  BY <1>3, <1>4 DEF ToSet
<1> QED BY <1>2, <1>3, <1>5, <1>6 DEF t

RegisteredOnce == Distinct(register_engine_list)

LEMMA RegisteredOnceStep ==
  ASSUME GlobalEngineAssumption, Inv, RegisteredOnce, [Next]_vars
  PROVE  RegisteredOnce'
<1>1. register_engine_list \in Seq(Registrable)
  BY DEF Inv, TypeOK
<1>2. ASSUME UNCHANGED register_engine_list PROVE RegisteredOnce'
  BY <1>2 DEF RegisteredOnce, Distinct
<1>3. ASSUME NEW c \in Clients,
             CreateInputContext(c) \/ FocusIn(c) \/ FocusOut(c) \/ ProcessKeyEvent(c)
             \/ DestroyContext(c) \/ \E cap \in BOOLEAN : SetCapabilities(c, cap)
      PROVE  RegisteredOnce'
  BY <1>2, <1>3 DEF CreateInputContext, FocusIn, FocusOut, ProcessKeyEvent, KeyWithoutFocus,
                    KeyAfterLostFocus, DestroyContext, SetCapabilities
<1>4. ASSUME NEW r \in Requests,
             EngineReady(r) \/ EngineFailed(r) \/ \E n \in Names : SetGlobalEngine(r, n)
      PROVE  RegisteredOnce'
  BY <1>2, <1>4 DEF EngineReady, EngineFailed, SetGlobalEngine
<1>5. ASSUME NEW n \in Registrable, RegisterComponent(n) PROVE RegisteredOnce'
  <2>1. n \notin ToSet(register_engine_list) /\ register_engine_list' = Append(register_engine_list, n)
    BY <1>5 DEF RegisterComponent
  <2>2. \A i \in 1..Len(register_engine_list) : register_engine_list[i] # n
    BY <2>1, <1>1 DEF ToSet
  <2>3. /\ Len(register_engine_list') = Len(register_engine_list) + 1
        /\ Len(register_engine_list) \in Nat
        /\ \A i \in 1..Len(register_engine_list) :
             register_engine_list'[i] = register_engine_list[i]
        /\ register_engine_list'[Len(register_engine_list) + 1] = n
    BY <2>1, <1>1
  <2> QED BY <2>2, <2>3 DEF RegisteredOnce, Distinct
<1>6. ASSUME NEW n \in Registrable, RegisteredComponentGone(n) PROVE RegisteredOnce'
  <2>1. n \in ToSet(register_engine_list) /\ register_engine_list' = Without(n)
    BY <1>6 DEF RegisteredComponentGone
  <2> QED BY <1>1, <2>1, WithoutIs DEF RegisteredOnce
<1>7. ASSUME NEW n \in Registry, RegistryComponentGone(n) PROVE RegisteredOnce'
  BY <1>2, <1>7 DEF RegistryComponentGone
<1>8. CASE UNCHANGED vars
  BY <1>2, <1>8 DEF vars
<1> QED BY <1>3, <1>4, <1>5, <1>6, <1>7, <1>8 DEF Next

KeepsStep ==
  /\ Len(register_engine_list') < Len(register_engine_list)
  /\ engine[focused_context] # None
  /\ engine[focused_context].desc \in Registry \cup ToSet(register_engine_list')
  /\ global_engine_name \in ToSet(register_engine_list')
  => /\ engine'[focused_context] = engine[focused_context]
     /\ \A r \in Requests : request[r] = None => request'[r] = None

(***************************************************************************)
(* A registered component that goes away changes nothing and asks for      *)
(* nothing, as the comment at ibusimpl.c:1059 says, if the name of the     *)
(* global engine is among the registered ones: KeepsGlobalEngine with that *)
(* condition.  What it fails for are the engines of the registry, and an   *)
(* engine in use that is not the global one.                               *)
(***************************************************************************)
THEOREM RegisteredEngineStays == Spec => [][KeepsStep]_vars
<1>1. ASSUME GlobalEngineAssumption, Inv, RegisteredOnce, [Next]_vars PROVE KeepsStep
  <2> SUFFICES ASSUME Len(register_engine_list') < Len(register_engine_list),
                      engine[focused_context] # None,
                      engine[focused_context].desc
                        \in Registry \cup ToSet(register_engine_list'),
                      global_engine_name \in ToSet(register_engine_list')
               PROVE  /\ engine'[focused_context] = engine[focused_context]
                      /\ \A r \in Requests : request[r] = None => request'[r] = None
    BY DEF KeepsStep
  <2>1. TypeOK /\ register_engine_list \in Seq(Registrable) /\ focused_context \in Contexts
    BY <1>1 DEF Inv, TypeOK
  <2>2. Len(register_engine_list) \in Nat /\ register_engine_list' # register_engine_list
    BY <2>1
  <2>3. ASSUME NEW n \in Registrable, RegisterComponent(n) PROVE FALSE
    <3>1. Len(register_engine_list') = Len(register_engine_list) + 1
      BY <2>1, <2>3 DEF RegisterComponent
    <3> QED BY <2>2, <3>1
  <2>4. PICK n \in Registrable : RegisteredComponentGone(n)
    <3>1. ASSUME NEW c \in Clients,
                 CreateInputContext(c) \/ FocusIn(c) \/ FocusOut(c) \/ ProcessKeyEvent(c)
                 \/ DestroyContext(c) \/ \E cap \in BOOLEAN : SetCapabilities(c, cap)
          PROVE  FALSE
      BY <2>2, <3>1 DEF CreateInputContext, FocusIn, FocusOut, ProcessKeyEvent,
                        KeyWithoutFocus, KeyAfterLostFocus, DestroyContext, SetCapabilities
    <3>2. ASSUME NEW r \in Requests,
                 EngineReady(r) \/ EngineFailed(r) \/ \E m \in Names : SetGlobalEngine(r, m)
          PROVE  FALSE
      BY <2>2, <3>2 DEF EngineReady, EngineFailed, SetGlobalEngine
    <3>3. ASSUME NEW m \in Registry, RegistryComponentGone(m) PROVE FALSE
      BY <2>2, <3>3 DEF RegistryComponentGone
    <3>4. ~UNCHANGED vars
      BY <2>2 DEF vars
    <3> QED BY <1>1, <2>3, <3>1, <3>2, <3>3, <3>4 DEF Next
  <2>5. n \in ToSet(register_engine_list) /\ register_engine_list' = Without(n)
    BY <2>4 DEF RegisteredComponentGone
  <2>6. n \notin ToSet(Without(n))
    BY <1>1, <2>1, <2>5, WithoutIs DEF RegisteredOnce
  <2>7. GlobalEngineKept(n, Without(n))
    <3>1. Without(n) # <<>>
      <4>1. DOMAIN Without(n) # {}
        BY <2>5 DEF ToSet
      <4> QED BY <4>1
    <3> QED BY <2>4, <2>5, <3>1
            DEF RegisteredComponentGone, GlobalEngineSwitched, GlobalEngineUnset
  <2>8. ~HasEngineOf(focused_context, n)
    BY <1>1, <2>5, <2>6 DEF HasEngineOf, GlobalEngineAssumption
  <2>9. engine'[focused_context] = engine[focused_context]
    BY <2>1, <2>7, <2>8 DEF GlobalEngineKept, Surviving
  <2>10. \A r \in Requests : request[r] = None => request'[r] = None
    BY <2>7 DEF GlobalEngineKept, RequestsLost
  <2> QED BY <2>9, <2>10
<1>2. Init => RegisteredOnce
  BY DEF Init, RegisteredOnce, Distinct
<1>3. Inv /\ RegisteredOnce /\ [Next]_vars => RegisteredOnce'
  BY RegisteredOnceStep, GlobalEngineAssumption
<1>4. Inv /\ RegisteredOnce /\ [Next]_vars => [KeepsStep]_vars
  BY <1>1, GlobalEngineAssumption
<1> QED BY <1>2, <1>3, <1>4, Invariance, PTL DEF Spec
=============================================================================
