--------------------------- MODULE Preedit_proofs ---------------------------
(***************************************************************************)
(* Proof that the preedit text settles.  Without a mishap, the signals on  *)
(* their way say what becomes of a text: those of the engine make the      *)
(* engine's text of the context's, those of the context make of the        *)
(* client's text the one it is to show, unless an end is on its way, after *)
(* which the engine only clears.  Each text is counted with its number: it *)
(* is with the application or in one queue, once, in the order of the      *)
(* numbers.  What a queue of signals makes of a text is said with the path *)
(* of the texts in between, so that the proofs about queues need no        *)
(* induction.                                                              *)
(***************************************************************************)
EXTENDS Preedit, SequenceTheorems, TLAPS

(* The preedit text.  A queue is taken apart at its head and put together  *)
(* at its end; t is the queue s with r after it.                           *)
Joined(s, r, t) ==
  /\ DOMAIN s = 1..Len(s) /\ DOMAIN r = 1..Len(r) /\ DOMAIN t = 1..Len(t)
  /\ Len(s) \in Nat /\ Len(r) \in Nat /\ Len(t) = Len(s) + Len(r)
  /\ \A i \in 1..Len(s) : t[i] = s[i]
  /\ \A i \in 1..Len(r) : t[Len(s) + i] = r[i]
  /\ \A i \in 1..Len(t) : i > Len(s) => i - Len(s) \in 1..Len(r) /\ t[i] = r[i - Len(s)]

LEMMA ConcatJoined ==
  ASSUME NEW S, NEW s \in Seq(S), NEW r \in Seq(S)
  PROVE  Joined(s, r, s \o r) /\ s \o r \in Seq(S)
  <1>1. /\ s \o r \in Seq(S) /\ Len(s \o r) = Len(s) + Len(r)
        /\ \A i \in 1..(Len(s) + Len(r)) :
             (s \o r)[i] = IF i <= Len(s) THEN s[i] ELSE r[i - Len(s)]
    BY ConcatProperties
  <1>2. Len(s) \in Nat /\ Len(r) \in Nat /\ DOMAIN s = 1..Len(s) /\ DOMAIN r = 1..Len(r)
    BY LenProperties
  <1> DEFINE t == s \o r
  <1>3. t \in Seq(S) /\ Len(t) = Len(s) + Len(r) /\ DOMAIN t = 1..Len(t)
        /\ \A i \in 1..(Len(s) + Len(r)) : t[i] = IF i <= Len(s) THEN s[i] ELSE r[i - Len(s)]
    BY <1>1, LenProperties
  <1> HIDE DEF t
  <1>4. Joined(s, r, t)
    BY <1>2, <1>3 DEF Joined
  <1> QED
    BY <1>3, <1>4 DEF t

LEMMA AppendJoined ==
  ASSUME NEW S, NEW s \in Seq(S), NEW x \in S
  PROVE  Joined(s, <<x>>, Append(s, x)) /\ Append(s, x) \in Seq(S)
  BY DEF Joined

LEMMA HeadJoined ==
  ASSUME NEW S, NEW t \in Seq(S), t # <<>>
  PROVE  Joined(<<Head(t)>>, Tail(t), t) /\ Head(t) \in S /\ Tail(t) \in Seq(S)
  BY DEF Joined

LEMMA RangeJoined ==
  ASSUME NEW s, NEW r, NEW t, Joined(s, r, t)
  PROVE  Range(t) = Range(s) \cup Range(r)
  <1>1. \A i \in DOMAIN t : t[i] \in Range(s) \cup Range(r)
    <2> SUFFICES ASSUME NEW i \in DOMAIN t
                 PROVE  t[i] \in Range(s) \cup Range(r)
      OBVIOUS
    <2>1. CASE i <= Len(s)
      BY <2>1 DEF Joined, Range
    <2>2. CASE ~(i <= Len(s))
      <3>1. i - Len(s) \in DOMAIN r /\ t[i] = r[i - Len(s)]
        BY <2>2 DEF Joined
      <3> QED
        BY <3>1 DEF Range
    <2> QED
      BY <2>1, <2>2
  <1>2. \A i \in DOMAIN s : s[i] \in Range(t)
    BY DEF Joined, Range
  <1>3. \A i \in DOMAIN r : r[i] \in Range(t)
    <2> SUFFICES ASSUME NEW i \in DOMAIN r
                 PROVE  r[i] \in Range(t)
      OBVIOUS
    <2>1. Len(s) + i \in DOMAIN t /\ t[Len(s) + i] = r[i]
      BY DEF Joined
    <2> QED
      BY <2>1 DEF Range
  <1> QED
    BY <1>1, <1>2, <1>3 DEF Range

Words == {Empty} \cup [text : 1..MaxTexts, visible : BOOLEAN, mode : {"clear", "commit"}]

Signals == [kind : {"update"}, shown : Words] \cup [kind : {"commit"}, text : 1..MaxTexts]
             \cup [kind : {"show", "hide"}]

Methods == {"key", "focus_in", "focus_out", "reset", "set_capabilities"}

Ends == {"focus_out", "reset"}

(* No key comes before the end of the text it would change. *)
KeysLast(s) == \A i, j \in DOMAIN s : i < j /\ s[i] = "key" => s[j] \notin Ends

OnlyClears(s) == \A i \in DOMAIN s : s[i] = UpdateSignal(Empty)

Commits(s) == {s[i].text : i \in {j \in DOMAIN s : s[j].kind = "commit"}}

Less(A, B) == \A a \in A, b \in B : a < b

Rising(s) ==
  \A i, j \in DOMAIN s :
    i < j /\ s[i].kind = "commit" /\ s[j].kind = "commit" => s[i].text < s[j].text

LEMMA KeysLastJoined ==
  ASSUME NEW s, NEW r, NEW t, Joined(s, r, t)
  PROVE  KeysLast(t) <=> /\ KeysLast(s) /\ KeysLast(r)
                         /\ "key" \in Range(s) => Range(r) \cap Ends = {}
  <1>1. ASSUME KeysLast(t)
        PROVE  /\ KeysLast(s) /\ KeysLast(r)
               /\ "key" \in Range(s) => Range(r) \cap Ends = {}
    <2>1. KeysLast(s)
      BY <1>1 DEF Joined, KeysLast
    <2>2. KeysLast(r)
      BY <1>1 DEF Joined, KeysLast
    <2>3. ASSUME NEW i \in DOMAIN s, s[i] = "key", NEW j \in DOMAIN r
          PROVE  r[j] \notin Ends
      <3>1. i \in DOMAIN t /\ Len(s) + j \in DOMAIN t /\ i < Len(s) + j
            /\ t[i] = "key" /\ t[Len(s) + j] = r[j]
        BY <2>3 DEF Joined
      <3> QED
        BY <1>1, <3>1 DEF KeysLast
    <2> QED
      BY <2>1, <2>2, <2>3 DEF Range
  <1>2. ASSUME KeysLast(s), KeysLast(r), "key" \in Range(s) => Range(r) \cap Ends = {},
               NEW i \in DOMAIN t, NEW j \in DOMAIN t, i < j, t[i] = "key"
        PROVE  t[j] \notin Ends
    <2>1. CASE j <= Len(s)
      BY <1>2, <2>1 DEF Joined, KeysLast
    <2>2. CASE i > Len(s)
      <3>1. /\ i - Len(s) \in DOMAIN r /\ t[i] = r[i - Len(s)]
            /\ j - Len(s) \in DOMAIN r /\ t[j] = r[j - Len(s)]
            /\ i - Len(s) < j - Len(s)
        BY <1>2, <2>2 DEF Joined
      <3> QED
        BY <1>2, <3>1 DEF KeysLast
    <2>3. CASE i <= Len(s) /\ j > Len(s)
      <3>1. i \in DOMAIN s /\ s[i] = "key" /\ j - Len(s) \in DOMAIN r /\ t[j] = r[j - Len(s)]
        BY <1>2, <2>3 DEF Joined
      <3> QED
        BY <1>2, <3>1 DEF Range
    <2> QED
      BY <2>1, <2>2, <2>3 DEF Joined
  <1> QED
    BY <1>1, <1>2 DEF KeysLast

LEMMA ClearsJoined ==
  ASSUME NEW s, NEW r, NEW t, Joined(s, r, t)
  PROVE  OnlyClears(t) <=> OnlyClears(s) /\ OnlyClears(r)
  <1>1. OnlyClears(t) => OnlyClears(s)
    BY DEF Joined, OnlyClears
  <1>2. OnlyClears(t) => OnlyClears(r)
    BY DEF Joined, OnlyClears
  <1>3. OnlyClears(s) /\ OnlyClears(r) => OnlyClears(t)
    BY DEF Joined, OnlyClears
  <1> QED
    BY <1>1, <1>2, <1>3

LEMMA CommitsJoined ==
  ASSUME NEW s, NEW r, NEW t, Joined(s, r, t)
  PROVE  Commits(t) = Commits(s) \cup Commits(r)
  <1>1. ASSUME NEW i \in DOMAIN t, t[i].kind = "commit"
        PROVE  t[i].text \in Commits(s) \cup Commits(r)
    <2>1. CASE i <= Len(s)
      BY <1>1, <2>1 DEF Joined, Commits
    <2>2. CASE ~(i <= Len(s))
      BY <1>1, <2>2 DEF Joined, Commits
    <2> QED
      BY <2>1, <2>2
  <1>2. ASSUME NEW i \in DOMAIN s, s[i].kind = "commit"
        PROVE  s[i].text \in Commits(t)
    <2>1. i \in DOMAIN t /\ t[i] = s[i]
      BY DEF Joined
    <2> QED
      BY <1>2, <2>1 DEF Commits
  <1>3. ASSUME NEW i \in DOMAIN r, r[i].kind = "commit"
        PROVE  r[i].text \in Commits(t)
    <2>1. Len(s) + i \in DOMAIN t /\ t[Len(s) + i] = r[i]
      BY DEF Joined
    <2> QED
      BY <1>3, <2>1 DEF Commits
  <1> QED
    BY <1>1, <1>2, <1>3 DEF Commits

LEMMA RisingJoined ==
  ASSUME NEW s, NEW r, NEW t, Joined(s, r, t)
  PROVE  Rising(t) <=> Rising(s) /\ Rising(r) /\ Less(Commits(s), Commits(r))
  <1>1. ASSUME Rising(t)
        PROVE  Rising(s) /\ Rising(r) /\ Less(Commits(s), Commits(r))
    <2>1. Rising(s)
      BY <1>1 DEF Joined, Rising
    <2>2. ASSUME NEW i \in DOMAIN r, NEW j \in DOMAIN r, i < j,
                 r[i].kind = "commit", r[j].kind = "commit"
          PROVE  r[i].text < r[j].text
      <3>1. /\ Len(s) + i \in DOMAIN t /\ t[Len(s) + i] = r[i]
            /\ Len(s) + j \in DOMAIN t /\ t[Len(s) + j] = r[j]
            /\ Len(s) + i < Len(s) + j
        BY <2>2 DEF Joined
      <3> QED
        BY <1>1, <2>2, <3>1 DEF Rising
    <2>3. ASSUME NEW i \in DOMAIN s, s[i].kind = "commit", NEW j \in DOMAIN r, r[j].kind = "commit"
          PROVE  s[i].text < r[j].text
      <3>1. i \in DOMAIN t /\ Len(s) + j \in DOMAIN t /\ i < Len(s) + j
            /\ t[i] = s[i] /\ t[Len(s) + j] = r[j]
        BY <2>3 DEF Joined
      <3> QED
        BY <1>1, <2>3, <3>1 DEF Rising
    <2> QED
      BY <2>1, <2>2, <2>3 DEF Less, Commits, Rising
  <1>2. ASSUME Rising(s), Rising(r), Less(Commits(s), Commits(r)),
               NEW i \in DOMAIN t, NEW j \in DOMAIN t, i < j,
               t[i].kind = "commit", t[j].kind = "commit"
        PROVE  t[i].text < t[j].text
    <2>1. CASE j <= Len(s)
      BY <1>2, <2>1 DEF Joined, Rising
    <2>2. CASE i > Len(s)
      <3>1. /\ i - Len(s) \in DOMAIN r /\ t[i] = r[i - Len(s)]
            /\ j - Len(s) \in DOMAIN r /\ t[j] = r[j - Len(s)]
            /\ i - Len(s) < j - Len(s)
        BY <1>2, <2>2 DEF Joined
      <3> QED
        BY <1>2, <3>1 DEF Rising
    <2>3. CASE i <= Len(s) /\ j > Len(s)
      <3>1. i \in DOMAIN s /\ s[i] = t[i] /\ j - Len(s) \in DOMAIN r /\ t[j] = r[j - Len(s)]
        BY <1>2, <2>3 DEF Joined
      <3>2. s[i].text \in Commits(s) /\ r[j - Len(s)].text \in Commits(r)
        BY <1>2, <3>1 DEF Commits
      <3> QED
        BY <1>2, <3>1, <3>2 DEF Less
    <2> QED
      BY <2>1, <2>2, <2>3 DEF Joined
  <1> QED
    BY <1>1, <1>2 DEF Rising

(* What a signal does to a text, and the text u that the signals s make of *)
(* t.  Only a text that is there is hidden and shown.                      *)
AfterSignal(t, signal) ==
  CASE signal.kind = "update" -> signal.shown
    [] signal.kind = "commit" -> t
    [] OTHER -> [t EXCEPT !.visible = (signal.kind = "show")]

Turned(t, signal) == signal.kind \in {"show", "hide"} => t.text # 0

Makes(t, s, u) ==
  \E f \in [0..Len(s) -> Texts] :
    /\ f[0] = t /\ f[Len(s)] = u
    /\ \A i \in 1..Len(s) : Turned(f[i - 1], s[i]) /\ f[i] = AfterSignal(f[i - 1], s[i])

LEMMA MakesJoined ==
  ASSUME NEW s, NEW r, NEW t, Joined(s, r, t), NEW a, NEW c
  PROVE  Makes(a, t, c) <=> \E b \in Texts : Makes(a, s, b) /\ Makes(b, r, c)
  <1>0. /\ Len(s) \in Nat /\ Len(r) \in Nat /\ Len(t) = Len(s) + Len(r)
        /\ \A i \in 1..Len(s) : t[i] = s[i]
        /\ \A i \in 1..Len(r) : t[Len(s) + i] = r[i]
        /\ \A i \in 1..Len(t) : i > Len(s) => i - Len(s) \in 1..Len(r) /\ t[i] = r[i - Len(s)]
    BY DEF Joined
  <1>1. ASSUME NEW h \in [0..Len(t) -> Texts], h[0] = a, h[Len(t)] = c,
               \A i \in 1..Len(t) : Turned(h[i - 1], t[i]) /\ h[i] = AfterSignal(h[i - 1], t[i])
        PROVE  \E b \in Texts : Makes(a, s, b) /\ Makes(b, r, c)
    <2> DEFINE f == [i \in 0..Len(s) |-> h[i]]
               g == [i \in 0..Len(r) |-> h[Len(s) + i]]
    <2>1. h[Len(s)] \in Texts
      BY <1>0
    <2>2. Makes(a, s, h[Len(s)])
      <3>1. f \in [0..Len(s) -> Texts] /\ f[0] = a /\ f[Len(s)] = h[Len(s)]
        BY <1>0, <1>1
      <3>2. ASSUME NEW i \in 1..Len(s)
            PROVE  Turned(f[i - 1], s[i]) /\ f[i] = AfterSignal(f[i - 1], s[i])
        <4>1. f[i - 1] = h[i - 1] /\ f[i] = h[i] /\ i \in 1..Len(t) /\ s[i] = t[i]
          BY <1>0
        <4> QED
          BY <1>1, <4>1
      <3> HIDE DEF f
      <3> QED
        BY <3>1, <3>2 DEF Makes
    <2>3. Makes(h[Len(s)], r, c)
      <3>1. g \in [0..Len(r) -> Texts] /\ g[0] = h[Len(s)] /\ g[Len(r)] = c
        BY <1>0, <1>1
      <3>2. ASSUME NEW i \in 1..Len(r)
            PROVE  Turned(g[i - 1], r[i]) /\ g[i] = AfterSignal(g[i - 1], r[i])
        <4>1. /\ g[i - 1] = h[Len(s) + i - 1] /\ g[i] = h[Len(s) + i]
              /\ Len(s) + i \in 1..Len(t) /\ r[i] = t[Len(s) + i]
          BY <1>0
        <4> QED
          BY <1>1, <4>1
      <3> HIDE DEF g
      <3> QED
        BY <3>1, <3>2 DEF Makes
    <2> QED
      BY <2>1, <2>2, <2>3
  <1>2. ASSUME NEW b \in Texts,
               NEW f \in [0..Len(s) -> Texts], f[0] = a, f[Len(s)] = b,
               \A i \in 1..Len(s) : Turned(f[i - 1], s[i]) /\ f[i] = AfterSignal(f[i - 1], s[i]),
               NEW g \in [0..Len(r) -> Texts], g[0] = b, g[Len(r)] = c,
               \A i \in 1..Len(r) : Turned(g[i - 1], r[i]) /\ g[i] = AfterSignal(g[i - 1], r[i])
        PROVE  Makes(a, t, c)
    <2> DEFINE h == [i \in 0..Len(t) |-> IF i <= Len(s) THEN f[i] ELSE g[i - Len(s)]]
    <2>1. h \in [0..Len(t) -> Texts] /\ h[0] = a
      BY <1>0, <1>2
    <2>2. h[Len(t)] = c
      BY <1>0, <1>2
    <2>3. ASSUME NEW i \in 1..Len(t)
          PROVE  Turned(h[i - 1], t[i]) /\ h[i] = AfterSignal(h[i - 1], t[i])
      <3>1. CASE i <= Len(s)
        <4>1. h[i - 1] = f[i - 1] /\ h[i] = f[i] /\ i \in 1..Len(s) /\ t[i] = s[i]
          BY <1>0, <3>1
        <4> HIDE DEF h
        <4> QED
          BY <1>2, <4>1
      <3>2. CASE i > Len(s)
        <4>1. h[i - 1] = g[(i - Len(s)) - 1]
          <5>1. CASE i - 1 = Len(s)
            <6>1. h[i - 1] = f[Len(s)] /\ (i - Len(s)) - 1 = 0
              BY <1>0, <5>1
            <6> HIDE DEF h
            <6> QED
              BY <1>2, <6>1
          <5>2. CASE i - 1 # Len(s)
            <6>1. Len(s) \in Nat /\ Len(t) \in Nat /\ i \in 1..Len(t)
              BY <1>0
            <6>2. i - 1 \in 0..Len(t) /\ ~(i - 1 <= Len(s)) /\ (i - 1) - Len(s) = (i - Len(s)) - 1
              BY <3>2, <5>2, <6>1
            <6> QED
              BY <6>2
          <5> QED
            BY <5>1, <5>2
        <4>2. h[i] = g[i - Len(s)] /\ i - Len(s) \in 1..Len(r) /\ t[i] = r[i - Len(s)]
          BY <1>0, <3>2
        <4> HIDE DEF h
        <4> QED
          BY <1>2, <4>1, <4>2
      <3> QED
        BY <1>0, <3>1, <3>2
    <2> HIDE DEF h
    <2> QED
      BY <2>1, <2>2, <2>3 DEF Makes
  <1>3. ASSUME NEW b \in Texts, Makes(a, s, b), Makes(b, r, c)
        PROVE  Makes(a, t, c)
    <2>1. PICK f \in [0..Len(s) -> Texts] :
            /\ f[0] = a /\ f[Len(s)] = b
            /\ \A i \in 1..Len(s) : Turned(f[i - 1], s[i]) /\ f[i] = AfterSignal(f[i - 1], s[i])
      BY <1>3, Zenon DEF Makes
    <2>2. PICK g \in [0..Len(r) -> Texts] :
            /\ g[0] = b /\ g[Len(r)] = c
            /\ \A i \in 1..Len(r) : Turned(g[i - 1], r[i]) /\ g[i] = AfterSignal(g[i - 1], r[i])
      BY <1>3, Zenon DEF Makes
    <2> QED
      BY <1>2, <2>1, <2>2
  <1>4. ASSUME Makes(a, t, c)
        PROVE  \E b \in Texts : Makes(a, s, b) /\ Makes(b, r, c)
    <2>1. PICK h \in [0..Len(t) -> Texts] :
            /\ h[0] = a /\ h[Len(t)] = c
            /\ \A i \in 1..Len(t) : Turned(h[i - 1], t[i]) /\ h[i] = AfterSignal(h[i - 1], t[i])
      BY <1>4, Zenon DEF Makes
    <2> QED
      BY <1>1, <2>1
  <1> QED
    BY <1>3, <1>4

LEMMA MakesNothing ==
  ASSUME NEW a \in Texts, NEW c
  PROVE  Makes(a, <<>>, c) <=> c = a
  <1>1. Len(<<>>) = 0
    OBVIOUS
  <1>2. ASSUME Makes(a, <<>>, c)
        PROVE  c = a
    BY <1>1, <1>2 DEF Makes
  <1>3. Makes(a, <<>>, a)
    <2> DEFINE f == [i \in 0..0 |-> a]
    <2>1. f \in [0..0 -> Texts] /\ f[0] = a
      OBVIOUS
    <2> HIDE DEF f
    <2> QED
      BY <1>1, <2>1 DEF Makes
  <1> QED
    BY <1>2, <1>3

LEMMA MakesOne ==
  ASSUME NEW a \in Texts, NEW x, NEW c \in Texts
  PROVE  Makes(a, <<x>>, c) <=> Turned(a, x) /\ c = AfterSignal(a, x)
  <1>1. Len(<<x>>) = 1 /\ <<x>>[1] = x
    OBVIOUS
  <1>2. ASSUME Makes(a, <<x>>, c)
        PROVE  Turned(a, x) /\ c = AfterSignal(a, x)
    <2>1. PICK f \in [0..1 -> Texts] : /\ f[0] = a /\ f[1] = c
                                       /\ Turned(f[0], x) /\ f[1] = AfterSignal(f[0], x)
      BY <1>1, <1>2 DEF Makes
    <2> QED
      BY <2>1
  <1>3. ASSUME Turned(a, x), c = AfterSignal(a, x)
        PROVE  Makes(a, <<x>>, c)
    <2> DEFINE f == [i \in 0..1 |-> IF i = 0 THEN a ELSE c]
    <2>1. f \in [0..1 -> Texts] /\ f[0] = a /\ f[1] = c
      OBVIOUS
    <2> HIDE DEF f
    <2> QED
      BY <1>1, <1>3, <2>1 DEF Makes
  <1> QED
    BY <1>2, <1>3

LEMMA SignalsAre ==
  ASSUME NEW x \in Signals
  PROVE  \/ x = UpdateSignal(x.shown) /\ x.kind = "update" /\ x.shown \in Words
         \/ x = CommitSignal(x.text) /\ x.kind = "commit" /\ x.text \in 1..MaxTexts
         \/ x = [kind |-> x.kind] /\ x.kind \in {"show", "hide"}
  BY DEF Signals, UpdateSignal, CommitSignal

LEMMA SignalsSaid ==
  /\ \A w \in Words : /\ UpdateSignal(w) \in Signals /\ UpdateSignal(w).kind = "update"
                      /\ UpdateSignal(w).shown = w
  /\ \A n \in 1..MaxTexts : /\ CommitSignal(n) \in Signals /\ CommitSignal(n).kind = "commit"
                            /\ CommitSignal(n).text = n
  /\ \A k \in {"show", "hide"} : [kind |-> k] \in Signals /\ [kind |-> k].kind = k
  BY DEF Signals, UpdateSignal, CommitSignal

LEMMA WordsAre ==
  /\ MaxTexts \in Nat
  /\ Empty \in Words /\ Empty.text = 0 /\ ~Empty.visible /\ ~Kept(Empty)
  /\ \A w \in Words : /\ w \in Texts /\ w.text \in 0..MaxTexts /\ w.visible \in BOOLEAN
                      /\ w.text = 0 => w = Empty
  /\ \A w \in Words, b \in BOOLEAN :
       w.text # 0 => /\ [w EXCEPT !.visible = b] \in Words
                     /\ [w EXCEPT !.visible = b].text = w.text
                     /\ [w EXCEPT !.visible = b].visible = b
                     /\ w.visible = b => [w EXCEPT !.visible = b] = w
  /\ \A t \in Texts, b \in BOOLEAN : [t EXCEPT !.visible = b] \in Texts
  <1>1. MaxTexts \in Nat
    BY PreeditBounds
  <1>2. Empty \in Words /\ Empty.text = 0 /\ ~Empty.visible /\ ~Kept(Empty)
    BY DEF Words, Empty, Kept
  <1>3. ASSUME NEW w \in Words
        PROVE  /\ w \in Texts /\ w.text \in 0..MaxTexts /\ w.visible \in BOOLEAN
               /\ w.text = 0 => w = Empty
    <2>1. CASE w = Empty
      BY <1>1, <2>1 DEF Words, Texts, Empty
    <2>2. CASE w \in [text : 1..MaxTexts, visible : BOOLEAN, mode : {"clear", "commit"}]
      BY <1>1, <2>2 DEF Texts
    <2> QED
      BY <2>1, <2>2 DEF Words
  <1>4. ASSUME NEW w \in Words, NEW b \in BOOLEAN, w.text # 0
        PROVE  /\ [w EXCEPT !.visible = b] \in Words
               /\ [w EXCEPT !.visible = b].text = w.text
               /\ [w EXCEPT !.visible = b].visible = b
               /\ w.visible = b => [w EXCEPT !.visible = b] = w
    <2>1. w \in [text : 1..MaxTexts, visible : BOOLEAN, mode : {"clear", "commit"}]
      BY <1>4 DEF Words, Empty
    <2> QED
      BY <2>1 DEF Words
  <1>5. ASSUME NEW t \in Texts, NEW b \in BOOLEAN
        PROVE  [t EXCEPT !.visible = b] \in Texts
    BY DEF Texts
  <1> QED
    BY <1>1, <1>2, <1>3, <1>4, <1>5

LEMMA AppendIs ==
  ASSUME NEW S, NEW s \in Seq(S)
  PROVE  /\ s \o <<>> = s
         /\ \A x \in S : s \o <<x>> = Append(s, x)
         /\ \A x, y \in S : s \o <<x, y>> = Append(Append(s, x), y)
  <1>1. s \o <<>> = s /\ \A x \in S : s \o <<x>> = Append(s, x)
    OBVIOUS
  <1>2. \A x, y \in S : s \o <<x, y>> = Append(Append(s, x), y)
    OBVIOUS
  <1> QED
    BY <1>1, <1>2

LEMMA NothingIs ==
  /\ Range(<<>>) = {} /\ KeysLast(<<>>) /\ Commits(<<>>) = {} /\ Rising(<<>>) /\ OnlyClears(<<>>)
  BY DEF Range, KeysLast, Commits, Rising, OnlyClears

LEMMA OneIs ==
  ASSUME NEW x
  PROVE  /\ Range(<<x>>) = {x} /\ KeysLast(<<x>>) /\ Rising(<<x>>)
         /\ Commits(<<x>>) = IF x.kind = "commit" THEN {x.text} ELSE {}
         /\ OnlyClears(<<x>>) <=> x = UpdateSignal(Empty)
  <1>1. DOMAIN <<x>> = {1} /\ <<x>>[1] = x
    OBVIOUS
  <1>2. Commits(<<x>>) = IF x.kind = "commit" THEN {x.text} ELSE {}
    BY <1>1 DEF Commits
  <1> QED
    BY <1>1, <1>2 DEF Range, KeysLast, Rising, OnlyClears

(* A queue with a call or a signal more, and with its head taken. *)
LEMMA OneCallMore ==
  ASSUME NEW s \in Seq(Methods), NEW m \in Methods
  PROVE  /\ Append(s, m) \in Seq(Methods) /\ Range(Append(s, m)) = Range(s) \cup {m}
         /\ KeysLast(Append(s, m)) <=> KeysLast(s) /\ ("key" \in Range(s) => m \notin Ends)
  <1> DEFINE t == Append(s, m)
  <1>1. Joined(s, <<m>>, t) /\ t \in Seq(Methods)
    BY AppendJoined
  <1>2. Range(<<m>>) = {m} /\ KeysLast(<<m>>)
    BY OneIs
  <1> HIDE DEF t
  <1>3. Range(t) = Range(s) \cup {m}
    BY <1>1, <1>2, RangeJoined
  <1>4. KeysLast(t) <=> KeysLast(s) /\ ("key" \in Range(s) => {m} \cap Ends = {})
    BY <1>1, <1>2, KeysLastJoined
  <1> QED
    BY <1>1, <1>3, <1>4 DEF t

LEMMA OneCallLess ==
  ASSUME NEW s \in Seq(Methods), s # <<>>
  PROVE  /\ Head(s) \in Methods /\ Tail(s) \in Seq(Methods)
         /\ Range(s) = {Head(s)} \cup Range(Tail(s))
         /\ KeysLast(s) => /\ KeysLast(Tail(s))
                           /\ Head(s) = "key" => Range(Tail(s)) \cap Ends = {}
  <1>1. Joined(<<Head(s)>>, Tail(s), s) /\ Head(s) \in Methods /\ Tail(s) \in Seq(Methods)
    BY HeadJoined
  <1>2. Range(<<Head(s)>>) = {Head(s)}
    BY OneIs
  <1>3. Range(s) = {Head(s)} \cup Range(Tail(s))
    BY <1>1, <1>2, RangeJoined
  <1>4. KeysLast(s) => /\ KeysLast(Tail(s))
                       /\ "key" \in {Head(s)} => Range(Tail(s)) \cap Ends = {}
    BY <1>1, <1>2, KeysLastJoined
  <1> QED
    BY <1>1, <1>3, <1>4

LEMMA OneSignalMore ==
  ASSUME NEW s \in Seq(Signals), NEW x \in Signals
  PROVE  LET t == Append(s, x)
             c == IF x.kind = "commit" THEN {x.text} ELSE {}
         IN  /\ t \in Seq(Signals) /\ t # <<>>
             /\ Head(t) = IF s = <<>> THEN x ELSE Head(s)
             /\ Commits(t) = Commits(s) \cup c
             /\ Rising(t) <=> Rising(s) /\ Less(Commits(s), c)
             /\ OnlyClears(t) <=> OnlyClears(s) /\ x = UpdateSignal(Empty)
  <1> DEFINE t == Append(s, x)
             c == IF x.kind = "commit" THEN {x.text} ELSE {}
  <1>0. t \in Seq(Signals) /\ t # <<>>
    BY AppendProperties
  <1>7. s = <<>> => Head(t) = x
    OBVIOUS
  <1>8. s # <<>> => Head(t) = Head(s)
    <2> SUFFICES ASSUME s # <<>>
                 PROVE  Head(t) = Head(s)
      OBVIOUS
    <2>1. Len(s) >= 1 /\ t[1] = s[1]
      OBVIOUS
    <2>2. Head(s) = s[1] /\ Head(t) = t[1]
      OBVIOUS
    <2> QED
      BY <2>1, <2>2
  <1>1. t \in Seq(Signals) /\ t # <<>> /\ Head(t) = IF s = <<>> THEN x ELSE Head(s)
    BY <1>0, <1>7, <1>8
  <1>2. Joined(s, <<x>>, t)
    BY AppendJoined
  <1>3. Commits(<<x>>) = c /\ Rising(<<x>>) /\ (OnlyClears(<<x>>) <=> x = UpdateSignal(Empty))
    BY OneIs
  <1> HIDE DEF t, c
  <1>4. Commits(t) = Commits(s) \cup c
    BY <1>2, <1>3, CommitsJoined
  <1>5. Rising(t) <=> Rising(s) /\ Less(Commits(s), c)
    BY <1>2, <1>3, RisingJoined
  <1>6. OnlyClears(t) <=> OnlyClears(s) /\ x = UpdateSignal(Empty)
    BY <1>2, <1>3, ClearsJoined
  <1> QED
    BY <1>1, <1>4, <1>5, <1>6 DEF t, c

LEMMA OneSignalLess ==
  ASSUME NEW s \in Seq(Signals), s # <<>>
  PROVE  LET x == Head(s)
             c == IF x.kind = "commit" THEN {x.text} ELSE {}
         IN  /\ x \in Signals /\ Tail(s) \in Seq(Signals)
             /\ Commits(s) = c \cup Commits(Tail(s))
             /\ Rising(s) <=> Rising(Tail(s)) /\ Less(c, Commits(Tail(s)))
             /\ OnlyClears(s) <=> x = UpdateSignal(Empty) /\ OnlyClears(Tail(s))
  <1> DEFINE x == Head(s)
             r == Tail(s)
             c == IF x.kind = "commit" THEN {x.text} ELSE {}
  <1>1. Joined(<<x>>, r, s) /\ x \in Signals /\ r \in Seq(Signals)
    BY HeadJoined
  <1>3. Commits(<<x>>) = c /\ Rising(<<x>>) /\ (OnlyClears(<<x>>) <=> x = UpdateSignal(Empty))
    BY OneIs
  <1> HIDE DEF x, r, c
  <1>4. Commits(s) = c \cup Commits(r)
    BY <1>1, <1>3, CommitsJoined
  <1>5. Rising(s) <=> Rising(r) /\ Less(c, Commits(r))
    BY <1>1, <1>3, RisingJoined
  <1>6. OnlyClears(s) <=> x = UpdateSignal(Empty) /\ OnlyClears(r)
    BY <1>1, <1>3, ClearsJoined
  <1> QED
    BY <1>1, <1>4, <1>5, <1>6 DEF x, r, c

LEMMA SignalLeaves ==
  ASSUME NEW t \in Texts, NEW x \in Signals
  PROVE  AfterSignal(t, x) \in Texts
  BY SignalsAre, WordsAre DEF AfterSignal

LEMMA MakesMore ==
  ASSUME NEW t \in Texts, NEW s \in Seq(Signals), NEW x \in Signals, NEW u \in Texts,
         Makes(t, s, u), Turned(u, x)
  PROVE  Makes(t, Append(s, x), AfterSignal(u, x))
  <1>1. AfterSignal(u, x) \in Texts
    BY SignalLeaves
  <1>2. Makes(u, <<x>>, AfterSignal(u, x))
    BY <1>1, MakesOne
  <1>3. Joined(s, <<x>>, Append(s, x))
    BY AppendJoined
  <1> QED
    BY <1>2, <1>3, MakesJoined

LEMMA MakesLess ==
  ASSUME NEW t \in Texts, NEW s \in Seq(Signals), s # <<>>, NEW u \in Texts, Makes(t, s, u)
  PROVE  Turned(t, Head(s)) /\ Makes(AfterSignal(t, Head(s)), Tail(s), u)
  <1>1. Joined(<<Head(s)>>, Tail(s), s)
    BY HeadJoined
  <1>2. PICK b \in Texts : Makes(t, <<Head(s)>>, b) /\ Makes(b, Tail(s), u)
    BY <1>1, MakesJoined
  <1> QED
    BY <1>2, MakesOne

LEMMA ClearsMake ==
  ASSUME NEW t \in Texts, NEW s \in Seq(Signals), s # <<>>, OnlyClears(s)
  PROVE  Makes(t, s, Empty)
  <1> DEFINE f == [i \in 0..Len(s) |-> IF i = 0 THEN t ELSE Empty]
  <1>0. Len(s) \in Nat /\ Len(s) > 0 /\ DOMAIN s = 1..Len(s)
    OBVIOUS
  <1>1. Empty \in Texts
    BY WordsAre
  <1>2. f \in [0..Len(s) -> Texts] /\ f[0] = t /\ f[Len(s)] = Empty
    BY <1>0, <1>1
  <1>3. ASSUME NEW i \in 1..Len(s)
        PROVE  Turned(f[i - 1], s[i]) /\ f[i] = AfterSignal(f[i - 1], s[i])
    <2>1. f[i] = Empty
      BY <1>0
    <2>2. s[i] = UpdateSignal(Empty)
      BY <1>0 DEF OnlyClears
    <2> HIDE DEF f
    <2>3. s[i].kind = "update" /\ s[i].shown = Empty
      BY <2>2, SignalsSaid, WordsAre
    <2> QED
      BY <2>1, <2>3 DEF Turned, AfterSignal
  <1> HIDE DEF f
  <1> QED
    BY <1>2, <1>3 DEF Makes

(* The text v in the end, or none to be seen where v is the empty one. *)
Dark(t) == ~t.visible \/ t.text = 0

Reaches(t, s, v) == \E u \in Texts : Makes(t, s, u) /\ (u = v \/ (v.text = 0 /\ Dark(u)))

LEMMA ReachesMore ==
  ASSUME NEW t \in Texts, NEW s \in Seq(Signals), NEW x \in Signals, NEW v \in Texts,
         Reaches(t, s, v), x.kind \in {"show", "hide"} => v.text # 0
  PROVE  Reaches(t, Append(s, x), AfterSignal(v, x))
  <1>1. PICK u \in Texts : Makes(t, s, u) /\ (u = v \/ (v.text = 0 /\ Dark(u)))
    BY Zenon DEF Reaches
  <1>2. Turned(u, x)
    BY <1>1 DEF Turned
  <1>3. Makes(t, Append(s, x), AfterSignal(u, x)) /\ AfterSignal(u, x) \in Texts
    BY <1>1, <1>2, MakesMore, SignalLeaves
  <1>4. AfterSignal(u, x) = AfterSignal(v, x) \/ (AfterSignal(v, x).text = 0 /\ Dark(AfterSignal(u, x)))
    BY <1>1, SignalsAre DEF AfterSignal
  <1> QED
    BY <1>3, <1>4 DEF Reaches

LEMMA ReachesLess ==
  ASSUME NEW t \in Texts, NEW s \in Seq(Signals), s # <<>>, NEW v, Reaches(t, s, v)
  PROVE  Reaches(AfterSignal(t, Head(s)), Tail(s), v)
  <1>1. PICK u \in Texts : Makes(t, s, u) /\ (u = v \/ (v.text = 0 /\ Dark(u)))
    BY Zenon DEF Reaches
  <1> QED
    BY <1>1, MakesLess DEF Reaches

LEMMA ReachesNothing ==
  ASSUME NEW t \in Texts, NEW v
  PROVE  Reaches(t, <<>>, v) <=> t = v \/ (v.text = 0 /\ Dark(t))
  BY MakesNothing, Zenon DEF Reaches

LEMMA ReachesDark ==
  ASSUME NEW t, NEW s, NEW v, Reaches(t, s, v), Dark(v)
  PROVE  Reaches(t, s, Empty)
  BY WordsAre DEF Reaches

-----------------------------------------------------------------------------
(* The end of a preedit is sent by the client, and passed on to the engine. *)
EndSent == Range(toEngine) \cap Ends # {}

Closing == Ended \/ EndSent

(* What the client is to show; and that the engine clears what it shows.    *)
View == IF embedded THEN contextText ELSE Empty

Doomed == Closing \/ (fromEngine # <<>> /\ Head(fromEngine).kind = "update")

(* The texts the application has got, and those on their way to it.         *)
Got == Range(committed)

Com == Got \cup Commits(toClient) \cup Commits(fromEngine)

(* Without a mishap no key is on its way before an end ...                  *)
CallsInOrder ==
  /\ KeysLast(toContext) /\ KeysLast(toEngine)
  /\ Ended => "key" \notin Range(toEngine)

(* ... the signals of the engine make its text of the context's, until an   *)
(* end is on its way: then they only clear it.                              *)
EngineHeard ==
  IF Closing
  THEN /\ OnlyClears(fromEngine)
       /\ engineText = Empty \/ fromEngine = <<>>
       /\ \/ contextText = Empty /\ EndSent
          \/ /\ fromEngine = <<>> /\ contextText = engineText
             /\ EndSent => ~Kept(engineText)
          \/ fromEngine # <<>> /\ engineText = Empty /\ ~Kept(contextText)
  ELSE Makes(contextText, fromEngine, engineText)

LeftAlone ==
  ~attached => /\ contextText = Empty /\ OnlyClears(fromEngine)
               /\ "key" \notin Range(toEngine)
               /\ engineText = Empty \/ EndSent

Focused ==
  /\ attached => contextFocus
  /\ ignoring => ~embedded /\ contextText.text # 0

(* ... the client comes to show what it is to show, or has ended it;        *)
ClientShows ==
  \/ Reaches(clientText, toClient, View)
  \/ Doomed /\ Reaches(clientText, toClient, Empty)

ClientEnded ==
  Ended /\ clientCommits /\ embedded /\ Kept(contextText) =>
    Reaches(clientText, toClient, Empty) /\ contextText.text \in Got

PanelShows ==
  IF embedded THEN Dark(panelText)
  ELSE panelText = contextText \/ (contextText.text = 0 /\ Dark(panelText))

(* ... and each text is committed once, and is due.                         *)
InTurn ==
  /\ CommittedInOrder /\ Rising(toClient) /\ Rising(fromEngine)
  /\ Less(Got, Commits(toClient)) /\ Less(Got, Commits(fromEngine))
  /\ Less(Commits(toClient), Commits(fromEngine))

Counted == Com \subseteq 1..begun /\ engineText.text \in {0, begun}

Paid ==
  /\ due \subseteq Com /\ Com \ due \subseteq {engineText.text}
  /\ engineText.text \in Com =>
       /\ Kept(engineText)
       /\ \/ Ended /\ clientCommits /\ embedded /\ contextText = engineText
          \/ EndSent /\ contextText = Empty
  /\ EndSent /\ Kept(engineText) => engineText.text \in Com

Settling ==
  /\ CallsInOrder /\ EngineHeard /\ LeftAlone /\ Focused
  /\ ClientShows /\ ClientEnded /\ PanelShows
  /\ InTurn /\ Counted /\ Paid

PreeditTypes ==
  /\ engineText \in Words /\ contextText \in Texts
  /\ panelText \in Texts /\ clientText \in Texts
  /\ clientCommits \in BOOLEAN /\ wayland \in BOOLEAN /\ embedded \in BOOLEAN
  /\ contextFocus \in BOOLEAN /\ attached \in BOOLEAN /\ ignoring \in BOOLEAN
  /\ clientFocus \in BOOLEAN
  /\ toContext \in Seq(Methods) /\ toEngine \in Seq(Methods)
  /\ fromEngine \in Seq(Signals) /\ toClient \in Seq(Signals)
  /\ committed \in Seq(1..MaxTexts) /\ due \subseteq 1..MaxTexts
  /\ begun \in 0..MaxTexts

PreeditInv == PreeditTypes /\ (mishaps = {} => Settling)

LEMMA PreeditInitInv == PreeditInit => PreeditInv
  <1> SUFFICES ASSUME PreeditInit
               PROVE  PreeditInv
    OBVIOUS
  <1>0. /\ <<>> \in Seq(Methods) /\ <<>> \in Seq(Signals) /\ <<>> \in Seq(1..MaxTexts)
        /\ 0 \in 0..MaxTexts /\ Empty \in Words /\ Empty \in Texts
    BY WordsAre
  <1>1. PreeditTypes
    BY <1>0 DEF PreeditInit, PreeditTypes
  <1>2. ~Closing /\ ~EndSent /\ ~Ended
    BY NothingIs DEF PreeditInit, Closing, EndSent, Ended
  <1>3. Got = {} /\ Com = {}
    BY NothingIs DEF PreeditInit, Got, Com
  <1>4. CallsInOrder /\ LeftAlone /\ Focused /\ ClientEnded /\ Counted /\ Paid
    BY <1>2, <1>3, NothingIs, WordsAre
    DEF PreeditInit, CallsInOrder, LeftAlone, Focused, ClientEnded, Counted, Paid
  <1>5. EngineHeard
    BY <1>2, MakesNothing, WordsAre DEF PreeditInit, EngineHeard
  <1>6. ClientShows
    BY ReachesNothing, WordsAre DEF PreeditInit, ClientShows, View
  <1>7. PanelShows
    BY WordsAre DEF PreeditInit, PanelShows, Dark
  <1>8. InTurn
    BY <1>3, NothingIs DEF PreeditInit, InTurn, CommittedInOrder, Less
  <1> QED
    BY <1>1, <1>4, <1>5, <1>6, <1>7, <1>8 DEF PreeditInv, Settling

LEMMA PreeditSettlesThen == PreeditInv => PreeditSettles
  <1> SUFFICES ASSUME PreeditTypes, Settling
               PROVE  CommittedInOrder /\ CommittedIsDue /\ (AtRest => Agreed)
    BY DEF PreeditInv, PreeditSettles
  <1>1. CommittedInOrder
    BY DEF Settling, InTurn
  <1>2. CommittedIsDue
    BY DEF Settling, Paid, CommittedIsDue, Com, Got
  <1>3. ASSUME AtRest
        PROVE  Agreed
    <2>1. ~Closing /\ ~EndSent /\ ~Ended /\ ~Doomed /\ Com = Got
      BY <1>3, NothingIs DEF AtRest, Closing, EndSent, Ended, Doomed, Com
    <2>2. contextText = engineText
      BY <1>3, <2>1, MakesNothing, WordsAre DEF Settling, EngineHeard, AtRest, PreeditTypes
    <2>3. clientText = View \/ (View.text = 0 /\ Dark(clientText))
      BY <1>3, <2>1, ReachesNothing DEF Settling, ClientShows, AtRest, PreeditTypes
    <2>4. Looks(clientText) = IF embedded THEN Looks(contextText) ELSE 0
      BY <2>3, WordsAre DEF Looks, View, Dark
    <2>5. Looks(panelText) = IF embedded THEN 0 ELSE Looks(contextText)
      BY DEF Settling, PanelShows, Looks, Dark
    <2>6. Range(committed) = due
      BY <2>1 DEF Settling, Paid, Got
    <2> QED
      BY <2>2, <2>4, <2>5, <2>6 DEF Agreed
  <1> QED
    BY <1>1, <1>2, <1>3

(* What the context sends when it shows a text, and when it clears it.      *)
LEMMA ShowingMore ==
  ASSUME PreeditTypes, NEW q \in Seq(Signals), NEW w \in Words
  PROVE  LET t == q \o Showing(w)
         IN  /\ t \in Seq(Signals) /\ Commits(t) = Commits(q) /\ (Rising(t) <=> Rising(q))
             /\ ~embedded => t = q
             /\ \A v \in Texts :
                  Reaches(clientText, q, v) /\ embedded => Reaches(clientText, t, w)
  <1>1. CASE embedded
    <2> DEFINE x == UpdateSignal(w)
    <2>1. x \in Signals /\ x.kind = "update" /\ x.shown = w
      BY SignalsSaid
    <2>2. q \o Showing(w) = Append(q, x)
      BY <1>1, <2>1, AppendIs DEF Showing
    <2> HIDE DEF x
    <2>3. /\ Append(q, x) \in Seq(Signals) /\ Commits(Append(q, x)) = Commits(q) \cup {}
          /\ Rising(Append(q, x)) <=> Rising(q) /\ Less(Commits(q), {})
      BY <2>1, OneSignalMore
    <2>4. ASSUME NEW v \in Texts, Reaches(clientText, q, v)
          PROVE  Reaches(clientText, Append(q, x), w)
      <3>1. AfterSignal(v, x) = w
        BY <2>1 DEF AfterSignal
      <3>2. Reaches(clientText, Append(q, x), AfterSignal(v, x))
        BY <2>1, <2>4, ReachesMore DEF PreeditTypes
      <3> QED
        BY <3>1, <3>2
    <2> QED
      BY <1>1, <2>2, <2>3, <2>4 DEF Less
  <1>2. CASE ~embedded
    BY <1>2, AppendIs DEF Showing
  <1> QED
    BY <1>1, <1>2 DEF PreeditTypes

CommittedNow(b) == IF b /\ Kept(contextText) THEN {contextText.text} ELSE {}

LEMMA ClearingMore ==
  ASSUME PreeditTypes, NEW q \in Seq(Signals), NEW b \in BOOLEAN
  PROVE  LET t == q \o Clearing(b)
         IN  /\ t \in Seq(Signals) /\ Commits(t) = Commits(q) \cup CommittedNow(b)
             /\ Rising(t) <=> Rising(q) /\ Less(Commits(q), CommittedNow(b))
             /\ ~b => t = q
             /\ \A v \in Texts :
                  Reaches(clientText, q, v) =>
                    Reaches(clientText, t, IF b /\ embedded THEN Empty ELSE v)
  <1>1. CASE ~b
    <2>1. q \o Clearing(b) = q /\ CommittedNow(b) = {}
      BY <1>1, AppendIs DEF Clearing, CommittedNow
    <2> QED
      BY <1>1, <2>1 DEF Less
  <1>2. CASE b /\ ~Kept(contextText)
    <2>1. Clearing(b) = Showing(Empty) /\ CommittedNow(b) = {}
      <3>1. Showing(Empty) \in Seq(Signals)
        BY SignalsSaid, WordsAre DEF Showing
      <3> QED
        BY <1>2, <3>1, AppendIs DEF Clearing, CommittedNow
    <2> DEFINE t == q \o Showing(Empty)
    <2>2. /\ t \in Seq(Signals) /\ Commits(t) = Commits(q) /\ (Rising(t) <=> Rising(q))
          /\ ~embedded => t = q
          /\ \A v \in Texts :
               Reaches(clientText, q, v) /\ embedded => Reaches(clientText, t, Empty)
      BY ShowingMore, WordsAre
    <2>3. q \o Clearing(b) = t
      BY <2>1
    <2> HIDE DEF t
    <2> QED
      BY <1>2, <2>1, <2>2, <2>3 DEF Less
  <1>3. CASE b /\ Kept(contextText)
    <2> DEFINE x == CommitSignal(contextText.text)
               p == q \o Showing(Empty)
    <2>1. /\ x \in Signals /\ x.kind = "commit" /\ x.text = contextText.text
          /\ CommittedNow(b) = {x.text}
      BY <1>3, SignalsSaid, WordsAre DEF Kept, PreeditTypes, Texts, CommittedNow
    <2>2. q \o Clearing(b) = Append(p, x)
      <3>1. Showing(Empty) \in Seq(Signals) /\ <<x>> \in Seq(Signals)
        BY <2>1, SignalsSaid, WordsAre DEF Showing
      <3>2. Clearing(b) = Showing(Empty) \o <<x>>
        BY <1>3 DEF Clearing
      <3> HIDE DEF x
      <3>3. q \o Clearing(b) = p \o <<x>>
        BY <3>1, <3>2, ConcatAssociative
      <3>4. p \in Seq(Signals)
        BY ShowingMore, WordsAre
      <3> HIDE DEF p
      <3> QED
        BY <2>1, <3>3, <3>4, AppendIs
    <2>3. /\ p \in Seq(Signals) /\ Commits(p) = Commits(q) /\ (Rising(p) <=> Rising(q))
          /\ ~embedded => p = q
          /\ \A v \in Texts :
               Reaches(clientText, q, v) /\ embedded => Reaches(clientText, p, Empty)
      BY ShowingMore, WordsAre
    <2> HIDE DEF x, p
    <2>4. /\ Append(p, x) \in Seq(Signals) /\ Commits(Append(p, x)) = Commits(p) \cup {x.text}
          /\ Rising(Append(p, x)) <=> Rising(p) /\ Less(Commits(p), {x.text})
      BY <2>1, <2>3, OneSignalMore
    <2>5. ASSUME NEW v \in Texts, Reaches(clientText, q, v)
          PROVE  Reaches(clientText, Append(p, x), IF embedded THEN Empty ELSE v)
      <3> DEFINE u == IF embedded THEN Empty ELSE v
      <3>1. Reaches(clientText, p, u) /\ u \in Texts
        BY <2>3, <2>5, WordsAre
      <3>2. AfterSignal(u, x) = u
        BY <2>1 DEF AfterSignal
      <3> HIDE DEF u
      <3>3. Reaches(clientText, Append(p, x), AfterSignal(u, x))
        BY <2>1, <2>3, <3>1, ReachesMore DEF PreeditTypes
      <3> QED
        BY <3>2, <3>3 DEF u
    <2> QED
      BY <1>3, <2>1, <2>2, <2>3, <2>4, <2>5
  <1> QED
    BY <1>1, <1>2, <1>3

LEMMA ClearedText ==
  ASSUME NEW t \in Texts
  PROVE  /\ [t EXCEPT !.text = 0, !.mode = "clear"] \in Texts
         /\ [t EXCEPT !.text = 0, !.mode = "clear"].text = 0
  BY WordsAre DEF Texts

LEMMA PreeditTypesStep == PreeditTypes /\ PreeditNext => PreeditTypes'
  <1> SUFFICES ASSUME PreeditTypes, PreeditNext
               PROVE  PreeditTypes'
    OBVIOUS
  <1> USE DEF PreeditTypes, setup, history, icVars, clientVariables, engineVars
  <1>0. /\ "key" \in Methods /\ "focus_in" \in Methods /\ "focus_out" \in Methods
        /\ "reset" \in Methods /\ "set_capabilities" \in Methods
    BY DEF Methods
  <1>1. \A m \in Methods : Append(toContext, m) \in Seq(Methods) /\ Append(toEngine, m) \in Seq(Methods)
    BY OneCallMore
  <1>2. /\ toContext # <<>> => Tail(toContext) \in Seq(Methods)
        /\ toEngine # <<>> => Tail(toEngine) \in Seq(Methods)
    BY OneCallLess
  <1>3. /\ toClient # <<>> => Head(toClient) \in Signals /\ Tail(toClient) \in Seq(Signals)
        /\ fromEngine # <<>> => Head(fromEngine) \in Signals /\ Tail(fromEngine) \in Seq(Signals)
    BY OneSignalLess
  <1>4. \A x \in Signals : /\ Append(toClient, x) \in Seq(Signals)
                           /\ fromEngine \o <<x>> \in Seq(Signals)
                           /\ \A y \in Signals : fromEngine \o <<x, y>> \in Seq(Signals)
    BY AppendIs, OneSignalMore
  <1>5. toEngine \o FocusCalls \in Seq(Methods) /\ toEngine \o FocusCalls \o <<"key">> \in Seq(Methods)
    BY <1>0 DEF FocusCalls
  <1>6. ASSUME ImClearPreedit
        PROVE  clientText' \in Texts /\ committed' \in Seq(1..MaxTexts)
    <2>1. clientText' \in Texts
      BY <1>6, ClearedText DEF ImClearPreedit
    <2>2. Kept(clientText) => clientText.text \in 1..MaxTexts
      BY WordsAre DEF Kept, Texts
    <2> QED
      BY <1>6, <2>1, <2>2, AppendProperties DEF ImClearPreedit
  <1>7. CASE PressKey \/ ImFocusIn \/ ImSetCapabilities
    BY <1>0, <1>1, <1>7 DEF PressKey, ImFocusIn, ImSetCapabilities, Sends
  <1>8. CASE ImFocusOut
    BY <1>0, <1>1, <1>6, <1>8 DEF ImFocusOut, Sends
  <1>9. ASSUME NEW clears \in BOOLEAN, ImReset(clears)
        PROVE  PreeditTypes'
    BY <1>0, <1>1, <1>6, <1>9 DEF ImReset, Sends
  <1>10. CASE ImSignal
    <2>1. clientText' = AfterSignal(clientText, Head(toClient))
      BY <1>10 DEF ImSignal, AfterSignal
    <2>2. clientText' \in Texts /\ toClient' \in Seq(Signals)
      BY <1>3, <1>10, <2>1, SignalLeaves DEF ImSignal
    <2>3. committed' \in Seq(1..MaxTexts)
      BY <1>3, <1>10, SignalsAre, AppendProperties DEF ImSignal
    <2> QED
      BY <1>10, <2>2, <2>3 DEF ImSignal
  <1>11. CASE ContextFocusIn \/ ProcessKey
    <2>1. panelText' \in Texts /\ attached' \in BOOLEAN /\ contextFocus' \in BOOLEAN
      BY <1>11, WordsAre DEF ContextFocusIn, ProcessKey, TakesFocus
    <2>2. toContext' \in Seq(Methods) /\ toEngine' \in Seq(Methods)
      BY <1>2, <1>5, <1>11 DEF ContextFocusIn, ProcessKey, Received
    <2>3. UNCHANGED <<setup, engineVars, clientVariables, due, fromEngine, contextText,
                      embedded, ignoring, toClient>>
      BY <1>11 DEF ContextFocusIn, ProcessKey, Received
    <2> QED
      BY <2>1, <2>2, <2>3
  <1>12. ASSUME NEW w \in Words, Shows(w)
         PROVE  /\ contextText' \in Texts /\ panelText' \in Texts
                /\ embedded' \in BOOLEAN => ignoring' \in BOOLEAN
    BY <1>12, WordsAre DEF Shows
  <1>13. ASSUME NEW b \in BOOLEAN, Clears(b)
         PROVE  contextText' \in Texts /\ panelText' \in Texts /\ ignoring' \in BOOLEAN
    BY <1>13, WordsAre DEF Clears, Shows
  <1>14. \A b \in BOOLEAN : /\ toClient \o Clearing(b) \in Seq(Signals)
                            /\ toClient \o Clearing(b) \o Showing(Empty) \in Seq(Signals)
                            /\ toClient \o Clearing(b) \o <<>> \in Seq(Signals)
    BY ClearingMore, ShowingMore, WordsAre, AppendIs
  <1>15. CASE ContextFocusOut
    <2>1. CASE ignoring \/ ~contextFocus
      BY <1>2, <1>15, <2>1 DEF ContextFocusOut, Received
    <2>2. CASE ~(ignoring \/ ~contextFocus)
      BY <1>0, <1>1, <1>2, <1>13, <1>14, <1>15, <2>2 DEF ContextFocusOut, Received
    <2> QED
      BY <2>1, <2>2
  <1>16. CASE ContextReset
    BY <1>0, <1>1, <1>2, <1>13, <1>14, <1>16 DEF ContextReset, Received
  <1>17. CASE SetCapabilities
    BY <1>2, <1>17 DEF SetCapabilities, Received
  <1>18. CASE OtherFocusIn
    BY <1>0, <1>1, <1>12, <1>18, WordsAre, ShowingMore DEF OtherFocusIn, Turn, Shows
  <1>19. CASE SetEngine
    <2>1. <<"focus_in">> \in Seq(Methods) /\ <<>> \in Seq(Signals)
      BY <1>0
    <2>2. due' \subseteq 1..MaxTexts
      <3>1. Kept(engineText) => engineText.text \in 1..MaxTexts
        BY WordsAre DEF Kept
      <3> QED
        BY <1>19, <3>1 DEF SetEngine
    <2>3. contextText' \in Texts /\ panelText' \in Texts /\ ignoring' \in BOOLEAN
      BY <1>13, <1>19 DEF SetEngine
    <2>4. /\ toClient' \in Seq(Signals) /\ engineText' \in Words
          /\ toEngine' \in Seq(Methods) /\ fromEngine' \in Seq(Signals)
          /\ UNCHANGED <<setup, clientVariables, contextFocus, embedded, toContext, begun, attached>>
      BY <1>14, <1>19, <2>1, WordsAre DEF SetEngine, Turn
    <2> QED
      BY <1>13, <1>14, <1>19, <2>1, <2>2, <2>3, <2>4
  <1>20. CASE EngineSignal
    <2>1. fromEngine' \in Seq(Signals)
      BY <1>3, <1>20 DEF EngineSignal
    <2>2. contextText' \in Texts /\ panelText' \in Texts /\ ignoring' \in BOOLEAN /\ toClient' \in Seq(Signals)
      <3> DEFINE x == Head(fromEngine)
      <3>1. x \in Signals
        BY <1>3, <1>20 DEF EngineSignal
      <3>2. CASE ~attached
        BY <1>20, <3>2 DEF EngineSignal
      <3>3. CASE attached /\ x.kind = "update"
        <4>1. x.shown \in Words
          BY <3>1, <3>3, SignalsAre
        <4>2. Shows(x.shown) /\ toClient' = toClient \o Showing(x.shown) /\ embedded' = embedded
          BY <1>20, <3>3 DEF EngineSignal
        <4>3. toClient \o Showing(x.shown) \in Seq(Signals)
          BY <4>1, ShowingMore
        <4> QED
          BY <1>12, <4>1, <4>2, <4>3
      <3>4. CASE attached /\ x.kind = "commit"
        BY <1>4, <1>20, <3>1, <3>4 DEF EngineSignal
      <3>5. CASE attached /\ x.kind \in {"show", "hide"}
        <4> DEFINE b == x.kind = "show"
        <4>1. Turns(b) /\ ignoring' = ignoring
          BY <1>20, <3>5 DEF EngineSignal
        <4>2. CASE contextText.visible = b
          BY <4>1, <4>2 DEF Turns
        <4>3. CASE contextText.visible # b
          <5>1. b \in BOOLEAN
            OBVIOUS
          <5>2. [contextText EXCEPT !.visible = b] \in Texts /\ [panelText EXCEPT !.visible = b] \in Texts
            BY <5>1, WordsAre
          <5>3. [kind |-> IF b THEN "show" ELSE "hide"] \in Signals
            BY SignalsSaid
          <5>4. /\ contextText' = [contextText EXCEPT !.visible = b]
                /\ panelText' \in {panelText, [panelText EXCEPT !.visible = b]}
                /\ toClient' \in {toClient, Append(toClient, [kind |-> IF b THEN "show" ELSE "hide"])}
            BY <4>1, <4>3 DEF Turns
          <5> QED
            BY <1>4, <4>1, <5>2, <5>3, <5>4
        <4> QED
          BY <4>2, <4>3
      <3> QED
        BY <3>1, <3>2, <3>3, <3>4, <3>5, SignalsAre
    <2> QED
      BY <1>20, <2>1, <2>2 DEF EngineSignal
  <1>21. ASSUME NEW m, Hears(m)
         PROVE  /\ toEngine' \in Seq(Methods)
                /\ UNCHANGED <<setup, icVars, clientVariables, toContext, toClient>>
    BY <1>2, <1>21 DEF Hears
  <1>23. CASE EngineFocusIn
    BY <1>21, <1>23 DEF EngineFocusIn
  <1>24. Kept(engineText) \/ engineText.text # 0 => engineText.text \in 1..MaxTexts
    BY WordsAre DEF Kept
  <1>25. UpdateSignal(Empty) \in Signals
    BY SignalsSaid, WordsAre
  <1>26. CASE EngineKey
    <2>1. toEngine' \in Seq(Methods)
          /\ UNCHANGED <<setup, icVars, clientVariables, toContext, toClient>>
      BY <1>21, <1>26 DEF EngineKey
    <2>2. CASE ComposeText
      <3>1. begun' \in 0..MaxTexts /\ engineText' \in Words /\ due' = due
        BY <2>2, WordsAre DEF ComposeText, Words
      <3>2. fromEngine' \in Seq(Signals)
        <4>1. UpdateSignal(engineText') \in Signals
          BY <3>1, SignalsSaid
        <4> QED
          BY <1>4, <2>2, <4>1 DEF ComposeText, Says
      <3> QED
        BY <2>1, <3>1, <3>2
    <2>3. CASE CommitText
      <3>1. CommitSignal(engineText.text) \in Signals
        BY <1>24, <2>3, SignalsSaid DEF CommitText
      <3>2. fromEngine' \in Seq(Signals)
        BY <1>4, <1>25, <2>3, <3>1 DEF CommitText, Says
      <3>3. engineText' \in Words /\ due' \subseteq 1..MaxTexts /\ begun' = begun
        BY <1>24, <2>3, WordsAre DEF CommitText
      <3> QED
        BY <2>1, <3>2, <3>3
    <2>4. CASE Cancel
      <3>1. fromEngine' \in Seq(Signals)
        BY <1>4, <1>25, <2>4 DEF Cancel, Says
      <3>2. engineText' \in Words /\ due' = due /\ begun' = begun
        BY <2>4, WordsAre DEF Cancel
      <3> QED
        BY <2>1, <3>1, <3>2
    <2>5. CASE HideOrShow
      <3>1. [kind |-> IF engineText.visible THEN "hide" ELSE "show"] \in Signals
        BY SignalsSaid
      <3>2. fromEngine' \in Seq(Signals)
        BY <1>4, <2>5, <3>1 DEF HideOrShow, Says
      <3>3. engineText' \in Words /\ due' = due /\ begun' = begun
        BY <2>5, WordsAre DEF HideOrShow
      <3> QED
        BY <2>1, <3>2, <3>3
    <2>6. CASE UNCHANGED <<engineVars, due, fromEngine>>
      BY <2>1, <2>6
    <2> QED
      BY <1>26, <2>2, <2>3, <2>4, <2>5, <2>6 DEF EngineKey
  <1>22. ASSUME NEW method \in {"focus_out", "reset"}, EngineEnds(method)
         PROVE  PreeditTypes'
    <2>1. due' \subseteq 1..MaxTexts /\ engineText' \in Words /\ begun' = begun
      BY <1>22, <1>24, WordsAre DEF EngineEnds
    <2>2. fromEngine' \in Seq(Signals)
      BY <1>4, <1>22, <1>25 DEF EngineEnds, Says
    <2> QED
      BY <1>21, <1>22, <2>1, <2>2 DEF EngineEnds
  <1> QED
    BY <1>7, <1>8, <1>9, <1>10, <1>11, <1>15, <1>16, <1>17, <1>18, <1>19, <1>20, <1>22, <1>23, <1>26
    DEF PreeditNext

-----------------------------------------------------------------------------
(* Each action without a mishap.  A call of the client that ends nothing.   *)
LEMMA SettlingCalls ==
  ASSUME PreeditTypes, Settling,
         PressKey \/ ImFocusIn \/ ImSetCapabilities
  PROVE  Settling'
  <1>1. PICK m \in Methods \ Ends : toContext' = Append(toContext, m)
    BY DEF PressKey, ImFocusIn, ImSetCapabilities, Sends, Methods, Ends
  <1>2. UNCHANGED <<clientCommits, clientText, committed, icVars, engineVars, due,
                    toEngine, fromEngine, toClient>>
    BY DEF PressKey, ImFocusIn, ImSetCapabilities, setup, history, clientVariables
  <1>3. Range(toContext)' = Range(toContext) \cup {m} /\ (KeysLast(toContext)' <=> KeysLast(toContext))
    BY <1>1, OneCallMore DEF PreeditTypes
  <1>4. Ended' = Ended /\ EndSent' = EndSent /\ Closing' = Closing /\ Doomed' = Doomed
    BY <1>1, <1>2, <1>3 DEF Ended, EndSent, Closing, Doomed, Ends
  <1>5. Got' = Got /\ Com' = Com /\ View' = View /\ CommittedInOrder' = CommittedInOrder
    BY <1>2 DEF Got, Com, View, CommittedInOrder, icVars
  <1>6. CallsInOrder' /\ EngineHeard' /\ LeftAlone' /\ Focused'
    BY <1>2, <1>3, <1>4
    DEF Settling, CallsInOrder, EngineHeard, LeftAlone, Focused, icVars, engineVars
  <1>7. ClientShows' /\ ClientEnded' /\ PanelShows'
    BY <1>2, <1>4, <1>5 DEF Settling, ClientShows, ClientEnded, PanelShows, icVars
  <1>8. InTurn' /\ Counted' /\ Paid'
    BY <1>2, <1>4, <1>5 DEF Settling, InTurn, Counted, Paid, icVars, engineVars
  <1> QED
    BY <1>6, <1>7, <1>8 DEF Settling

LEMMA CommittedMore ==
  ASSUME PreeditTypes, NEW n \in 1..MaxTexts, committed' = Append(committed, n),
         CommittedInOrder, Less(Got, {n})
  PROVE  CommittedInOrder' /\ Got' = Got \cup {n}
  <1> DEFINE s == committed
             t == Append(committed, n)
  <1>1. Joined(s, <<n>>, t)
    BY AppendJoined DEF PreeditTypes
  <1>2. Got' = Got \cup {n}
    <2>1. Range(<<n>>) = {n}
      BY OneIs
    <2> HIDE DEF s, t
    <2>2. Range(t) = Range(s) \cup {n}
      BY <1>1, <2>1, RangeJoined
    <2> QED
      BY <2>2 DEF Got, s, t
  <1>3. ASSUME NEW i \in DOMAIN t, NEW j \in DOMAIN t, i < j
        PROVE  t[i] < t[j]
    <2>1. /\ i \in DOMAIN s /\ t[i] = s[i]
          /\ \/ j \in DOMAIN s /\ t[j] = s[j]
             \/ t[j] = n
      BY <1>3, AppendProperties DEF PreeditTypes
    <2> QED
      BY <1>3, <2>1 DEF CommittedInOrder, Less, Got, Range
  <1> QED
    BY <1>2, <1>3 DEF CommittedInOrder

(* The client ends its preedit, and commits what it shows.                  *)
LEMMA SettlingEnds ==
  ASSUME PreeditTypes, Settling, mishaps' = {},
         NEW m \in Ends, toContext' = Append(toContext, m),
         mishaps' = mishaps \cup Crossing,
         \/ clientCommits /\ ImClearPreedit
         \/ /\ UNCHANGED <<clientText, committed>>
            /\ clientCommits => ~Kept(clientText),
         UNCHANGED <<clientCommits, icVars, engineVars, due, toEngine, fromEngine, toClient>>
  PROVE  Settling'
  <1>1. /\ "key" \notin Range(toContext) /\ "key" \notin Range(toEngine)
        /\ fromEngine = <<>> /\ toClient = <<>>
    BY DEF Crossing
  <1>2. Range(toContext)' = Range(toContext) \cup {m} /\ KeysLast(toContext)'
    BY <1>1, OneCallMore DEF PreeditTypes, Settling, CallsInOrder, Methods, Ends
  <1>3. Ended' /\ Closing' /\ Doomed' /\ EndSent' = EndSent
    BY <1>2 DEF Ended, EndSent, Closing, Doomed, Ends
  <1>4. /\ Commits(toClient) = {} /\ Commits(fromEngine) = {} /\ Com = Got
        /\ OnlyClears(fromEngine)
    BY <1>1, NothingIs DEF Com
  <1>5. contextText = engineText \/ (contextText = Empty /\ EndSent)
    BY <1>1, MakesNothing DEF Settling, EngineHeard, PreeditTypes
  <1>6. \/ clientText = View \/ (View.text = 0 /\ Dark(clientText))
        \/ Closing /\ (clientText = Empty \/ Dark(clientText))
    BY <1>1, ReachesNothing DEF Settling, ClientShows, Doomed, PreeditTypes
  <1>7. ASSUME Kept(contextText), Closing
        PROVE  Ended /\ contextText = engineText
    BY <1>1, <1>7, WordsAre DEF Settling, EngineHeard, Closing
  <1>8. ASSUME clientCommits, Kept(clientText)
        PROVE  /\ ~Closing /\ embedded /\ clientText = contextText /\ contextText = engineText
               /\ engineText.text = begun /\ begun \in 1..MaxTexts /\ begun \notin Got
    <2>1. clientText = contextText /\ embedded
      BY <1>6, <1>8, WordsAre DEF Kept, Dark, View
    <2>2. ASSUME Closing
          PROVE  FALSE
      <3>1. Reaches(clientText, <<>>, Empty)
        BY <1>1, <1>7, <1>8, <2>1, <2>2 DEF Settling, ClientEnded
      <3> QED
        BY <1>8, <3>1, ReachesNothing, WordsAre DEF Kept, Dark, PreeditTypes
    <2>3. contextText = engineText
      BY <1>5, <2>2 DEF Closing
    <2>4. engineText.text = begun /\ begun \in 1..MaxTexts
      BY <1>8, <2>1, <2>3, WordsAre DEF Kept, Settling, Counted, PreeditTypes
    <2>5. engineText.text \notin Com
      BY <2>2 DEF Settling, Paid, Closing
    <2> QED
      BY <1>4, <2>1, <2>2, <2>3, <2>4, <2>5
  <1>9. Less(Got, {begun}) \/ begun \in Got
    BY <1>4 DEF Settling, Counted, Less, PreeditTypes
  <1>10. \/ clientCommits /\ Kept(clientText) /\ Got' = Got \cup {begun}
         \/ (clientCommits => ~Kept(clientText)) /\ Got' = Got
    <2>1. CASE clientCommits /\ Kept(clientText)
      <3>1. committed' = Append(committed, begun)
        BY <1>8, <2>1 DEF ImClearPreedit
      <3> QED
        BY <1>8, <1>9, <2>1, <3>1, CommittedMore DEF Settling, InTurn
    <2>2. CASE ~(clientCommits /\ Kept(clientText))
      BY <2>2 DEF ImClearPreedit, Got
    <2> QED
      BY <2>1, <2>2
  <1>11. CommittedInOrder'
    <2>1. CASE clientCommits /\ Kept(clientText)
      <3>1. committed' = Append(committed, begun)
        BY <1>8, <2>1 DEF ImClearPreedit
      <3> QED
        BY <1>8, <1>9, <2>1, <3>1, CommittedMore DEF Settling, InTurn
    <2>2. CASE ~(clientCommits /\ Kept(clientText))
      BY <2>2 DEF ImClearPreedit, CommittedInOrder, Settling, InTurn
    <2> QED
      BY <2>1, <2>2
  <1>12. clientText' = clientText \/ (clientText' \in Texts /\ clientText'.text = 0)
    BY ClearedText DEF ImClearPreedit, PreeditTypes
  <1>13. clientCommits /\ Kept(clientText) => clientText' \in Texts /\ clientText'.text = 0
    BY ClearedText DEF ImClearPreedit, PreeditTypes
  <1>14. Com' = Got' /\ View' = View
    BY <1>4 DEF Com, View, icVars
  <1>15. ASSUME clientText' \in Texts, Dark(clientText')
         PROVE  Reaches(clientText', <<>>, Empty)
    BY <1>15, ReachesNothing, WordsAre
  <1>16. CallsInOrder'
    BY <1>1, <1>2 DEF CallsInOrder, Settling
  <1>17. EngineHeard'
    BY <1>1, <1>3, <1>4, <1>5 DEF EngineHeard, Settling, Closing, icVars, engineVars
  <1>18. LeftAlone' /\ Focused' /\ PanelShows'
    BY <1>3 DEF LeftAlone, Focused, PanelShows, Settling, icVars, engineVars
  <1>19. ClientShows'
    <2>1. CASE clientText' = clientText
      BY <1>1, <1>3, <1>14, <2>1 DEF ClientShows, Settling
    <2>2. CASE clientText' \in Texts /\ clientText'.text = 0
      BY <1>1, <1>3, <1>15, <2>2 DEF ClientShows, Dark
    <2> QED
      BY <1>12, <2>1, <2>2
  <1>20. ASSUME clientCommits, embedded, Kept(contextText)
         PROVE  Reaches(clientText', <<>>, Empty) /\ contextText.text \in Got'
    <2>1. CASE Kept(clientText)
      BY <1>8, <1>10, <1>13, <1>15, <1>20, <2>1 DEF Dark
    <2>2. CASE ~Kept(clientText)
      <3>1. Closing
        BY <1>6, <1>20, <2>2 DEF View, Kept
      <3>2. Reaches(clientText, <<>>, Empty) /\ contextText.text \in Got
        BY <1>1, <1>7, <1>20, <3>1 DEF Settling, ClientEnded
      <3>3. Reaches(clientText', <<>>, Empty)
        BY <1>12, <1>15, <3>2 DEF Dark
      <3> QED
        BY <1>10, <3>2, <3>3
    <2> QED
      BY <2>1, <2>2
  <1>21. ClientEnded'
    BY <1>1, <1>20 DEF ClientEnded, icVars
  <1>22. InTurn'
    BY <1>1, <1>4, <1>11, NothingIs DEF InTurn, Less
  <1>23. Counted' /\ Paid'
    <2>1. CASE clientCommits /\ Kept(clientText)
      <3>1. Com' = Com \cup {begun} /\ engineText' = engineText /\ begun' = begun /\ due' = due
        BY <1>4, <1>8, <1>10, <1>14, <2>1 DEF engineVars
      <3>2. begun \in 1..begun
        BY <1>8, <2>1
      <3>3. Counted'
        BY <1>8, <2>1, <3>1, <3>2 DEF Settling, Counted
      <3>4. Kept(engineText) /\ contextText' = engineText /\ embedded' /\ clientCommits'
        BY <1>8, <2>1 DEF icVars
      <3>5. Paid'
        BY <1>3, <1>8, <2>1, <3>1, <3>4 DEF Settling, Paid
      <3> QED
        BY <3>3, <3>5
    <2>2. CASE ~(clientCommits /\ Kept(clientText))
      BY <1>3, <1>4, <1>10, <1>14, <2>2 DEF Settling, Counted, Paid, icVars, engineVars
    <2> QED
      BY <2>1, <2>2
  <1> QED
    BY <1>16, <1>17, <1>18, <1>19, <1>21, <1>22, <1>23 DEF Settling

LEMMA SettlingClientEnds ==
  ASSUME PreeditTypes, Settling, mishaps' = {},
         ImFocusOut \/ \E clears \in BOOLEAN : ImReset(clears)
  PROVE  Settling'
  <1>1. /\ mishaps' = mishaps \cup Crossing
        /\ \E m \in Ends : toContext' = Append(toContext, m)
    BY DEF ImFocusOut, ImReset, Sends, Ends
  <1>2. \/ clientCommits /\ ImClearPreedit
        \/ UNCHANGED <<clientText, committed>> /\ (clientCommits => ~Kept(clientText))
    BY DEF ImFocusOut, ImReset
  <1>3. UNCHANGED <<clientCommits, icVars, engineVars, due, toEngine, fromEngine, toClient>>
    BY DEF ImFocusOut, ImReset, setup
  <1> QED
    BY <1>1, <1>2, <1>3, SettlingEnds

LEMMA SettlingSignals ==
  ASSUME PreeditTypes, Settling, ImSignal
  PROVE  Settling'
  <1> DEFINE x == Head(toClient)
             c == IF x.kind = "commit" THEN {x.text} ELSE {}
  <1>1. /\ toClient # <<>> /\ toClient' = Tail(toClient)
        /\ clientText' = AfterSignal(clientText, x)
        /\ committed' = IF x.kind = "commit" THEN Append(committed, x.text) ELSE committed
    BY DEF ImSignal, AfterSignal
  <1>2. /\ x \in Signals /\ Commits(toClient) = c \cup Commits(toClient')
        /\ Rising(toClient) <=> Rising(toClient') /\ Less(c, Commits(toClient'))
    BY <1>1, OneSignalLess DEF PreeditTypes
  <1>3. UNCHANGED <<clientCommits, icVars, engineVars, due, toContext, toEngine, fromEngine>>
    BY DEF ImSignal, setup, history
  <1>4. Less(Got, c) /\ Less(Got, Commits(toClient')) /\ Less(c, Commits(fromEngine))
        /\ Less(Commits(toClient'), Commits(fromEngine))
    BY <1>2 DEF Settling, InTurn, Less
  <1>5. x.kind = "commit" => x.text \in 1..MaxTexts
    BY <1>2, SignalsAre
  <1>6. CommittedInOrder' /\ Got' = Got \cup c
    <2>1. CASE x.kind = "commit"
      <3>1. c = {x.text}
        BY <2>1
      <3> HIDE DEF x, c
      <3> QED
        BY <1>1, <1>4, <1>5, <2>1, <3>1, CommittedMore DEF Settling, InTurn
    <2>2. CASE x.kind # "commit"
      BY <1>1, <2>2 DEF Settling, InTurn, CommittedInOrder, Got
    <2> QED
      BY <2>1, <2>2
  <1> HIDE DEF x, c
  <1>7. Com' = Com
    BY <1>2, <1>3, <1>6 DEF Com
  <1>8. Ended' = Ended /\ EndSent' = EndSent /\ Closing' = Closing /\ Doomed' = Doomed /\ View' = View
    BY <1>3 DEF Ended, EndSent, Closing, Doomed, View, icVars
  <1>9. ASSUME NEW v, Reaches(clientText, toClient, v)
        PROVE  Reaches(clientText', toClient', v)
    BY <1>1, <1>9, ReachesLess DEF PreeditTypes, x
  <1>10. CallsInOrder' /\ EngineHeard' /\ LeftAlone' /\ Focused' /\ PanelShows'
    BY <1>3, <1>8
    DEF Settling, CallsInOrder, EngineHeard, LeftAlone, Focused, PanelShows, icVars, engineVars
  <1>11. ClientShows' /\ ClientEnded'
    BY <1>3, <1>6, <1>8, <1>9 DEF Settling, ClientShows, ClientEnded, icVars
  <1>12. InTurn'
    BY <1>2, <1>3, <1>4, <1>6 DEF Settling, InTurn, Less
  <1>13. Counted' /\ Paid'
    BY <1>3, <1>7, <1>8 DEF Settling, Counted, Paid, icVars, engineVars
  <1> QED
    BY <1>10, <1>11, <1>12, <1>13 DEF Settling

LEMMA CallTaken ==
  ASSUME PreeditTypes, Settling, NEW m, Received(m)
  PROVE  /\ KeysLast(toContext)' /\ (Ended <=> Ended' \/ m \in Ends)
         /\ m = "key" => ~Ended
         /\ UNCHANGED <<clientCommits, wayland, engineText, begun, clientText, committed, due,
                        fromEngine>>
  <1>1. /\ toContext # <<>> /\ Head(toContext) = m /\ toContext' = Tail(toContext)
        /\ UNCHANGED <<clientCommits, wayland, engineText, begun, clientText, committed, due,
                       fromEngine>>
    BY DEF Received, setup, engineVars, clientVariables
  <1>2. /\ Range(toContext) = {m} \cup Range(toContext)'
        /\ KeysLast(toContext)' /\ (m = "key" => Range(toContext)' \cap Ends = {})
    BY <1>1, OneCallLess DEF Settling, CallsInOrder, PreeditTypes
  <1> QED
    BY <1>1, <1>2 DEF Ended, Ends

(* The context gets the focus, or takes its engine back with a key.         *)
LEMMA SettlingFocus ==
  ASSUME PreeditTypes, Settling, ContextFocusIn \/ ProcessKey
  PROVE  Settling'
  <1>1. PICK m \in {"focus_in", "key"} : Received(m) /\ (ProcessKey => m = "key")
                                         /\ (ContextFocusIn => m = "focus_in")
    BY DEF ContextFocusIn, ProcessKey, Received
  <1>2. /\ KeysLast(toContext)' /\ Ended' = Ended /\ (m = "key" => ~Ended)
        /\ UNCHANGED <<clientCommits, wayland, engineText, begun, clientText, committed, due,
                       fromEngine>>
    BY <1>1, CallTaken DEF Ends, Ended
  <1>3. contextText' = contextText /\ embedded' = embedded /\ ignoring' = ignoring
        /\ toClient' = toClient /\ contextFocus'
    BY DEF ContextFocusIn, ProcessKey
  <1>5. panelText' = panelText
    BY WordsAre DEF ContextFocusIn, ProcessKey, TakesFocus, Settling, Focused, LeftAlone
  <1>6. ASSUME NEW q \in Seq(Methods), KeysLast(q), NEW p \in Methods \ Ends
        PROVE  /\ Append(q, p) \in Seq(Methods) /\ KeysLast(Append(q, p))
               /\ Range(Append(q, p)) = Range(q) \cup {p}
    BY <1>6, OneCallMore
  <1>7. "key" \in Methods \ Ends /\ "focus_in" \in Methods \ Ends
    BY DEF Methods, Ends
  <1>8. LET t == toEngine \o FocusCalls
        IN  t \in Seq(Methods) /\ KeysLast(t) /\ Range(t) \in {Range(toEngine), Range(toEngine) \cup {"focus_in"}}
    <2>1. toEngine \in Seq(Methods) /\ KeysLast(toEngine)
      BY DEF PreeditTypes, Settling, CallsInOrder
    <2>2. CASE attached
      <3>1. toEngine \o FocusCalls = toEngine
        BY <2>1, <2>2, AppendIs DEF FocusCalls
      <3> QED
        BY <2>1, <3>1
    <2>3. CASE ~attached
      <3>1. toEngine \o FocusCalls = Append(toEngine, "focus_in")
        BY <1>7, <2>1, <2>3, AppendIs DEF FocusCalls
      <3> QED
        BY <1>6, <1>7, <2>1, <3>1
    <2> QED
      BY <2>2, <2>3
  <1>9. /\ KeysLast(toEngine)' /\ EndSent' = EndSent
        /\ "key" \in Range(toEngine)' => m = "key" \/ "key" \in Range(toEngine)
    <2>1. CASE ProcessKey
      <3> DEFINE t == toEngine \o FocusCalls
      <3>1. t \o <<"key">> = Append(t, "key")
        BY <1>7, <1>8, AppendIs
      <3>2. toEngine' = Append(t, "key")
        BY <2>1, <3>1 DEF ProcessKey
      <3>3. t \in Seq(Methods) /\ KeysLast(t) /\ Range(t) \in {Range(toEngine), Range(toEngine) \cup {"focus_in"}}
        BY <1>8
      <3> HIDE DEF t
      <3>4. KeysLast(toEngine)' /\ Range(toEngine)' = Range(t) \cup {"key"}
        BY <1>6, <1>7, <3>2, <3>3
      <3> QED
        BY <1>1, <2>1, <3>3, <3>4 DEF EndSent, Ends
    <2>2. CASE ContextFocusIn
      <3>1. toEngine' = toEngine \/ toEngine' = toEngine \o FocusCalls
        BY <2>2 DEF ContextFocusIn
      <3> QED
        BY <1>8, <3>1 DEF EndSent, Ends, Settling, CallsInOrder
    <2> QED
      BY <2>1, <2>2
  <1>10. Closing' = Closing /\ Doomed' = Doomed /\ View' = View /\ Got' = Got /\ Com' = Com
         /\ CommittedInOrder' = CommittedInOrder
    BY <1>2, <1>3, <1>9 DEF Closing, Doomed, View, Got, Com, CommittedInOrder
  <1>11. CallsInOrder'
    BY <1>2, <1>9 DEF Settling, CallsInOrder
  <1>12. EngineHeard' /\ Focused' /\ PanelShows'
    BY <1>2, <1>3, <1>5, <1>9, <1>10 DEF Settling, EngineHeard, Focused, PanelShows
  <1>13. LeftAlone'
    <2>1. ~attached' => ~attached /\ toEngine' = toEngine
      BY DEF ContextFocusIn, ProcessKey, TakesFocus
    <2> QED
      BY <1>2, <1>3, <1>9, <2>1 DEF Settling, LeftAlone
  <1>14. ClientShows' /\ ClientEnded'
    BY <1>2, <1>3, <1>10 DEF Settling, ClientShows, ClientEnded
  <1>15. InTurn' /\ Counted' /\ Paid'
    BY <1>2, <1>3, <1>9, <1>10 DEF Settling, InTurn, Counted, Paid
  <1> QED
    BY <1>11, <1>12, <1>13, <1>14, <1>15 DEF Settling

LEMMA SettlingCapabilities ==
  ASSUME PreeditTypes, Settling, mishaps' = {}, SetCapabilities
  PROVE  Settling'
  <1>1. Received("set_capabilities") /\ embedded' = ~embedded /\ contextText = Empty
        /\ UNCHANGED <<contextText, panelText, contextFocus, attached, ignoring, toEngine, toClient>>
    BY DEF SetCapabilities
  <1>2. /\ KeysLast(toContext)' /\ Ended' = Ended
        /\ UNCHANGED <<clientCommits, wayland, engineText, begun, clientText, committed, due,
                       fromEngine>>
    BY <1>1, CallTaken DEF Ends, Ended
  <1>3. EndSent' = EndSent /\ Closing' = Closing /\ Doomed' = Doomed /\ View' = Empty /\ View = Empty
        /\ Got' = Got /\ Com' = Com /\ CommittedInOrder' = CommittedInOrder
    BY <1>1, <1>2 DEF EndSent, Closing, Doomed, View, Got, Com, CommittedInOrder
  <1>4. CallsInOrder' /\ EngineHeard' /\ LeftAlone'
    BY <1>1, <1>2, <1>3 DEF Settling, CallsInOrder, EngineHeard, LeftAlone
  <1>5. Focused' /\ PanelShows'
    BY <1>1, <1>2, <1>3, WordsAre DEF Settling, Focused, PanelShows, Dark
  <1>6. ClientShows' /\ ClientEnded'
    BY <1>1, <1>2, <1>3, WordsAre DEF Settling, ClientShows, ClientEnded
  <1>7. InTurn' /\ Counted'
    BY <1>1, <1>2, <1>3 DEF Settling, InTurn, Counted
  <1>8. Paid'
    BY <1>1, <1>2, <1>3, WordsAre DEF Settling, Paid
  <1> QED
    BY <1>4, <1>5, <1>6, <1>7, <1>8 DEF Settling

(* The context gets the end of a preedit, and has none the client shows.    *)
LEMMA SettlingNoEngine ==
  ASSUME PreeditTypes, Settling, NEW m \in Ends, Received(m),
         ignoring \/ ~attached,
         UNCHANGED <<contextText, attached, embedded, toEngine>>,
         Focused', PanelShows',
         Commits(toClient') = Commits(toClient), Rising(toClient'),
         Reaches(clientText, toClient, Empty) => Reaches(clientText, toClient', Empty)
  PROVE  Settling'
  <1>1. /\ KeysLast(toContext)' /\ Ended
        /\ UNCHANGED <<clientCommits, wayland, engineText, begun, clientText, committed, due,
                       fromEngine>>
    BY CallTaken
  <1>2. View = Empty /\ View' = Empty /\ (embedded => contextText = Empty)
    BY DEF View, Settling, Focused, LeftAlone
  <1>3. Reaches(clientText, toClient, Empty)
    BY <1>2 DEF Settling, ClientShows
  <1>4. EndSent' = EndSent /\ Closing /\ Got' = Got /\ Com' = Com /\ CommittedInOrder' = CommittedInOrder
    BY <1>1 DEF EndSent, Closing, Got, Com, CommittedInOrder
  <1>5. CallsInOrder' /\ LeftAlone'
    BY <1>1, <1>4 DEF Settling, CallsInOrder, LeftAlone
  <1>6. ClientShows' /\ ClientEnded'
    BY <1>1, <1>2, <1>3, WordsAre DEF ClientShows, ClientEnded
  <1>7. InTurn' /\ Counted'
    BY <1>1, <1>4 DEF Settling, InTurn, Counted
  <1>8. Paid'
    BY <1>1, <1>2, <1>4, WordsAre DEF Settling, Paid
  <1>9. EngineHeard'
    <2>1. CASE Closing'
      BY <1>1, <1>4, <2>1 DEF Settling, EngineHeard
    <2>2. CASE ~Closing'
      <3>1. ~EndSent
        BY <1>4, <2>2 DEF Closing
      <3>2. OnlyClears(fromEngine)
        BY <1>4 DEF Settling, EngineHeard
      <3>3. CASE fromEngine = <<>> /\ contextText = engineText
        BY <1>1, <2>2, <3>3, MakesNothing DEF EngineHeard, PreeditTypes
      <3>4. CASE fromEngine # <<>> /\ engineText = Empty
        BY <1>1, <2>2, <3>2, <3>4, ClearsMake DEF EngineHeard, PreeditTypes
      <3> QED
        BY <1>4, <3>1, <3>3, <3>4 DEF Settling, EngineHeard
    <2> QED
      BY <2>1, <2>2
  <1> QED
    BY <1>5, <1>6, <1>7, <1>8, <1>9 DEF Settling

(* What holds of the text when its end is at the context.                   *)
LEMMA AtTheEnd ==
  ASSUME PreeditTypes, Settling, NEW m \in Ends, Received(m)
  PROVE  /\ OnlyClears(fromEngine) /\ (engineText = Empty \/ fromEngine = <<>>)
         /\ Kept(contextText) => fromEngine = <<>> /\ contextText = engineText /\ ~EndSent
         /\ Kept(engineText) => \/ contextText = Empty /\ engineText.text \in Com
                                \/ contextText = engineText
         /\ Kept(contextText) /\ engineText.text \in Com => clientCommits /\ embedded
         /\ Kept(contextText) /\ clientCommits /\ embedded =>
              Reaches(clientText, toClient, Empty) /\ engineText.text \in Com
  <1>1. Ended /\ Closing
    BY CallTaken DEF Closing
  <1>2. OnlyClears(fromEngine) /\ (engineText = Empty \/ fromEngine = <<>>)
    BY <1>1 DEF Settling, EngineHeard
  <1>3. Kept(contextText) => fromEngine = <<>> /\ contextText = engineText /\ ~EndSent
    BY <1>1, WordsAre DEF Settling, EngineHeard
  <1>4. Kept(engineText) => \/ contextText = Empty /\ engineText.text \in Com
                            \/ contextText = engineText
    BY <1>1, WordsAre DEF Settling, EngineHeard, Paid
  <1>5. Kept(contextText) /\ engineText.text \in Com => clientCommits /\ embedded
    BY <1>3 DEF Settling, Paid
  <1>6. Kept(contextText) /\ clientCommits /\ embedded =>
          Reaches(clientText, toClient, Empty) /\ engineText.text \in Com
    BY <1>1, <1>3 DEF Settling, ClientEnded, Com
  <1> QED
    BY <1>2, <1>3, <1>4, <1>5, <1>6

LEMMA EndPassed ==
  ASSUME PreeditTypes, Settling, NEW m \in Ends, Received(m), toEngine' = Append(toEngine, m)
  PROVE  CallsInOrder' /\ EndSent' /\ Closing' /\ "key" \notin Range(toEngine)'
  <1>1. KeysLast(toContext)' /\ Ended
    BY CallTaken
  <1>2. Range(toEngine)' = Range(toEngine) \cup {m} /\ KeysLast(toEngine)'
        /\ "key" \notin Range(toEngine)'
    <2>1. m \in Methods /\ m # "key" /\ "key" \notin Range(toEngine)
      BY <1>1 DEF Settling, CallsInOrder, Methods, Ends
    <2> QED
      BY <2>1, OneCallMore DEF PreeditTypes, Settling, CallsInOrder
  <1> QED
    BY <1>1, <1>2 DEF CallsInOrder, EndSent, Closing

(* It clears the text, and passes the end on.                               *)
LEMMA SettlingCleared ==
  ASSUME PreeditTypes, PreeditTypes', Settling, NEW m \in Ends, Received(m), Unseen = {},
         toEngine' = Append(toEngine, m), embedded' = embedded, contextText' = Empty,
         Focused', PanelShows',
         Commits(toClient') = Commits(toClient) \cup CommittedNow(~clientCommits),
         Rising(toClient') <=> /\ Rising(toClient)
                               /\ Less(Commits(toClient), CommittedNow(~clientCommits)),
         Reaches(clientText, toClient', Empty)
  PROVE  Settling'
  <1> DEFINE c == CommittedNow(~clientCommits)
  <1>1. UNCHANGED <<clientCommits, wayland, engineText, begun, clientText, committed, due, fromEngine>>
    BY CallTaken
  <1>2. CallsInOrder' /\ EndSent' /\ Closing' /\ "key" \notin Range(toEngine)'
    BY EndPassed
  <1>3. /\ OnlyClears(fromEngine) /\ (engineText = Empty \/ fromEngine = <<>>)
        /\ Kept(contextText) => fromEngine = <<>> /\ contextText = engineText
        /\ Kept(engineText) => engineText.text \in Com \/ contextText = engineText
        /\ Kept(contextText) /\ engineText.text \in Com => clientCommits
        /\ Kept(contextText) /\ clientCommits /\ embedded => engineText.text \in Com
    BY AtTheEnd
  <1>4. EngineHeard' /\ ClientShows' /\ ClientEnded'
    BY <1>1, <1>2, <1>3, WordsAre DEF EngineHeard, ClientShows, ClientEnded, View
  <1>5. LeftAlone'
    BY <1>1, <1>2, <1>3 DEF LeftAlone
  <1>6. Com' = Com \cup c /\ Got' = Got /\ CommittedInOrder' = CommittedInOrder
    BY <1>1 DEF Com, Got, CommittedInOrder
  <1>7. ASSUME NEW n \in c
        PROVE  /\ n = engineText.text /\ n = begun /\ n \in 1..begun /\ n \notin Com
               /\ Kept(engineText) /\ fromEngine = <<>>
    <2>1. ~clientCommits /\ Kept(contextText) /\ n = contextText.text
      BY <1>7 DEF CommittedNow
    <2>2. n = engineText.text /\ n \notin Com /\ Kept(engineText) /\ fromEngine = <<>>
      BY <1>3, <2>1
    <2>3. n = begun /\ n \in 1..begun
      BY <2>2, WordsAre DEF Kept, Settling, Counted, PreeditTypes
    <2> QED
      BY <2>2, <2>3
  <1>8. Kept(engineText) => engineText.text \in Com'
    BY <1>3, <1>6 DEF CommittedNow, Unseen
  <1> HIDE DEF c
  <1>9. Counted'
    BY <1>1, <1>6, <1>7 DEF Settling, Counted
  <1>10. Paid'
    BY <1>1, <1>2, <1>6, <1>7, <1>8 DEF Settling, Paid
  <1>11. ASSUME NEW a \in Com, NEW n \in c
         PROVE  a < n
    BY <1>7, <1>11 DEF Settling, Counted, PreeditTypes
  <1>12. InTurn'
    <2>1. Less(Got, c) /\ Less(Commits(toClient), c)
      BY <1>11 DEF Less, Com
    <2>2. c = {} \/ Commits(fromEngine) = {}
      BY <1>7, NothingIs
    <2>3. Commits(toClient') = Commits(toClient) \cup c
          /\ (Rising(toClient') <=> Rising(toClient) /\ Less(Commits(toClient), c))
      BY DEF c
    <2> QED
      BY <1>1, <1>6, <2>1, <2>2, <2>3 DEF Settling, InTurn, Less
  <1> QED
    BY <1>2, <1>4, <1>5, <1>9, <1>10, <1>12 DEF Settling

LEMMA SettlingFocusOut ==
  ASSUME PreeditTypes, PreeditTypes', Settling, mishaps' = {}, ContextFocusOut
  PROVE  Settling'
  <1>1. Received("focus_out") /\ embedded' = embedded /\ "focus_out" \in Ends
    BY DEF ContextFocusOut, Ends
  <1>2. UNCHANGED <<clientCommits, wayland, engineText, begun, clientText, committed, due, fromEngine>>
    BY <1>1, CallTaken
  <1>3. CASE ignoring \/ ~contextFocus
    <2>1. UNCHANGED <<contextText, panelText, contextFocus, attached, ignoring, toEngine, toClient>>
      BY <1>3 DEF ContextFocusOut
    <2>2. ignoring \/ ~attached
      BY <1>3 DEF Settling, Focused
    <2>3. Focused' /\ PanelShows' /\ Rising(toClient')
      BY <1>1, <2>1 DEF Settling, Focused, PanelShows, InTurn
    <2> QED
      BY <1>1, <2>1, <2>2, <2>3, SettlingNoEngine
  <1>4. CASE ~(ignoring \/ ~contextFocus)
    <2>1. /\ ~attached' /\ ~contextFocus' /\ Clears(attached \/ ~clientCommits)
          /\ toClient' = toClient \o Clearing(~clientCommits)
                           \o (IF attached THEN Showing(Empty) ELSE <<>>)
          /\ toEngine' = IF attached THEN Append(toEngine, "focus_out") ELSE toEngine
          /\ Unseen = {}
      BY <1>4 DEF ContextFocusOut
    <2>2. contextText' = Empty /\ ~ignoring'
      BY <1>4, <2>1, WordsAre DEF Clears, Shows
    <2>3. Focused'
      BY <2>1, <2>2 DEF Focused
    <2> DEFINE q == toClient \o Clearing(~clientCommits)
    <2>4. /\ q \in Seq(Signals) /\ Commits(q) = Commits(toClient) \cup CommittedNow(~clientCommits)
          /\ Rising(q) <=> Rising(toClient) /\ Less(Commits(toClient), CommittedNow(~clientCommits))
          /\ clientCommits => q = toClient
          /\ \A v \in Texts :
               Reaches(clientText, toClient, v) =>
                 Reaches(clientText, q, IF ~clientCommits /\ embedded THEN Empty ELSE v)
      BY ClearingMore DEF PreeditTypes
    <2>5. toClient' = q \o (IF attached THEN Showing(Empty) ELSE <<>>)
      BY <2>1
    <2>6. q \o <<>> = q
      BY <2>4, AppendIs
    <2>7. LET t == q \o Showing(Empty)
          IN  /\ Commits(t) = Commits(q) /\ (Rising(t) <=> Rising(q))
              /\ ~embedded => t = q
              /\ \A v \in Texts : Reaches(clientText, q, v) /\ embedded => Reaches(clientText, t, Empty)
      BY <2>4, ShowingMore, WordsAre
    <2> HIDE DEF q
    <2>8. CASE ~attached
      <3>1. toClient' = q /\ toEngine' = toEngine /\ contextText = Empty /\ attached' = attached
        <4>1. attached' = attached
          BY <2>1, <2>8 DEF PreeditTypes
        <4> QED
          BY <2>1, <2>5, <2>6, <2>8, <4>1 DEF Settling, LeftAlone
      <3>2. CommittedNow(~clientCommits) = {}
        BY <3>1, WordsAre DEF CommittedNow
      <3>3. Rising(toClient') /\ Commits(toClient') = Commits(toClient)
        BY <2>4, <3>1, <3>2 DEF Settling, InTurn, Less
      <3>4. Reaches(clientText, toClient, Empty) => Reaches(clientText, toClient', Empty)
        BY <2>4, <3>1, WordsAre
      <3>5. PanelShows'
        BY <1>1, <2>1, <3>1, WordsAre DEF Settling, PanelShows, Clears, Shows, Dark
      <3> QED
        BY <1>1, <2>2, <2>3, <2>8, <3>1, <3>3, <3>4, <3>5, SettlingNoEngine
    <2>9. CASE attached
      <3>1. toEngine' = Append(toEngine, "focus_out") /\ toClient' = q \o Showing(Empty)
        BY <2>1, <2>5, <2>9
      <3>2. PanelShows'
        BY <1>1, <2>1, <2>9, WordsAre DEF Settling, PanelShows, Clears, Shows, Dark
      <3>3. PICK v \in {View, Empty} : Reaches(clientText, toClient, v)
        BY DEF Settling, ClientShows
      <3>4. v \in Texts /\ Empty \in Texts /\ (~embedded => v = Empty)
        BY <3>3, WordsAre DEF View, PreeditTypes
      <3>5. Reaches(clientText, toClient', Empty)
        BY <2>4, <2>7, <3>1, <3>3, <3>4
      <3> QED
        BY <1>1, <2>1, <2>2, <2>3, <2>4, <2>7, <3>1, <3>2, <3>5, SettlingCleared
    <2> QED
      BY <2>8, <2>9
  <1> QED
    BY <1>3, <1>4

LEMMA SettlingReset ==
  ASSUME PreeditTypes, PreeditTypes', Settling, mishaps' = {}, ContextReset
  PROVE  Settling'
  <1>1. Received("reset") /\ "reset" \in Ends
        /\ UNCHANGED <<contextFocus, attached, embedded>>
    BY DEF ContextReset, Ends
  <1>2. UNCHANGED <<clientCommits, wayland, engineText, begun, clientText, committed, due, fromEngine>>
    BY <1>1, CallTaken
  <1>3. CASE ~(attached /\ ~ignoring)
    <2>1. UNCHANGED <<contextText, panelText, ignoring, toEngine, toClient>>
      BY <1>3 DEF ContextReset
    <2>2. Focused' /\ PanelShows' /\ Rising(toClient')
      BY <1>1, <2>1 DEF Settling, Focused, PanelShows, InTurn
    <2> QED
      BY <1>1, <1>3, <2>1, <2>2, SettlingNoEngine
  <1>4. CASE attached /\ ~ignoring /\ contextText.mode = "commit"
    <2>1. /\ Clears(~clientCommits) /\ toClient' = toClient \o Clearing(~clientCommits)
          /\ Unseen = {} /\ toEngine' = Append(toEngine, "reset")
      BY <1>4 DEF ContextReset
    <2>2. contextText' = Empty /\ ~ignoring'
      BY <1>4, <2>1, WordsAre DEF Clears, Shows
    <2>3. Focused'
      BY <1>1, <2>2 DEF Settling, Focused
    <2>4. PanelShows'
      BY <1>1, <1>4, <2>1, WordsAre
      DEF Settling, PanelShows, Clears, Shows, Unseen, Kept, Dark
    <2>5. /\ Commits(toClient') = Commits(toClient) \cup CommittedNow(~clientCommits)
          /\ Rising(toClient') <=> /\ Rising(toClient)
                                   /\ Less(Commits(toClient), CommittedNow(~clientCommits))
          /\ clientCommits => toClient' = toClient
          /\ \A v \in Texts :
               Reaches(clientText, toClient, v) =>
                 Reaches(clientText, toClient', IF ~clientCommits /\ embedded THEN Empty ELSE v)
      BY <2>1, ClearingMore DEF PreeditTypes
    <2>6. Reaches(clientText, toClient', Empty)
      <3>1. PICK v \in {View, Empty} : Reaches(clientText, toClient, v)
        BY DEF Settling, ClientShows
      <3>2. v \in Texts /\ Empty \in Texts /\ (~embedded => v = Empty)
        BY <3>1, WordsAre DEF View, PreeditTypes
      <3>3. CASE ~(clientCommits /\ embedded)
        BY <2>5, <3>1, <3>2, <3>3
      <3>4. CASE clientCommits /\ embedded
        <4>1. Kept(contextText) \/ Dark(v)
          BY <1>4, <3>1, WordsAre DEF View, Kept, Dark
        <4>2. Reaches(clientText, toClient, Empty)
          BY <1>1, <3>1, <3>4, <4>1, AtTheEnd, ReachesDark
        <4> QED
          BY <2>5, <3>4, <4>2
      <3> QED
        BY <3>3, <3>4
    <2> QED
      BY <1>1, <2>1, <2>2, <2>3, <2>4, <2>5, <2>6, SettlingCleared
  <1>5. CASE attached /\ ~ignoring /\ contextText.mode # "commit"
    <2>1. UNCHANGED <<contextText, panelText, ignoring, toClient>> /\ toEngine' = Append(toEngine, "reset")
      BY <1>5 DEF ContextReset
    <2>2. CallsInOrder' /\ EndSent' /\ Closing'
      BY <1>1, <2>1, EndPassed
    <2>3. ~Kept(contextText)
      BY <1>5 DEF Kept
    <2>4. Ended /\ Closing
      BY <1>1, CallTaken DEF Closing
    <2>5. Got' = Got /\ Com' = Com /\ CommittedInOrder' = CommittedInOrder /\ View' = View
      BY <1>1, <1>2, <2>1 DEF Got, Com, CommittedInOrder, View
    <2>6. EngineHeard'
      BY <1>2, <2>1, <2>2, <2>3, <2>4 DEF Settling, EngineHeard
    <2>7. LeftAlone' /\ Focused' /\ PanelShows'
      BY <1>1, <1>5, <2>1 DEF Settling, LeftAlone, Focused, PanelShows
    <2>8. ClientShows' /\ ClientEnded'
      BY <1>2, <2>1, <2>2, <2>3, <2>5 DEF Settling, ClientShows, ClientEnded, Doomed
    <2>9. InTurn' /\ Counted'
      BY <1>2, <2>1, <2>5 DEF Settling, InTurn, Counted
    <2>10. Paid'
      <3>1. Kept(engineText) => engineText.text \in Com
        BY <1>1, <2>3, AtTheEnd
      <3>2. engineText.text \in Com => Kept(engineText) /\ contextText = Empty
        BY <2>3 DEF Settling, Paid
      <3> QED
        BY <1>2, <2>1, <2>2, <2>5, <3>1, <3>2 DEF Settling, Paid
    <2> QED
      BY <2>2, <2>6, <2>7, <2>8, <2>9, <2>10 DEF Settling
  <1> QED
    BY <1>3, <1>4, <1>5

(* The engine is taken from the context, or another comes in its place.     *)
LEMMA SettlingOther ==
  ASSUME PreeditTypes, PreeditTypes', Settling, mishaps' = {}, OtherFocusIn
  PROVE  Settling'
  <1>1. /\ fromEngine = <<>> /\ "key" \notin Range(toEngine)
        /\ Kept(contextText) => clientCommits /\ embedded /\ Ended
    BY DEF OtherFocusIn, EngineUnheard
  <1>2. UNCHANGED <<clientCommits, clientText, committed, contextFocus, embedded, toContext,
                    engineText, begun, due, fromEngine>>
    BY DEF OtherFocusIn, Turn, setup, clientVariables, engineVars
  <1>3. /\ contextText' = Empty /\ ~ignoring' /\ ~attached' /\ toEngine' = Append(toEngine, "focus_out")
        /\ panelText' = IF embedded THEN panelText ELSE Empty
        /\ toClient' = toClient \o Showing(Empty)
    BY WordsAre DEF OtherFocusIn, Shows
  <1>4. /\ Range(toEngine)' = Range(toEngine) \cup {"focus_out"} /\ KeysLast(toEngine)'
    BY <1>1, <1>3, OneCallMore DEF PreeditTypes, Settling, CallsInOrder, Methods
  <1>5. EndSent' /\ Closing' /\ Ended' = Ended
    BY <1>2, <1>4 DEF EndSent, Closing, Ended, Ends
  <1>6. /\ Commits(toClient') = Commits(toClient) /\ (Rising(toClient') <=> Rising(toClient))
        /\ ~embedded => toClient' = toClient
        /\ \A v \in Texts :
             Reaches(clientText, toClient, v) /\ embedded => Reaches(clientText, toClient', Empty)
    BY <1>3, ShowingMore, WordsAre DEF PreeditTypes
  <1>7. Got' = Got /\ Com' = Com /\ CommittedInOrder' = CommittedInOrder /\ View' = Empty
    BY <1>2, <1>3, <1>6 DEF Got, Com, CommittedInOrder, View
  <1>8. CallsInOrder' /\ EngineHeard' /\ LeftAlone' /\ Focused' /\ PanelShows'
    BY <1>1, <1>2, <1>3, <1>4, <1>5, NothingIs, WordsAre
    DEF Settling, CallsInOrder, EngineHeard, LeftAlone, Focused, PanelShows, Dark
  <1>9. ClientShows'
    <2>1. PICK v \in {View, Empty} : Reaches(clientText, toClient, v)
      BY DEF Settling, ClientShows
    <2>2. v \in Texts /\ (~embedded => v = Empty)
      BY <2>1, WordsAre DEF View, PreeditTypes
    <2>3. Reaches(clientText, toClient', Empty)
      BY <1>6, <2>1, <2>2
    <2> QED
      BY <1>2, <1>7, <2>3 DEF ClientShows
  <1>10. ClientEnded'
    BY <1>3, WordsAre DEF ClientEnded
  <1>11. InTurn' /\ Counted'
    BY <1>2, <1>6, <1>7 DEF Settling, InTurn, Counted
  <1>12. Kept(engineText) => engineText.text \in Com
    <2>1. CASE contextText = engineText
      BY <1>1, <2>1 DEF Settling, ClientEnded, Com
    <2>2. CASE contextText # engineText
      <3>1. Closing
        BY <1>1, <2>2, MakesNothing DEF Settling, EngineHeard, PreeditTypes
      <3> QED
        BY <1>1, <2>2, <3>1 DEF Settling, EngineHeard, Paid
    <2> QED
      BY <2>1, <2>2
  <1>13. Paid'
    BY <1>2, <1>3, <1>5, <1>7, <1>12 DEF Settling, Paid
  <1> QED
    BY <1>8, <1>9, <1>10, <1>11, <1>13 DEF Settling

LEMMA SettlingSetEngine ==
  ASSUME PreeditTypes, PreeditTypes', Settling, mishaps' = {}, SetEngine
  PROVE  Settling'
  <1> DEFINE c == CommittedNow(TRUE)
  <1>1. fromEngine = <<>> /\ "key" \notin Range(toEngine) /\ ~Ended
    BY DEF SetEngine, EngineUnheard
  <1>2. UNCHANGED <<clientCommits, clientText, committed, contextFocus, attached, embedded, toContext,
                    begun>> /\ attached
    BY DEF SetEngine, Turn, setup, clientVariables
  <1>3. /\ contextText' = Empty /\ ~ignoring' /\ engineText' = Empty
        /\ toEngine' = <<"focus_in">> /\ fromEngine' = <<>>
        /\ panelText' = IF embedded THEN panelText ELSE Empty
        /\ toClient' = toClient \o Clearing(TRUE)
        /\ due' = due \cup (IF Kept(engineText) THEN {engineText.text} ELSE {})
    BY WordsAre DEF SetEngine, Clears, Shows
  <1>4. Range(toEngine)' = {"focus_in"} /\ KeysLast(toEngine)'
    BY <1>3, OneIs
  <1>5. ~EndSent' /\ ~Closing' /\ ~Ended'
    BY <1>1, <1>2, <1>4 DEF EndSent, Closing, Ended, Ends
  <1>6. /\ Commits(toClient') = Commits(toClient) \cup c
        /\ Rising(toClient') <=> Rising(toClient) /\ Less(Commits(toClient), c)
        /\ \A v \in Texts :
             Reaches(clientText, toClient, v) =>
               Reaches(clientText, toClient', IF embedded THEN Empty ELSE v)
    BY <1>3, ClearingMore DEF PreeditTypes
  <1>7. ASSUME NEW n \in c
        PROVE  /\ n = engineText.text /\ n = begun /\ n \in 1..begun /\ n \notin Com
               /\ Kept(engineText)
    <2>1. Kept(contextText) /\ n = contextText.text
      BY <1>7 DEF CommittedNow
    <2>2. ~Closing
      BY <1>1, <2>1, WordsAre DEF Settling, EngineHeard, Closing
    <2>3. contextText = engineText
      BY <1>1, <2>2, MakesNothing DEF Settling, EngineHeard, PreeditTypes
    <2>4. engineText.text \notin Com
      BY <2>2 DEF Settling, Paid, Closing
    <2>5. engineText.text = begun /\ begun \in 1..begun
      BY <2>1, <2>3, WordsAre DEF Kept, Settling, Counted, PreeditTypes
    <2> QED
      BY <2>1, <2>3, <2>4, <2>5
  <1>8. Kept(engineText) => engineText.text \in Com \cup c
    <2>1. CASE contextText = engineText
      BY <2>1 DEF CommittedNow
    <2>2. CASE contextText # engineText
      <3>1. Closing
        BY <1>1, <2>2, MakesNothing DEF Settling, EngineHeard, PreeditTypes
      <3> QED
        BY <1>1, <2>2, <3>1 DEF Settling, EngineHeard, Paid
    <2> QED
      BY <2>1, <2>2
  <1> HIDE DEF c
  <1>9. Commits(fromEngine) = {} /\ Commits(fromEngine)' = {}
    BY <1>1, <1>3, NothingIs
  <1>10. Got' = Got /\ Com' = Com \cup c /\ CommittedInOrder' = CommittedInOrder /\ View' = Empty
    BY <1>2, <1>3, <1>6, <1>9 DEF Got, Com, CommittedInOrder, View
  <1>11. CallsInOrder' /\ LeftAlone' /\ Focused' /\ PanelShows'
    BY <1>2, <1>3, <1>4, <1>5, WordsAre
    DEF Settling, CallsInOrder, LeftAlone, Focused, PanelShows, Dark
  <1>12. EngineHeard'
    BY <1>3, <1>5, MakesNothing, WordsAre DEF EngineHeard
  <1>13. ClientShows'
    <2>1. PICK v \in {View, Empty} : Reaches(clientText, toClient, v)
      BY DEF Settling, ClientShows
    <2>2. v \in Texts /\ (~embedded => v = Empty)
      BY <2>1, WordsAre DEF View, PreeditTypes
    <2>3. Reaches(clientText, toClient', Empty)
      BY <1>6, <2>1, <2>2
    <2> QED
      BY <1>2, <1>10, <2>3 DEF ClientShows
  <1>14. ClientEnded'
    BY <1>3, WordsAre DEF ClientEnded
  <1>15. Counted'
    BY <1>2, <1>3, <1>7, <1>10, WordsAre DEF Settling, Counted
  <1>16. Paid'
    <2>1. 0 \notin Com'
      BY <1>15 DEF Counted
    <2> QED
      BY <1>3, <1>5, <1>7, <1>8, <1>10, <2>1, WordsAre DEF Settling, Paid
  <1>17. InTurn'
    <2>1. \A a \in Com, n \in c : a < n
      BY <1>7 DEF Settling, Counted, PreeditTypes
    <2>2. Less(Got, c) /\ Less(Commits(toClient), c)
      BY <2>1 DEF Less, Com
    <2>3. Rising(fromEngine)'
      BY <1>3, NothingIs
    <2> QED
      BY <1>6, <1>9, <1>10, <2>2, <2>3 DEF Settling, InTurn, Less
  <1> QED
    BY <1>11, <1>12, <1>13, <1>14, <1>15, <1>16, <1>17 DEF Settling

LEMMA TurnedText ==
  ASSUME NEW t \in Texts, NEW b \in BOOLEAN
  PROVE  LET u == [t EXCEPT !.visible = b]
         IN  u \in Texts /\ u.text = t.text /\ (t.visible = b => u = t)
  BY DEF Texts

(* The signals of the engine reach the context.                             *)
LEMMA SettlingEngineSignals ==
  ASSUME PreeditTypes, PreeditTypes', Settling, EngineSignal
  PROVE  Settling'
  <1> DEFINE x == Head(fromEngine)
             c == IF x.kind = "commit" THEN {x.text} ELSE {}
  <1>1. fromEngine # <<>> /\ fromEngine' = Tail(fromEngine)
        /\ UNCHANGED <<clientCommits, engineText, begun, contextFocus, attached, embedded,
                       clientText, committed, due, toContext, toEngine>>
    BY DEF EngineSignal, setup, engineVars, clientVariables, history
  <1>2. /\ x \in Signals /\ Commits(fromEngine) = c \cup Commits(fromEngine')
        /\ Rising(fromEngine') /\ Less(c, Commits(fromEngine'))
        /\ OnlyClears(fromEngine) <=> x = UpdateSignal(Empty) /\ OnlyClears(fromEngine')
    BY <1>1, OneSignalLess DEF PreeditTypes, Settling, InTurn
  <1>3. Ended' = Ended /\ EndSent' = EndSent /\ Closing' = Closing /\ Got' = Got
        /\ CommittedInOrder' = CommittedInOrder
    BY <1>1 DEF Ended, EndSent, Closing, Got, CommittedInOrder
  <1>5. CallsInOrder'
    BY <1>1, <1>3 DEF Settling, CallsInOrder
  <1>6. Makes(contextText, fromEngine, engineText) =>
          Turned(contextText, x) /\ Makes(AfterSignal(contextText, x), fromEngine', engineText)
    BY <1>1, MakesLess, WordsAre DEF PreeditTypes
  <1>7. Closing \/ ~attached => x = UpdateSignal(Empty) /\ OnlyClears(fromEngine')
    BY <1>2 DEF Settling, EngineHeard, LeftAlone
  <1>8. x = UpdateSignal(Empty) => x.kind = "update" /\ x.shown = Empty
    BY SignalsSaid, WordsAre
  <1>9. Closing => engineText = Empty
    BY <1>1 DEF Settling, EngineHeard
  <1>10. x.kind # "update" => ~Doomed /\ ~Closing /\ attached
    BY <1>7, <1>8 DEF Doomed
  <1> HIDE DEF x, c
  <1>4. engineText.text \notin Com /\ (Kept(engineText) => ~Closing)
    BY <1>9, WordsAre DEF Settling, Paid, Closing
  <1>11. c \subseteq Com /\ (x.kind = "commit" => c = {x.text}) /\ (x.kind # "commit" => c = {})
    BY <1>2 DEF Com, c
  <1>12. ASSUME Commits(toClient') = Commits(toClient) \cup c, Rising(toClient')
         PROVE  InTurn' /\ Counted' /\ Paid'
    <2>1. Com' = Com
      BY <1>2, <1>3, <1>12 DEF Com
    <2>2. InTurn'
      BY <1>2, <1>3, <1>12 DEF Settling, InTurn, Less
    <2>3. Counted' /\ Paid'
      BY <1>1, <1>3, <1>4, <2>1 DEF Settling, Counted, Paid, Closing
    <2> QED
      BY <2>2, <2>3
  <1>13. Rising(toClient) /\ Less(Commits(toClient), c)
    BY <1>2 DEF Settling, InTurn, Less
  <1>14. CASE ~attached
    <2>1. UNCHANGED <<contextText, panelText, ignoring, toClient>> /\ contextText = Empty
      BY <1>14 DEF EngineSignal, Settling, LeftAlone
    <2>2. x.kind = "update" /\ x.shown = Empty /\ c = {} /\ OnlyClears(fromEngine')
      BY <1>7, <1>8, <1>11, <1>14
    <2>3. AfterSignal(contextText, x) = Empty
      BY <2>2 DEF AfterSignal
    <2>4. LeftAlone' /\ Focused' /\ PanelShows' /\ ClientEnded'
      BY <1>1, <1>3, <1>14, <2>1, <2>2, WordsAre
      DEF Settling, LeftAlone, Focused, PanelShows, ClientEnded
    <2>5. EngineHeard'
      BY <1>1, <1>3, <1>6, <1>9, <2>1, <2>2, <2>3, WordsAre DEF Settling, EngineHeard, Closing
    <2>6. ClientShows'
      BY <1>1, <2>1 DEF Settling, ClientShows, View
    <2>7. InTurn' /\ Counted' /\ Paid'
      BY <1>12, <1>13, <2>1, <2>2
    <2> QED
      BY <1>5, <2>4, <2>5, <2>6, <2>7 DEF Settling
  <1>15. CASE attached /\ x.kind = "update"
    <2> DEFINE w == x.shown
    <2>1. w \in Words /\ w \in Texts
      BY <1>2, <1>15, SignalsAre, WordsAre
    <2>2. Shows(w) /\ toClient' = toClient \o Showing(w)
      BY <1>15 DEF EngineSignal, x
    <2>3. AfterSignal(contextText, x) = w
      BY <1>15 DEF AfterSignal
    <2>4. Closing => w = Empty
      BY <1>7, <1>8
    <2> HIDE DEF w
    <2>5. /\ contextText' = w /\ panelText' = (IF embedded THEN panelText ELSE w)
          /\ ignoring' = (~embedded /\ w.visible /\ wayland)
      BY <2>2 DEF Shows
    <2>6. /\ Commits(toClient') = Commits(toClient) /\ Rising(toClient')
          /\ ~embedded => toClient' = toClient
          /\ \A v \in Texts :
               Reaches(clientText, toClient, v) /\ embedded => Reaches(clientText, toClient', w)
      BY <1>13, <2>1, <2>2, ShowingMore DEF PreeditTypes
    <2>7. EngineHeard'
      BY <1>1, <1>3, <1>6, <1>7, <1>9, <2>3, <2>4, <2>5, WordsAre DEF Settling, EngineHeard, Closing
    <2>8. LeftAlone' /\ PanelShows'
      BY <1>1, <1>15, <2>5 DEF Settling, LeftAlone, PanelShows
    <2>9. Focused'
      BY <1>1, <2>1, <2>5, WordsAre DEF Settling, Focused
    <2>10. ClientEnded'
      BY <1>3, <2>4, <2>5, WordsAre DEF ClientEnded, Closing
    <2>11. ClientShows'
      <3>1. PICK v \in {View, Empty} : Reaches(clientText, toClient, v)
        BY DEF Settling, ClientShows
      <3>2. v \in Texts /\ (~embedded => v = Empty)
        BY <3>1, WordsAre DEF View, PreeditTypes
      <3>3. View' = IF embedded THEN w ELSE Empty
        BY <1>1, <2>5 DEF View
      <3>4. Reaches(clientText, toClient', View')
        BY <2>6, <3>1, <3>2, <3>3
      <3> QED
        BY <1>1, <3>4 DEF ClientShows
    <2>12. InTurn' /\ Counted' /\ Paid'
      BY <1>11, <1>12, <1>15, <2>6
    <2> QED
      BY <1>5, <2>7, <2>8, <2>9, <2>10, <2>11, <2>12 DEF Settling
  <1>16. CASE attached /\ x.kind = "commit"
    <2>1. UNCHANGED <<contextText, panelText, ignoring>> /\ toClient' = Append(toClient, x)
      BY <1>16 DEF EngineSignal, x
    <2>2. AfterSignal(contextText, x) = contextText /\ AfterSignal(View, x) = View
      BY <1>16 DEF AfterSignal
    <2>3. ~Doomed /\ ~Closing /\ c = {x.text}
      BY <1>10, <1>11, <1>16
    <2>4. /\ Commits(toClient') = Commits(toClient) \cup c
          /\ Rising(toClient') <=> Rising(toClient) /\ Less(Commits(toClient), c)
      BY <1>2, <1>16, <2>1, <2>3, OneSignalMore DEF PreeditTypes
    <2>5. EngineHeard' /\ LeftAlone' /\ Focused' /\ PanelShows'
      BY <1>1, <1>3, <1>6, <1>16, <2>1, <2>2, <2>3
      DEF Settling, EngineHeard, LeftAlone, Focused, PanelShows
    <2>6. ClientEnded'
      BY <1>3, <2>3 DEF ClientEnded, Closing
    <2>7. ClientShows'
      <3>1. Reaches(clientText, toClient, View) /\ View \in Texts /\ View' = View
        BY <1>1, <2>1, <2>3, WordsAre DEF Settling, ClientShows, View, PreeditTypes
      <3>2. Reaches(clientText, Append(toClient, x), AfterSignal(View, x))
        BY <1>2, <1>16, <3>1, ReachesMore DEF PreeditTypes
      <3> QED
        BY <1>1, <2>1, <2>2, <3>1, <3>2 DEF ClientShows
    <2>8. InTurn' /\ Counted' /\ Paid'
      BY <1>12, <1>13, <2>4
    <2> QED
      BY <1>5, <2>5, <2>6, <2>7, <2>8 DEF Settling
  <1>17. CASE attached /\ x.kind \in {"show", "hide"}
    <2> DEFINE b == x.kind = "show"
               t == [contextText EXCEPT !.visible = b]
    <2>1. Turns(b) /\ UNCHANGED ignoring
      BY <1>17 DEF EngineSignal, x
    <2>2. ~Doomed /\ ~Closing /\ c = {}
      BY <1>10, <1>11, <1>17
    <2>3. Makes(contextText, fromEngine, engineText)
      BY <2>2 DEF Settling, EngineHeard
    <2>4. contextText.text # 0
      BY <1>6, <1>17, <2>3 DEF Turned
    <2>5. AfterSignal(contextText, x) = t
      BY <1>17 DEF AfterSignal
    <2>6. t \in Texts /\ t.text # 0 /\ (contextText.visible = b => t = contextText)
      <3>1. b \in BOOLEAN
        OBVIOUS
      <3> HIDE DEF b
      <3> QED
        BY <2>4, <3>1, TurnedText DEF PreeditTypes
    <2>7. ~embedded => panelText = contextText
      BY <2>4 DEF Settling, PanelShows
    <2>8. [kind |-> IF b THEN "show" ELSE "hide"] = x
      BY <1>2, <1>17, SignalsAre
    <2>9. /\ contextText' = t
          /\ IF embedded THEN panelText' = panelText ELSE panelText' = t
          /\ \/ toClient' = toClient /\ (embedded => t = contextText)
             \/ embedded /\ toClient' = Append(toClient, x)
      BY <2>1, <2>6, <2>7, <2>8 DEF Turns
    <2> HIDE DEF t, b
    <2>10. Commits(toClient') = Commits(toClient) \cup c /\ Rising(toClient')
      <3>1. CASE toClient' = toClient
        BY <1>13, <2>2, <3>1
      <3>2. CASE toClient' = Append(toClient, x)
        <4>1. /\ Commits(toClient') = Commits(toClient) \cup {}
              /\ Rising(toClient') <=> Rising(toClient) /\ Less(Commits(toClient), {})
          BY <1>2, <1>17, <3>2, OneSignalMore DEF PreeditTypes
        <4> QED
          BY <1>13, <2>2, <4>1
      <3> QED
        BY <2>9, <3>1, <3>2
    <2>11. EngineHeard' /\ LeftAlone' /\ Focused' /\ PanelShows'
      BY <1>1, <1>3, <1>6, <1>17, <2>1, <2>2, <2>3, <2>5, <2>6, <2>9
      DEF Settling, EngineHeard, LeftAlone, Focused, PanelShows
    <2>12. ClientEnded'
      BY <1>3, <2>2 DEF ClientEnded, Closing
    <2>13. ClientShows'
      <3>1. Reaches(clientText, toClient, View)
        BY <2>2 DEF Settling, ClientShows
      <3>2. View' = IF embedded THEN t ELSE Empty
        BY <1>1, <2>9 DEF View
      <3>3. CASE toClient' = toClient
        BY <1>1, <2>9, <3>1, <3>2, <3>3 DEF ClientShows, View
      <3>4. CASE embedded /\ toClient' = Append(toClient, x)
        <4>1. Reaches(clientText, Append(toClient, x), AfterSignal(contextText, x))
          BY <1>2, <2>4, <3>1, <3>4, ReachesMore DEF PreeditTypes, View
        <4> QED
          BY <1>1, <2>5, <3>2, <3>4, <4>1 DEF ClientShows
      <3> QED
        BY <2>9, <3>3, <3>4
    <2>14. InTurn' /\ Counted' /\ Paid'
      BY <1>12, <2>10
    <2> QED
      BY <1>5, <2>11, <2>12, <2>13, <2>14 DEF Settling
  <1> QED
    BY <1>2, <1>14, <1>15, <1>16, <1>17, SignalsAre

(* The engine takes a call.                                                 *)
LEMMA CallHeard ==
  ASSUME PreeditTypes, Settling, NEW m, Hears(m)
  PROVE  /\ Range(toEngine) = {m} \cup Range(toEngine)' /\ KeysLast(toEngine)'
         /\ m = "key" => ~EndSent /\ ~Ended /\ attached /\ ~EndSent'
         /\ CallsInOrder' /\ Ended' = Ended
         /\ UNCHANGED <<clientCommits, contextText, panelText, clientText, contextFocus, attached,
                        embedded, ignoring, committed, toContext, toClient>>
  <1>1. /\ toEngine # <<>> /\ Head(toEngine) = m /\ toEngine' = Tail(toEngine)
        /\ UNCHANGED <<clientCommits, contextText, panelText, clientText, contextFocus, attached,
                       embedded, ignoring, committed, toContext, toClient>>
    BY DEF Hears, setup, icVars, clientVariables
  <1>2. /\ Range(toEngine) = {m} \cup Range(toEngine)' /\ KeysLast(toEngine)'
        /\ m = "key" => Range(toEngine)' \cap Ends = {}
    BY <1>1, OneCallLess DEF Settling, CallsInOrder, PreeditTypes
  <1>3. Ended' = Ended
    BY <1>1 DEF Ended
  <1>4. CallsInOrder'
    BY <1>1, <1>2, <1>3 DEF Settling, CallsInOrder
  <1>5. m = "key" => ~EndSent /\ ~Ended /\ attached /\ ~EndSent'
    BY <1>2 DEF EndSent, Ends, Settling, CallsInOrder, LeftAlone
  <1> QED
    BY <1>1, <1>2, <1>3, <1>4, <1>5

LEMMA SettlingEngineFocusIn ==
  ASSUME PreeditTypes, Settling, EngineFocusIn
  PROVE  Settling'
  <1>1. /\ Range(toEngine) = {"focus_in"} \cup Range(toEngine)'
        /\ CallsInOrder' /\ Ended' = Ended
        /\ UNCHANGED <<clientCommits, contextText, panelText, clientText, contextFocus, attached,
                       embedded, ignoring, committed, toContext, toClient>>
    BY CallHeard DEF EngineFocusIn
  <1>2. UNCHANGED <<engineText, begun, due, fromEngine>>
    BY DEF EngineFocusIn, engineVars
  <1>3. EndSent' = EndSent /\ Closing' = Closing /\ Doomed' = Doomed /\ View' = View
        /\ Got' = Got /\ Com' = Com /\ CommittedInOrder' = CommittedInOrder
    BY <1>1, <1>2 DEF EndSent, Closing, Doomed, View, Got, Com, CommittedInOrder, Ends
  <1>4. EngineHeard' /\ LeftAlone' /\ Focused' /\ PanelShows'
    BY <1>1, <1>2, <1>3 DEF Settling, EngineHeard, LeftAlone, Focused, PanelShows
  <1>5. ClientShows' /\ ClientEnded'
    BY <1>1, <1>3 DEF Settling, ClientShows, ClientEnded
  <1>6. InTurn' /\ Counted' /\ Paid'
    BY <1>1, <1>2, <1>3 DEF Settling, InTurn, Counted, Paid
  <1> QED
    BY <1>1, <1>4, <1>5, <1>6 DEF Settling

(* What it says of its text with a key makes its new text of the old.       *)
Said(q, u, c) ==
  /\ q \in Seq(Signals) /\ u \in Texts /\ Makes(contextText, q, u)
  /\ fromEngine # <<>> => q # <<>> /\ Head(q) = Head(fromEngine)
  /\ Commits(q) = Commits(fromEngine) \cup c
  /\ Less(Commits(fromEngine), c) => Rising(q)

LEMMA SaidMore ==
  ASSUME PreeditTypes, NEW q, NEW u, NEW c, Said(q, u, c),
         NEW x \in Signals, x.kind \in {"show", "hide"} => u.text # 0,
         x.kind = "commit" => c = {}
  PROVE  /\ x.kind # "commit" => Said(Append(q, x), AfterSignal(u, x), c)
         /\ x.kind = "commit" => Said(Append(q, x), AfterSignal(u, x), {x.text})
  <1> DEFINE t == Append(q, x)
             d == IF x.kind = "commit" THEN {x.text} ELSE {}
             e == IF x.kind = "commit" THEN {x.text} ELSE c
  <1>1. /\ q \in Seq(Signals) /\ u \in Texts /\ Makes(contextText, q, u) /\ contextText \in Texts
        /\ fromEngine # <<>> => q # <<>> /\ Head(q) = Head(fromEngine)
        /\ Commits(q) = Commits(fromEngine) \cup c
        /\ Less(Commits(fromEngine), c) => Rising(q)
    BY DEF Said, PreeditTypes
  <1>2. /\ t \in Seq(Signals) /\ t # <<>> /\ Head(t) = IF q = <<>> THEN x ELSE Head(q)
        /\ Commits(t) = Commits(q) \cup d /\ (Rising(t) <=> Rising(q) /\ Less(Commits(q), d))
    BY <1>1, OneSignalMore
  <1>3. Makes(contextText, t, AfterSignal(u, x)) /\ AfterSignal(u, x) \in Texts
    BY <1>1, MakesMore, SignalLeaves DEF Turned
  <1>7. IF x.kind = "commit" THEN c = {} /\ e = d /\ e = {x.text} ELSE e = c /\ d = {}
    OBVIOUS
  <1> HIDE DEF t, d, e
  <1>4. Commits(t) = Commits(fromEngine) \cup e
    BY <1>1, <1>2, <1>7
  <1>5. Less(Commits(fromEngine), e) => Rising(t)
    BY <1>1, <1>2, <1>7 DEF Less
  <1>6. Said(t, AfterSignal(u, x), e)
    BY <1>1, <1>2, <1>3, <1>4, <1>5 DEF Said
  <1> QED
    BY <1>6, <1>7 DEF t

LEMMA SettlingKey ==
  ASSUME PreeditTypes, PreeditTypes', Settling, EngineKey
  PROVE  Settling'
  <1>1. /\ ~EndSent /\ ~Ended /\ attached /\ ~EndSent' /\ CallsInOrder' /\ Ended' = Ended
        /\ UNCHANGED <<clientCommits, contextText, panelText, clientText, contextFocus, attached,
                       embedded, ignoring, committed, toContext, toClient>>
    BY CallHeard DEF EngineKey
  <1>2. ~Closing /\ ~Closing' /\ Makes(contextText, fromEngine, engineText)
    BY <1>1 DEF Closing, Settling, EngineHeard
  <1>3. engineText.text \notin Com /\ due = Com
    BY <1>1 DEF Settling, Paid
  <1>4. engineText \in Texts /\ engineText.text \in {0, begun} /\ begun \in Nat /\ Com \subseteq 1..begun
    BY WordsAre DEF PreeditTypes, Settling, Counted
  <1>5. Said(fromEngine, engineText, {})
    BY <1>2, <1>4 DEF Said, PreeditTypes, Settling, InTurn
  <1>6. Got' = Got /\ CommittedInOrder' = CommittedInOrder /\ View' = View
    BY <1>1 DEF Got, CommittedInOrder, View
  <1>7. LeftAlone' /\ Focused' /\ PanelShows' /\ ClientEnded'
    BY <1>1 DEF Settling, LeftAlone, Focused, PanelShows, ClientEnded
  <1>8. ASSUME NEW c, Said(fromEngine', engineText', c), c \subseteq {engineText.text} \ {0},
               begun' \in {begun, begun + 1}, due' = due \cup c,
               engineText'.text \in {0, begun'}, engineText'.text \notin Com \cup c
        PROVE  Settling'
    <2>1. EngineHeard'
      BY <1>1, <1>2, <1>8 DEF EngineHeard, Said
    <2>2. ClientShows'
      BY <1>1, <1>2, <1>6, <1>8 DEF Settling, ClientShows, Doomed, Said
    <2>3. Com' = Com \cup c
      BY <1>1, <1>6, <1>8 DEF Com, Said
    <2>4. \A a \in Com, n \in c : a < n
      BY <1>3, <1>4, <1>8
    <2>5. Less(Got, c) /\ Less(Commits(toClient), c) /\ Less(Commits(fromEngine), c)
      BY <2>4 DEF Less, Com
    <2>6. InTurn'
      BY <1>1, <1>6, <1>8, <2>5 DEF Settling, InTurn, Less, Said
    <2>7. Counted'
      <3>1. Com \subseteq 1..begun' /\ c \subseteq 1..begun'
        BY <1>4, <1>8
      <3> QED
        BY <1>8, <2>3, <3>1 DEF Counted
    <2>8. Paid'
      BY <1>1, <1>3, <1>8, <2>3 DEF Paid
    <2> QED
      BY <1>1, <1>7, <2>1, <2>2, <2>6, <2>7, <2>8 DEF Settling
  <1>9. UpdateSignal(Empty) \in Signals /\ UpdateSignal(Empty).kind = "update"
        /\ \A u : AfterSignal(u, UpdateSignal(Empty)) = Empty
    BY SignalsSaid, WordsAre DEF AfterSignal
  <1>10. 0 \notin Com /\ Empty.text = 0 /\ fromEngine \in Seq(Signals)
    BY <1>4, WordsAre DEF PreeditTypes
  <1>11. CASE ComposeText
    <2> DEFINE x == UpdateSignal(engineText')
    <2>1. /\ engineText.text = 0 /\ begun' = begun + 1 /\ engineText'.text = begun + 1
          /\ due' = due /\ fromEngine' = fromEngine \o <<x>>
      BY <1>11 DEF ComposeText, Says
    <2>2. x \in Signals /\ x.kind = "update" /\ x.shown = engineText'
      BY SignalsSaid DEF PreeditTypes
    <2>3. AfterSignal(engineText, x) = engineText'
      BY <2>2 DEF AfterSignal
    <2> HIDE DEF x
    <2>4. fromEngine' = Append(fromEngine, x)
      BY <1>10, <2>1, <2>2, AppendIs
    <2>5. Said(fromEngine', engineText', {})
      BY <1>5, <2>2, <2>3, <2>4, SaidMore
    <2>6. engineText'.text \notin Com
      BY <1>4, <2>1
    <2> QED
      BY <1>8, <2>1, <2>5, <2>6
  <1>12. CASE CommitText
    <2> DEFINE x == CommitSignal(engineText.text)
               y == UpdateSignal(Empty)
               c == {engineText.text}
    <2>1. /\ engineText.text # 0 /\ engineText' = Empty /\ due' = due \cup c /\ begun' = begun
          /\ \/ fromEngine' = fromEngine \o <<x, y>>
             \/ fromEngine' = fromEngine \o <<y, x>>
      BY <1>12 DEF CommitText, Says
    <2>2. x \in Signals /\ x.kind = "commit" /\ x.text = engineText.text
      BY <2>1, SignalsSaid, WordsAre DEF PreeditTypes
    <2>3. y \in Signals /\ y.kind = "update" /\ \A u : AfterSignal(u, y) = Empty /\ AfterSignal(u, x) = u
      BY <1>9, <2>2 DEF AfterSignal
    <2> HIDE DEF x, y
    <2>4. \/ fromEngine' = Append(Append(fromEngine, x), y)
          \/ fromEngine' = Append(Append(fromEngine, y), x)
      BY <1>10, <2>1, <2>2, <2>3, AppendIs
    <2>5. /\ Said(Append(fromEngine, x), engineText, c)
          /\ Said(Append(fromEngine, y), Empty, {})
      BY <1>5, <2>2, <2>3, SaidMore
    <2>6. /\ Said(Append(Append(fromEngine, x), y), Empty, c)
          /\ Said(Append(Append(fromEngine, y), x), Empty, c)
      <3>1. Said(Append(Append(fromEngine, x), y), AfterSignal(engineText, y), c)
        BY <2>2, <2>3, <2>5, SaidMore
      <3>2. Said(Append(Append(fromEngine, y), x), AfterSignal(Empty, x), {x.text})
        BY <2>2, <2>3, <2>5, SaidMore
      <3> QED
        BY <2>2, <2>3, <3>1, <3>2
    <2> QED
      BY <1>8, <1>10, <2>1, <2>4, <2>6
  <1>13. CASE Cancel
    <2>1. engineText' = Empty /\ fromEngine' = fromEngine \o <<UpdateSignal(Empty)>>
          /\ begun' = begun /\ due' = due
      BY <1>13 DEF Cancel, Says
    <2>2. fromEngine' = Append(fromEngine, UpdateSignal(Empty))
      BY <1>9, <1>10, <2>1, AppendIs
    <2>3. Said(fromEngine', engineText', {})
      <3> DEFINE y == UpdateSignal(Empty)
      <3>1. y \in Signals /\ y.kind = "update" /\ AfterSignal(engineText, y) = Empty
            /\ fromEngine' = Append(fromEngine, y)
        BY <1>9, <2>2
      <3> HIDE DEF y
      <3>2. Said(Append(fromEngine, y), AfterSignal(engineText, y), {})
        BY <1>5, <3>1, SaidMore
      <3> QED
        BY <2>1, <3>1, <3>2
    <2> QED
      BY <1>8, <1>10, <2>1, <2>3
  <1>14. CASE HideOrShow
    <2> DEFINE x == [kind |-> IF engineText.visible THEN "hide" ELSE "show"]
    <2>1. /\ engineText.text # 0 /\ engineText' = [engineText EXCEPT !.visible = ~engineText.visible]
          /\ fromEngine' = fromEngine \o <<x>> /\ begun' = begun /\ due' = due
      BY <1>14 DEF HideOrShow, Says
    <2>2. x \in Signals /\ x.kind \in {"show", "hide"} /\ (x.kind = "show" <=> ~engineText.visible)
      BY SignalsSaid
    <2>3. AfterSignal(engineText, x) = engineText'
      <3>1. (x.kind = "show") = ~engineText.visible
        BY <2>2
      <3> HIDE DEF x
      <3> QED
        BY <2>1, <2>2, <3>1 DEF AfterSignal
    <2> HIDE DEF x
    <2>4. fromEngine' = Append(fromEngine, x)
      BY <1>10, <2>1, <2>2, AppendIs
    <2>5. Said(fromEngine', engineText', {})
      <3>1. Said(Append(fromEngine, x), AfterSignal(engineText, x), {})
        BY <1>5, <2>1, <2>2, SaidMore
      <3> QED
        BY <2>3, <2>4, <3>1
    <2>6. engineText'.text = engineText.text
      BY <1>4, <2>1, TurnedText, WordsAre DEF PreeditTypes
    <2> QED
      BY <1>3, <1>4, <1>8, <2>1, <2>5, <2>6
  <1>15. CASE UNCHANGED <<engineVars, due, fromEngine>>
    BY <1>3, <1>4, <1>5, <1>8, <1>15 DEF engineVars
  <1> QED
    BY <1>11, <1>12, <1>13, <1>14, <1>15 DEF EngineKey

(* It ends its text, and clears it if nobody has.                           *)
LEMMA SettlingEngineEnds ==
  ASSUME PreeditTypes, PreeditTypes', Settling, NEW m \in Ends, EngineEnds(m)
  PROVE  Settling'
  <1>1. /\ Range(toEngine) = {m} \cup Range(toEngine)' /\ CallsInOrder' /\ Ended' = Ended
        /\ UNCHANGED <<clientCommits, contextText, panelText, clientText, contextFocus, attached,
                       embedded, ignoring, committed, toContext, toClient>>
    BY CallHeard DEF EngineEnds
  <1>2. EndSent /\ Closing /\ ("key" \in Range(toEngine)' => "key" \in Range(toEngine))
    BY <1>1 DEF EndSent, Closing
  <1>3. /\ engineText' = Empty /\ begun' = begun
        /\ due' = due \cup (IF Kept(engineText) THEN {engineText.text} ELSE {})
        /\ \/ fromEngine' = fromEngine \o <<UpdateSignal(Empty)>>
           \/ (Kept(engineText) \/ engineText = Empty) /\ fromEngine' = fromEngine
    BY DEF EngineEnds, Says
  <1>4. UpdateSignal(Empty) \in Signals /\ UpdateSignal(Empty).kind = "update"
    BY SignalsSaid, WordsAre
  <1>5. /\ OnlyClears(fromEngine)
        /\ engineText = Empty \/ fromEngine = <<>>
        /\ \/ contextText = Empty
           \/ fromEngine = <<>> /\ contextText = engineText /\ ~Kept(engineText)
           \/ fromEngine # <<>> /\ engineText = Empty /\ ~Kept(contextText)
    BY <1>2 DEF Settling, EngineHeard
  <1>6. fromEngine' = fromEngine \/ fromEngine' = Append(fromEngine, UpdateSignal(Empty))
    BY <1>3, <1>4, AppendIs DEF PreeditTypes
  <1>7. /\ OnlyClears(fromEngine') /\ Commits(fromEngine') = Commits(fromEngine) /\ Rising(fromEngine')
        /\ fromEngine' # <<>> => fromEngine' = fromEngine \/ Head(fromEngine') = Head(fromEngine)
                                   \/ Head(fromEngine') = UpdateSignal(Empty)
    <2>1. CASE fromEngine' = fromEngine
      BY <1>5, <2>1 DEF Settling, InTurn
    <2>2. CASE fromEngine' = Append(fromEngine, UpdateSignal(Empty))
      <3> DEFINE x == UpdateSignal(Empty)
      <3>1. fromEngine' = Append(fromEngine, x) /\ x \in Signals /\ x.kind = "update"
        BY <1>4, <2>2
      <3>2. OnlyClears(fromEngine') <=> OnlyClears(fromEngine) /\ x = UpdateSignal(Empty)
        BY <3>1, OneSignalMore DEF PreeditTypes
      <3> HIDE DEF x
      <3>3. /\ Commits(fromEngine') = Commits(fromEngine) \cup {}
            /\ Rising(fromEngine') <=> Rising(fromEngine) /\ Less(Commits(fromEngine), {})
            /\ Head(fromEngine') = x \/ Head(fromEngine') = Head(fromEngine)
        BY <3>1, OneSignalMore DEF PreeditTypes
      <3> QED
        BY <1>5, <3>2, <3>3 DEF Settling, InTurn, Less, x
    <2> QED
      BY <1>6, <2>1, <2>2
  <1>8. IF fromEngine' = <<>> THEN contextText = Empty ELSE ~Kept(contextText)
    <2>1. CASE fromEngine' = <<>>
      <3>1. fromEngine' # Append(fromEngine, UpdateSignal(Empty))
        BY <1>4, <2>1, OneSignalMore DEF PreeditTypes
      <3>2. fromEngine = <<>> /\ (Kept(engineText) \/ engineText = Empty)
        BY <1>3, <1>4, <1>6, <2>1, <3>1, AppendIs DEF PreeditTypes
      <3> QED
        BY <1>5, <2>1, <3>2, WordsAre
    <2>2. CASE fromEngine' # <<>>
      BY <1>5, <2>2, WordsAre
    <2> QED
      BY <2>1, <2>2
  <1>9. EngineHeard'
    <2>1. CASE Closing'
      BY <1>1, <1>3, <1>7, <1>8, <2>1, WordsAre DEF EngineHeard
    <2>2. CASE ~Closing'
      <3>1. CASE fromEngine' = <<>>
        BY <1>1, <1>3, <1>8, <2>2, <3>1, MakesNothing, WordsAre DEF EngineHeard, PreeditTypes
      <3>2. CASE fromEngine' # <<>>
        BY <1>1, <1>3, <1>7, <2>2, <3>2, ClearsMake DEF EngineHeard, PreeditTypes
      <3> QED
        BY <3>1, <3>2
    <2> QED
      BY <2>1, <2>2
  <1>10. LeftAlone' /\ Focused' /\ PanelShows'
    BY <1>1, <1>2, <1>3, <1>7 DEF Settling, LeftAlone, Focused, PanelShows
  <1>11. Got' = Got /\ Com' = Com /\ CommittedInOrder' = CommittedInOrder /\ View' = View
    BY <1>1, <1>7 DEF Got, Com, CommittedInOrder, View
  <1>12. ClientEnded'
    BY <1>1, <1>11 DEF Settling, ClientEnded
  <1>13. ClientShows'
    <2>1. CASE fromEngine' = <<>>
      BY <1>1, <1>8, <1>11, <2>1 DEF Settling, ClientShows, View
    <2>2. CASE fromEngine' # <<>>
      <3>1. Doomed'
        <4>1. 1 \in DOMAIN fromEngine' /\ Head(fromEngine') = fromEngine'[1]
          BY <2>2 DEF PreeditTypes
        <4>2. Head(fromEngine') = UpdateSignal(Empty)
          BY <1>7, <4>1 DEF OnlyClears
        <4> QED
          BY <1>4, <2>2, <4>2 DEF Doomed
      <3> QED
        BY <1>1, <1>11, <3>1 DEF Settling, ClientShows
    <2> QED
      BY <2>1, <2>2
  <1>14. InTurn'
    BY <1>1, <1>7, <1>11 DEF Settling, InTurn
  <1>15. Counted'
    BY <1>3, <1>11, WordsAre DEF Settling, Counted
  <1>16. Paid'
    <2>1. 0 \notin Com'
      BY <1>15 DEF Counted
    <2> QED
      BY <1>2, <1>3, <1>11, <2>1, WordsAre DEF Settling, Paid
  <1> QED
    BY <1>1, <1>9, <1>10, <1>12, <1>13, <1>14, <1>15, <1>16 DEF Settling

LEMMA PreeditInvStep == PreeditInv /\ [PreeditNext]_preeditVars => PreeditInv'
  <1> SUFFICES ASSUME PreeditInv, [PreeditNext]_preeditVars
               PROVE  PreeditInv'
    OBVIOUS
  <1>1. CASE PreeditNext
    <2>1. PreeditTypes /\ PreeditTypes'
      BY <1>1, PreeditTypesStep DEF PreeditInv
    <2>2. mishaps \subseteq mishaps'
      BY <1>1
      DEF PreeditNext, PressKey, ImFocusIn, ImFocusOut, ImSetCapabilities, ImSignal, ImReset,
          ContextFocusIn, ContextFocusOut, ContextReset, ProcessKey, SetCapabilities,
          OtherFocusIn, SetEngine, EngineSignal, EngineKey, EngineFocusIn, EngineEnds, Hears, history
    <2>3. ASSUME mishaps' = {}
          PROVE  Settling'
      <3>1. Settling
        BY <2>2, <2>3 DEF PreeditInv
      <3>2. CASE PressKey \/ ImFocusIn \/ ImSetCapabilities
        BY <2>1, <3>1, <3>2, SettlingCalls
      <3>3. CASE ImFocusOut \/ \E clears \in BOOLEAN : ImReset(clears)
        BY <2>1, <2>3, <3>1, <3>3, SettlingClientEnds
      <3>4. CASE ImSignal
        BY <2>1, <3>1, <3>4, SettlingSignals
      <3>5. CASE ContextFocusIn \/ ProcessKey
        BY <2>1, <3>1, <3>5, SettlingFocus
      <3>6. CASE ContextFocusOut
        BY <2>1, <2>3, <3>1, <3>6, SettlingFocusOut
      <3>7. CASE ContextReset
        BY <2>1, <2>3, <3>1, <3>7, SettlingReset
      <3>8. CASE SetCapabilities
        BY <2>1, <2>3, <3>1, <3>8, SettlingCapabilities
      <3>9. CASE OtherFocusIn
        BY <2>1, <2>3, <3>1, <3>9, SettlingOther
      <3>10. CASE SetEngine
        BY <2>1, <2>3, <3>1, <3>10, SettlingSetEngine
      <3>11. CASE EngineSignal
        BY <2>1, <3>1, <3>11, SettlingEngineSignals
      <3>12. CASE EngineKey
        BY <2>1, <3>1, <3>12, SettlingKey
      <3>13. CASE EngineFocusIn
        BY <2>1, <3>1, <3>13, SettlingEngineFocusIn
      <3>14. CASE \E method \in {"focus_out", "reset"} : EngineEnds(method)
        BY <2>1, <3>1, <3>14, SettlingEngineEnds DEF Ends
      <3> QED
        BY <1>1, <3>2, <3>3, <3>4, <3>5, <3>6, <3>7, <3>8, <3>9, <3>10, <3>11, <3>12, <3>13, <3>14
        DEF PreeditNext
    <2> QED
      BY <2>1, <2>3 DEF PreeditInv
  <1>2. CASE UNCHANGED preeditVars
    BY <1>2
    DEF preeditVars, setup, history, icVars, clientVariables, engineVars, PreeditInv, PreeditTypes,
        Settling, CallsInOrder, EngineHeard, LeftAlone, Focused, ClientShows, ClientEnded,
        PanelShows, InTurn, Counted, Paid, Closing, Ended, EndSent, Doomed, View, Com, Got,
        CommittedInOrder
  <1> QED
    BY <1>1, <1>2

(***************************************************************************)
(* Barring the mishaps, each text that is to be committed is committed     *)
(* once, by the client or by the daemon, in the order of the texts, and in *)
(* the end what is shown of the preedit is what the engine has.            *)
(***************************************************************************)
THEOREM PreeditIsSettled ==
  PreeditInit /\ [][PreeditNext]_preeditVars => []PreeditSettles
  BY PreeditInitInv, PreeditInvStep, PreeditSettlesThen, PTL

(***************************************************************************)
(* What the bounds count, and the kinds of mishaps.                        *)
(***************************************************************************)
Counts ==
  /\ mishaps \subseteq {"crossed", "uncleared", "unseen", "moved", "overtaken"}
  /\ events \in 0..MaxEvents /\ turns \in 0..MaxTurns

LEMMA CountsStep == Counts /\ [PreeditNext]_preeditVars => Counts'
  <1> SUFFICES ASSUME Counts, [PreeditNext]_preeditVars
               PROVE  Counts'
    OBVIOUS
  <1> USE PreeditBounds DEF Counts
  <1> DEFINE Kinds == {"crossed", "uncleared", "unseen", "moved", "overtaken"}
  <1>1. Crossing \subseteq Kinds /\ Unseen \subseteq Kinds /\ EngineUnheard \subseteq Kinds
    BY DEF Crossing, Unseen, EngineUnheard
  <1>2. CASE PressKey \/ ImFocusIn \/ ImSetCapabilities
    <2>1. events < MaxEvents /\ events' = events + 1 /\ turns' = turns
      BY <1>2 DEF PressKey, ImFocusIn, ImSetCapabilities, Sends
    <2>2. mishaps' = mishaps
      BY <1>2 DEF PressKey, ImFocusIn, ImSetCapabilities, history
    <2> QED
      BY <2>1, <2>2
  <1>3. CASE ImFocusOut
    BY <1>1, <1>3 DEF ImFocusOut, Sends
  <1>4. ASSUME NEW clears \in BOOLEAN, ImReset(clears)
        PROVE  Counts'
    <2>1. mishaps' \subseteq mishaps \cup Crossing \cup {"uncleared"}
      BY <1>4 DEF ImReset
    <2>2. events < MaxEvents /\ events' = events + 1 /\ turns' = turns
      BY <1>4 DEF ImReset, Sends
    <2> QED
      BY <1>1, <2>1, <2>2
  <1>5. CASE ImSignal \/ EngineSignal
    BY <1>5 DEF ImSignal, EngineSignal, history
  <1>6. ASSUME NEW method, Received(method), mishaps' \subseteq Kinds
        PROVE  Counts'
    BY <1>6 DEF Received
  <1>7. CASE ContextFocusIn \/ ProcessKey
    BY <1>6, <1>7 DEF ContextFocusIn, ProcessKey
  <1>8. CASE ContextFocusOut
    BY <1>1, <1>6, <1>8 DEF ContextFocusOut
  <1>9. CASE ContextReset
    BY <1>1, <1>6, <1>9 DEF ContextReset
  <1>10. CASE SetCapabilities
    BY <1>6, <1>10 DEF SetCapabilities
  <1>11. CASE OtherFocusIn
    BY <1>1, <1>11 DEF OtherFocusIn, Turn
  <1>12. CASE SetEngine
    BY <1>1, <1>12 DEF SetEngine, Turn
  <1>13. ASSUME NEW method, Hears(method)
         PROVE  Counts'
    BY <1>13 DEF Hears
  <1>14. CASE UNCHANGED preeditVars
    BY <1>14 DEF preeditVars, history
  <1> QED
    BY <1>2, <1>3, <1>4, <1>5, <1>7, <1>8, <1>9, <1>10, <1>11, <1>12, <1>13, <1>14
    DEF PreeditNext, EngineKey, EngineFocusIn, EngineEnds

\* The state of the preedit text is well formed: only texts that were begun are
\* shown, and what is sent, is due or is committed are numbers of texts.
THEOREM PreeditTypeCorrect ==
  PreeditInit /\ [][PreeditNext]_preeditVars => []PreeditTypeOK
  <1>1. PreeditInit => Counts
    BY PreeditBounds DEF PreeditInit, Counts
  <1>2. PreeditInv /\ Counts => PreeditTypeOK
    BY WordsAre DEF PreeditInv, PreeditTypes, Counts, PreeditTypeOK
  <1> QED
    BY <1>1, <1>2, CountsStep, PreeditInitInv, PreeditInvStep, PTL
=============================================================================
