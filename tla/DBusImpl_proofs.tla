-------------------------- MODULE DBusImpl_proofs ---------------------------
(***************************************************************************)
(* The bus names for any number of connections, names and calls.  A queue  *)
(* has a connection once, so what the code removes with g_slist_delete_link*)
(* is all there is of it; the first part says this of the two lists, the   *)
(* second carries the views of a name through each method.  The third does *)
(* the same for match rules, whose recipients are found once as well, and  *)
(* shows that a dispatch reaches the peers that want a message, no others. *)
(***************************************************************************)
EXTENDS NameService, MatchRules, SequenceTheorems, FiniteSetTheorems, TLAPS

Holds(q, c) == \E i \in 1..Len(q) : q[i].conn = c

Single(q) == \A i, j \in 1..Len(q) : q[i].conn = q[j].conn => i = j

Distinct(s) == \A i, j \in 1..Len(s) : s[i] = s[j] => i = j

Lists(s, n) == \E i \in 1..Len(s) : s[i] = n

----------------------------------------------------------------------------
(* Removing from a list. *)

LEMMA RemovedAt ==
  ASSUME NEW S, NEW s \in Seq(S), NEW i \in 1..Len(s)
  PROVE  /\ RemoveAt(s, i) \in Seq(S)
         /\ Len(RemoveAt(s, i)) = Len(s) - 1
         /\ \A j \in 1..(Len(s) - 1) : RemoveAt(s, i)[j] = IF j < i THEN s[j] ELSE s[j + 1]
<1> DEFINE a == SubSeq(s, 1, i - 1)
           b == SubSeq(s, i + 1, Len(s))
<1>1. Len(s) \in Nat /\ \A j \in 1..Len(s) : s[j] \in S
  OBVIOUS
<1>2. i - 1 \in Int /\ i + 1 \in Int /\ Len(s) \in Int
  BY <1>1
<1>3. /\ a \in Seq(S) /\ Len(a) = i - 1
      /\ \A j \in 1..(i - 1) : a[j] = s[j]
  <2>1. \A j \in 1..(i - 1) : s[j] \in S
    BY <1>1
  <2> QED BY <1>1, <1>2, <2>1, SubSeqProperties
<1>4. /\ b \in Seq(S) /\ Len(b) = Len(s) - i
      /\ \A j \in 1..(Len(s) - i) : b[j] = s[i + j]
  <2>1. \A j \in (i + 1)..Len(s) : s[j] \in S
    BY <1>1
  <2> QED BY <1>1, <1>2, <2>1, SubSeqProperties
<1>5. RemoveAt(s, i) = a \o b
  BY DEF RemoveAt
<1> HIDE DEF a, b
<1>6. /\ a \o b \in Seq(S) /\ Len(a \o b) = Len(s) - 1
      /\ \A j \in 1..(Len(s) - 1) : (a \o b)[j] = IF j <= i - 1 THEN a[j] ELSE b[j - (i - 1)]
  <2>1. Len(a) + Len(b) = Len(s) - 1
    BY <1>1, <1>3, <1>4
  <2>2. /\ a \o b \in Seq(S) /\ Len(a \o b) = Len(a) + Len(b)
        /\ \A j \in 1..(Len(a) + Len(b)) :
             (a \o b)[j] = IF j <= Len(a) THEN a[j] ELSE b[j - Len(a)]
    BY <1>3, <1>4, ConcatProperties
  <2>3. Len(a) = i - 1
    BY <1>3
  <2> QED BY <2>1, <2>2, <2>3
<1>7. ASSUME NEW j \in 1..(Len(s) - 1)
      PROVE  (a \o b)[j] = IF j < i THEN s[j] ELSE s[j + 1]
  <2>1. CASE j < i
    BY <2>1, <1>1, <1>3, <1>6
  <2>2. CASE ~(j < i)
    <3>1. j - (i - 1) \in 1..(Len(s) - i) /\ i + (j - (i - 1)) = j + 1
      BY <2>2, <1>1
    <3>2. (a \o b)[j] = b[j - (i - 1)]
      BY <2>2, <1>1, <1>6
    <3> QED BY <3>1, <3>2, <1>4, <2>2
  <2> QED BY <2>1, <2>2
<1> QED BY <1>5, <1>6, <1>7

LEMMA MinOfOne ==
  ASSUME NEW k \in Nat, NEW I, I = {k}
  PROVE  Min(I) = k
  BY DEF Min

(***************************************************************************)
(* RemoveOwner takes the one entry of c out of a queue and keeps the order *)
(* of the others.                                                          *)
(***************************************************************************)
LEMMA OwnerRemoved ==
  ASSUME NEW q \in Seq(Owner), NEW c \in Conns, Single(q)
  PROVE  /\ RemoveOwner(q, c) \in Seq(Owner)
         /\ Single(RemoveOwner(q, c))
         /\ \A d : Holds(RemoveOwner(q, c), d) <=> d # c /\ Holds(q, d)
         /\ q = <<>> => RemoveOwner(q, c) = <<>>
         /\ q # <<>> /\ Head(q).conn # c => /\ RemoveOwner(q, c) # <<>>
                                            /\ Head(RemoveOwner(q, c)) = Head(q)
         /\ q # <<>> /\ Head(q).conn = c => RemoveOwner(q, c) = Tail(q)
<1>1. Len(q) \in Nat
  OBVIOUS
<1>2. CASE ~Holds(q, c)
  <2>1. RemoveOwner(q, c) = q
    BY <1>2 DEF RemoveOwner, RemoveFirstMatch, Holds
  <2>2. q # <<>> => Head(q).conn # c
    BY <1>2 DEF Holds
  <2> QED BY <1>2, <2>1, <2>2
<1>3. CASE Holds(q, c)
  <2>1. PICK k \in 1..Len(q) : q[k].conn = c
    BY <1>3 DEF Holds
  <2>2. {i \in 1..Len(q) : q[i].conn = c} = {k}
    BY <2>1 DEF Single
  <2>3. RemoveOwner(q, c) = RemoveAt(q, k)
    <3>1. Min({i \in 1..Len(q) : q[i].conn = c}) = k
      BY <2>2, MinOfOne
    <3> QED BY <2>1, <2>2, <3>1 DEF RemoveOwner, RemoveFirstMatch, SelectInSeq
  <2> DEFINE r == RemoveOwner(q, c)
  <2>4. /\ r \in Seq(Owner) /\ Len(r) = Len(q) - 1
        /\ \A j \in 1..(Len(q) - 1) : r[j] = IF j < k THEN q[j] ELSE q[j + 1]
    BY <2>3, RemovedAt
  <2> HIDE DEF r
  <2>5. Single(r)
    <3> SUFFICES ASSUME NEW i \in 1..Len(r), NEW j \in 1..Len(r), r[i].conn = r[j].conn
                 PROVE  i = j
      BY DEF Single
    <3> QED BY <1>1, <2>4 DEF Single
  <2>6. ASSUME NEW d, Holds(r, d) PROVE d # c /\ Holds(q, d)
    <3>1. PICK j \in 1..Len(r) : r[j].conn = d
      BY <2>6 DEF Holds
    <3>2. PICK i \in 1..Len(q) : i # k /\ q[i] = r[j]
      <4>1. j \in 1..Len(q) /\ j + 1 \in 1..Len(q) /\ (j < k => j # k)
             /\ (~(j < k) => j + 1 # k)
        BY <1>1, <2>4
      <4>2. r[j] = IF j < k THEN q[j] ELSE q[j + 1]
        BY <1>1, <2>4
      <4> QED BY <4>1, <4>2
    <3> QED BY <2>1, <3>1, <3>2 DEF Holds, Single
  <2>7. ASSUME NEW d, d # c, Holds(q, d) PROVE Holds(r, d)
    <3>1. PICK i \in 1..Len(q) : q[i].conn = d
      BY <2>7 DEF Holds
    <3>2. i # k
      BY <2>1, <2>7, <3>1
    <3>3. CASE i < k
      BY <1>1, <2>4, <3>1, <3>3 DEF Holds
    <3>4. CASE i > k
      <4>1. i - 1 \in 1..Len(r) /\ r[i - 1] = q[i]
        BY <1>1, <2>4, <3>4
      <4> QED BY <3>1, <4>1 DEF Holds
    <3> QED BY <1>1, <3>2, <3>3, <3>4
  <2>8. q # <<>> /\ (Head(q).conn = c <=> k = 1)
    BY <2>1 DEF Single
  <2>9. ASSUME Head(q).conn # c PROVE r # <<>> /\ Head(r) = Head(q)
    BY <1>1, <2>4, <2>8, <2>9
  <2>10. ASSUME Head(q).conn = c PROVE r = Tail(q)
    BY <1>1, <2>4, <2>8, <2>10
  <2> QED BY <2>4, <2>5, <2>6, <2>7, <2>8, <2>9, <2>10 DEF r
<1> QED BY <1>2, <1>3

\* RemoveFirst takes the one entry of n out of a private list.
LEMMA NameRemoved ==
  ASSUME NEW s \in Seq(Names), NEW n, Distinct(s)
  PROVE  /\ RemoveFirst(s, n) \in Seq(Names)
         /\ Distinct(RemoveFirst(s, n))
         /\ \A m : Lists(RemoveFirst(s, n), m) => m # n /\ Lists(s, m)
<1>1. Len(s) \in Nat
  OBVIOUS
<1>2. CASE ~Lists(s, n)
  <2>1. RemoveFirst(s, n) = s
    BY <1>2 DEF RemoveFirst, Lists
  <2> QED BY <1>2, <2>1
<1>3. CASE Lists(s, n)
  <2>1. PICK k \in 1..Len(s) : s[k] = n
    BY <1>3 DEF Lists
  <2>2. {i \in 1..Len(s) : s[i] = n} = {k}
    BY <2>1 DEF Distinct
  <2>3. RemoveFirst(s, n) = RemoveAt(s, k)
    <3>1. Min({i \in 1..Len(s) : s[i] = n}) = k
      BY <2>2, MinOfOne
    <3> QED BY <2>1, <2>2, <3>1 DEF RemoveFirst, SelectInSeq
  <2> DEFINE r == RemoveFirst(s, n)
  <2>4. /\ r \in Seq(Names) /\ Len(r) = Len(s) - 1
        /\ \A j \in 1..(Len(s) - 1) : r[j] = IF j < k THEN s[j] ELSE s[j + 1]
    BY <2>3, RemovedAt
  <2> HIDE DEF r
  <2>5. Distinct(r)
    BY <1>1, <2>4 DEF Distinct
  <2>6. ASSUME NEW m, Lists(r, m) PROVE m # n /\ Lists(s, m)
    <3>1. PICK j \in 1..Len(r) : r[j] = m
      BY <2>6 DEF Lists
    <3>2. PICK i \in 1..Len(s) : i # k /\ s[i] = r[j]
      <4>1. j \in 1..Len(s) /\ j + 1 \in 1..Len(s) /\ (j < k => j # k)
             /\ (~(j < k) => j + 1 # k)
        BY <1>1, <2>4
      <4>2. r[j] = IF j < k THEN s[j] ELSE s[j + 1]
        BY <1>1, <2>4
      <4> QED BY <4>1, <4>2
    <3> QED BY <2>1, <3>1, <3>2 DEF Lists, Distinct
  <2> QED BY <2>4, <2>5, <2>6 DEF r
<1> QED BY <1>2, <1>3

----------------------------------------------------------------------------
(* The primary owner of a queue, through the changes the methods make.     *)

PrimaryOf(q) == IF q = <<>> THEN None ELSE Head(q).conn

LEMMA PrimaryIs == \A n : Primary(n) = PrimaryOf(owners[n])
  BY DEF Primary, PrimaryOf

LEMMA PrimaryHeld ==
  ASSUME NEW q \in Seq(Owner), q # <<>>
  PROVE  PrimaryOf(q) \in Conns /\ Holds(q, PrimaryOf(q)) /\ Head(q) = q[1] /\ Head(q) \in Owner
<1>1. Head(q) \in Owner /\ Head(q) = q[1] /\ 1 \in 1..Len(q)
  OBVIOUS
<1> QED BY <1>1 DEF PrimaryOf, Holds, Owner

LEMMA PrimaryRemoved ==
  ASSUME NameServiceAssumption, NEW q \in Seq(Owner), NEW c \in Conns, Single(q)
  PROVE  /\ PrimaryOf(RemoveOwner(q, c)) # c
         /\ PrimaryOf(q) # c => PrimaryOf(RemoveOwner(q, c)) = PrimaryOf(q)
<1>1. None # c
  BY DEF NameServiceAssumption
<1>2. RemoveOwner(q, c) \in Seq(Owner) /\ ~Holds(RemoveOwner(q, c), c)
  BY OwnerRemoved
<1>3. PrimaryOf(RemoveOwner(q, c)) # c
  <2>1. CASE RemoveOwner(q, c) = <<>>
    BY <1>1, <2>1 DEF PrimaryOf
  <2>2. CASE RemoveOwner(q, c) # <<>>
    BY <1>2, <2>2, PrimaryHeld
  <2> QED BY <2>1, <2>2
<1>4. ASSUME PrimaryOf(q) # c PROVE PrimaryOf(RemoveOwner(q, c)) = PrimaryOf(q)
  <2>1. CASE q = <<>>
    BY <2>1, OwnerRemoved
  <2>2. CASE q # <<>>
    <3>1. Head(q).conn # c
      BY <1>4, <2>2 DEF PrimaryOf
    <3>2. RemoveOwner(q, c) # <<>> /\ Head(RemoveOwner(q, c)) = Head(q)
      BY <2>2, <3>1, OwnerRemoved
    <3> QED BY <2>2, <3>2 DEF PrimaryOf
  <2> QED BY <2>1, <2>2
<1> QED BY <1>3, <1>4

\* A new owner at the head of a queue it is not in.
LEMMA InFront ==
  ASSUME NEW o \in Owner, NEW q \in Seq(Owner), Single(q), ~Holds(q, o.conn)
  PROVE  /\ <<o>> \o q \in Seq(Owner)
         /\ <<o>> \o q # <<>>
         /\ Single(<<o>> \o q)
         /\ PrimaryOf(<<o>> \o q) = o.conn
         /\ \A d : Holds(<<o>> \o q, d) <=> d = o.conn \/ Holds(q, d)
<1> DEFINE r == <<o>> \o q
<1>1. /\ r \in Seq(Owner) /\ Len(r) = Len(q) + 1 /\ Len(q) \in Nat
      /\ r[1] = o /\ \A j \in 2..(Len(q) + 1) : r[j] = q[j - 1]
  OBVIOUS
<1>2. r # <<>> /\ Head(r) = r[1]
  BY <1>1
<1> HIDE DEF r
<1>3. Single(r)
  <2> SUFFICES ASSUME NEW i \in 1..Len(r), NEW j \in 1..Len(r), r[i].conn = r[j].conn
               PROVE  i = j
    BY DEF Single
  <2>1. \A k \in 2..(Len(q) + 1) : k - 1 \in 1..Len(q)
    BY <1>1
  <2>2. \A k \in 2..(Len(q) + 1) : r[k].conn # o.conn
    BY <1>1, <2>1 DEF Holds
  <2>3. CASE i = 1 \/ j = 1
    BY <1>1, <2>2, <2>3
  <2>4. CASE i # 1 /\ j # 1
    <3>1. i \in 2..(Len(q) + 1) /\ j \in 2..(Len(q) + 1)
      BY <1>1, <2>4
    <3>2. i - 1 = j - 1
      BY <1>1, <2>1, <3>1 DEF Single
    <3> QED BY <1>1, <3>1, <3>2
  <2> QED BY <2>3, <2>4
<1>4. ASSUME NEW d PROVE Holds(r, d) <=> d = o.conn \/ Holds(q, d)
  <2>1. ASSUME Holds(r, d), d # o.conn PROVE Holds(q, d)
    <3>1. PICK j \in 1..Len(r) : r[j].conn = d
      BY <2>1 DEF Holds
    <3>2. j - 1 \in 1..Len(q) /\ r[j] = q[j - 1]
      BY <1>1, <2>1, <3>1
    <3> QED BY <3>1, <3>2 DEF Holds
  <2>2. ASSUME Holds(q, d) PROVE Holds(r, d)
    <3>1. PICK j \in 1..Len(q) : q[j].conn = d
      BY <2>2 DEF Holds
    <3>2. j + 1 \in 1..Len(r) /\ j + 1 \in 2..(Len(q) + 1) /\ (j + 1) - 1 = j
      BY <1>1
    <3> QED BY <1>1, <3>1, <3>2 DEF Holds
  <2>3. Holds(r, o.conn)
    BY <1>1 DEF Holds
  <2> QED BY <2>1, <2>2, <2>3
<1> QED BY <1>1, <1>2, <1>3, <1>4 DEF r, PrimaryOf

\* An owner that has to wait.
LEMMA AtTheEnd ==
  ASSUME NEW o \in Owner, NEW q \in Seq(Owner), Single(q), ~Holds(q, o.conn)
  PROVE  /\ Append(q, o) \in Seq(Owner)
         /\ Single(Append(q, o))
         /\ q # <<>> => PrimaryOf(Append(q, o)) = PrimaryOf(q) /\ Head(Append(q, o)) = Head(q)
         /\ \A d : Holds(Append(q, o), d) <=> d = o.conn \/ Holds(q, d)
<1> DEFINE r == Append(q, o)
<1>1. /\ r \in Seq(Owner) /\ Len(r) = Len(q) + 1 /\ Len(q) \in Nat
      /\ r[Len(q) + 1] = o /\ \A j \in 1..Len(q) : r[j] = q[j]
  OBVIOUS
<1>2. r # <<>> /\ Head(r) = r[1] /\ (q # <<>> => Head(q) = q[1] /\ 1 \in 1..Len(q))
  BY <1>1
<1> HIDE DEF r
<1>3. Single(r)
  <2> SUFFICES ASSUME NEW i \in 1..Len(r), NEW j \in 1..Len(r), r[i].conn = r[j].conn
               PROVE  i = j
    BY DEF Single
  <2>1. CASE i = Len(q) + 1 \/ j = Len(q) + 1
    BY <1>1, <2>1 DEF Holds
  <2>2. CASE i # Len(q) + 1 /\ j # Len(q) + 1
    BY <1>1, <2>2 DEF Single
  <2> QED BY <2>1, <2>2
<1>4. ASSUME NEW d PROVE Holds(r, d) <=> d = o.conn \/ Holds(q, d)
  BY <1>1 DEF Holds
<1> QED BY <1>1, <1>2, <1>3, <1>4 DEF r, PrimaryOf

----------------------------------------------------------------------------
(* The invariant. *)

Queued(own, prv) ==
  /\ \A n \in Names : Single(own[n])
  /\ \A c \in Conns : Distinct(prv[c])
  /\ \A c \in Conns, n \in Names : Lists(prv[c], n) => Holds(own[n], c)

(***************************************************************************)
(* What OwnershipTold needs of connections that closed: a stale entry of   *)
(* theirs stays in a queue, but nobody was told that they own the name     *)
(* except while they did, and their object is not reused meanwhile.        *)
(***************************************************************************)
Views(own, tl, an, st) ==
  \A n \in Names, d \in Conns :
    /\ <<d, n>> \in tl => PrimaryOf(own[n]) = d
    /\ an[n] = d => PrimaryOf(own[n]) = d
    /\ st[d] = "named" /\ PrimaryOf(own[n]) = d => <<d, n>> \in tl /\ an[n] = d
    /\ st[d] = "open" => ~Holds(own[n], d)

IInv == TypeOK /\ Queued(owners, names) /\ Views(owners, told, announced, status) /\ StartWaits

LEMMA RemovedName ==
  ASSUME NEW ns \in [Conns -> Seq(Names)], \A d \in Conns : Distinct(ns[d]),
         NEW c \in Conns, NEW n \in Names
  PROVE  /\ RemoveName(ns, c, n) \in [Conns -> Seq(Names)]
         /\ \A d \in Conns : Distinct(RemoveName(ns, c, n)[d])
         /\ \A d \in Conns, m \in Names :
              Lists(RemoveName(ns, c, n)[d], m) => Lists(ns[d], m) /\ (d # c \/ m # n)
<1>1. RemoveName(ns, c, n) = [ns EXCEPT ![c] = RemoveFirst(ns[c], n)]
  BY DEF RemoveName
<1>2. /\ RemoveFirst(ns[c], n) \in Seq(Names)
      /\ Distinct(RemoveFirst(ns[c], n))
      /\ \A m : Lists(RemoveFirst(ns[c], n), m) => m # n /\ Lists(ns[c], m)
  BY NameRemoved
<1> QED BY <1>1, <1>2

LEMMA NewOwnerIs ==
  ASSUME NameServiceAssumption, TypeOK, NEW q \in Seq(Owner)
  PROVE  /\ NewOwnerOf(q) \in Conns \cup {None}
         /\ NewOwnerOf(q) # None => NewOwnerOf(q) = PrimaryOf(q)
         /\ \A d \in Conns : PrimaryOf(q) = d /\ status[d] = "named" => NewOwnerOf(q) = d
<1>1. q # <<>> => Head(q).conn \in Conns /\ PrimaryOf(q) = Head(q).conn
  BY PrimaryHeld DEF PrimaryOf
<1>2. q = <<>> => PrimaryOf(q) = None
  BY DEF PrimaryOf
<1>3. None \notin Conns
  BY DEF NameServiceAssumption
<1> QED BY <1>1, <1>2, <1>3 DEF NewOwnerOf, HasUniqueName

(***************************************************************************)
(* A connection gives up names: the queues and what everyone heard agree   *)
(* afterwards.  st is the status of the connections then.                  *)
(***************************************************************************)
LEMMA GiveUpStep ==
  ASSUME NameServiceAssumption, IInv, NEW c \in Conns, NEW ns \in SUBSET Names, GiveUp(c, ns),
         NEW st, \A d \in Conns : /\ st[d] = "named" => status[d] = "named"
                                  /\ st[d] = "open" => status[d] = "open"
  PROVE  /\ owners' \in [Names -> Seq(Owner)]
         /\ told' \subseteq Conns \X Names
         /\ announced' \in [Names -> Conns \cup {None}]
         /\ \A n \in Names : Single(owners'[n])
         /\ \A n \in Names, d \in Conns : Holds(owners'[n], d) <=>
              Holds(owners[n], d) /\ ~(n \in ns /\ d = c)
         /\ \A n \in Names : owners[n] = <<>> => owners'[n] = <<>>
         /\ Views(owners', told', announced', st)
<1> DEFINE lost == {n \in ns : Primary(n) = c}
           left(n) == RemoveOwner(owners[n], c)
           new(n) == NewOwnerOf(left(n))
<1>1. TypeOK /\ Views(owners, told, announced, status) /\ \A n \in Names : Single(owners[n])
  BY DEF IInv, Queued
<1>2. \A n \in Names : owners[n] \in Seq(Owner)
  BY <1>1 DEF TypeOK
<1>3. /\ owners' = [n \in Names |-> IF n \in ns THEN left(n) ELSE owners[n]]
      /\ told' = (told \ {<<c, n>> : n \in lost})
                   \cup {<<new(n), n>> : n \in {x \in lost : new(x) # None}}
      /\ announced' = [n \in Names |-> IF n \in lost THEN new(n) ELSE announced[n]]
  BY DEF GiveUp
<1>4. \A n \in Names :
        /\ left(n) \in Seq(Owner) /\ Single(left(n))
        /\ \A d : Holds(left(n), d) <=> d # c /\ Holds(owners[n], d)
        /\ owners[n] = <<>> => left(n) = <<>>
        /\ PrimaryOf(left(n)) # c
        /\ PrimaryOf(owners[n]) # c => PrimaryOf(left(n)) = PrimaryOf(owners[n])
  BY <1>1, <1>2, OwnerRemoved, PrimaryRemoved
<1>5. \A n \in Names :
        /\ new(n) \in Conns \cup {None}
        /\ new(n) # None => new(n) = PrimaryOf(left(n))
        /\ \A d \in Conns : PrimaryOf(left(n)) = d /\ status[d] = "named" => new(n) = d
  BY <1>1, <1>4, NewOwnerIs
<1>6. \A n \in Names : n \in lost <=> n \in ns /\ PrimaryOf(owners[n]) = c
  BY PrimaryIs
<1>7. lost \subseteq ns
  OBVIOUS
<1> HIDE DEF lost, left, new
<1>8. owners' \in [Names -> Seq(Owner)]
  BY <1>2, <1>3, <1>4
<1>9. told' \subseteq Conns \X Names
  BY <1>1, <1>3, <1>5, <1>7 DEF TypeOK
<1>10. announced' \in [Names -> Conns \cup {None}]
  BY <1>1, <1>3, <1>5 DEF TypeOK
<1>11. \A n \in Names : owners'[n] = IF n \in ns THEN left(n) ELSE owners[n]
  BY <1>3
<1>12. \A n \in Names : announced'[n] = IF n \in lost THEN new(n) ELSE announced[n]
  BY <1>3
<1>13. \A n \in Names, d \in Conns : <<d, n>> \in told' <=>
         IF n \in lost THEN d = new(n) \/ (<<d, n>> \in told /\ d # c) ELSE <<d, n>> \in told
  <2>1. None \notin Conns
    BY DEF NameServiceAssumption
  <2> QED BY <1>3, <1>5, <1>7, <2>1
<1>14. ASSUME NEW n \in Names, NEW d \in Conns
       PROVE  /\ <<d, n>> \in told' => PrimaryOf(owners'[n]) = d
              /\ announced'[n] = d => PrimaryOf(owners'[n]) = d
              /\ st[d] = "named" /\ PrimaryOf(owners'[n]) = d
                   => <<d, n>> \in told' /\ announced'[n] = d
              /\ st[d] = "open" => ~Holds(owners'[n], d)
  <2>1. /\ <<d, n>> \in told => PrimaryOf(owners[n]) = d
        /\ announced[n] = d => PrimaryOf(owners[n]) = d
        /\ status[d] = "named" /\ PrimaryOf(owners[n]) = d => <<d, n>> \in told /\ announced[n] = d
        /\ status[d] = "open" => ~Holds(owners[n], d)
    BY <1>1 DEF Views
  <2>2. st[d] = "open" => ~Holds(owners'[n], d)
    BY <1>4, <1>11, <2>1
  <2>3. CASE n \in lost
    <3>1. n \in ns /\ PrimaryOf(owners[n]) = c
      BY <1>6, <2>3
    <3>2. owners'[n] = left(n) /\ announced'[n] = new(n) /\ (<<d, n>> \in told' <=> d = new(n))
      BY <1>11, <1>12, <1>13, <2>1, <2>3, <3>1
    <3>3. None \notin Conns
      BY DEF NameServiceAssumption
    <3> QED BY <1>5, <2>2, <3>2, <3>3
  <2>4. CASE n \notin lost
    <3>1. PrimaryOf(owners'[n]) = PrimaryOf(owners[n])
      BY <1>4, <1>6, <1>11, <2>4
    <3>2. announced'[n] = announced[n] /\ (<<d, n>> \in told' <=> <<d, n>> \in told)
      BY <1>12, <1>13, <2>4
    <3> QED BY <2>1, <2>2, <3>1, <3>2
  <2> QED BY <2>3, <2>4
<1>15. Views(owners', told', announced', st)
  BY <1>14 DEF Views
<1>16. \A n \in Names : Single(owners'[n])
  BY <1>1, <1>4, <1>11
<1>17. \A n \in Names, d \in Conns : Holds(owners'[n], d) <=>
         Holds(owners[n], d) /\ ~(n \in ns /\ d = c)
  BY <1>4, <1>11
<1>18. \A n \in Names : owners[n] = <<>> => owners'[n] = <<>>
  BY <1>4, <1>11
<1> QED BY <1>8, <1>9, <1>10, <1>15, <1>16, <1>17, <1>18

----------------------------------------------------------------------------
(* The steps, one lemma each. *)

LEMMA SameNames ==
  ASSUME IInv, UNCHANGED <<owners, names, signalVars>>,
         status' \in [Conns -> {"closed", "open", "named"}],
         calls' \in [Calls -> MethodCall \cup {None}], StartWaits',
         \A d \in Conns : /\ status'[d] = "named" => status[d] \in {"named", "open"}
                          /\ status'[d] = "open" /\ status[d] # "open" =>
                               \A n \in Names : ~Holds(owners[n], d)
  PROVE  IInv'
<1>1. TypeOK'
  BY DEF IInv, TypeOK, signalVars
<1>2. Queued(owners, names)'
  BY DEF IInv
<1>3. ASSUME NEW n \in Names, NEW d \in Conns
      PROVE  /\ <<d, n>> \in told => PrimaryOf(owners[n]) = d
             /\ announced[n] = d => PrimaryOf(owners[n]) = d
             /\ status'[d] = "named" /\ PrimaryOf(owners[n]) = d =>
                  <<d, n>> \in told /\ announced[n] = d
             /\ status'[d] = "open" => ~Holds(owners[n], d)
  <2>1. PrimaryOf(owners[n]) = d => Holds(owners[n], d) \/ d = None
    BY PrimaryHeld DEF IInv, TypeOK, PrimaryOf
  <2>2. d # None
    BY NameServiceAssumption DEF NameServiceAssumption
  <2> QED BY <2>1, <2>2 DEF IInv, Views
<1>4. Views(owners, told, announced, status)'
  BY <1>3 DEF Views, signalVars
<1> QED BY <1>1, <1>2, <1>4 DEF IInv

LEMMA NewConnectionStep ==
  ASSUME IInv, NEW c \in Conns, NewConnection(c)
  PROVE  IInv'
<1>1. status' = [status EXCEPT ![c] = "open"]
  BY DEF NewConnection
<1>2. \A n \in Names : ~Holds(owners[n], c)
  BY DEF NewConnection, Referenced, Holds, ToSet
<1>3. status' \in [Conns -> {"closed", "open", "named"}]
  BY <1>1 DEF IInv, TypeOK
<1>4. StartWaits'
  BY DEF NewConnection, IInv, StartWaits
<1>5. calls' \in [Calls -> MethodCall \cup {None}]
  BY DEF NewConnection, IInv, TypeOK
<1>6. \A d \in Conns : status'[d] = IF d = c THEN "open" ELSE status[d]
  BY <1>1 DEF IInv, TypeOK
<1> QED BY <1>2, <1>3, <1>4, <1>5, <1>6, SameNames DEF NewConnection

LEMMA HelloStep ==
  ASSUME IInv, NEW c \in Conns, Hello(c)
  PROVE  IInv'
<1>1. status' = [status EXCEPT ![c] = "named"] /\ status[c] = "open"
  BY DEF Hello
<1>2. status' \in [Conns -> {"closed", "open", "named"}]
  BY <1>1 DEF IInv, TypeOK
<1>3. StartWaits'
  BY DEF Hello, IInv, StartWaits
<1>4. calls' \in [Calls -> MethodCall \cup {None}]
  BY DEF Hello, IInv, TypeOK
<1>5. \A d \in Conns : status'[d] = IF d = c THEN "named" ELSE status[d]
  BY <1>1 DEF IInv, TypeOK
<1> QED BY <1>1, <1>2, <1>3, <1>4, <1>5, SameNames DEF Hello

LEMMA CallStep ==
  ASSUME IInv, NEW k \in Calls,
         StartServiceTimeout(k) \/ \E c \in Conns, n \in Names : StartServiceByName(k, c, n)
  PROVE  IInv'
<1>1. UNCHANGED <<owners, names, signalVars>> /\ status' = status
  BY DEF StartServiceTimeout, StartServiceByName
<1>2. CASE StartServiceTimeout(k)
  <2>1. calls' = [calls EXCEPT ![k] = None]
    BY <1>2 DEF StartServiceTimeout
  <2>2. calls' \in [Calls -> MethodCall \cup {None}]
    BY <2>1 DEF IInv, TypeOK
  <2>3. StartWaits'
    BY <1>1, <2>1 DEF IInv, TypeOK, StartWaits
  <2>4. status' \in [Conns -> {"closed", "open", "named"}]
    BY <1>1 DEF IInv, TypeOK
  <2> QED BY <1>1, <2>2, <2>3, <2>4, SameNames
<1>3. ASSUME NEW c \in Conns, NEW n \in Names, StartServiceByName(k, c, n) PROVE IInv'
  <2>1. calls' = [calls EXCEPT ![k] = [conn |-> c, name |-> n]] /\ owners[n] = <<>>
    BY <1>3 DEF StartServiceByName
  <2>2. calls' \in [Calls -> MethodCall \cup {None}]
    BY <2>1 DEF IInv, TypeOK, MethodCall
  <2>3. StartWaits'
    BY <1>1, <2>1 DEF IInv, TypeOK, StartWaits
  <2>4. status' \in [Conns -> {"closed", "open", "named"}]
    BY <1>1 DEF IInv, TypeOK
  <2> QED BY <1>1, <2>2, <2>3, <2>4, SameNames
<1> QED BY <1>2, <1>3

LEMMA DestroyStep ==
  ASSUME IInv, NEW c \in Conns, DestroyConnection(c)
  PROVE  IInv'
<1> DEFINE ns == ToSet(names[c])
<1>1. /\ GiveUp(c, ns)
      /\ calls' = [k \in Calls |-> IF calls[k] # None /\ calls[k].conn = c /\ HasUniqueName(c)
                                   THEN None ELSE calls[k]]
      /\ names' = [names EXCEPT ![c] = <<>>]
      /\ status' = [status EXCEPT ![c] = "closed"]
  BY DEF DestroyConnection
<1>2. TypeOK /\ Queued(owners, names) /\ StartWaits
  BY DEF IInv
<1>3. ns \subseteq Names
  BY <1>2 DEF TypeOK, ToSet
<1> HIDE DEF ns
<1>4. \A d \in Conns : status'[d] = IF d = c THEN "closed" ELSE status[d]
  BY <1>1, <1>2 DEF TypeOK
<1>5. /\ owners' \in [Names -> Seq(Owner)]
      /\ told' \subseteq Conns \X Names
      /\ announced' \in [Names -> Conns \cup {None}]
      /\ \A n \in Names : Single(owners'[n])
      /\ \A n \in Names, d \in Conns : Holds(owners'[n], d) <=>
           Holds(owners[n], d) /\ ~(n \in ns /\ d = c)
      /\ \A n \in Names : owners[n] = <<>> => owners'[n] = <<>>
      /\ Views(owners', told', announced', status')
  <2>1. ns \in SUBSET Names /\ GiveUp(c, ns)
    BY <1>1, <1>3
  <2>2. \A d \in Conns : /\ status'[d] = "named" => status[d] = "named"
                         /\ status'[d] = "open" => status[d] = "open"
    BY <1>4
  <2> QED BY <2>1, <2>2, GiveUpStep, NameServiceAssumption
<1>6. TypeOK'
  <2>1. status' \in [Conns -> {"closed", "open", "named"}]
    BY <1>1, <1>2 DEF TypeOK
  <2>2. names' \in [Conns -> Seq(Names)]
    BY <1>1, <1>2 DEF TypeOK
  <2>3. calls' \in [Calls -> MethodCall \cup {None}]
    BY <1>1, <1>2 DEF TypeOK
  <2> QED BY <1>5, <2>1, <2>2, <2>3 DEF TypeOK
<1>7. Queued(owners, names)'
  <2>1. \A d \in Conns : names'[d] = IF d = c THEN <<>> ELSE names[d]
    BY <1>1, <1>2 DEF TypeOK
  <2>2. \A n : ~Lists(<<>>, n)
    BY DEF Lists
  <2>3. \A d \in Conns : Distinct(names'[d])
    BY <1>2, <2>1 DEF Queued, Distinct
  <2>4. \A d \in Conns, n \in Names : Lists(names'[d], n) => Holds(owners'[n], d)
    BY <1>2, <1>5, <2>1, <2>2 DEF Queued
  <2> QED BY <1>5, <2>3, <2>4 DEF Queued
<1>8. StartWaits'
  <2>1. \A k \in Calls : calls[k] # None => calls[k].name \in Names
    BY <1>2 DEF TypeOK, MethodCall
  <2> QED BY <1>1, <1>2, <1>5, <2>1 DEF StartWaits
<1> QED BY <1>5, <1>6, <1>7, <1>8 DEF IInv

LEMMA ReleaseStep ==
  ASSUME IInv, NEW c \in Conns, NEW n \in Names, ReleaseName(c, n)
  PROVE  IInv'
<1>1. /\ GiveUp(c, {n}) /\ names' = RemoveName(names, c, n)
      /\ UNCHANGED <<status, calls>>
  BY DEF ReleaseName
<1>2. TypeOK /\ Queued(owners, names) /\ StartWaits
  BY DEF IInv
<1>3. /\ owners' \in [Names -> Seq(Owner)]
      /\ told' \subseteq Conns \X Names
      /\ announced' \in [Names -> Conns \cup {None}]
      /\ \A m \in Names : Single(owners'[m])
      /\ \A m \in Names, d \in Conns : Holds(owners'[m], d) <=>
           Holds(owners[m], d) /\ ~(m \in {n} /\ d = c)
      /\ \A m \in Names : owners[m] = <<>> => owners'[m] = <<>>
      /\ Views(owners', told', announced', status)
  <2>1. {n} \in SUBSET Names
    OBVIOUS
  <2> HIDE DEF GiveUp
  <2> QED BY <1>1, <2>1, GiveUpStep, NameServiceAssumption
<1>4. /\ names' \in [Conns -> Seq(Names)]
      /\ \A d \in Conns : Distinct(names'[d])
      /\ \A d \in Conns, m \in Names : Lists(names'[d], m) => Lists(names[d], m) /\ (d # c \/ m # n)
  <2>1. names \in [Conns -> Seq(Names)] /\ \A d \in Conns : Distinct(names[d])
    BY <1>2 DEF TypeOK, Queued
  <2> QED BY <1>1, <2>1, RemovedName
<1>5. TypeOK'
  BY <1>1, <1>2, <1>3, <1>4 DEF TypeOK
<1>6. Queued(owners, names)'
  BY <1>2, <1>3, <1>4 DEF Queued
<1>7. StartWaits'
  <2>1. \A k \in Calls : calls[k] # None => calls[k].name \in Names
    BY <1>2 DEF TypeOK, MethodCall
  <2> QED BY <1>1, <1>2, <1>3, <2>1 DEF StartWaits
<1>8. Views(owners, told, announced, status)'
  BY <1>1, <1>3
<1> QED BY <1>5, <1>6, <1>7, <1>8 DEF IInv

(* RequestName.  The caller's old entry is removed first; the owner, which *)
(* is another connection, stays at the head.                               *)
LEMMA WithoutCaller ==
  ASSUME IInv, NEW c \in Conns, NEW n \in Names, Primary(n) # c
  PROVE  /\ RemoveOwner(owners[n], c) \in Seq(Owner)
         /\ Single(RemoveOwner(owners[n], c))
         /\ \A d : Holds(RemoveOwner(owners[n], c), d) <=> d # c /\ Holds(owners[n], d)
         /\ owners[n] # <<>> => /\ RemoveOwner(owners[n], c) # <<>>
                                /\ Head(RemoveOwner(owners[n], c)) = Head(owners[n])
         /\ PrimaryOf(RemoveOwner(owners[n], c)) = Primary(n)
<1>1. owners[n] \in Seq(Owner) /\ Single(owners[n]) /\ Primary(n) = PrimaryOf(owners[n])
  BY PrimaryIs DEF IInv, TypeOK, Queued
<1>2. owners[n] # <<>> => Head(owners[n]).conn # c
  BY <1>1 DEF PrimaryOf
<1>3. PrimaryOf(RemoveOwner(owners[n], c)) = Primary(n)
  BY <1>1, PrimaryRemoved, NameServiceAssumption
<1> QED BY <1>1, <1>2, <1>3, OwnerRemoved

LEMMA NewOwnerTyped ==
  ASSUME NEW c \in Conns, NEW flags \in SUBSET Flags
  PROVE  NewOwner(c, flags) \in Owner /\ NewOwner(c, flags).conn = c
  BY DEF NewOwner, Owner, Flags

LEMMA WaitingStep ==
  ASSUME IInv, NEW c \in Conns, NEW n \in Names, NEW flags \in SUBSET Flags,
         Primary(n) # c, ~Replaces(n, flags), HasUniqueName(c),
         names' = RemoveName(names, c, n), UNCHANGED <<status, calls, signalVars>>,
         \/ owners' = [owners EXCEPT ![n] = Append(RemoveOwner(owners[n], c), NewOwner(c, flags))]
         \/ owners' = [owners EXCEPT ![n] = RemoveOwner(owners[n], c)]
  PROVE  IInv' /\ Primary(n)' = Primary(n)
<1> DEFINE q == RemoveOwner(owners[n], c)
           o == NewOwner(c, flags)
<1>1. TypeOK /\ Queued(owners, names) /\ StartWaits /\ Views(owners, told, announced, status)
  BY DEF IInv
<1>2. Primary(n) # None
  BY DEF Replaces
<1>3. owners[n] # <<>>
  BY <1>2 DEF Primary
<1>4. /\ q \in Seq(Owner) /\ Single(q) /\ q # <<>>
      /\ \A d : Holds(q, d) <=> d # c /\ Holds(owners[n], d)
      /\ PrimaryOf(q) = Primary(n)
  BY <1>3, WithoutCaller
<1>5. o \in Owner /\ o.conn = c
  BY NewOwnerTyped
<1>6. PICK r : /\ owners' = [owners EXCEPT ![n] = r]
               /\ r \in {q, Append(q, o)}
  OBVIOUS
<1> HIDE DEF q, o
<1>7. /\ r \in Seq(Owner) /\ Single(r) /\ r # <<>>
      /\ PrimaryOf(r) = Primary(n)
      /\ \A d : d # c => (Holds(r, d) <=> Holds(owners[n], d))
  <2>1. CASE r = q
    BY <1>4, <2>1
  <2>2. CASE r = Append(q, o)
    <3>1. ~Holds(q, o.conn)
      BY <1>4, <1>5
    <3>2. Append(q, o) # <<>>
      BY <1>4, <1>5
    <3> QED BY <1>4, <1>5, <2>2, <3>1, <3>2, AtTheEnd
  <2> QED BY <1>6, <2>1, <2>2
<1>8. \A m \in Names : owners'[m] = IF m = n THEN r ELSE owners[m]
  BY <1>1, <1>6 DEF TypeOK
<1>9. /\ names' \in [Conns -> Seq(Names)]
      /\ \A d \in Conns : Distinct(names'[d])
      /\ \A d \in Conns, m \in Names : Lists(names'[d], m) => Lists(names[d], m) /\ (d # c \/ m # n)
  <2>1. names \in [Conns -> Seq(Names)] /\ \A d \in Conns : Distinct(names[d])
    BY <1>1 DEF TypeOK, Queued
  <2> QED BY <2>1, RemovedName
<1>10. TypeOK'
  <2>1. owners' \in [Names -> Seq(Owner)]
    BY <1>1, <1>6, <1>7 DEF TypeOK
  <2> QED BY <1>1, <1>9, <2>1 DEF TypeOK, signalVars
<1>11. Queued(owners, names)'
  <2>1. \A m \in Names : Single(owners'[m])
    BY <1>1, <1>7, <1>8 DEF Queued
  <2>2. \A d \in Conns, m \in Names : Lists(names'[d], m) => Holds(owners'[m], d)
    BY <1>1, <1>7, <1>8, <1>9 DEF Queued
  <2> QED BY <1>9, <2>1, <2>2 DEF Queued
<1>12. StartWaits'
  BY <1>1, <1>3, <1>8 DEF StartWaits, TypeOK, MethodCall
<1>13. Views(owners, told, announced, status)'
  <2>1. \A m \in Names : PrimaryOf(owners'[m]) = PrimaryOf(owners[m])
    BY <1>7, <1>8, PrimaryIs
  <2>2. \A d \in Conns, m \in Names : status[d] = "open" /\ ~Holds(owners[m], d) => ~Holds(owners'[m], d)
    BY <1>7, <1>8 DEF HasUniqueName
  <2>3. ASSUME NEW m \in Names, NEW d \in Conns
        PROVE  /\ <<d, m>> \in told => PrimaryOf(owners'[m]) = d
               /\ announced[m] = d => PrimaryOf(owners'[m]) = d
               /\ status[d] = "named" /\ PrimaryOf(owners'[m]) = d =>
                    <<d, m>> \in told /\ announced[m] = d
               /\ status[d] = "open" => ~Holds(owners'[m], d)
    <3>1. PrimaryOf(owners'[m]) = PrimaryOf(owners[m])
      BY <2>1
    <3>2. /\ <<d, m>> \in told => PrimaryOf(owners[m]) = d
          /\ announced[m] = d => PrimaryOf(owners[m]) = d
          /\ status[d] = "named" /\ PrimaryOf(owners[m]) = d =>
               <<d, m>> \in told /\ announced[m] = d
          /\ status[d] = "open" => ~Holds(owners[m], d)
      BY <1>1 DEF Views
    <3> QED BY <2>2, <3>1, <3>2
  <2>4. Views(owners', told, announced, status)
    BY <2>3 DEF Views
  <2> QED BY <2>4 DEF signalVars
<1>14. Primary(n)' = Primary(n)
  BY <1>7, <1>8 DEF Primary, PrimaryOf
<1> QED BY <1>10, <1>11, <1>12, <1>13, <1>14 DEF IInv

LEMMA TakenStep ==
  ASSUME IInv, NEW c \in Conns, NEW n \in Names, NEW flags \in SUBSET Flags,
         Primary(n) # c, HasUniqueName(c), status' = status,
         NameTaken(c, n, flags, RemoveOwner(owners[n], c), RemoveName(names, c, n))
  PROVE  IInv'
<1> DEFINE q == RemoveOwner(owners[n], c)
           o == NewOwner(c, flags)
           ns == RemoveName(names, c, n)
           old == Primary(n)
           stays == old = None \/ "do_not_queue" \notin Head(q).flags
           rest == IF stays THEN q ELSE Tail(q)
           added == [ns EXCEPT ![c] = Append(ns[c], n)]
<1>1. TypeOK /\ Queued(owners, names) /\ StartWaits /\ Views(owners, told, announced, status)
  BY DEF IInv
<1>2. /\ owners' = [owners EXCEPT ![n] = <<o>> \o rest]
      /\ names' = IF stays THEN added ELSE RemoveName(added, old, n)
      /\ told' = (told \ {<<old, n>>}) \cup {<<c, n>>}
      /\ announced' = [announced EXCEPT ![n] = c]
      /\ calls' = Answered(n)
  BY DEF NameTaken
<1>3. /\ q \in Seq(Owner) /\ Single(q)
      /\ \A d : Holds(q, d) <=> d # c /\ Holds(owners[n], d)
      /\ PrimaryOf(q) = old
  BY WithoutCaller
<1>4. o \in Owner /\ o.conn = c
  BY NewOwnerTyped
<1>5. ASSUME ~stays
      PROVE  /\ q # <<>> /\ old \in Conns
             /\ Tail(q) = RemoveOwner(q, old)
  <2>1. q # <<>>
    BY <1>3, <1>5 DEF PrimaryOf
  <2>2. old = Head(q).conn /\ old \in Conns
    BY <1>3, <2>1, PrimaryHeld DEF PrimaryOf
  <2>3. RemoveOwner(q, old) = Tail(q)
    BY <1>3, <2>1, <2>2, OwnerRemoved
  <2> QED BY <2>1, <2>2, <2>3
<1>6. /\ rest \in Seq(Owner) /\ Single(rest)
      /\ \A d : Holds(rest, d) <=> Holds(q, d) /\ (stays \/ d # old)
  <2>1. CASE stays
    BY <1>3, <2>1
  <2>2. CASE ~stays
    <3>1. /\ RemoveOwner(q, old) \in Seq(Owner) /\ Single(RemoveOwner(q, old))
          /\ \A d : Holds(RemoveOwner(q, old), d) <=> d # old /\ Holds(q, d)
      BY <1>3, <1>5, <2>2, OwnerRemoved
    <3> QED BY <1>5, <2>2, <3>1
  <2> QED BY <2>1, <2>2
<1>7. /\ ns \in [Conns -> Seq(Names)]
      /\ \A d \in Conns : Distinct(ns[d])
      /\ \A d \in Conns, m \in Names : Lists(ns[d], m) => Lists(names[d], m) /\ (d # c \/ m # n)
  <2>1. names \in [Conns -> Seq(Names)] /\ \A d \in Conns : Distinct(names[d])
    BY <1>1 DEF TypeOK, Queued
  <2> QED BY <2>1, RemovedName
<1> HIDE DEF q, o, ns
<1>8. /\ added \in [Conns -> Seq(Names)]
      /\ \A d \in Conns : Distinct(added[d])
      /\ \A d \in Conns, m \in Names :
           Lists(added[d], m) => (d = c /\ m = n) \/ Lists(ns[d], m)
  <2>1. \A d \in Conns : added[d] = IF d = c THEN Append(ns[c], n) ELSE ns[d]
    BY <1>7
  <2>2. /\ ns[c] \in Seq(Names) /\ Distinct(ns[c]) /\ ~Lists(ns[c], n)
    BY <1>7
  <2>3. /\ Append(ns[c], n) \in Seq(Names)
        /\ Len(Append(ns[c], n)) = Len(ns[c]) + 1 /\ Len(ns[c]) \in Nat
        /\ Append(ns[c], n)[Len(ns[c]) + 1] = n
        /\ \A i \in 1..Len(ns[c]) : Append(ns[c], n)[i] = ns[c][i]
    BY <2>2
  <2>4. Distinct(Append(ns[c], n))
    BY <2>2, <2>3 DEF Distinct, Lists
  <2>5. \A m : Lists(Append(ns[c], n), m) => m = n \/ Lists(ns[c], m)
    BY <2>3 DEF Lists
  <2>6. added \in [Conns -> Seq(Names)]
    BY <1>7, <2>3
  <2> QED BY <1>7, <2>1, <2>4, <2>5, <2>6
<1> HIDE DEF added, rest, stays, old
<1>9. /\ names' \in [Conns -> Seq(Names)]
      /\ \A d \in Conns : Distinct(names'[d])
      /\ \A d \in Conns, m \in Names :
           Lists(names'[d], m) => Lists(added[d], m) /\ (stays \/ d # old \/ m # n)
  <2>1. CASE stays
    BY <1>2, <1>8, <2>1
  <2>2. CASE ~stays
    <3>1. old \in Conns /\ names' = RemoveName(added, old, n)
      BY <1>2, <1>5, <2>2
    <3> QED BY <1>8, <3>1, RemovedName
  <2> QED BY <2>1, <2>2
<1> DEFINE r == <<o>> \o rest
<1>10. /\ r \in Seq(Owner) /\ Single(r) /\ PrimaryOf(r) = c
       /\ \A d : Holds(r, d) <=> d = c \/ Holds(rest, d)
  <2>1. ~Holds(rest, o.conn)
    BY <1>3, <1>4, <1>6
  <2> QED BY <1>4, <1>6, <2>1, InFront
<1>11. owners' = [owners EXCEPT ![n] = r]
  BY <1>2
<1> HIDE DEF r
<1>12. \A m \in Names : owners'[m] = IF m = n THEN r ELSE owners[m]
  BY <1>1, <1>11 DEF TypeOK
<1>13. TypeOK'
  <2>1. owners' \in [Names -> Seq(Owner)]
    BY <1>1, <1>10, <1>11 DEF TypeOK
  <2>2. told' \subseteq Conns \X Names
    BY <1>1, <1>2 DEF TypeOK
  <2>3. announced' \in [Names -> Conns \cup {None}]
    BY <1>1, <1>2 DEF TypeOK
  <2>4. calls' \in [Calls -> MethodCall \cup {None}]
    BY <1>1, <1>2 DEF TypeOK, Answered
  <2> QED BY <1>1, <1>9, <2>1, <2>2, <2>3, <2>4 DEF TypeOK
<1>14. Queued(owners, names)'
  <2>1. \A m \in Names : Single(owners'[m])
    BY <1>1, <1>10, <1>12 DEF Queued
  <2>2. ASSUME NEW d \in Conns, NEW m \in Names, Lists(names'[d], m)
        PROVE  Holds(owners'[m], d)
    <3>1. CASE d = c /\ m = n
      BY <1>10, <1>12, <3>1
    <3>2. CASE ~(d = c /\ m = n)
      <4>1. Lists(ns[d], m) /\ (stays \/ d # old \/ m # n)
        BY <1>8, <1>9, <2>2, <3>2
      <4>2. Holds(owners[m], d)
        BY <1>1, <1>7, <4>1 DEF Queued
      <4>3. CASE m # n
        BY <1>12, <4>2, <4>3
      <4>4. CASE m = n
        <5>1. Holds(q, d)
          BY <1>3, <3>2, <4>2, <4>4
        <5>2. Holds(rest, d)
          BY <1>6, <4>1, <4>4, <5>1
        <5> QED BY <1>10, <1>12, <4>4, <5>2
      <4> QED BY <4>3, <4>4
    <3> QED BY <3>1, <3>2
  <2> QED BY <1>9, <2>1, <2>2 DEF Queued
<1>15. StartWaits'
  <2> SUFFICES ASSUME NEW k \in Calls, calls'[k] # None PROVE owners'[calls'[k].name] = <<>>
    BY DEF StartWaits
  <2>1. calls[k] # None /\ calls[k].name # n /\ calls'[k] = calls[k]
    BY <1>2 DEF Answered
  <2>2. calls[k].name \in Names /\ owners[calls[k].name] = <<>>
    BY <1>1, <2>1 DEF TypeOK, MethodCall, StartWaits
  <2> QED BY <1>12, <2>1, <2>2
<1>16. ASSUME NEW m \in Names, NEW d \in Conns
       PROVE  /\ <<d, m>> \in told' => PrimaryOf(owners'[m]) = d
              /\ announced'[m] = d => PrimaryOf(owners'[m]) = d
              /\ status[d] = "named" /\ PrimaryOf(owners'[m]) = d =>
                   <<d, m>> \in told' /\ announced'[m] = d
              /\ status[d] = "open" => ~Holds(owners'[m], d)
  <2>1. /\ <<d, m>> \in told => PrimaryOf(owners[m]) = d
        /\ announced[m] = d => PrimaryOf(owners[m]) = d
        /\ status[d] = "named" /\ PrimaryOf(owners[m]) = d => <<d, m>> \in told /\ announced[m] = d
        /\ status[d] = "open" => ~Holds(owners[m], d)
    BY <1>1 DEF Views
  <2>2. CASE m # n
    <3>1. owners'[m] = owners[m] /\ announced'[m] = announced[m]
      BY <1>1, <1>2, <1>12, <2>2 DEF TypeOK
    <3>2. <<d, m>> \in told' <=> <<d, m>> \in told
      BY <1>2, <2>2
    <3> QED BY <2>1, <3>1, <3>2
  <2>3. CASE m = n
    <3>1. PrimaryOf(owners'[m]) = c /\ announced'[m] = c
      BY <1>1, <1>2, <1>10, <1>12, <2>3 DEF TypeOK
    <3>2. <<d, m>> \in told' <=> d = c
      <4>1. <<d, n>> \in told => d = old
        BY <2>1, <2>3, PrimaryIs DEF old
      <4> QED BY <1>2, <2>3, <4>1
    <3>3. status[d] = "open" => ~Holds(owners'[m], d)
      BY <1>3, <1>6, <1>10, <1>12, <2>1, <2>3 DEF HasUniqueName
    <3> QED BY <3>1, <3>2, <3>3
  <2> QED BY <2>2, <2>3
<1>17. Views(owners, told, announced, status)'
  BY <1>16 DEF Views
<1> QED BY <1>13, <1>14, <1>15, <1>17 DEF IInv

LEMMA RequestStep ==
  ASSUME IInv, NEW c \in Conns, NEW n \in Names, NEW flags \in SUBSET Flags,
         RequestName(c, n, flags)
  PROVE  /\ IInv'
         /\ Replaces(n, flags) \/ Primary(n)' = Primary(n)
         /\ \A m \in Names : m # n => owners'[m] = owners[m]
<1> DEFINE q == RemoveOwner(owners[n], c)
           ns == RemoveName(names, c, n)
<1>1. /\ HasUniqueName(c) /\ Primary(n) # c /\ status' = status
      /\ \/ NameTaken(c, n, flags, q, ns)
         \/ NameQueued(c, n, flags, q, ns)
         \/ NameExists(c, n, flags, q, ns)
  BY DEF RequestName
<1>2. CASE NameTaken(c, n, flags, q, ns)
  <2>1. IInv'
    BY <1>1, <1>2, TakenStep
  <2> QED BY <1>2, <2>1 DEF NameTaken, IInv, TypeOK
<1>3. CASE NameQueued(c, n, flags, q, ns)
  <2>1. /\ ~Replaces(n, flags) /\ names' = RemoveName(names, c, n)
        /\ UNCHANGED <<status, calls, signalVars>>
        /\ owners' = [owners EXCEPT ![n] = Append(RemoveOwner(owners[n], c), NewOwner(c, flags))]
    BY <1>1, <1>3 DEF NameQueued
  <2>2. IInv' /\ Primary(n)' = Primary(n)
    BY <1>1, <2>1, WaitingStep
  <2> QED BY <2>1, <2>2 DEF IInv, TypeOK
<1>4. CASE NameExists(c, n, flags, q, ns)
  <2>1. /\ ~Replaces(n, flags) /\ names' = RemoveName(names, c, n)
        /\ UNCHANGED <<status, calls, signalVars>>
        /\ owners' = [owners EXCEPT ![n] = RemoveOwner(owners[n], c)]
    BY <1>1, <1>4 DEF NameExists
  <2>2. IInv' /\ Primary(n)' = Primary(n)
    BY <1>1, <2>1, WaitingStep
  <2> QED BY <2>1, <2>2 DEF IInv, TypeOK
<1> QED BY <1>1, <1>2, <1>3, <1>4

----------------------------------------------------------------------------
(* The theorems. *)

LEMMA InitHolds == Init => IInv
<1> SUFFICES ASSUME Init PROVE IInv
  OBVIOUS
<1>1. TypeOK
  BY DEF Init, TypeOK
<1>2. Queued(owners, names)
  BY DEF Init, Queued, Single, Distinct, Lists
<1>3. Views(owners, told, announced, status)
  BY NameServiceAssumption DEF Init, Views, PrimaryOf, NameServiceAssumption
<1>4. StartWaits
  BY DEF Init, StartWaits
<1> QED BY <1>1, <1>2, <1>3, <1>4 DEF IInv

LEMMA StepHolds == IInv /\ [Next]_vars => IInv'
<1> SUFFICES ASSUME IInv, [Next]_vars PROVE IInv'
  OBVIOUS
<1>1. ASSUME NEW c \in Conns, NewConnection(c) PROVE IInv'
  BY <1>1, NewConnectionStep
<1>2. ASSUME NEW c \in Conns, Hello(c) PROVE IInv'
  BY <1>2, HelloStep
<1>3. ASSUME NEW c \in Conns, DestroyConnection(c) PROVE IInv'
  BY <1>3, DestroyStep
<1>4. ASSUME NEW c \in Conns, NEW n \in Names, NEW flags \in SUBSET Flags, RequestName(c, n, flags)
      PROVE  IInv'
  BY <1>4, RequestStep
<1>5. ASSUME NEW c \in Conns, NEW n \in Names, ReleaseName(c, n) PROVE IInv'
  BY <1>5, ReleaseStep
<1>6. ASSUME NEW c \in Conns, NEW n \in Names, NEW k \in Calls, StartServiceByName(k, c, n)
      PROVE  IInv'
  BY <1>6, CallStep
<1>7. ASSUME NEW k \in Calls, StartServiceTimeout(k) PROVE IInv'
  BY <1>7, CallStep
<1>8. CASE UNCHANGED vars
  BY <1>8 DEF vars, signalVars, IInv, TypeOK, Queued, Views, StartWaits
<1> QED BY <1>1, <1>2, <1>3, <1>4, <1>5, <1>6, <1>7, <1>8 DEF Next

THEOREM Invariance == Spec => []IInv
BY InitHolds, StepHolds, PTL DEF Spec

\* The queues, the private lists and the calls that wait keep their shape.
THEOREM TypeCorrect == Spec => []TypeOK
<1>1. IInv => TypeOK
  BY DEF IInv
<1> QED BY <1>1, Invariance, PTL

\* A connection has one entry in a queue, and each name of its private list
\* once: what the handlers of ReleaseName and "destroy" assert.
THEOREM NamesAgree == Spec => []QueuesAgree
<1>1. IInv => OneEntry
  BY DEF IInv, Queued, Single, OneEntry
<1>2. IInv => PrivateNames
  <2> SUFFICES ASSUME IInv, NEW c \in Conns, NEW i \in 1..Len(names[c])
               PROVE  /\ \E o \in ToSet(owners[names[c][i]]) : o.conn = c
                      /\ \A j \in 1..Len(names[c]) : names[c][i] = names[c][j] => i = j
    BY DEF PrivateNames
  <2>1. names[c] \in Seq(Names) /\ Distinct(names[c])
    BY DEF IInv, TypeOK, Queued
  <2>2. names[c][i] \in Names /\ Lists(names[c], names[c][i])
    BY <2>1 DEF Lists
  <2>3. Holds(owners[names[c][i]], c)
    BY <2>2 DEF IInv, Queued
  <2>4. \E o \in ToSet(owners[names[c][i]]) : o.conn = c
    BY <2>3 DEF Holds, ToSet
  <2> QED BY <2>1, <2>4 DEF Distinct
<1>3. IInv => QueuesAgree
  BY <1>1, <1>2 DEF QueuesAgree
<1> QED BY <1>3, Invariance, PTL

\* The router, the owner and all others mean the same owner of a name.
THEOREM OwnersAreTold == Spec => []OwnershipTold
<1>1. IInv => OwnershipTold
  <2> SUFFICES ASSUME IInv, NEW c \in Conns, NEW n \in Names, HasUniqueName(c)
               PROVE  /\ <<c, n>> \in told <=> Primary(n) = c
                      /\ announced[n] = c <=> Primary(n) = c
    BY DEF OwnershipTold
  <2> QED BY PrimaryIs DEF IInv, Views, HasUniqueName
<1> QED BY <1>1, Invariance, PTL

\* A StartServiceByName call waits only for a name nobody owns.
THEOREM CallsWaitForOwner == Spec => []StartWaits
<1>1. IInv => StartWaits
  BY DEF IInv
<1> QED BY <1>1, Invariance, PTL

LEMMA LeftInOrder ==
  ASSUME IInv, NEW c \in Conns, NEW ns, GiveUp(c, ns), NEW n \in Names,
         owners[n] # <<>>, Primary(n)' # Primary(n)
  PROVE  owners'[n] = Tail(owners[n])
<1>1. owners[n] \in Seq(Owner) /\ Single(owners[n])
  BY DEF IInv, TypeOK, Queued
<1>2. owners'[n] = IF n \in ns THEN RemoveOwner(owners[n], c) ELSE owners[n]
  BY DEF GiveUp
<1>3. owners'[n] = RemoveOwner(owners[n], c)
  BY <1>2 DEF Primary
<1>4. CASE Head(owners[n]).conn = c
  <2> DEFINE q == owners[n]
  <2>1. q \in Seq(Owner) /\ Single(q) /\ q # <<>> /\ Head(q).conn = c
    BY <1>1, <1>4
  <2> HIDE DEF q
  <2>2. RemoveOwner(q, c) = Tail(q)
    BY <2>1, OwnerRemoved
  <2> QED BY <1>3, <2>2 DEF q
<1>5. CASE Head(owners[n]).conn # c
  <2>1. RemoveOwner(owners[n], c) # <<>> /\ Head(RemoveOwner(owners[n], c)) = Head(owners[n])
    BY <1>1, <1>5, OwnerRemoved
  <2> QED BY <1>3, <2>1 DEF Primary
<1> QED BY <1>4, <1>5

\* An owner that does not allow replacement is only succeeded by the next in
\* its queue.
THEOREM InOrder == Spec => Succession
<1>1. IInv /\ [Next]_vars =>
        [ \A n \in Names :
            /\ owners[n] # <<>> /\ "allow_replacement" \notin Head(owners[n]).flags
            /\ Primary(n)' # Primary(n)
            => owners'[n] = Tail(owners[n]) ]_vars
  <2> SUFFICES ASSUME IInv, Next, NEW m \in Names, owners[m] # <<>>,
                      "allow_replacement" \notin Head(owners[m]).flags,
                      Primary(m)' # Primary(m)
               PROVE  owners'[m] = Tail(owners[m])
    OBVIOUS
  <2>1. owners'[m] # owners[m]
    BY DEF Primary
  <2>2. ASSUME NEW c \in Conns, NewConnection(c) PROVE FALSE
    BY <2>1, <2>2 DEF NewConnection
  <2>3. ASSUME NEW c \in Conns, Hello(c) PROVE FALSE
    BY <2>1, <2>3 DEF Hello
  <2>4. ASSUME NEW c \in Conns, DestroyConnection(c) PROVE owners'[m] = Tail(owners[m])
    BY <2>4, LeftInOrder DEF DestroyConnection
  <2>5. ASSUME NEW c \in Conns, NEW n \in Names, NEW flags \in SUBSET Flags,
               RequestName(c, n, flags)
        PROVE  FALSE
    <3>1. m = n /\ Replaces(m, flags)
      BY <2>1, <2>5, RequestStep
    <3>2. Primary(m) \in Conns
      BY PrimaryIs, PrimaryHeld DEF IInv, TypeOK
    <3> QED BY <3>1, <3>2, NameServiceAssumption DEF Replaces, NameServiceAssumption
  <2>6. ASSUME NEW c \in Conns, NEW n \in Names, ReleaseName(c, n)
        PROVE  owners'[m] = Tail(owners[m])
    BY <2>6, LeftInOrder DEF ReleaseName
  <2>7. ASSUME NEW c \in Conns, NEW n \in Names, NEW k \in Calls, StartServiceByName(k, c, n)
        PROVE  FALSE
    BY <2>1, <2>7 DEF StartServiceByName
  <2>8. ASSUME NEW k \in Calls, StartServiceTimeout(k) PROVE FALSE
    BY <2>1, <2>8 DEF StartServiceTimeout
  <2> QED BY <2>2, <2>3, <2>4, <2>5, <2>6, <2>7, <2>8 DEF Next
<1> QED BY <1>1, Invariance, PTL DEF Spec, Succession

-----------------------------------------------------------------------------
(***************************************************************************)
(* Match rules.  The inductive invariant: a rule has one object, a peer is *)
(* in its list once, and the count there is that of its AddMatch calls.    *)
(* RuleIndex and RecipientIndex then find the only one there is.           *)
(***************************************************************************)
Recipient == [peer : Peers, refcount : Nat \ {0}]
RuleObject == [rule : Rules, recipients : Seq(Recipient)]

OnePlace(s) == \A j, k \in DOMAIN s : s[j].peer = s[k].peer => j = k

Count(object, p) ==
  LET k == RecipientIndex(object, p)
  IN IF k = 0 THEN 0 ELSE object.recipients[k].refcount

Counted(r, p) ==
  LET i == RuleIndex(r)
  IN IF i = 0 THEN 0 ELSE Count(rules[i], p)

RulesInv ==
  /\ rules \in Seq(RuleObject)
  /\ wanted \in [Peers -> [Rules -> Nat]]
  /\ \A i \in DOMAIN rules : OnePlace(rules[i].recipients)
  /\ \A i, j \in DOMAIN rules : rules[i].rule = rules[j].rule => i = j
  /\ \A i \in DOMAIN rules : \A p \in Peers : wanted[p][rules[i].rule] = Count(rules[i], p)
  /\ \A p \in Peers, r \in Rules :
       (\A i \in DOMAIN rules : rules[i].rule # r) => wanted[p][r] = 0

LEMMA MinIsLeast ==
  ASSUME NEW S, S \subseteq Nat, NEW k \in S, \A j \in S : j = k
  PROVE  Min(S) = k
<1>1. S = {k}
  OBVIOUS
<1> QED BY <1>1 DEF Min

LEMMA RecipientFound ==
  ASSUME NEW o \in RuleObject, OnePlace(o.recipients), NEW p
  PROVE  /\ RecipientIndex(o, p) = 0 <=> \A k \in DOMAIN o.recipients : o.recipients[k].peer # p
         /\ RecipientIndex(o, p) # 0 =>
              /\ RecipientIndex(o, p) \in DOMAIN o.recipients
              /\ o.recipients[RecipientIndex(o, p)].peer = p
         /\ \A k \in DOMAIN o.recipients : o.recipients[k].peer = p => RecipientIndex(o, p) = k
<1> DEFINE s == o.recipients
           I == {k \in 1..Len(s) : s[k].peer = p}
<1>1. s \in Seq(Recipient) /\ DOMAIN s = 1..Len(s) /\ Len(s) \in Nat
  BY LenProperties DEF RuleObject
<1>2. RecipientIndex(o, p) = IF I # {} THEN Min(I) ELSE 0
  BY DEF RecipientIndex, SelectInSeq
<1>3. ASSUME NEW k \in DOMAIN s, s[k].peer = p PROVE RecipientIndex(o, p) = k
  <2>1. k \in I /\ \A j \in I : j = k
    BY <1>1, <1>3 DEF OnePlace
  <2>2. I \subseteq Nat
    BY <1>1
  <2> HIDE DEF I
  <2>3. Min(I) = k
    BY <2>1, <2>2, MinIsLeast
  <2> QED BY <1>2, <2>1, <2>3
<1>4. ASSUME \A k \in DOMAIN s : s[k].peer # p PROVE RecipientIndex(o, p) = 0
  <2>1. I = {}
    BY <1>1, <1>4
  <2> QED BY <1>2, <2>1
<1>5. 0 \notin DOMAIN s
  BY <1>1
<1> QED BY <1>3, <1>4, <1>5

LEMMA RuleFound ==
  ASSUME RulesInv, NEW r
  PROVE  /\ RuleIndex(r) = 0 <=> \A i \in DOMAIN rules : rules[i].rule # r
         /\ RuleIndex(r) # 0 => RuleIndex(r) \in DOMAIN rules /\ rules[RuleIndex(r)].rule = r
         /\ \A i \in DOMAIN rules : rules[i].rule = r => RuleIndex(r) = i
<1> DEFINE I == {i \in 1..Len(rules) : rules[i].rule = r}
<1>1. rules \in Seq(RuleObject) /\ DOMAIN rules = 1..Len(rules) /\ Len(rules) \in Nat
  BY LenProperties DEF RulesInv
<1>2. RuleIndex(r) = IF I # {} THEN Min(I) ELSE 0
  BY DEF RuleIndex, SelectInSeq
<1>3. ASSUME NEW k \in DOMAIN rules, rules[k].rule = r PROVE RuleIndex(r) = k
  <2>1. k \in I /\ \A j \in I : j = k
    BY <1>1, <1>3 DEF RulesInv
  <2>2. I \subseteq Nat
    BY <1>1
  <2> HIDE DEF I
  <2>3. Min(I) = k
    BY <2>1, <2>2, MinIsLeast
  <2> QED BY <1>2, <2>1, <2>3
<1>4. ASSUME \A k \in DOMAIN rules : rules[k].rule # r PROVE RuleIndex(r) = 0
  <2>1. I = {}
    BY <1>1, <1>4
  <2> QED BY <1>2, <2>1
<1>5. 0 \notin DOMAIN rules
  BY <1>1
<1> QED BY <1>3, <1>4, <1>5

(***************************************************************************)
(* The count of a peer, from the place of its entry.                       *)
(***************************************************************************)
LEMMA CountAt ==
  ASSUME NEW o \in RuleObject, OnePlace(o.recipients)
  PROVE  /\ \A p \in Peers : Count(o, p) \in Nat
         /\ \A k \in DOMAIN o.recipients : /\ o.recipients[k] \in Recipient
                                           /\ Count(o, o.recipients[k].peer) = o.recipients[k].refcount
         /\ \A p \in Peers : Count(o, p) = 0 <=> RecipientIndex(o, p) = 0
<1>1. \A k \in DOMAIN o.recipients : o.recipients[k] \in Recipient /\ k # 0
  <2>1. o.recipients \in Seq(Recipient)
    BY DEF RuleObject
  <2> QED BY <2>1, LenProperties
<1>2. \A k \in DOMAIN o.recipients : Count(o, o.recipients[k].peer) = o.recipients[k].refcount
  BY <1>1, RecipientFound DEF Count
<1>3. \A p \in Peers : \/ RecipientIndex(o, p) = 0 /\ Count(o, p) = 0
                       \/ RecipientIndex(o, p) # 0 /\ Count(o, p) \in Nat \ {0}
  BY <1>1, RecipientFound DEF Count, Recipient
<1> QED BY <1>1, <1>2, <1>3

(***************************************************************************)
(* What the three operations on an object do to the counts.                *)
(***************************************************************************)
LEMMA RecipientAdded ==
  ASSUME NEW o \in RuleObject, OnePlace(o.recipients), NEW p \in Peers
  PROVE  LET n == AddRecipient(o, p)
         IN /\ n \in RuleObject /\ n.rule = o.rule /\ OnePlace(n.recipients)
            /\ Count(n, p) = Count(o, p) + 1
            /\ \A q \in Peers \ {p} : Count(n, q) = Count(o, q)
<1> DEFINE i == RecipientIndex(o, p)
           n == AddRecipient(o, p)
           s == o.recipients
<1>0. s \in Seq(Recipient) /\ DOMAIN s = 1..Len(s) /\ Len(s) \in Nat /\ o.rule \in Rules
  BY LenProperties DEF RuleObject
<1>1. CASE i # 0
  <2> DEFINE t == [s EXCEPT ![i].refcount = @ + 1]
  <2>1. n = [o EXCEPT !.recipients = t]
    BY <1>1 DEF AddRecipient, RuleObject
  <2>2. i \in DOMAIN s /\ s[i].peer = p
    BY <1>1, RecipientFound
  <2>3. /\ t \in Seq(Recipient) /\ DOMAIN t = DOMAIN s
        /\ t[i].peer = p /\ t[i].refcount = s[i].refcount + 1
        /\ \A k \in DOMAIN s \ {i} : t[k] = s[k]
    <3>1. [s[i] EXCEPT !.refcount = @ + 1] \in Recipient
          /\ [s[i] EXCEPT !.refcount = @ + 1].peer = p
          /\ [s[i] EXCEPT !.refcount = @ + 1].refcount = s[i].refcount + 1
      <4>1. s[i] \in Recipient
        BY <1>0, <2>2
      <4> QED BY <2>2, <4>1 DEF Recipient
    <3>2. t = [s EXCEPT ![i] = [s[i] EXCEPT !.refcount = @ + 1]]
      BY <1>0, <2>2
    <3> HIDE DEF t
    <3>3. t \in Seq(Recipient) /\ DOMAIN t = DOMAIN s
      BY <1>0, <2>2, <3>1, <3>2, ExceptSeq
    <3> QED BY <1>0, <2>2, <3>1, <3>2, <3>3
  <2> HIDE DEF t
  <2>4. n \in RuleObject /\ n.rule = o.rule /\ n.recipients = t
    BY <2>1, <2>3 DEF RuleObject
  <2>5. OnePlace(t)
    BY <2>2, <2>3 DEF OnePlace
  <2> HIDE DEF n, i, s
  <2>6. Count(n, p) = Count(o, p) + 1
    BY <2>2, <2>3, <2>4, <2>5, CountAt DEF s
  <2>7. ASSUME NEW q \in Peers \ {p} PROVE Count(n, q) = Count(o, q)
    <3>1. CASE \E k \in DOMAIN s : s[k].peer = q
      <4>1. PICK k \in DOMAIN s : s[k].peer = q
        BY <3>1
      <4>2. t[k] = s[k] /\ k \in DOMAIN t
        BY <2>2, <2>3, <4>1
      <4> QED BY <2>4, <2>5, <4>1, <4>2, CountAt DEF s
    <3>2. CASE \A k \in DOMAIN s : s[k].peer # q
      <4>1. \A k \in DOMAIN t : t[k].peer # q
        BY <2>2, <2>3, <3>2
      <4> QED BY <2>4, <2>5, <3>2, <4>1, RecipientFound DEF s, Count
    <3> QED BY <3>1, <3>2
  <2> QED BY <2>4, <2>5, <2>6, <2>7 DEF n
<1>2. CASE i = 0
  <2> DEFINE e == [peer |-> p, refcount |-> 1]
             t == Append(s, e)
  <2>1. n = [o EXCEPT !.recipients = t]
    BY <1>2 DEF AddRecipient, RuleObject
  <2>2. \A k \in DOMAIN s : s[k].peer # p
    BY <1>2, RecipientFound
  <2>3. e \in Recipient /\ e.peer = p /\ e.refcount = 1
    BY DEF Recipient
  <2> HIDE DEF e
  <2>4. /\ t \in Seq(Recipient) /\ DOMAIN t = 1..(Len(s) + 1)
        /\ t[Len(s) + 1] = e /\ \A k \in DOMAIN s : t[k] = s[k]
    BY <1>0, <2>3, AppendProperties, LenProperties
  <2> HIDE DEF t
  <2>5. DOMAIN t = DOMAIN s \cup {Len(s) + 1} /\ Len(s) + 1 \notin DOMAIN s
    BY <1>0, <2>4
  <2>6. n \in RuleObject /\ n.rule = o.rule /\ n.recipients = t
    BY <2>1, <2>4 DEF RuleObject
  <2>7. OnePlace(t)
    BY <2>2, <2>3, <2>4, <2>5 DEF OnePlace
  <2>8. Count(o, p) = 0
    BY <1>2 DEF Count
  <2> HIDE DEF n, i, s
  <2>9. Count(n, p) = Count(o, p) + 1
    BY <2>3, <2>4, <2>5, <2>6, <2>7, <2>8, CountAt DEF s
  <2>10. ASSUME NEW q \in Peers \ {p} PROVE Count(n, q) = Count(o, q)
    <3>1. CASE \E k \in DOMAIN s : s[k].peer = q
      <4>1. PICK k \in DOMAIN s : s[k].peer = q
        BY <3>1
      <4>2. t[k] = s[k] /\ k \in DOMAIN t
        BY <2>4, <2>5, <4>1
      <4> QED BY <2>6, <2>7, <4>1, <4>2, CountAt DEF s
    <3>2. CASE \A k \in DOMAIN s : s[k].peer # q
      <4>1. \A k \in DOMAIN t : t[k].peer # q
        BY <2>3, <2>4, <2>5, <3>2
      <4> QED BY <2>6, <2>7, <3>2, <4>1, RecipientFound DEF s, Count
    <3> QED BY <3>1, <3>2
  <2> QED BY <2>6, <2>7, <2>9, <2>10 DEF n
<1> QED BY <1>1, <1>2

LEMMA RecipientDropped ==
  ASSUME NEW o \in RuleObject, OnePlace(o.recipients), NEW p \in Peers,
         NEW i \in DOMAIN o.recipients, o.recipients[i].peer = p
  PROVE  LET n == [o EXCEPT !.recipients = RemoveAt(@, i)]
         IN /\ n \in RuleObject /\ n.rule = o.rule /\ OnePlace(n.recipients)
            /\ Count(n, p) = 0
            /\ \A q \in Peers \ {p} : Count(n, q) = Count(o, q)
<1> DEFINE n == [o EXCEPT !.recipients = RemoveAt(@, i)]
           s == o.recipients
           t == RemoveAt(s, i)
<1>0. s \in Seq(Recipient) /\ DOMAIN s = 1..Len(s) /\ Len(s) \in Nat /\ o.rule \in Rules
  BY LenProperties DEF RuleObject
<1>1. /\ t \in Seq(Recipient) /\ Len(t) = Len(s) - 1
      /\ \A j \in 1..(Len(s) - 1) : t[j] = IF j < i THEN s[j] ELSE s[j + 1]
  BY <1>0, RemovedAt
<1> HIDE DEF t
<1>2. DOMAIN t = 1..(Len(s) - 1)
  BY <1>1, LenProperties
<1>3. n \in RuleObject /\ n.rule = o.rule /\ n.recipients = t
  BY <1>1 DEF RuleObject, t
<1> HIDE DEF n
<1>4. \A j \in DOMAIN t : \E k \in DOMAIN s \ {i} : /\ t[j] = s[k]
                                                   /\ j = IF k < i THEN k ELSE k - 1
  <2>1. ASSUME NEW j \in DOMAIN t, j < i
        PROVE  j \in DOMAIN s \ {i} /\ t[j] = s[j]
    BY <1>0, <1>1, <1>2, <2>1
  <2>2. ASSUME NEW j \in DOMAIN t, ~(j < i)
        PROVE  j + 1 \in DOMAIN s \ {i} /\ t[j] = s[j + 1] /\ ~(j + 1 < i) /\ j = (j + 1) - 1
    <3>1. j \in 1..(Len(s) - 1) /\ i \in 1..Len(s)
      BY <1>0, <1>2
    <3>2. t[j] = s[j + 1]
      BY <1>1, <2>2, <3>1
    <3> QED BY <1>0, <2>2, <3>1, <3>2
  <2> QED BY <2>1, <2>2
<1>5. ASSUME NEW k \in DOMAIN s \ {i} PROVE \E j \in DOMAIN t : t[j] = s[k]
  <2>1. CASE k < i
    <3>1. k \in DOMAIN t /\ t[k] = s[k]
      BY <1>0, <1>1, <1>2, <2>1
    <3> QED BY <3>1
  <2>2. CASE ~(k < i)
    <3>1. k - 1 \in DOMAIN t /\ t[k - 1] = s[k]
      BY <1>0, <1>1, <1>2, <2>2
    <3> QED BY <3>1
  <2> QED BY <2>1, <2>2
<1>6. OnePlace(t)
  <2>1. SUFFICES ASSUME NEW j \in DOMAIN t, NEW k \in DOMAIN t, t[j].peer = t[k].peer
                 PROVE  j = k
    BY DEF OnePlace
  <2>2. PICK a \in DOMAIN s : t[j] = s[a] /\ j = IF a < i THEN a ELSE a - 1
    BY <1>4
  <2>3. PICK b \in DOMAIN s : t[k] = s[b] /\ k = IF b < i THEN b ELSE b - 1
    BY <1>4
  <2>4. a = b
    BY <2>1, <2>2, <2>3 DEF OnePlace
  <2> QED BY <2>2, <2>3, <2>4
<1>7. \A j \in DOMAIN t : t[j].peer # p
  BY <1>4 DEF OnePlace
<1>8. Count(n, p) = 0
  <2>0. OnePlace(n.recipients) /\ \A k \in DOMAIN n.recipients : n.recipients[k].peer # p
    BY <1>3, <1>6, <1>7
  <2>1. RecipientIndex(n, p) = 0
    BY <1>3, <2>0, RecipientFound
  <2> QED BY <2>1 DEF Count
<1>9. ASSUME NEW q \in Peers \ {p} PROVE Count(n, q) = Count(o, q)
  <2>1. CASE \E k \in DOMAIN s : s[k].peer = q
    <3>1. PICK k \in DOMAIN s \ {i} : s[k].peer = q
      BY <2>1
    <3>2. PICK j \in DOMAIN t : t[j] = s[k]
      BY <1>5
    <3>3. Count(n, q) = t[j].refcount
      BY <1>3, <1>6, <3>1, <3>2, CountAt
    <3>4. Count(o, q) = s[k].refcount
      BY <3>1, CountAt
    <3> QED BY <3>2, <3>3, <3>4
  <2>2. CASE \A k \in DOMAIN s : s[k].peer # q
    <3>1. \A j \in DOMAIN t : t[j].peer # q
      BY <1>4, <2>2
    <3>2. Count(n, q) = 0
      BY <1>3, <1>6, <3>1, RecipientFound DEF Count
    <3>3. Count(o, q) = 0
      BY <2>2, RecipientFound DEF Count
    <3> QED BY <3>2, <3>3
  <2> QED BY <2>1, <2>2
<1> QED BY <1>3, <1>6, <1>8, <1>9 DEF n

LEMMA RecipientRemoved ==
  ASSUME NEW o \in RuleObject, OnePlace(o.recipients), NEW p \in Peers
  PROVE  LET n == RemoveRecipient(o, p)
         IN /\ n \in RuleObject /\ n.rule = o.rule /\ OnePlace(n.recipients)
            /\ Count(n, p) = IF Count(o, p) = 0 THEN 0 ELSE Count(o, p) - 1
            /\ \A q \in Peers \ {p} : Count(n, q) = Count(o, q)
<1> DEFINE i == RecipientIndex(o, p)
           n == RemoveRecipient(o, p)
           s == o.recipients
<1>0. s \in Seq(Recipient) /\ DOMAIN s = 1..Len(s) /\ Len(s) \in Nat /\ o.rule \in Rules
  BY LenProperties DEF RuleObject
<1>1. CASE i = 0
  BY <1>1 DEF RemoveRecipient, Count
<1>2. CASE i # 0
  <2>1. i \in DOMAIN s /\ s[i].peer = p /\ s[i] \in Recipient
    BY <1>0, <1>2, RecipientFound
  <2>2. Count(o, p) = s[i].refcount
    BY <1>2 DEF Count
  <2>3. CASE s[i].refcount = 1
    <3>1. n = [o EXCEPT !.recipients = RemoveAt(@, i)]
      BY <1>2, <2>3 DEF RemoveRecipient
    <3> HIDE DEF n, i
    <3>2. /\ n \in RuleObject /\ n.rule = o.rule /\ OnePlace(n.recipients)
          /\ Count(n, p) = 0 /\ \A q \in Peers \ {p} : Count(n, q) = Count(o, q)
      BY <2>1, <3>1, RecipientDropped
    <3>3. Count(o, p) = 1
      BY <2>2, <2>3
    <3> QED BY <3>2, <3>3 DEF n
  <2>4. CASE s[i].refcount # 1
    <3> DEFINE e == [s[i] EXCEPT !.refcount = @ - 1]
               t == [s EXCEPT ![i] = e]
    <3>1. e \in Recipient /\ e.peer = p /\ e.refcount = s[i].refcount - 1
      BY <2>1, <2>4 DEF Recipient
    <3>2. n = [o EXCEPT !.recipients = t]
      BY <1>0, <1>2, <2>1, <2>4 DEF RemoveRecipient, RuleObject
    <3> HIDE DEF e
    <3>3. /\ t \in Seq(Recipient) /\ DOMAIN t = DOMAIN s
          /\ t[i] = e /\ \A k \in DOMAIN s \ {i} : t[k] = s[k]
      BY <1>0, <2>1, <3>1, ExceptSeq
    <3> HIDE DEF t
    <3>4. n \in RuleObject /\ n.rule = o.rule /\ n.recipients = t
      BY <3>2, <3>3 DEF RuleObject
    <3>5. OnePlace(t)
      BY <2>1, <3>1, <3>3 DEF OnePlace
    <3> HIDE DEF n, i, s
    <3>6. Count(n, p) = s[i].refcount - 1
      BY <2>1, <3>1, <3>3, <3>4, <3>5, CountAt
    <3>7. s[i].refcount \in Nat \ {0}
      BY <2>1 DEF Recipient
    <3>8. ASSUME NEW q \in Peers \ {p} PROVE Count(n, q) = Count(o, q)
      <4>1. CASE \E k \in DOMAIN s : s[k].peer = q
        <5>1. PICK k \in DOMAIN s : s[k].peer = q
          BY <4>1
        <5>2. t[k] = s[k] /\ k \in DOMAIN t
          BY <2>1, <3>3, <5>1
        <5> QED BY <3>4, <3>5, <5>1, <5>2, CountAt DEF s
      <4>2. CASE \A k \in DOMAIN s : s[k].peer # q
        <5>1. \A k \in DOMAIN t : t[k].peer # q
          BY <2>1, <3>1, <3>3, <4>2
        <5> QED BY <3>4, <3>5, <4>2, <5>1, RecipientFound DEF s, Count
      <4> QED BY <4>1, <4>2
    <3> QED BY <2>2, <3>4, <3>5, <3>6, <3>7, <3>8 DEF n
  <2> QED BY <2>3, <2>4
<1> QED BY <1>1, <1>2

LEMMA NobodyCounts ==
  ASSUME NEW o \in RuleObject, o.recipients = <<>>
  PROVE  \A p \in Peers : Count(o, p) = 0
<1>1. DOMAIN o.recipients = {}
  OBVIOUS
<1>2. OnePlace(o.recipients)
  BY <1>1 DEF OnePlace
<1> QED BY <1>1, <1>2, RecipientFound DEF Count

-----------------------------------------------------------------------------
(* What happens to dbus->rules. *)

LEMMA RuleReplaced ==
  ASSUME RulesInv, NEW i \in DOMAIN rules, NEW n \in RuleObject, n.rule = rules[i].rule,
         OnePlace(n.recipients), rules' = [rules EXCEPT ![i] = n],
         wanted' \in [Peers -> [Rules -> Nat]],
         \A q \in Peers : wanted'[q][n.rule] = Count(n, q),
         \A q \in Peers, r \in Rules \ {n.rule} : wanted'[q][r] = wanted[q][r]
  PROVE  RulesInv'
<1>0. rules \in Seq(RuleObject) /\ DOMAIN rules = 1..Len(rules)
      /\ \A j \in DOMAIN rules : rules[j].rule \in Rules
  <2>1. \A j \in DOMAIN rules : rules[j] \in RuleObject
    BY DEF RulesInv
  <2> QED BY <2>1, LenProperties DEF RulesInv, RuleObject
<1>1. /\ rules' \in Seq(RuleObject) /\ DOMAIN rules' = DOMAIN rules /\ rules'[i] = n
      /\ \A j \in DOMAIN rules \ {i} : rules'[j] = rules[j]
  BY <1>0, ExceptSeq
<1>2. \A j \in DOMAIN rules : rules'[j].rule = rules[j].rule
  BY <1>1
<1>3. \A j \in DOMAIN rules : OnePlace(rules'[j].recipients)
  BY <1>1 DEF RulesInv
<1>4. ASSUME NEW j \in DOMAIN rules, NEW p \in Peers
      PROVE  wanted'[p][rules'[j].rule] = Count(rules'[j], p)
  <2>1. CASE j = i
    BY <1>1, <2>1
  <2>2. CASE j # i
    <3>1. rules'[j] = rules[j] /\ rules[j].rule \in Rules \ {n.rule}
      BY <1>0, <1>1, <2>2 DEF RulesInv
    <3> QED BY <3>1 DEF RulesInv
  <2> QED BY <2>1, <2>2
<1>5. \A p \in Peers, r \in Rules : (\A j \in DOMAIN rules : rules[j].rule # r) => wanted'[p][r] = 0
  BY DEF RulesInv
<1>6. \A j, k \in DOMAIN rules : rules'[j].rule = rules'[k].rule => j = k
  BY <1>2 DEF RulesInv
<1> QED BY <1>1, <1>2, <1>3, <1>4, <1>5, <1>6 DEF RulesInv

LEMMA RuleAppended ==
  ASSUME RulesInv, NEW n \in RuleObject, \A i \in DOMAIN rules : rules[i].rule # n.rule,
         OnePlace(n.recipients), rules' = Append(rules, n),
         wanted' \in [Peers -> [Rules -> Nat]],
         \A q \in Peers : wanted'[q][n.rule] = Count(n, q),
         \A q \in Peers, r \in Rules \ {n.rule} : wanted'[q][r] = wanted[q][r]
  PROVE  RulesInv'
<1> DEFINE k == Len(rules) + 1
<1>0. rules \in Seq(RuleObject) /\ DOMAIN rules = 1..Len(rules) /\ Len(rules) \in Nat
      /\ \A j \in DOMAIN rules : rules[j].rule \in Rules
  <2>1. \A j \in DOMAIN rules : rules[j] \in RuleObject
    BY DEF RulesInv
  <2> QED BY <2>1, LenProperties DEF RulesInv, RuleObject
<1>1. /\ rules' \in Seq(RuleObject) /\ DOMAIN rules' = DOMAIN rules \cup {k} /\ rules'[k] = n
      /\ k \notin DOMAIN rules
      /\ \A j \in DOMAIN rules : rules'[j] = rules[j]
  <2>1. rules' \in Seq(RuleObject) /\ Len(rules') = Len(rules) + 1
        /\ \A j \in 1..Len(rules) : rules'[j] = rules[j]
        /\ rules'[Len(rules) + 1] = n
    BY <1>0, AppendProperties
  <2>2. DOMAIN rules' = 1..(Len(rules) + 1)
    BY <2>1, LenProperties
  <2> QED BY <1>0, <2>1, <2>2
<1> HIDE DEF k
<1>3. \A j \in DOMAIN rules' : OnePlace(rules'[j].recipients)
  BY <1>1 DEF RulesInv
<1>4. ASSUME NEW j \in DOMAIN rules', NEW p \in Peers
      PROVE  wanted'[p][rules'[j].rule] = Count(rules'[j], p)
  <2>1. CASE j = k
    BY <1>1, <2>1
  <2>2. CASE j # k
    <3>1. j \in DOMAIN rules /\ rules'[j] = rules[j] /\ rules[j].rule \in Rules \ {n.rule}
      BY <1>0, <1>1, <2>2
    <3> QED BY <3>1 DEF RulesInv
  <2> QED BY <2>1, <2>2
<1>5. ASSUME NEW p \in Peers, NEW r \in Rules, \A j \in DOMAIN rules' : rules'[j].rule # r
      PROVE  wanted'[p][r] = 0
  <2>1. r # n.rule /\ \A j \in DOMAIN rules : rules[j].rule # r
    BY <1>1, <1>5
  <2>2. wanted[p][r] = 0
    BY <2>1 DEF RulesInv
  <2> QED BY <2>1, <2>2
<1>6. \A i, j \in DOMAIN rules' : rules'[i].rule = rules'[j].rule => i = j
  BY <1>1 DEF RulesInv
<1> QED BY <1>1, <1>3, <1>4, <1>5, <1>6 DEF RulesInv

LEMMA RuleDestroyed ==
  ASSUME RulesInv, NEW i \in DOMAIN rules, rules' = RemoveAt(rules, i),
         wanted' \in [Peers -> [Rules -> Nat]],
         \A q \in Peers : wanted'[q][rules[i].rule] = 0,
         \A q \in Peers, r \in Rules \ {rules[i].rule} : wanted'[q][r] = wanted[q][r]
  PROVE  RulesInv'
<1>0. rules \in Seq(RuleObject) /\ DOMAIN rules = 1..Len(rules) /\ Len(rules) \in Nat
      /\ \A j \in DOMAIN rules : rules[j].rule \in Rules
  <2>1. \A j \in DOMAIN rules : rules[j] \in RuleObject
    BY DEF RulesInv
  <2> QED BY <2>1, LenProperties DEF RulesInv, RuleObject
<1>1. /\ rules' \in Seq(RuleObject) /\ DOMAIN rules' = 1..(Len(rules) - 1)
      /\ \A j \in 1..(Len(rules) - 1) : rules'[j] = IF j < i THEN rules[j] ELSE rules[j + 1]
  <2>1. /\ rules' \in Seq(RuleObject) /\ Len(rules') = Len(rules) - 1
        /\ \A j \in 1..(Len(rules) - 1) : rules'[j] = IF j < i THEN rules[j] ELSE rules[j + 1]
    BY <1>0, RemovedAt
  <2> QED BY <2>1, LenProperties
<1>2. \A j \in DOMAIN rules' : \E k \in DOMAIN rules \ {i} : /\ rules'[j] = rules[k]
                                                            /\ j = IF k < i THEN k ELSE k - 1
  <2>1. ASSUME NEW j \in DOMAIN rules', j < i
        PROVE  j \in DOMAIN rules \ {i} /\ rules'[j] = rules[j]
    BY <1>0, <1>1, <2>1
  <2>2. ASSUME NEW j \in DOMAIN rules', ~(j < i)
        PROVE  j + 1 \in DOMAIN rules \ {i} /\ rules'[j] = rules[j + 1] /\ ~(j + 1 < i)
               /\ j = (j + 1) - 1
    BY <1>0, <1>1, <2>2
  <2> QED BY <2>1, <2>2
<1>3. ASSUME NEW k \in DOMAIN rules \ {i} PROVE \E j \in DOMAIN rules' : rules'[j] = rules[k]
  <2>1. CASE k < i
    <3>1. k \in DOMAIN rules' /\ rules'[k] = rules[k]
      BY <1>0, <1>1, <2>1
    <3> QED BY <3>1
  <2>2. CASE ~(k < i)
    <3>1. k - 1 \in DOMAIN rules' /\ rules'[k - 1] = rules[k]
      BY <1>0, <1>1, <2>2
    <3> QED BY <3>1
  <2> QED BY <2>1, <2>2
<1>4. \A j \in DOMAIN rules' : OnePlace(rules'[j].recipients)
  BY <1>2 DEF RulesInv
<1>5. ASSUME NEW j \in DOMAIN rules', NEW p \in Peers
      PROVE  wanted'[p][rules'[j].rule] = Count(rules'[j], p)
  <2>1. PICK k \in DOMAIN rules \ {i} : rules'[j] = rules[k]
    BY <1>2
  <2>2. rules[k].rule \in Rules \ {rules[i].rule}
    BY <1>0 DEF RulesInv
  <2> QED BY <2>1, <2>2 DEF RulesInv
<1>6. ASSUME NEW p \in Peers, NEW r \in Rules, \A j \in DOMAIN rules' : rules'[j].rule # r
      PROVE  wanted'[p][r] = 0
  <2>1. CASE r = rules[i].rule
    BY <2>1
  <2>2. CASE r # rules[i].rule
    <3>1. \A k \in DOMAIN rules : rules[k].rule # r
      BY <1>3, <1>6, <2>2
    <3> QED BY <2>2, <3>1 DEF RulesInv
  <2> QED BY <2>1, <2>2
<1>7. ASSUME NEW j \in DOMAIN rules', NEW k \in DOMAIN rules', rules'[j].rule = rules'[k].rule
      PROVE  j = k
  <2>1. PICK a \in DOMAIN rules : rules'[j] = rules[a] /\ j = IF a < i THEN a ELSE a - 1
    BY <1>2
  <2>2. PICK b \in DOMAIN rules : rules'[k] = rules[b] /\ k = IF b < i THEN b ELSE b - 1
    BY <1>2
  <2>3. a = b
    BY <1>7, <2>1, <2>2 DEF RulesInv
  <2> QED BY <2>1, <2>2, <2>3
<1> QED BY <1>1, <1>4, <1>5, <1>6, <1>7 DEF RulesInv

-----------------------------------------------------------------------------
(* The steps. *)

LEMMA MatchAdded ==
  ASSUME RulesInv, NEW p \in Peers, NEW rule \in Rules, AddMatch(p, rule)
  PROVE  RulesInv'
<1> DEFINE i == RuleIndex(rule)
<1>1. wanted' = [wanted EXCEPT ![p][rule] = @ + 1]
  BY DEF AddMatch
<1>2. /\ wanted' \in [Peers -> [Rules -> Nat]]
      /\ wanted'[p][rule] = wanted[p][rule] + 1
      /\ \A q \in Peers \ {p} : wanted'[q][rule] = wanted[q][rule]
      /\ \A q \in Peers, r \in Rules \ {rule} : wanted'[q][r] = wanted[q][r]
  BY <1>1 DEF RulesInv
<1>3. \A j \in DOMAIN rules : rules[j] \in RuleObject
  BY DEF RulesInv
<1>4. CASE i = 0
  <2> DEFINE o == [rule |-> rule, recipients |-> <<>>]
             n == AddRecipient(o, p)
  <2>1. o \in RuleObject /\ o.rule = rule /\ o.recipients = <<>>
    BY EmptySeq DEF RuleObject
  <2>2. OnePlace(o.recipients) /\ \A q \in Peers : Count(o, q) = 0
    BY <2>1, NobodyCounts DEF OnePlace
  <2>3. rules' = Append(rules, n)
    BY <1>4 DEF AddMatch
  <2> HIDE DEF o
  <2>4. /\ n \in RuleObject /\ n.rule = rule /\ OnePlace(n.recipients)
        /\ Count(n, p) = 1 /\ \A q \in Peers \ {p} : Count(n, q) = 0
    BY <2>1, <2>2, RecipientAdded
  <2> HIDE DEF n
  <2>5. \A j \in DOMAIN rules : rules[j].rule # rule
    BY <1>4, RuleFound
  <2>6. \A q \in Peers : wanted[q][rule] = 0
    BY <2>5 DEF RulesInv
  <2>7. \A q \in Peers : wanted'[q][rule] = Count(n, q)
    BY <1>2, <2>4, <2>6
  <2> QED BY <1>2, <2>3, <2>4, <2>5, <2>7, RuleAppended
<1>5. CASE i # 0
  <2> DEFINE n == AddRecipient(rules[i], p)
  <2>1. rules' = [rules EXCEPT ![i] = n]
    BY <1>5 DEF AddMatch
  <2>2. i \in DOMAIN rules /\ rules[i].rule = rule
    BY <1>5, RuleFound
  <2> HIDE DEF i
  <2>3. /\ n \in RuleObject /\ n.rule = rule /\ OnePlace(n.recipients)
        /\ Count(n, p) = Count(rules[i], p) + 1
        /\ \A q \in Peers \ {p} : Count(n, q) = Count(rules[i], q)
    BY <1>3, <2>2, RecipientAdded DEF RulesInv
  <2> HIDE DEF n
  <2>4. \A q \in Peers : wanted[q][rule] = Count(rules[i], q)
    BY <2>2 DEF RulesInv
  <2>5. \A q \in Peers : wanted'[q][rule] = Count(n, q)
    BY <1>2, <2>3, <2>4
  <2>6. /\ n.rule = rules[i].rule /\ \A q \in Peers : wanted'[q][n.rule] = Count(n, q)
        /\ \A q \in Peers, r \in Rules \ {n.rule} : wanted'[q][r] = wanted[q][r]
    BY <1>2, <2>2, <2>3, <2>5
  <2> QED BY <1>2, <2>1, <2>2, <2>3, <2>6, RuleReplaced
<1> QED BY <1>4, <1>5

LEMMA MatchRemoved ==
  ASSUME RulesInv, NEW p \in Peers, NEW rule \in Rules, RemoveMatch(p, rule)
  PROVE  RulesInv'
<1> DEFINE i == RuleIndex(rule)
           n == RemoveRecipient(rules[i], p)
<1>1. wanted' = [wanted EXCEPT ![p][rule] = IF @ = 0 THEN 0 ELSE @ - 1]
  BY DEF RemoveMatch
<1>2. /\ wanted' \in [Peers -> [Rules -> Nat]]
      /\ wanted'[p][rule] = IF wanted[p][rule] = 0 THEN 0 ELSE wanted[p][rule] - 1
      /\ \A q \in Peers \ {p} : wanted'[q][rule] = wanted[q][rule]
      /\ \A q \in Peers, r \in Rules \ {rule} : wanted'[q][r] = wanted[q][r]
  <2>1. wanted[p][rule] \in Nat
    BY DEF RulesInv
  <2> QED BY <1>1, <2>1 DEF RulesInv
<1>3. \A j \in DOMAIN rules : rules[j] \in RuleObject
  BY DEF RulesInv
<1>4. CASE i = 0
  <2>1. rules' = rules
    BY <1>4 DEF RemoveMatch
  <2>2. \A j \in DOMAIN rules : rules[j].rule # rule
    BY <1>4, RuleFound
  <2>3. \A q \in Peers : wanted[q][rule] = 0 /\ wanted'[q][rule] = 0
    BY <1>2, <2>2 DEF RulesInv
  <2>4. \A q \in Peers, r \in Rules : wanted'[q][r] = wanted[q][r]
    BY <1>2, <2>3
  <2>5. \A j \in DOMAIN rules : rules[j].rule \in Rules
    BY <1>3 DEF RuleObject
  <2> QED BY <1>2, <2>1, <2>4, <2>5 DEF RulesInv
<1>5. CASE i # 0
  <2>1. i \in DOMAIN rules /\ rules[i].rule = rule /\ rules[i] \in RuleObject
        /\ OnePlace(rules[i].recipients)
    BY <1>3, <1>5, RuleFound DEF RulesInv
  <2>2. rules' = IF RecipientIndex(rules[i], p) # 0 /\ n.recipients = <<>>
                 THEN RemoveAt(rules, i) ELSE [rules EXCEPT ![i] = n]
    BY <1>5 DEF RemoveMatch
  <2> HIDE DEF i
  <2>3. /\ n \in RuleObject /\ n.rule = rule /\ OnePlace(n.recipients)
        /\ Count(n, p) = IF Count(rules[i], p) = 0 THEN 0 ELSE Count(rules[i], p) - 1
        /\ \A q \in Peers \ {p} : Count(n, q) = Count(rules[i], q)
    BY <2>1, RecipientRemoved
  <2> HIDE DEF n
  <2>4. \A q \in Peers : wanted[q][rule] = Count(rules[i], q)
    BY <2>1 DEF RulesInv
  <2>5. \A q \in Peers : wanted'[q][rule] = Count(n, q)
    BY <1>2, <2>3, <2>4
  <2>6. CASE RecipientIndex(rules[i], p) # 0 /\ n.recipients = <<>>
    <3>1. \A q \in Peers : wanted'[q][rules[i].rule] = 0
      BY <2>1, <2>3, <2>5, <2>6, NobodyCounts
    <3>2. rules' = RemoveAt(rules, i)
      BY <2>2, <2>6
    <3> QED BY <1>2, <2>1, <3>1, <3>2, RuleDestroyed
  <2>7. CASE ~(RecipientIndex(rules[i], p) # 0 /\ n.recipients = <<>>)
    <3>1. rules' = [rules EXCEPT ![i] = n]
      BY <2>2, <2>7
    <3>2. /\ n.rule = rules[i].rule /\ \A q \in Peers : wanted'[q][n.rule] = Count(n, q)
          /\ \A q \in Peers, r \in Rules \ {n.rule} : wanted'[q][r] = wanted[q][r]
      BY <1>2, <2>1, <2>3, <2>5
    <3> QED BY <1>2, <2>1, <2>3, <3>1, <3>2, RuleReplaced
  <2> QED BY <2>6, <2>7
<1> QED BY <1>4, <1>5

LEMMA RecipientsLeave ==
  ASSUME NEW o \in RuleObject, OnePlace(o.recipients), NEW p \in Peers
  PROVE  LET n == DropRecipient(o, p)
         IN /\ n \in RuleObject /\ n.rule = o.rule /\ OnePlace(n.recipients)
            /\ Count(n, p) = 0
            /\ \A q \in Peers \ {p} : Count(n, q) = Count(o, q)
<1>1. CASE RecipientIndex(o, p) = 0
  BY <1>1 DEF DropRecipient, Count
<1>2. CASE RecipientIndex(o, p) # 0
  <2>1. PICK i \in DOMAIN o.recipients : i = RecipientIndex(o, p) /\ o.recipients[i].peer = p
    BY <1>2, RecipientFound
  <2>2. PICK n : n = DropRecipient(o, p)
    OBVIOUS
  <2>3. n = [o EXCEPT !.recipients = RemoveAt(@, i)]
    BY <1>2, <2>1, <2>2 DEF DropRecipient
  <2>4. /\ n \in RuleObject /\ n.rule = o.rule /\ OnePlace(n.recipients)
        /\ Count(n, p) = 0 /\ \A q \in Peers \ {p} : Count(n, q) = Count(o, q)
    BY <2>1, <2>3, RecipientDropped
  <2> QED BY <2>2, <2>4
<1> QED BY <1>1, <1>2

LEMMA PeerLeaves ==
  ASSUME RulesInv, NEW p \in Peers, Disconnect(p)
  PROVE  RulesInv'
<1>1. /\ rules' = [i \in DOMAIN rules |-> DropRecipient(rules[i], p)]
      /\ wanted' = [wanted EXCEPT ![p] = [r \in Rules |-> 0]]
  BY DEF Disconnect
<1>2. /\ wanted' \in [Peers -> [Rules -> Nat]]
      /\ \A r \in Rules : wanted'[p][r] = 0
      /\ \A q \in Peers \ {p}, r \in Rules : wanted'[q][r] = wanted[q][r]
  BY <1>1 DEF RulesInv
<1>3. rules \in Seq(RuleObject) /\ DOMAIN rules = 1..Len(rules) /\ Len(rules) \in Nat
      /\ \A j \in DOMAIN rules : rules[j] \in RuleObject /\ rules[j].rule \in Rules
  <2>1. \A j \in DOMAIN rules : rules[j] \in RuleObject
    BY DEF RulesInv
  <2> QED BY <2>1, LenProperties DEF RulesInv, RuleObject
<1>4. \A i \in DOMAIN rules :
        /\ rules'[i] \in RuleObject /\ rules'[i].rule = rules[i].rule
        /\ OnePlace(rules'[i].recipients)
        /\ Count(rules'[i], p) = 0
        /\ \A q \in Peers \ {p} : Count(rules'[i], q) = Count(rules[i], q)
  <2>1. ASSUME NEW i \in DOMAIN rules PROVE rules'[i] = DropRecipient(rules[i], p)
    BY <1>1
  <2>2. \A i \in DOMAIN rules : OnePlace(rules[i].recipients)
    BY DEF RulesInv
  <2> QED BY <1>3, <2>1, <2>2, RecipientsLeave
<1>5. DOMAIN rules' = DOMAIN rules
  BY <1>1
<1>6. rules' \in Seq(RuleObject)
  <2>1. rules' \in [1..Len(rules) -> RuleObject]
    BY <1>1, <1>3, <1>4
  <2> QED BY <1>3, <2>1, SeqDef
<1>7. ASSUME NEW i \in DOMAIN rules, NEW q \in Peers
      PROVE  wanted'[q][rules'[i].rule] = Count(rules'[i], q)
  <2>1. CASE q = p
    BY <1>2, <1>3, <1>4, <2>1
  <2>2. CASE q # p
    <3>1. wanted'[q][rules'[i].rule] = wanted[q][rules[i].rule]
      BY <1>2, <1>3, <1>4, <2>2
    <3>2. wanted[q][rules[i].rule] = Count(rules[i], q)
      BY DEF RulesInv
    <3> QED BY <1>4, <2>2, <3>1, <3>2
  <2> QED BY <2>1, <2>2
<1>8. \A i, j \in DOMAIN rules : rules'[i].rule = rules'[j].rule => i = j
  BY <1>4 DEF RulesInv
<1>9. ASSUME NEW q \in Peers, NEW r \in Rules, \A i \in DOMAIN rules : rules'[i].rule # r
      PROVE  wanted'[q][r] = 0
  <2>1. wanted[q][r] = 0
    BY <1>4, <1>9 DEF RulesInv
  <2> QED BY <1>2, <2>1
<1> QED BY <1>2, <1>4, <1>5, <1>6, <1>7, <1>8, <1>9 DEF RulesInv

LEMMA RulesInvariance == MatchInit /\ [][MatchNext]_matchVars => []RulesInv
<1>1. MatchInit => RulesInv
  <2>1. ASSUME MatchInit PROVE rules = <<>> /\ wanted \in [Peers -> [Rules -> Nat]]
                               /\ \A p \in Peers, r \in Rules : wanted[p][r] = 0
    BY <2>1 DEF MatchInit
  <2>2. \A s : s = <<>> => s \in Seq(RuleObject) /\ DOMAIN s = {}
    BY EmptySeq
  <2> QED BY <2>1, <2>2 DEF RulesInv
<1>2. RulesInv /\ [MatchNext]_matchVars => RulesInv'
  <2>1. ASSUME RulesInv, UNCHANGED <<rules, wanted>> PROVE RulesInv'
    BY <2>1 DEF RulesInv
  <2>2. ASSUME RulesInv, NEW p \in Peers, Connect(p) PROVE RulesInv'
    BY <2>1, <2>2 DEF Connect
  <2>3. ASSUME RulesInv, NEW n \in WellKnown, NEW p \in Peers \cup {NoOwner}, OwnerChanges(n, p)
        PROVE  RulesInv'
    BY <2>1, <2>3 DEF OwnerChanges
  <2>4. ASSUME RulesInv, NEW m \in Messages, NEW p \in Peers \cup {NoOwner}, QueueForRules(m, p)
        PROVE  RulesInv'
    BY <2>1, <2>4 DEF QueueForRules
  <2>5. ASSUME RulesInv, DispatchToRecipients PROVE RulesInv'
    BY <2>1, <2>5 DEF DispatchToRecipients
  <2>6. ASSUME RulesInv, UNCHANGED matchVars PROVE RulesInv'
    BY <2>1, <2>6 DEF matchVars
  <2> QED BY <2>2, <2>3, <2>4, <2>5, <2>6, MatchAdded, MatchRemoved, PeerLeaves DEF MatchNext
<1> QED BY <1>1, <1>2, PTL

(***************************************************************************)
(* The objects that equal rules share say what each peer asked for, for    *)
(* any number of peers and rules and however often a rule is added.        *)
(***************************************************************************)
THEOREM RulesAreAsAsked == MatchInit /\ [][MatchNext]_matchVars => []RulesAreWanted
<1>1. RulesInv => RulesAreWanted
  <2>1. ASSUME RulesInv, NEW p \in Peers, NEW r \in Rules
        PROVE  wanted[p][r] = Counted(r, p)
    BY <2>1, RuleFound DEF RulesInv, Counted
  <2>2. RulesInv /\ (\A p \in Peers, r \in Rules : wanted[p][r] = Counted(r, p)) => RulesAreWanted
    <3>1. \A p \in Peers, r \in Rules :
            Counted(r, p) = LET i == RuleIndex(r)
                                k == IF i = 0 THEN 0 ELSE RecipientIndex(rules[i], p)
                            IN IF k = 0 THEN 0 ELSE rules[i].recipients[k].refcount
      BY DEF Counted, Count
    <3> QED BY <3>1 DEF RulesInv, RulesAreWanted
  <2> QED BY <2>1, <2>2
<1> QED BY <1>1, RulesInvariance, PTL

-----------------------------------------------------------------------------
(***************************************************************************)
(* The dispatch by rules.  Besides the objects of the rules it reads the   *)
(* owners of the names and the messages that wait; only a connection that  *)
(* is there wants anything.                                                *)
(***************************************************************************)
Dispatch == [message : Messages, skip : Peers \cup {NoOwner}]

DispatchInv ==
  /\ RulesInv
  /\ ownerOf \in [WellKnown -> Peers \cup {NoOwner}]
  /\ waiting \in Seq(Dispatch)
  /\ connected \subseteq Peers
  /\ \A p \in Peers, r \in Rules : wanted[p][r] > 0 => p \in connected

LEMMA DispatchInit == MatchInit /\ RulesInv => DispatchInv
  BY EmptySeq DEF MatchInit, DispatchInv

LEMMA DispatchStep == DispatchInv /\ [MatchNext]_matchVars /\ RulesInv' => DispatchInv'
<1> SUFFICES ASSUME DispatchInv, [MatchNext]_matchVars, RulesInv'
             PROVE  DispatchInv'
  OBVIOUS
<1>1. ASSUME NEW p \in Peers, Connect(p) PROVE DispatchInv'
  BY <1>1 DEF Connect, DispatchInv
<1>2. ASSUME NEW p \in Peers, Disconnect(p) PROVE DispatchInv'
  <2>1. /\ connected' = connected \ {p} /\ waiting' = waiting
        /\ wanted' = [wanted EXCEPT ![p] = [r \in Rules |-> 0]]
        /\ ownerOf' = [n \in WellKnown |-> IF ownerOf[n] = p THEN NoOwner ELSE ownerOf[n]]
    BY <1>2 DEF Disconnect
  <2>2. wanted \in [Peers -> [Rules -> Nat]]
    BY DEF DispatchInv, RulesInv
  <2>3. ASSUME NEW q \in Peers, NEW r \in Rules, wanted'[q][r] > 0 PROVE q \in connected'
    <3>1. q # p
      BY <2>1, <2>2, <2>3
    <3> QED BY <2>1, <2>2, <2>3, <3>1 DEF DispatchInv
  <2>4. ownerOf' \in [WellKnown -> Peers \cup {NoOwner}]
    BY <2>1 DEF DispatchInv
  <2> QED BY <2>1, <2>3, <2>4 DEF DispatchInv
<1>3. ASSUME NEW p \in Peers, NEW r \in Rules, AddMatch(p, r) PROVE DispatchInv'
  <2>1. /\ p \in connected /\ UNCHANGED <<connected, ownerOf, waiting>>
        /\ wanted' = [wanted EXCEPT ![p][r] = @ + 1]
    BY <1>3 DEF AddMatch
  <2>2. wanted \in [Peers -> [Rules -> Nat]]
    BY DEF DispatchInv, RulesInv
  <2>3. ASSUME NEW q \in Peers, NEW s \in Rules, wanted'[q][s] > 0 PROVE q \in connected'
    BY <2>1, <2>2, <2>3 DEF DispatchInv
  <2> QED BY <2>1, <2>3 DEF DispatchInv
<1>4. ASSUME NEW p \in Peers, NEW r \in Rules, RemoveMatch(p, r) PROVE DispatchInv'
  <2>1. /\ p \in connected /\ UNCHANGED <<connected, ownerOf, waiting>>
        /\ wanted' = [wanted EXCEPT ![p][r] = IF @ = 0 THEN 0 ELSE @ - 1]
    BY <1>4 DEF RemoveMatch
  <2>2. wanted \in [Peers -> [Rules -> Nat]]
    BY DEF DispatchInv, RulesInv
  <2>3. ASSUME NEW q \in Peers, NEW s \in Rules, wanted'[q][s] > 0 PROVE q \in connected'
    BY <2>1, <2>2, <2>3 DEF DispatchInv
  <2> QED BY <2>1, <2>3 DEF DispatchInv
<1>5. ASSUME NEW n \in WellKnown, NEW p \in Peers \cup {NoOwner}, OwnerChanges(n, p)
      PROVE  DispatchInv'
  BY <1>5 DEF OwnerChanges, DispatchInv
<1>6. ASSUME NEW m \in Messages, NEW p \in Peers \cup {NoOwner}, QueueForRules(m, p)
      PROVE  DispatchInv'
  <2>1. [message |-> m, skip |-> p] \in Dispatch
    BY DEF Dispatch
  <2>2. waiting' \in Seq(Dispatch)
    BY <1>6, <2>1 DEF QueueForRules, DispatchInv
  <2> QED BY <1>6, <2>2 DEF QueueForRules, DispatchInv
<1>7. ASSUME DispatchToRecipients PROVE DispatchInv'
  <2>1. waiting' \in Seq(Dispatch)
    BY <1>7 DEF DispatchToRecipients, DispatchInv
  <2> QED BY <1>7, <2>1 DEF DispatchToRecipients, DispatchInv
<1>8. ASSUME UNCHANGED matchVars PROVE DispatchInv'
  BY <1>8 DEF matchVars, DispatchInv
<1> QED BY <1>1, <1>2, <1>3, <1>4, <1>5, <1>6, <1>7, <1>8 DEF MatchNext

(***************************************************************************)
(* What bus_match_rule_match compares is what the rule says: a name is     *)
(* looked up only where a unique name meets a well-known one.              *)
(***************************************************************************)
LEMMA MatchAgrees ==
  ASSUME DispatchInv, NEW r \in Rules, NEW m \in Messages
  PROVE  Match(r, m) <=> Agrees(r, m)
<1>1. ASSUME NEW f \in DOMAIN r, f \in {"sender", "destination"}
      PROVE  MatchName(m[f], r[f]) <=> r[f] \in Called(f, m[f])
  <2>1. m[f] # NoOwner
    BY MatchAssumption
  <2>2. CASE m[f] \in Peers /\ r[f] \in WellKnown
    <3>1. m[f] # r[f]
      BY <2>2, MatchAssumption
    <3> QED BY <1>1, <2>2, <3>1 DEF MatchName, Called
  <2>3. CASE r[f] \in WellKnown /\ m[f] \notin Peers
    <3>1. ownerOf[r[f]] # m[f]
      BY <2>1, <2>3 DEF DispatchInv
    <3> QED BY <2>3, <3>1 DEF MatchName, Called
  <2>4. CASE r[f] \notin WellKnown
    BY <2>4 DEF MatchName, Called
  <2> QED BY <2>2, <2>3, <2>4
<1>2. ASSUME NEW f \in DOMAIN r, f \notin {"sender", "destination"}
      PROVE  m[f] = r[f] <=> r[f] \in Called(f, m[f])
  BY <1>2 DEF Called
<1> QED BY <1>1, <1>2 DEF Match, Agrees

(***************************************************************************)
(* A copy goes to each recipient of an object that matches.                *)
(***************************************************************************)
LEMMA CopiesFor ==
  ASSUME RulesInv, NEW p \in Peers, NEW data
  PROVE  Copies(p, data) > 0 <=>
           /\ p # data.skip
           /\ \E r \in Rules : wanted[p][r] > 0 /\ Match(r, data.message)
<1> DEFINE m == data.message
           C == {i \in DOMAIN rules : RecipientIndex(rules[i], p) # 0 /\ Match(rules[i].rule, m)}
<1>1. /\ rules \in Seq(RuleObject) /\ DOMAIN rules = 1..Len(rules) /\ Len(rules) \in Nat
      /\ \A i \in DOMAIN rules : rules[i] \in RuleObject /\ rules[i].rule \in Rules
  <2>1. \A i \in DOMAIN rules : rules[i] \in RuleObject
    BY DEF RulesInv
  <2> QED BY <2>1, LenProperties DEF RulesInv, RuleObject
<1>2. IsFiniteSet(C)
  <2>1. IsFiniteSet(1..Len(rules))
    BY <1>1, FS_Interval
  <2>2. C \subseteq 1..Len(rules)
    BY <1>1
  <2> QED BY <2>1, <2>2, FS_Subset
<1>3. Cardinality(C) \in Nat /\ (Cardinality(C) = 0 <=> C = {})
  BY <1>2, FS_CardinalityType, FS_EmptySet
<1>4. ASSUME NEW i \in DOMAIN rules
      PROVE  RecipientIndex(rules[i], p) # 0 <=> wanted[p][rules[i].rule] > 0
  <2>1. OnePlace(rules[i].recipients) /\ wanted[p][rules[i].rule] = Count(rules[i], p)
    BY DEF RulesInv
  <2>2. Count(rules[i], p) \in Nat /\ (Count(rules[i], p) = 0 <=> RecipientIndex(rules[i], p) = 0)
    BY <1>1, <2>1, CountAt
  <2> QED BY <2>1, <2>2
<1>5. C # {} <=> \E r \in Rules : wanted[p][r] > 0 /\ Match(r, m)
  <2>1. ASSUME NEW i \in C PROVE \E r \in Rules : wanted[p][r] > 0 /\ Match(r, m)
    BY <1>1, <1>4
  <2>2. ASSUME NEW r \in Rules, wanted[p][r] > 0, Match(r, m) PROVE C # {}
    <3>1. ASSUME \A i \in DOMAIN rules : rules[i].rule # r PROVE FALSE
      <4>1. wanted[p][r] = 0
        BY <3>1, Zenon DEF RulesInv
      <4> QED BY <2>2, <4>1
    <3>2. PICK i \in DOMAIN rules : rules[i].rule = r
      BY <3>1
    <3> QED BY <1>4, <2>2, <3>2
  <2> QED BY <2>1, <2>2
<1>6. Copies(p, data) = IF p = data.skip THEN 0 ELSE Cardinality(C)
  BY DEF Copies
<1> HIDE DEF C
<1> QED BY <1>3, <1>5, <1>6

LEMMA Dispatched ==
  ASSUME DispatchInv, [MatchNext]_matchVars, Len(waiting') < Len(waiting), NEW p \in Peers
  PROVE  delivered'[p] > 0 <=> /\ p \in connected /\ p # Head(waiting).skip
                               /\ \E r \in Rules : /\ wanted[p][r] > 0
                                                   /\ Agrees(r, Head(waiting).message)
<1>1. waiting \in Seq(Dispatch) /\ Len(waiting) \in Nat
  BY DEF DispatchInv
<1>2. DispatchToRecipients
  <2>1. waiting' # waiting
    BY <1>1
  <2>2. ASSUME NEW m \in Messages, NEW q \in Peers \cup {NoOwner}, QueueForRules(m, q)
        PROVE  FALSE
    <3>1. Len(waiting') = Len(waiting) + 1
      BY <1>1, <2>2 DEF QueueForRules
    <3> QED BY <1>1, <3>1
  <2> QED BY <2>1, <2>2 DEF MatchNext, matchVars, Connect, Disconnect, AddMatch, RemoveMatch,
                            OwnerChanges
<1>3. waiting # <<>> /\ delivered'[p] = Copies(p, Head(waiting))
  BY <1>2 DEF DispatchToRecipients
<1>4. Head(waiting).message \in Messages
  <2>1. Head(waiting) \in Dispatch
    BY <1>1, <1>3
  <2> QED BY <2>1 DEF Dispatch
<1>5. \A r \in Rules : Match(r, Head(waiting).message) <=> Agrees(r, Head(waiting).message)
  BY <1>4, MatchAgrees
<1>6. \A r \in Rules : wanted[p][r] > 0 => p \in connected
  BY DEF DispatchInv
<1>7. RulesInv
  BY DEF DispatchInv
<1> QED BY <1>3, <1>5, <1>6, <1>7, CopiesFor

(***************************************************************************)
(* bus_dbus_impl_dispatch_message_by_rule_idle_cb sends a message to the   *)
(* connections that want it at that moment and to no other, for any number *)
(* of peers, rules and messages that wait.                                 *)
(***************************************************************************)
THEOREM RulesDeliver == MatchInit /\ [][MatchNext]_matchVars => RuleDelivery
<1>1. MatchInit /\ [][MatchNext]_matchVars => []DispatchInv
  BY RulesInvariance, DispatchInit, DispatchStep, PTL
<1>2. DispatchInv /\ [MatchNext]_matchVars =>
        [ Len(waiting') < Len(waiting) =>
            \A p \in Peers :
              delivered'[p] > 0 <=> /\ p \in connected /\ p # Head(waiting).skip
                                    /\ \E r \in Rules : /\ wanted[p][r] > 0
                                                        /\ Agrees(r, Head(waiting).message)
        ]_matchVars
  BY Dispatched
<1> QED BY <1>1, <1>2, PTL DEF RuleDelivery
=============================================================================
