------------------------------ MODULE SeqProofs ------------------------------
(***************************************************************************)
(* What the list operations of work.c do to the order and the members of   *)
(* a list: facts about the operators of SequencesExt.                      *)
(***************************************************************************)
EXTENDS SequencesExt, SequenceTheorems, WellFoundedInduction, TLAPS

(* a stands before b.                                                      *)
Ahead(s, a, b) == \E i, j \in 1 .. Len(s) : i < j /\ s[i] = a /\ s[j] = b

(* n is s with e put in at a place.                                        *)
Inserted(n, s, e, at) ==
  /\ at \in 1 .. Len(s) + 1 /\ Len(n) = Len(s) + 1
  /\ \A i \in 1 .. Len(n) : n[i] = IF i < at THEN s[i] ELSE IF i = at THEN e ELSE s[i - 1]

(* n is s without what was at a place.                                     *)
Deleted(n, s, at) ==
  /\ at \in 1 .. Len(s) /\ Len(n) = Len(s) - 1
  /\ \A i \in 1 .. Len(n) : n[i] = IF i < at THEN s[i] ELSE s[i + 1]

LEMMA InsertedFacts ==
  ASSUME NEW T, NEW s \in Seq(T), NEW n \in Seq(T), NEW e, NEW at, Inserted(n, s, e, at)
  PROVE  /\ \A x : Contains(n, x) <=> Contains(s, x) \/ x = e
         /\ IsInjective(s) /\ ~Contains(s, e) => IsInjective(n)
         /\ \A a, b : Ahead(s, a, b) => Ahead(n, a, b)
         /\ \A i \in 1 .. at - 1 : Ahead(n, s[i], e)
         /\ n # <<>>
<1>1. /\ Len(s) \in Nat /\ Len(n) = Len(s) + 1 /\ at \in 1 .. Len(s) + 1
      /\ DOMAIN s = 1 .. Len(s) /\ DOMAIN n = 1 .. Len(n)
  BY DEF Inserted
<1>2. \A i \in 1 .. Len(s) : n[IF i < at THEN i ELSE i + 1] = s[i]
  BY <1>1 DEF Inserted
<1>3. n[at] = e
  BY <1>1 DEF Inserted
<1>4. \A i \in 1 .. Len(n) : n[i] = e \/ \E j \in 1 .. Len(s) : n[i] = s[j]
  <2>1. \A i \in 1 .. Len(n) : \/ i < at /\ i \in 1 .. Len(s) /\ n[i] = s[i]
                               \/ n[i] = e
                               \/ i - 1 \in 1 .. Len(s) /\ n[i] = s[i - 1]
    BY <1>1 DEF Inserted
  <2>2. QED
    BY <2>1
<1>5. \A x : Contains(n, x) <=> Contains(s, x) \/ x = e
  <2>1. \A i \in 1 .. Len(s) : (IF i < at THEN i ELSE i + 1) \in 1 .. Len(n)
    BY <1>1
  <2>2. at \in 1 .. Len(n)
    BY <1>1
  <2>3. QED
    BY <1>2, <1>3, <1>4, <2>1, <2>2 DEF Contains
<1>6. ASSUME IsInjective(s), ~Contains(s, e) PROVE IsInjective(n)
  <2>1. \A i, j \in 1 .. Len(s) : s[i] = s[j] => i = j
    BY <1>1, <1>6 DEF IsInjective
  <2>2. \A i \in 1 .. Len(s) : s[i] # e
    BY <1>6 DEF Contains
  <2>3. ASSUME NEW i \in 1 .. Len(n), NEW j \in 1 .. Len(n), n[i] = n[j] PROVE i = j
    BY <1>1, <2>1, <2>2, <2>3 DEF Inserted
  <2>4. QED
    BY <1>1, <2>3 DEF IsInjective
<1>7. ASSUME NEW a, NEW b, Ahead(s, a, b) PROVE Ahead(n, a, b)
  <2>1. PICK i, j \in 1 .. Len(s) : i < j /\ s[i] = a /\ s[j] = b
    BY <1>7 DEF Ahead
  <2> DEFINE f == IF i < at THEN i ELSE i + 1
             g == IF j < at THEN j ELSE j + 1
  <2>2. f \in 1 .. Len(n) /\ g \in 1 .. Len(n) /\ f < g
    BY <1>1, <2>1
  <2>3. n[f] = a /\ n[g] = b
    BY <1>2, <2>1
  <2> HIDE DEF f, g
  <2>4. QED
    BY <2>2, <2>3 DEF Ahead
<1>8. ASSUME NEW i \in 1 .. at - 1 PROVE Ahead(n, s[i], e)
  <2>1. i \in 1 .. Len(n) /\ at \in 1 .. Len(n) /\ i < at /\ n[i] = s[i]
    BY <1>1, <1>2
  <2>2. QED
    BY <1>3, <2>1 DEF Ahead
<1>9. n # <<>>
  BY <1>1
<1>10. QED
  BY <1>5, <1>6, <1>7, <1>8, <1>9

LEMMA DeletedFacts ==
  ASSUME NEW T, NEW s \in Seq(T), NEW n \in Seq(T), NEW at, Deleted(n, s, at), IsInjective(s)
  PROVE  /\ \A x : Contains(n, x) <=> Contains(s, x) /\ x # s[at]
         /\ IsInjective(n)
         /\ \A a, b : Ahead(s, a, b) /\ a # s[at] /\ b # s[at] => Ahead(n, a, b)
<1>1. /\ Len(s) \in Nat /\ Len(n) = Len(s) - 1 /\ at \in 1 .. Len(s)
      /\ DOMAIN s = 1 .. Len(s) /\ DOMAIN n = 1 .. Len(n)
  BY DEF Deleted
<1>2. \A i, j \in 1 .. Len(s) : s[i] = s[j] => i = j
  BY <1>1 DEF IsInjective
<1>3. \A i \in 1 .. Len(s) : i # at => n[IF i < at THEN i ELSE i - 1] = s[i]
  BY <1>1 DEF Deleted
<1>4. \A i \in 1 .. Len(s) : i # at => (IF i < at THEN i ELSE i - 1) \in 1 .. Len(n)
  BY <1>1
<1>5. \A i \in 1 .. Len(n) : \E j \in 1 .. Len(s) : n[i] = s[j] /\ j # at
  <2>1. \A i \in 1 .. Len(n) : \/ i \in 1 .. Len(s) /\ i # at /\ n[i] = s[i]
                               \/ i + 1 \in 1 .. Len(s) /\ i + 1 # at /\ n[i] = s[i + 1]
    BY <1>1 DEF Deleted
  <2>2. QED
    BY <2>1
<1>6. ASSUME NEW x PROVE Contains(n, x) <=> Contains(s, x) /\ x # s[at]
  <2>1. Contains(n, x) => Contains(s, x) /\ x # s[at]
    BY <1>1, <1>2, <1>5 DEF Contains
  <2>2. ASSUME Contains(s, x), x # s[at] PROVE Contains(n, x)
    <3>1. PICK i \in 1 .. Len(s) : s[i] = x /\ i # at
      BY <2>2 DEF Contains
    <3>2. QED
      BY <1>3, <1>4, <3>1 DEF Contains
  <2>3. QED
    BY <2>1, <2>2
<1>7. IsInjective(n)
  <2>1. ASSUME NEW i \in 1 .. Len(n), NEW j \in 1 .. Len(n), n[i] = n[j] PROVE i = j
    BY <1>1, <1>2, <2>1 DEF Deleted
  <2>2. QED
    BY <1>1, <2>1 DEF IsInjective
<1>8. ASSUME NEW a, NEW b, Ahead(s, a, b), a # s[at], b # s[at] PROVE Ahead(n, a, b)
  <2>1. PICK i, j \in 1 .. Len(s) : i < j /\ s[i] = a /\ s[j] = b /\ i # at /\ j # at
    BY <1>8 DEF Ahead
  <2> DEFINE f == IF i < at THEN i ELSE i - 1
             g == IF j < at THEN j ELSE j - 1
  <2>2. f \in 1 .. Len(n) /\ g \in 1 .. Len(n) /\ f < g
    BY <1>1, <2>1
  <2>3. n[f] = a /\ n[g] = b
    BY <1>3, <2>1
  <2> HIDE DEF f, g
  <2>4. QED
    BY <2>2, <2>3 DEF Ahead
<1>9. QED
  BY <1>6, <1>7, <1>8

-----------------------------------------------------------------------------
(* The operators.                                                          *)

LEMMA MinOfNats ==
  ASSUME NEW S, S \subseteq Nat, S # {}
  PROVE  Min(S) \in S /\ \A i \in S : Min(S) <= i
<1>1. PICK x \in S : \A y \in S : ~ (<<y, x>> \in OpToRel(<, Nat))
  BY NatLessThanWellFounded, WFMin, Zenon
<1>2. \A y \in S : ~ (y < x)
  BY <1>1 DEF OpToRel
<1>3. \A y \in S : x <= y
  BY <1>2
<1>4. QED
  BY <1>3 DEF Min

LEMMA AppendFacts ==
  ASSUME NEW T, NEW s \in Seq(T), NEW e \in T
  PROVE  Append(s, e) \in Seq(T) /\ Inserted(Append(s, e), s, e, Len(s) + 1)
BY AppendProperties DEF Inserted

LEMMA InsertAtFacts ==
  ASSUME NEW T, NEW s \in Seq(T), NEW e \in T, NEW at \in 1 .. Len(s) + 1
  PROVE  InsertAt(s, at, e) \in Seq(T) /\ Inserted(InsertAt(s, at, e), s, e, at)
<1> DEFINE front == SubSeq(s, 1, at - 1)
           back == SubSeq(s, at, Len(s))
           head == front \o <<e>>
           n == InsertAt(s, at, e)
<1>0. Len(s) \in Nat /\ \A i \in 1 .. Len(s) : s[i] \in T
  OBVIOUS
<1>1. /\ front \in Seq(T) /\ Len(front) = at - 1
      /\ \A i \in 1 .. at - 1 : front[i] = s[i]
  BY <1>0, SubSeqProperties
<1>2. /\ back \in Seq(T) /\ Len(back) = Len(s) - at + 1
      /\ \A i \in 1 .. Len(s) - at + 1 : back[i] = s[at + i - 1]
  <2>1. \A i \in at .. Len(s) : s[i] \in T
    BY <1>0
  <2>2. QED
    BY <1>0, <2>1, SubSeqProperties
<1>3. n = head \o back
  BY DEF InsertAt
<1> HIDE DEF front, back, n
<1>4. /\ head \in Seq(T) /\ Len(head) = at
      /\ \A i \in 1 .. at : head[i] = IF i < at THEN s[i] ELSE e
  BY <1>0, <1>1
<1> HIDE DEF head
<1>5. /\ n \in Seq(T) /\ Len(n) = at + Len(back)
      /\ \A i \in 1 .. at + Len(back) : n[i] = IF i <= at THEN head[i] ELSE back[i - at]
  BY <1>2, <1>3, <1>4, ConcatProperties, ZenonT(40)
<1>6. Len(n) = Len(s) + 1
  BY <1>0, <1>2, <1>5
<1>7. ASSUME NEW i \in 1 .. Len(n)
      PROVE  n[i] = IF i < at THEN s[i] ELSE IF i = at THEN e ELSE s[i - 1]
  <2>1. CASE i <= at
    BY <1>0, <1>4, <1>5, <1>6, <2>1
  <2>2. CASE i > at
    <3>1. i - at \in 1 .. Len(s) - at + 1 /\ at + (i - at) - 1 = i - 1
      BY <1>0, <1>6, <2>2
    <3>2. back[i - at] = s[i - 1]
      BY <1>2, <3>1
    <3>3. QED
      BY <1>0, <1>2, <1>5, <1>6, <2>2, <3>2
  <2>3. QED
    BY <1>0, <1>6, <2>1, <2>2
<1>8. Inserted(n, s, e, at)
  BY <1>0, <1>6, <1>7 DEF Inserted
<1>9. QED
  BY <1>5, <1>8 DEF n

LEMMA RemoveAtFacts ==
  ASSUME NEW T, NEW s \in Seq(T), NEW at \in 1 .. Len(s)
  PROVE  RemoveAt(s, at) \in Seq(T) /\ Deleted(RemoveAt(s, at), s, at)
<1> DEFINE front == SubSeq(s, 1, at - 1)
           back == SubSeq(s, at + 1, Len(s))
           n == RemoveAt(s, at)
<1>0. Len(s) \in Nat /\ \A i \in 1 .. Len(s) : s[i] \in T
  OBVIOUS
<1>1. /\ front \in Seq(T) /\ Len(front) = at - 1
      /\ \A i \in 1 .. at - 1 : front[i] = s[i]
  BY <1>0, SubSeqProperties
<1>2. /\ back \in Seq(T) /\ Len(back) = Len(s) - at
      /\ \A i \in 1 .. Len(s) - at : back[i] = s[at + i]
  <2>1. \A i \in at + 1 .. Len(s) : s[i] \in T
    BY <1>0
  <2>2. /\ back \in Seq(T) /\ Len(back) = IF at + 1 <= Len(s) THEN Len(s) - (at + 1) + 1 ELSE 0
        /\ \A i \in 1 .. Len(s) - (at + 1) + 1 : back[i] = s[at + 1 + i - 1]
    BY <1>0, <2>1, SubSeqProperties
  <2> HIDE DEF back
  <2>3. QED
    BY <1>0, <2>2
<1>3. n = front \o back
  BY DEF RemoveAt
<1> HIDE DEF front, back, n
<1>4. /\ n \in Seq(T) /\ Len(n) = Len(s) - 1
      /\ \A i \in 1 .. Len(s) - 1 : n[i] = IF i <= at - 1 THEN front[i] ELSE back[i - (at - 1)]
  BY <1>0, <1>1, <1>2, <1>3, ConcatProperties
<1>5. Deleted(n, s, at)
  BY <1>0, <1>1, <1>2, <1>4 DEF Deleted
<1>6. QED
  BY <1>4, <1>5 DEF n

(* What SelectInSeq(s, LAMBDA i : i = e) expands to: the place of e, 0 if *)
(* there is none.                                                          *)
Place(s, e) ==
  LET I == {i \in 1 .. Len(s) : s[i] = e} IN IF I # {} THEN Min(I) ELSE 0

LEMMA PlaceOf ==
  ASSUME NEW T, NEW s \in Seq(T), NEW e
  PROVE  /\ Place(s, e) \in 0 .. Len(s)
         /\ Place(s, e) = 0 <=> ~Contains(s, e)
         /\ Place(s, e) # 0 => s[Place(s, e)] = e
<1> DEFINE I == {i \in 1 .. Len(s) : s[i] = e}
<1>1. Place(s, e) = IF I # {} THEN Min(I) ELSE 0
  BY DEF Place
<1>2. I \subseteq Nat /\ (I # {} <=> Contains(s, e))
  BY DEF Contains
<1>3. \A i \in I : i \in 1 .. Len(s) /\ s[i] = e
  OBVIOUS
<1> HIDE DEF I
<1>4. I # {} => Min(I) \in I
  BY <1>2, MinOfNats
<1>5. QED
  <2>1. CASE I = {}
    BY <1>1, <1>2, <2>1
  <2>2. CASE I # {}
    <3>1. Place(s, e) \in 1 .. Len(s) /\ s[Place(s, e)] = e
      BY <1>1, <1>3, <1>4, <2>2
    <3>2. QED
      BY <1>2, <2>2, <3>1
  <2>3. QED
    BY <2>1, <2>2

LEMMA RemoveFirstFacts ==
  ASSUME NEW T, NEW s \in Seq(T), NEW e, IsInjective(s)
  PROVE  LET n == RemoveFirst(s, e)
         IN  /\ n \in Seq(T) /\ IsInjective(n)
             /\ \A x : Contains(n, x) <=> Contains(s, x) /\ x # e
             /\ \A a, b : Ahead(s, a, b) /\ a # e /\ b # e => Ahead(n, a, b)
<1>1. CASE ~Contains(s, e)
  <2>1. RemoveFirst(s, e) = s
    BY <1>1 DEF RemoveFirst, Contains
  <2>2. QED
    BY <1>1, <2>1
<1>2. CASE Contains(s, e)
  <2> DEFINE at == Place(s, e)
             n == RemoveFirst(s, e)
  <2>1. n = RemoveAt(s, at)
    BY <1>2 DEF RemoveFirst, Contains, SelectInSeq, Place
  <2>2. at \in 1 .. Len(s) /\ s[at] = e
    BY <1>2, PlaceOf
  <2> HIDE DEF at, n
  <2>3. n \in Seq(T) /\ Deleted(n, s, at)
    BY <2>1, <2>2, RemoveAtFacts
  <2>4. /\ IsInjective(n)
        /\ \A x : Contains(n, x) <=> Contains(s, x) /\ x # e
        /\ \A a, b : Ahead(s, a, b) /\ a # e /\ b # e => Ahead(n, a, b)
    BY <2>2, <2>3, DeletedFacts
  <2>5. QED
    BY <2>3, <2>4 DEF n
<1>3. QED
  BY <1>1, <1>2

LEMMA TailFacts ==
  ASSUME NEW T, NEW s \in Seq(T), s # <<>>, IsInjective(s)
  PROVE  /\ Head(s) \in T /\ Contains(s, Head(s))
         /\ Tail(s) \in Seq(T) /\ IsInjective(Tail(s))
         /\ \A x : Contains(Tail(s), x) <=> Contains(s, x) /\ x # Head(s)
         /\ \A a, b : Ahead(s, a, b) /\ a # Head(s) => Ahead(Tail(s), a, b)
         /\ \A a, b : Ahead(s, a, b) => b # Head(s) /\ Contains(s, b)
<1>1. /\ Tail(s) \in Seq(T) /\ Head(s) \in T /\ Head(s) = s[1] /\ 1 \in 1 .. Len(s)
      /\ Len(s) \in Nat /\ DOMAIN s = 1 .. Len(s)
  OBVIOUS
<1>2. Deleted(Tail(s), s, 1)
  BY <1>1 DEF Deleted
<1>3. \A a, b : Ahead(s, a, b) => b # Head(s) /\ Contains(s, b)
  BY <1>1 DEF Ahead, IsInjective, Contains
<1>4. /\ IsInjective(Tail(s))
      /\ \A x : Contains(Tail(s), x) <=> Contains(s, x) /\ x # s[1]
      /\ \A a, b : Ahead(s, a, b) /\ a # s[1] /\ b # s[1] => Ahead(Tail(s), a, b)
  BY <1>1, <1>2, DeletedFacts
<1>5. Contains(s, Head(s))
  BY <1>1 DEF Contains
<1>6. QED
  BY <1>1, <1>3, <1>4, <1>5

LEMMA NoneContained ==
  ASSUME NEW T, NEW s \in Seq(T)
  PROVE  /\ s = <<>> <=> \A x \in T : ~Contains(s, x)
         /\ \A x : Contains(s, x) => x \in T
         /\ \A a, b : Ahead(s, a, b) => Contains(s, a) /\ Contains(s, b)
<1>1. Len(s) \in Nat /\ \A i \in 1 .. Len(s) : s[i] \in T
  OBVIOUS
<1>2. s # <<>> => Contains(s, s[1]) /\ s[1] \in T
  BY DEF Contains
<1>3. s = <<>> => \A x : ~Contains(s, x)
  BY DEF Contains
<1>4. QED
  BY <1>1, <1>2, <1>3 DEF Contains, Ahead
==============================================================================
