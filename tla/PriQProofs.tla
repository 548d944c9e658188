----------------------------- MODULE PriQProofs -----------------------------
(***************************************************************************)
(* Lemmas about the priority-ordered lists of PriQ, for every set of       *)
(* threads and every assignment of priorities.  The proofs about the       *)
(* kernel objects cite them for their wait queues.                         *)
(***************************************************************************)
EXTENDS PriQ, WellFoundedInduction, TLAPS

(* A non-empty set of naturals has a least element.                        *)
LEMMA LeastNat ==
  ASSUME NEW S, S \subseteq Nat, S # {}
  PROVE  \E x \in S : \A y \in S : x <= y
<1>1. PICK x \in S : \A y \in S : ~ (<<y, x>> \in OpToRel(<, Nat))
  BY NatLessThanWellFounded, WFMin, Zenon
<1>2. \A y \in S : ~ (y < x)
  BY <1>1 DEF OpToRel
<1>3. QED
  BY <1>2

(* The insertion position is within the list or just past it; no thread in *)
(* front of it is outranked by t, and the one at it is.                    *)
LEMMA InsertPosSpec ==
  ASSUME NEW T, NEW pq \in Seq(T), NEW t \in T, NEW prio \in [T -> Int]
  PROVE  LET pos == InsertPos(pq, t, prio)
         IN  /\ pos \in 1 .. Len(pq) + 1
             /\ \A j \in 1 .. pos - 1 : ~ (prio[t] < prio[pq[j]])
             /\ pos <= Len(pq) => prio[t] < prio[pq[pos]]
<1> DEFINE Out == {i \in 1 .. Len(pq) : prio[t] < prio[pq[i]]}
<1>0. Len(pq) \in Nat
  OBVIOUS
<1>1. CASE Out = {}
  BY <1>0, <1>1 DEF InsertPos, z_sched_prio_cmp_gt
<1>2. CASE Out # {}
  <2>1. Out \subseteq Nat
    BY <1>0
  <2>2. PICK x \in Out : \A y \in Out : x <= y
    BY <1>2, <2>1, LeastNat
  <2>3. /\ x \in 1 .. Len(pq)
        /\ z_sched_prio_cmp_gt(prio, t, pq[x])
        /\ \A j \in 1 .. (x - 1) : ~ z_sched_prio_cmp_gt(prio, t, pq[j])
    BY <1>0, <2>2 DEF z_sched_prio_cmp_gt
  <2> DEFINE Stop(i) == /\ z_sched_prio_cmp_gt(prio, t, pq[i])
                        /\ \A j \in 1 .. (i - 1) : ~ z_sched_prio_cmp_gt(prio, t, pq[j])
             p == CHOOSE i \in 1 .. Len(pq) : Stop(i)
  <2>4. p \in 1 .. Len(pq) /\ Stop(p)
    BY <2>3
  <2>5. InsertPos(pq, t, prio) = p
    BY <2>3 DEF InsertPos
  <2> HIDE DEF p
  <2>6. QED
    BY <1>0, <2>4, <2>5 DEF z_sched_prio_cmp_gt
<1>3. QED
  BY <1>1, <1>2

(* new is pq with t linked in at position pos.                             *)
InsertedAt(new, pq, t, pos) ==
  /\ Len(new) = Len(pq) + 1
  /\ \A i \in 1 .. pos - 1 : new[i] = pq[i]
  /\ new[pos] = t
  /\ \A i \in pos + 1 .. Len(pq) + 1 : new[i] = pq[i - 1]

(* What z_priq_dumb_add returns, position by position.                     *)
LEMMA AddShape ==
  ASSUME NEW T, NEW pq \in Seq(T), NEW t \in T, NEW prio \in [T -> Int]
  PROVE  /\ z_priq_dumb_add(pq, t, prio) \in Seq(T)
         /\ InsertedAt(z_priq_dumb_add(pq, t, prio), pq, t,
                       InsertPos(pq, t, prio))
<1> DEFINE pos == InsertPos(pq, t, prio)
           new == z_priq_dumb_add(pq, t, prio)
           n == Len(pq)
<1>1. pos \in 1 .. n + 1
  BY InsertPosSpec
<1>2. n \in Nat /\ \A i \in 1 .. n : pq[i] \in T
  OBVIOUS
<1>3. new = [i \in 1 .. n + 1 |-> IF i < pos THEN pq[i]
                                 ELSE IF i = pos THEN t ELSE pq[i - 1]]
  BY DEF z_priq_dumb_add
<1> HIDE DEF pos, new, n
<1>4. \A i \in 1 .. n + 1 : new[i] \in T
  BY <1>1, <1>2, <1>3
<1>5. new \in Seq(T) /\ Len(new) = n + 1
  BY <1>2, <1>3, <1>4
<1>6. /\ \A i \in 1 .. pos - 1 : new[i] = pq[i]
      /\ new[pos] = t
      /\ \A i \in pos + 1 .. n + 1 : new[i] = pq[i - 1]
  BY <1>1, <1>2, <1>3
<1>7. new \in Seq(T) /\ InsertedAt(new, pq, t, pos)
  BY <1>5, <1>6 DEF InsertedAt, n
<1>8. QED
  BY <1>7, Zenon DEF pos, new

(* Adding t adds exactly t.                                                *)
LEMMA AddMembers ==
  ASSUME NEW T, NEW pq \in Seq(T), NEW t \in T, NEW prio \in [T -> Int]
  PROVE  Members(z_priq_dumb_add(pq, t, prio)) = Members(pq) \cup {t}
<1> DEFINE pos == InsertPos(pq, t, prio)
           new == z_priq_dumb_add(pq, t, prio)
           n == Len(pq)
<1>1. pos \in 1 .. n + 1 /\ n \in Nat
  BY InsertPosSpec
<1>0. InsertedAt(new, pq, t, pos)
  BY AddShape, Zenon
<1>2. /\ Len(new) = n + 1
      /\ \A i \in 1 .. pos - 1 : new[i] = pq[i]
      /\ new[pos] = t
      /\ \A i \in pos + 1 .. n + 1 : new[i] = pq[i - 1]
  BY <1>0 DEF InsertedAt
<1>3. /\ Members(pq) = {pq[i] : i \in 1 .. n}
      /\ Members(new) = {new[i] : i \in 1 .. n + 1}
  BY <1>2 DEF Members
<1> HIDE DEF pos, new, n
<1>4. ASSUME NEW i \in 1 .. n + 1 PROVE new[i] \in Members(pq) \cup {t}
  <2>1. CASE i < pos
    BY <1>1, <1>2, <1>3, <2>1
  <2>2. CASE i = pos
    BY <1>2, <2>2
  <2>3. CASE i > pos
    <3>1. i - 1 \in 1 .. n /\ new[i] = pq[i - 1]
      BY <1>1, <1>2, <2>3
    <3>2. QED
      BY <1>3, <3>1
  <2>4. QED
    BY <1>1, <2>1, <2>2, <2>3
<1>5. ASSUME NEW i \in 1 .. n PROVE pq[i] \in Members(new)
  <2>1. CASE i < pos
    BY <1>1, <1>2, <1>3, <2>1
  <2>2. CASE ~(i < pos)
    <3>1. i + 1 \in 1 .. n + 1 /\ new[i + 1] = pq[i]
      BY <1>1, <1>2, <2>2
    <3>2. QED
      BY <1>3, <3>1
  <2>3. QED
    BY <2>1, <2>2
<1>6. t \in Members(new)
  BY <1>1, <1>2, <1>3
<1>7. Members(new) = Members(pq) \cup {t}
  BY <1>3, <1>4, <1>5, <1>6
<1>8. QED
  BY <1>7 DEF new

(* Adding a thread that is not linked keeps every thread linked once.      *)
LEMMA AddDistinct ==
  ASSUME NEW T, NEW pq \in Seq(T), NEW t \in T, NEW prio \in [T -> Int],
         Distinct(pq), t \notin Members(pq)
  PROVE  Distinct(z_priq_dumb_add(pq, t, prio))
<1> DEFINE pos == InsertPos(pq, t, prio)
           new == z_priq_dumb_add(pq, t, prio)
           n == Len(pq)
<1>1. pos \in 1 .. n + 1 /\ n \in Nat
  BY InsertPosSpec
<1>0. InsertedAt(new, pq, t, pos)
  BY AddShape, Zenon
<1>2. /\ Len(new) = n + 1
      /\ \A i \in 1 .. pos - 1 : new[i] = pq[i]
      /\ new[pos] = t
      /\ \A i \in pos + 1 .. n + 1 : new[i] = pq[i - 1]
  BY <1>0 DEF InsertedAt
<1>3. \A i \in 1 .. n : pq[i] # t
  BY DEF Members
<1>4. \A i, j \in 1 .. n : pq[i] = pq[j] => i = j
  BY DEF Distinct
<1> HIDE DEF pos, new, n
<1>5. ASSUME NEW i \in 1 .. n + 1, NEW j \in 1 .. n + 1, new[i] = new[j]
      PROVE  i = j
  <2>1. CASE i < pos /\ j < pos
    BY <1>1, <1>2, <1>4, <1>5, <2>1
  <2>2. CASE i > pos /\ j > pos
    BY <1>1, <1>2, <1>4, <1>5, <2>2
  <2>3. CASE i < pos /\ j > pos
    BY <1>1, <1>2, <1>4, <1>5, <2>3
  <2>4. CASE i > pos /\ j < pos
    BY <1>1, <1>2, <1>4, <1>5, <2>4
  <2>5. CASE i = pos \/ j = pos
    BY <1>1, <1>2, <1>3, <1>5, <2>5
  <2>6. QED
    BY <1>1, <2>1, <2>2, <2>3, <2>4, <2>5
<1>6. QED
  BY <1>2, <1>5 DEF Distinct, new, n

(* Adding keeps the list in priority order: the head is still a best       *)
(* thread.                                                                 *)
LEMMA AddSorted ==
  ASSUME NEW T, NEW pq \in Seq(T), NEW t \in T, NEW prio \in [T -> Int],
         Sorted(pq, prio)
  PROVE  Sorted(z_priq_dumb_add(pq, t, prio), prio)
<1> DEFINE pos == InsertPos(pq, t, prio)
           new == z_priq_dumb_add(pq, t, prio)
           n == Len(pq)
<1>1. /\ pos \in 1 .. n + 1 /\ n \in Nat
      /\ \A j \in 1 .. pos - 1 : ~ (prio[t] < prio[pq[j]])
      /\ pos <= n => prio[t] < prio[pq[pos]]
  BY InsertPosSpec
<1>0. InsertedAt(new, pq, t, pos)
  BY AddShape, Zenon
<1>2. /\ Len(new) = n + 1
      /\ \A i \in 1 .. pos - 1 : new[i] = pq[i]
      /\ new[pos] = t
      /\ \A i \in pos + 1 .. n + 1 : new[i] = pq[i - 1]
  BY <1>0 DEF InsertedAt
<1>3. \A i, j \in 1 .. n : i < j => prio[pq[i]] <= prio[pq[j]]
  BY DEF Sorted
<1>4. prio[t] \in Int /\ \A i \in 1 .. n : prio[pq[i]] \in Int
  OBVIOUS
<1> HIDE DEF pos, new, n
<1>5. \A i \in pos .. n : prio[t] <= prio[pq[i]]
  BY <1>1, <1>3, <1>4
<1>6. ASSUME NEW i \in 1 .. n + 1, NEW j \in 1 .. n + 1, i < j
      PROVE  prio[new[i]] <= prio[new[j]]
  <2>1. CASE j < pos
    BY <1>1, <1>2, <1>3, <1>6, <2>1
  <2>2. CASE i < pos /\ j = pos
    BY <1>1, <1>2, <1>4, <1>6, <2>2
  <2>3. CASE i < pos /\ j > pos
    <3>1. i \in 1 .. n /\ j - 1 \in 1 .. n /\ (i < j - 1 \/ i = j - 1)
      BY <1>1, <1>6, <2>3
    <3>2. prio[pq[i]] <= prio[pq[j - 1]]
      BY <1>3, <1>4, <3>1
    <3>3. i \in 1 .. pos - 1 /\ j \in pos + 1 .. n + 1
      BY <1>1, <1>6, <2>3
    <3>4. new[i] = pq[i] /\ new[j] = pq[j - 1]
      BY <1>2, <3>3, Zenon
    <3>5. QED
      BY <3>2, <3>4
  <2>4. CASE i = pos /\ j > pos
    <3>1. j - 1 \in pos .. n /\ j \in pos + 1 .. n + 1
      BY <1>1, <1>6, <2>4
    <3>2. new[j] = pq[j - 1] /\ new[i] = t
      BY <1>2, <2>4, <3>1, Zenon
    <3>3. QED
      BY <1>5, <3>1, <3>2
  <2>5. CASE i > pos
    <3>1. /\ i - 1 \in 1 .. n /\ j - 1 \in 1 .. n /\ i - 1 < j - 1
          /\ i \in pos + 1 .. n + 1 /\ j \in pos + 1 .. n + 1
      BY <1>1, <1>6, <2>5
    <3>2. new[i] = pq[i - 1] /\ new[j] = pq[j - 1]
      BY <1>2, <3>1, Zenon
    <3>3. QED
      BY <1>3, <3>1, <3>2
  <2>6. QED
    BY <1>1, <1>6, <2>1, <2>2, <2>3, <2>4, <2>5
<1>7. QED
  BY <1>2, <1>6 DEF Sorted, new, n

(* Unlinking a linked thread removes exactly that thread and keeps the     *)
(* list free of duplicates and in order.                                   *)
LEMMA RemoveSpec ==
  ASSUME NEW T, NEW pq \in Seq(T), NEW t \in T, NEW prio \in [T -> Int],
         Distinct(pq), Sorted(pq, prio)
  PROVE  LET new == z_priq_dumb_remove(pq, t)
         IN  /\ new \in Seq(T) /\ Distinct(new) /\ Sorted(new, prio)
             /\ Members(new) = Members(pq) \ {t}
<1> DEFINE n == Len(pq)
           new == z_priq_dumb_remove(pq, t)
<1>1. CASE t \notin Members(pq)
  BY <1>1 DEF z_priq_dumb_remove
<1>2. CASE t \in Members(pq)
  <2> DEFINE p == CHOOSE i \in 1 .. n : pq[i] = t
  <2>1. p \in 1 .. n /\ pq[p] = t
    BY <1>2 DEF Members
  <2>2. new = [i \in 1 .. n - 1 |-> IF i < p THEN pq[i] ELSE pq[i + 1]]
    BY <1>2 DEF z_priq_dumb_remove
  <2>3. /\ n \in Nat /\ \A i \in 1 .. n : pq[i] \in T
        /\ Members(pq) = {pq[i] : i \in 1 .. n}
    BY DEF Members
  <2>4. \A i, j \in 1 .. n : pq[i] = pq[j] => i = j
    BY DEF Distinct
  <2>5. \A i, j \in 1 .. n : i < j => prio[pq[i]] <= prio[pq[j]]
    BY DEF Sorted
  <2> HIDE DEF p, new, n
  <2>6. /\ \A i \in 1 .. p - 1 : new[i] = pq[i]
        /\ \A i \in p .. n - 1 : new[i] = pq[i + 1]
    BY <2>1, <2>2, <2>3
  <2>7. ASSUME NEW i \in 1 .. n - 1
        PROVE  \E j \in 1 .. n : /\ new[i] = pq[j] /\ j # p
                                 /\ i < p => j = i
                                 /\ ~(i < p) => j = i + 1
    <3>1. CASE i < p
      BY <2>1, <2>3, <2>6, <3>1
    <3>2. CASE ~(i < p)
      BY <2>1, <2>3, <2>6, <3>2
    <3>3. QED
      BY <3>1, <3>2
  <2>8. \A i \in 1 .. n - 1 : new[i] \in T
    BY <2>3, <2>7
  <2>9. new \in Seq(T) /\ Len(new) = n - 1
    BY <2>1, <2>2, <2>3, <2>8
  <2>10. Distinct(new)
    <3>1. ASSUME NEW i \in 1 .. n - 1, NEW j \in 1 .. n - 1, new[i] = new[j]
          PROVE  i = j
      BY <2>1, <2>3, <2>4, <2>7, <3>1
    <3>2. QED
      BY <2>9, <3>1 DEF Distinct
  <2>11. Sorted(new, prio)
    <3>1. ASSUME NEW i \in 1 .. n - 1, NEW j \in 1 .. n - 1, i < j
          PROVE  prio[new[i]] <= prio[new[j]]
      <4>1. PICK a \in 1 .. n : /\ new[i] = pq[a]
                                /\ i < p => a = i
                                /\ ~(i < p) => a = i + 1
        BY <2>7
      <4>2. PICK b \in 1 .. n : /\ new[j] = pq[b]
                                /\ j < p => b = j
                                /\ ~(j < p) => b = j + 1
        BY <2>7
      <4>3. a < b
        BY <2>1, <2>3, <3>1, <4>1, <4>2
      <4>4. QED
        BY <2>5, <4>1, <4>2, <4>3
    <3>2. QED
      BY <2>9, <3>1 DEF Sorted
  <2>12. Members(new) = {new[i] : i \in 1 .. n - 1}
    BY <2>9 DEF Members
  <2>13. ASSUME NEW i \in 1 .. n - 1 PROVE new[i] \in Members(pq) \ {t}
    BY <2>1, <2>3, <2>4, <2>7
  <2>14. ASSUME NEW j \in 1 .. n, pq[j] # t PROVE pq[j] \in Members(new)
    <3>1. CASE j < p
      <4>1. j \in 1 .. n - 1 /\ new[j] = pq[j]
        BY <2>1, <2>3, <2>6, <3>1
      <4>2. QED
        BY <2>12, <4>1
    <3>2. CASE ~(j < p)
      <4>1. j - 1 \in 1 .. n - 1 /\ new[j - 1] = pq[j]
        BY <2>1, <2>3, <2>6, <2>14, <3>2
      <4>2. QED
        BY <2>12, <4>1
    <3>3. QED
      BY <3>1, <3>2
  <2>15. Members(new) = Members(pq) \ {t}
    BY <2>3, <2>12, <2>13, <2>14
  <2>16. QED
    BY <2>9, <2>10, <2>11, <2>15 DEF new
<1>3. QED
  BY <1>1, <1>2

(* The head of a sorted list is one of its best threads.                   *)
LEMMA HeadIsBest ==
  ASSUME NEW T, NEW pq \in Seq(T), NEW prio \in [T -> Int],
         pq # <<>>, Sorted(pq, prio)
  PROVE  /\ Head(pq) \in Members(pq) /\ Head(pq) \in T
         /\ \A x \in Members(pq) : prio[Head(pq)] <= prio[x]
<1>1. Len(pq) \in Nat /\ Len(pq) >= 1 /\ Head(pq) = pq[1]
  OBVIOUS
<1>2. \A i \in 1 .. Len(pq) : pq[i] \in T /\ prio[pq[i]] \in Int
  OBVIOUS
<1>3. ASSUME NEW x \in Members(pq) PROVE prio[pq[1]] <= prio[x]
  <2>1. PICK i \in 1 .. Len(pq) : x = pq[i]
    BY DEF Members
  <2>2. CASE i = 1
    BY <1>1, <1>2, <2>1, <2>2
  <2>3. CASE i # 1
    BY <1>1, <1>2, <2>1, <2>3 DEF Sorted
  <2>4. QED
    BY <2>2, <2>3
<1>4. QED
  BY <1>1, <1>2, <1>3 DEF Members

(* Only the empty list has no members.                                     *)
LEMMA MembersEmpty ==
  ASSUME NEW T, NEW pq \in Seq(T)
  PROVE  Members(pq) = {} <=> pq = <<>>
<1>1. pq = <<>> => Members(pq) = {}
  BY DEF Members
<1>2. pq # <<>> => pq[1] \in Members(pq)
  BY DEF Members
<1>3. QED
  BY <1>1, <1>2

(* All that an insertion of a new thread guarantees, in one place.         *)
LEMMA AddSpec ==
  ASSUME NEW T, NEW pq \in Seq(T), NEW t \in T, NEW prio \in [T -> Int],
         Distinct(pq), Sorted(pq, prio), t \notin Members(pq)
  PROVE  LET new == z_priq_dumb_add(pq, t, prio)
         IN  /\ new \in Seq(T) /\ Distinct(new) /\ Sorted(new, prio)
             /\ Members(new) = Members(pq) \cup {t}
<1> DEFINE new == z_priq_dumb_add(pq, t, prio)
<1>1. new \in Seq(T)
  BY AddShape, Zenon
<1>2. Distinct(new)
  BY AddDistinct
<1>3. Sorted(new, prio)
  BY AddSorted
<1>4. Members(new) = Members(pq) \cup {t}
  BY AddMembers
<1> HIDE DEF new
<1>5. QED
  BY <1>1, <1>2, <1>3, <1>4 DEF new

(* Adding and unlinking where the order does not matter, or is lost: the   *)
(* priorities of threads change while they wait.                           *)
LEMMA AddLinks ==
  ASSUME NEW T, NEW pq \in Seq(T), NEW t \in T, NEW prio \in [T -> Int],
         Distinct(pq), t \notin Members(pq)
  PROVE  LET new == z_priq_dumb_add(pq, t, prio)
         IN  /\ new \in Seq(T) /\ Distinct(new)
             /\ Members(new) = Members(pq) \cup {t}
<1> DEFINE new == z_priq_dumb_add(pq, t, prio)
<1>1. new \in Seq(T)
  BY AddShape, Zenon
<1>2. Distinct(new)
  BY AddDistinct
<1>3. Members(new) = Members(pq) \cup {t}
  BY AddMembers
<1> HIDE DEF new
<1>4. QED
  BY <1>1, <1>2, <1>3 DEF new

LEMMA RemoveLinks ==
  ASSUME NEW T, NEW pq \in Seq(T), NEW t \in T, Distinct(pq)
  PROVE  LET new == z_priq_dumb_remove(pq, t)
         IN  /\ new \in Seq(T) /\ Distinct(new)
             /\ Members(new) = Members(pq) \ {t}
<1> DEFINE level == [u \in T |-> 0]
<1>1. level \in [T -> Int] /\ Sorted(pq, level)
  BY DEF Sorted
<1>2. QED
  BY <1>1, RemoveSpec

(* The head of a list that is not empty is one of its members.             *)
LEMMA HeadLinked ==
  ASSUME NEW T, NEW pq \in Seq(T), pq # <<>>
  PROVE  Head(pq) \in Members(pq) /\ Head(pq) \in T
<1>1. Len(pq) \in Nat /\ Len(pq) >= 1 /\ Head(pq) = pq[1] /\ pq[1] \in T
  OBVIOUS
<1>2. QED
  BY <1>1 DEF Members

(* The empty list.                                                         *)
LEMMA NoneLinked ==
  ASSUME NEW T
  PROVE  /\ <<>> \in Seq(T) /\ Members(<<>>) = {} /\ Distinct(<<>>)
         /\ \A prio \in [T -> Int] : Sorted(<<>>, prio)
<1>1. QED
  BY DEF Members, Distinct, Sorted
=============================================================================
