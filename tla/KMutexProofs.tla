---------------------------- MODULE KMutexProofs ----------------------------
(***************************************************************************)
(* Proofs about mutexes and condition variables, for every set of threads, *)
(* mutexes and condition variables, every priorities and every ceiling.    *)
(***************************************************************************)
EXTENDS KMutex, PriQProofs

(* What the rest of a call relies on: it knows its mutex, and the priority *)
(* an owner goes back to is one that a thread can have.                    *)
CallsKept ==
  /\ \A t \in Threads : /\ pc[t] \in {"timedout", "relock"} => rest[t] \in Mutexes
                        /\ m.pended_on[t] \in Condvars => rest[t] \in Mutexes
  /\ \A x \in Mutexes : m.owner[x] # NULL => m.owner_orig_prio[x] \in Prios

IInv == TypeOK /\ Exclusion /\ QueuesKept /\ CallsKept

-----------------------------------------------------------------------------
(* The helpers on states.                                                  *)

LEMMA PriosAreInts == Prios \subseteq Int
BY KMutexAssumption DEF Prios

(* Inheritance invents no priorities.                                      *)
LEMMA InheritedPrio ==
  ASSUME NEW target \in Prios, NEW limit \in Prios
  PROVE  new_prio_for_inheritance(target, limit) \in Prios
<1>1. Ceiling \in Prios
  BY DEF Prios
<1>2. QED
  BY <1>1 DEF new_prio_for_inheritance, Higher

(* n is s with thread t added to queue q, and with nothing else changed.   *)
Pended(n, s, t, q, forever) ==
  /\ n \in MState /\ Listed(n)
  /\ n.owner = s.owner /\ n.lock_count = s.lock_count
  /\ n.owner_orig_prio = s.owner_orig_prio /\ n.prio = s.prio
  /\ n.pended_on = [s.pended_on EXCEPT ![t] = q]
  /\ n.timed = [s.timed EXCEPT ![t] = ~forever]
  /\ n.wait_q = [s.wait_q EXCEPT ![q] = z_priq_dumb_add(@, t, s.prio)]
  /\ Members(n.wait_q[q]) = Members(s.wait_q[q]) \cup {t}

LEMMA PendSpec ==
  ASSUME NEW s \in MState, Listed(s), NEW t \in Threads, NEW q \in Objs,
         NEW forever \in BOOLEAN, s.pended_on[t] = NULL
  PROVE  Pended(Pend(s, t, q, forever), s, t, q, forever)
<1> DEFINE n == Pend(s, t, q, forever)
           new == z_priq_dumb_add(s.wait_q[q], t, s.prio)
<1>1. s.wait_q[q] \in Seq(Threads) /\ s.prio \in [Threads -> Int] /\ NULL \notin Objs
  BY PriosAreInts, KMutexAssumption DEF MState, Objs
<1>2. Distinct(s.wait_q[q]) /\ t \notin Members(s.wait_q[q])
  BY <1>1 DEF Listed
<1>3. /\ new \in Seq(Threads) /\ Distinct(new)
      /\ Members(new) = Members(s.wait_q[q]) \cup {t}
  BY <1>1, <1>2, AddLinks
<1>4. /\ n.owner = s.owner /\ n.lock_count = s.lock_count
      /\ n.owner_orig_prio = s.owner_orig_prio /\ n.prio = s.prio
      /\ n.pended_on = [s.pended_on EXCEPT ![t] = q]
      /\ n.timed = [s.timed EXCEPT ![t] = ~forever]
      /\ n.wait_q = [s.wait_q EXCEPT ![q] = new]
  BY DEF Pend, MState
<1>5. n \in MState
  BY <1>3 DEF Pend, MState
<1> HIDE DEF n, new
<1>6. Listed(n)
  BY <1>1, <1>3, <1>4 DEF Listed, MState
<1>7. QED
  BY <1>3, <1>4, <1>5, <1>6 DEF n, new, MState, Pended

(* n is s with the pended thread t taken off its queue.                    *)
Unpended(n, s, t) ==
  LET q == s.pended_on[t]
  IN  /\ n \in MState /\ Listed(n)
      /\ n.owner = s.owner /\ n.lock_count = s.lock_count
      /\ n.owner_orig_prio = s.owner_orig_prio /\ n.prio = s.prio
      /\ n.pended_on = [s.pended_on EXCEPT ![t] = NULL]
      /\ n.timed = [s.timed EXCEPT ![t] = FALSE]
      /\ n.wait_q = [s.wait_q EXCEPT ![q] = z_priq_dumb_remove(@, t)]
      /\ Members(n.wait_q[q]) = Members(s.wait_q[q]) \ {t}

LEMMA UnpendSpec ==
  ASSUME NEW s \in MState, Listed(s), NEW t \in Threads, s.pended_on[t] # NULL
  PROVE  Unpended(Unpend(s, t), s, t)
<1> DEFINE n == Unpend(s, t)
           q == s.pended_on[t]
           new == z_priq_dumb_remove(s.wait_q[q], t)
<1>1. q \in Objs /\ s.wait_q[q] \in Seq(Threads) /\ NULL \notin Objs
  BY KMutexAssumption DEF MState, Objs
<1>2. Distinct(s.wait_q[q])
  BY <1>1 DEF Listed
<1>3. /\ new \in Seq(Threads) /\ Distinct(new)
      /\ Members(new) = Members(s.wait_q[q]) \ {t}
  BY <1>1, <1>2, RemoveLinks
<1>4. /\ n.owner = s.owner /\ n.lock_count = s.lock_count
      /\ n.owner_orig_prio = s.owner_orig_prio /\ n.prio = s.prio
      /\ n.pended_on = [s.pended_on EXCEPT ![t] = NULL]
      /\ n.timed = [s.timed EXCEPT ![t] = FALSE]
      /\ n.wait_q = [s.wait_q EXCEPT ![q] = new]
  BY DEF Unpend, MState
<1>5. n \in MState
  BY <1>1, <1>3 DEF Unpend, MState
<1> HIDE DEF n, new
<1>6. Listed(n)
  BY <1>1, <1>3, <1>4 DEF Listed, MState
<1>7. QED
  BY <1>1, <1>3, <1>4, <1>5, <1>6 DEF n, new, MState, Unpended

(* Only the owner's priority is set.                                       *)
LEMMA AdjustSpec ==
  ASSUME NEW s \in MState, NEW x \in Mutexes, s.owner[x] \in Threads, NEW p \in Prios
  PROVE  LET n == adjust_owner_prio(s, x, p)
         IN  /\ n \in MState
             /\ n.owner = s.owner /\ n.lock_count = s.lock_count
             /\ n.owner_orig_prio = s.owner_orig_prio /\ n.wait_q = s.wait_q
             /\ n.pended_on = s.pended_on /\ n.timed = s.timed
             /\ n.prio = [s.prio EXCEPT ![s.owner[x]] = p]
BY DEF adjust_owner_prio, MState

(* Exclusion and the range of owner_orig_prio, of a state s and the locks  *)
(* h that threads hold in it.                                              *)
Accounts(s, h) ==
  \A x \in Mutexes :
    /\ \A t \in Threads : h[t][x] = IF s.owner[x] = t THEN s.lock_count[x] ELSE 0
    /\ s.owner[x] = NULL <=> s.lock_count[x] = 0
    /\ s.owner[x] = NULL => s.wait_q[x] = <<>>
    /\ s.owner[x] # NULL => s.owner_orig_prio[x] \in Prios

LEMMA AccountsOfIInv == IInv => Accounts(m, held)
BY DEF IInv, Exclusion, CallsKept, Accounts

(* The last unlock of x when nobody waits.                                 *)
LEMMA ReleaseToNobody ==
  ASSUME NEW s \in MState, Listed(s), NEW x \in Mutexes, s.owner[x] \in Threads,
         s.owner_orig_prio[x] \in Prios, s.wait_q[x] = <<>>
  PROVE  LET n == Release(s, x)
         IN  /\ n \in MState /\ Listed(n)
             /\ n.owner = [s.owner EXCEPT ![x] = NULL]
             /\ n.lock_count = [s.lock_count EXCEPT ![x] = 0]
             /\ n.owner_orig_prio = s.owner_orig_prio /\ n.wait_q = s.wait_q
             /\ n.pended_on = s.pended_on /\ n.timed = s.timed
             /\ n.prio = [s.prio EXCEPT ![s.owner[x]] = s.owner_orig_prio[x]]
<1> DEFINE back == adjust_owner_prio(s, x, s.owner_orig_prio[x])
           n == Release(s, x)
<1>1. /\ back \in MState
      /\ back.owner = s.owner /\ back.lock_count = s.lock_count
      /\ back.owner_orig_prio = s.owner_orig_prio /\ back.wait_q = s.wait_q
      /\ back.pended_on = s.pended_on /\ back.timed = s.timed
      /\ back.prio = [s.prio EXCEPT ![s.owner[x]] = s.owner_orig_prio[x]]
  BY AdjustSpec
<1>2. n = [back EXCEPT !.owner[x] = NULL, !.lock_count[x] = 0]
  BY DEF Release
<1> HIDE DEF back, n
<1>3. n \in MState
  <2>1. 0 \in 0 .. MaxCount
    BY KMutexAssumption
  <2>2. QED
    BY <1>1, <1>2, <2>1 DEF MState
<1>4. /\ n.owner = [s.owner EXCEPT ![x] = NULL]
      /\ n.lock_count = [s.lock_count EXCEPT ![x] = 0]
      /\ n.owner_orig_prio = s.owner_orig_prio /\ n.wait_q = s.wait_q
      /\ n.pended_on = s.pended_on /\ n.timed = s.timed
      /\ n.prio = [s.prio EXCEPT ![s.owner[x]] = s.owner_orig_prio[x]]
  BY <1>1, <1>2 DEF MState
<1>5. Listed(n)
  BY <1>4 DEF Listed
<1>6. QED
  BY <1>3, <1>4, <1>5 DEF n

(* n is s with x handed over to the first waiter h: it is off the queue    *)
(* and owns x, with the count that was there.                              *)
HandedOver(n, s, x) ==
  LET h == Head(s.wait_q[x])
      prio == [s.prio EXCEPT ![s.owner[x]] = s.owner_orig_prio[x]]
  IN  /\ h \in Threads /\ s.pended_on[h] = x
      /\ n \in MState /\ Listed(n)
      /\ n.owner = [s.owner EXCEPT ![x] = h]
      /\ n.lock_count = s.lock_count
      /\ n.owner_orig_prio = [s.owner_orig_prio EXCEPT ![x] = prio[h]]
      /\ n.wait_q = [s.wait_q EXCEPT ![x] = z_priq_dumb_remove(@, h)]
      /\ n.pended_on = [s.pended_on EXCEPT ![h] = NULL]
      /\ n.timed = [s.timed EXCEPT ![h] = FALSE]
      /\ n.prio = prio
      /\ Members(n.wait_q[x]) = Members(s.wait_q[x]) \ {h}

(* The last unlock of x when somebody waits.                               *)
LEMMA ReleaseToHead ==
  ASSUME NEW s \in MState, Listed(s), NEW x \in Mutexes, s.owner[x] \in Threads,
         s.owner_orig_prio[x] \in Prios, s.wait_q[x] # <<>>
  PROVE  HandedOver(Release(s, x), s, x)
<1> DEFINE back == adjust_owner_prio(s, x, s.owner_orig_prio[x])
           h == Head(s.wait_q[x])
           off == Unpend(back, h)
           prio == [s.prio EXCEPT ![s.owner[x]] = s.owner_orig_prio[x]]
           n == Release(s, x)
<1>1. /\ back \in MState
      /\ back.owner = s.owner /\ back.lock_count = s.lock_count
      /\ back.owner_orig_prio = s.owner_orig_prio /\ back.wait_q = s.wait_q
      /\ back.pended_on = s.pended_on /\ back.timed = s.timed
      /\ back.prio = prio
  BY AdjustSpec
<1>2. x \in Objs /\ x # NULL /\ s.wait_q[x] \in Seq(Threads)
  BY KMutexAssumption DEF Objs, MState
<1>3. h \in Threads /\ h \in Members(s.wait_q[x])
  BY <1>2, HeadLinked
<1>4. s.pended_on[h] = x
  BY <1>2, <1>3 DEF Listed
<1> HIDE DEF back
<1>5. Listed(back)
  BY <1>1 DEF Listed
<1>6. /\ off \in MState /\ Listed(off)
      /\ off.owner = s.owner /\ off.lock_count = s.lock_count
      /\ off.owner_orig_prio = s.owner_orig_prio /\ off.prio = prio
      /\ off.pended_on = [s.pended_on EXCEPT ![h] = NULL]
      /\ off.timed = [s.timed EXCEPT ![h] = FALSE]
      /\ off.wait_q = [s.wait_q EXCEPT ![x] = z_priq_dumb_remove(@, h)]
      /\ Members(off.wait_q[x]) = Members(s.wait_q[x]) \ {h}
  <2> HIDE DEF h, prio
  <2>1. back.pended_on[h] # NULL /\ back.pended_on[h] = x
    BY <1>1, <1>2, <1>4
  <2>2. Unpended(off, back, h)
    BY <1>1, <1>3, <1>5, <2>1, UnpendSpec
  <2> HIDE DEF off
  <2>3. QED
    BY <1>1, <2>1, <2>2 DEF Unpended
<1>7. n = [off EXCEPT !.owner[x] = h, !.owner_orig_prio[x] = back.prio[h]]
  BY DEF Release, back
<1> HIDE DEF off, n, h
<1>8. prio \in [Threads -> Prios]
  BY DEF MState
<1>9. n \in MState
  BY <1>1, <1>3, <1>6, <1>7, <1>8, PriosAreInts DEF MState
<1>10. /\ n.owner = [s.owner EXCEPT ![x] = h]
       /\ n.lock_count = s.lock_count
       /\ n.owner_orig_prio = [s.owner_orig_prio EXCEPT ![x] = prio[h]]
       /\ n.wait_q = off.wait_q /\ n.pended_on = off.pended_on
       /\ n.timed = off.timed /\ n.prio = prio
  BY <1>1, <1>6, <1>7 DEF MState
<1>11. Listed(n)
  BY <1>6, <1>10 DEF Listed
<1>12. QED
  BY <1>3, <1>4, <1>6, <1>9, <1>10, <1>11 DEF n, h, HandedOver

-----------------------------------------------------------------------------
(* Unlocking.                                                              *)

(* The bookkeeping of an unlock, lock by lock.                             *)
LEMMA HeldAfterUnlockSpec ==
  ASSUME IInv, NEW t \in Threads, NEW x \in Mutexes
  PROVE  LET h == HeldAfterUnlock(t, x)
         IN  /\ h \in [Threads -> [Mutexes -> Int]]
             /\ \A u \in Threads, y \in Mutexes : y # x => h[u][y] = held[u][y]
             /\ \A u \in Threads :
                  h[u][x] = IF u \in Granted(t, x) THEN 1
                            ELSE IF u = t /\ m.owner[x] = t THEN held[u][x] - 1
                            ELSE held[u][x]
<1>1. held \in [Threads -> [Mutexes -> 0 .. MaxCount]] /\ MaxCount \in Nat
  BY KMutexAssumption DEF IInv, TypeOK
<1>2. \A u \in Threads : held[u] \in [Mutexes -> Int]
  BY <1>1
<1>3. QED
  BY <1>1, <1>2 DEF HeldAfterUnlock

(* Locks held that are counted by lock_count are within its range.         *)
LEMMA HeldRange ==
  ASSUME NEW s \in MState, NEW h \in [Threads -> [Mutexes -> Int]], Accounts(s, h)
  PROVE  h \in [Threads -> [Mutexes -> 0 .. MaxCount]]
<1>1. MaxCount \in Nat /\ s.lock_count \in [Mutexes -> 0 .. MaxCount]
  BY KMutexAssumption DEF MState
<1>2. ASSUME NEW u \in Threads PROVE h[u] \in [Mutexes -> 0 .. MaxCount]
  BY <1>1 DEF Accounts
<1>3. QED
  BY <1>2

(* What k_mutex_unlock leaves, whoever calls it: the accounts are right,   *)
(* and only a thread that is granted the mutex has moved.                  *)
LEMMA UnlockedSpec ==
  ASSUME IInv, NEW t \in Threads, pc[t] = "idle", NEW x \in Mutexes
  PROVE  LET n == Unlocked(m, t, x)
         IN  /\ n \in MState /\ Listed(n) /\ Accounts(n, HeldAfterUnlock(t, x))
             /\ n.pended_on = [u \in Threads |-> IF u \in Granted(t, x) THEN NULL
                                                 ELSE m.pended_on[u]]
             /\ n.timed = [u \in Threads |-> IF u \in Granted(t, x) THEN FALSE ELSE m.timed[u]]
             /\ \A u \in Granted(t, x) : u \in Threads /\ u # t /\ m.pended_on[u] = x
<1> DEFINE n == Unlocked(m, t, x)
           h == HeldAfterUnlock(t, x)
<1>0. /\ m \in MState /\ Listed(m) /\ Accounts(m, held)
      /\ held \in [Threads -> [Mutexes -> 0 .. MaxCount]]
      /\ m.pended_on[t] = NULL /\ NULL \notin Threads /\ x # NULL /\ x \in Objs
  BY AccountsOfIInv, KMutexAssumption DEF IInv, TypeOK, QueuesKept, Objs
<1>t. /\ m.owner \in [Mutexes -> Threads \cup {NULL}] /\ m.lock_count \in [Mutexes -> 0 .. MaxCount]
      /\ m.pended_on \in [Threads -> Objs \cup {NULL}] /\ m.timed \in [Threads -> BOOLEAN]
      /\ m.wait_q \in [Objs -> Seq(Threads)] /\ MaxCount \in Nat \ {0}
      /\ m.owner_orig_prio \in [Mutexes -> Int]
  BY <1>0, KMutexAssumption DEF MState, Objs
<1>h. /\ \A u \in Threads, y \in Mutexes : y # x => h[u][y] = held[u][y]
      /\ \A u \in Threads :
           h[u][x] = IF u \in Granted(t, x) THEN 1
                     ELSE IF u = t /\ m.owner[x] = t THEN held[u][x] - 1 ELSE held[u][x]
  BY HeldAfterUnlockSpec
<1> HIDE DEF h
<1>1. CASE m.owner[x] # t
  <2>1. Granted(t, x) = {} /\ n = m
    BY <1>1 DEF Granted, Unlocked
  <2> HIDE DEF n
  <2>2. Accounts(m, h)
    BY <1>0, <1>h, <1>1, <2>1 DEF Accounts
  <2>3. QED
    BY <1>0, <1>t, <2>1, <2>2 DEF n, h
<1>2. CASE m.owner[x] = t /\ m.lock_count[x] > 1
  <2>1. /\ Granted(t, x) = {} /\ n = [m EXCEPT !.lock_count[x] = @ - 1]
    BY <1>t, <1>2 DEF Granted, Unlocked
  <2>2. m.lock_count[x] - 1 \in 0 .. MaxCount
    BY <1>t, <1>2
  <2> HIDE DEF n
  <2>3. n \in MState
    BY <1>0, <2>1, <2>2 DEF MState
  <2>4. /\ n.lock_count = [m.lock_count EXCEPT ![x] = @ - 1]
        /\ n.owner = m.owner /\ n.owner_orig_prio = m.owner_orig_prio
        /\ n.wait_q = m.wait_q /\ n.pended_on = m.pended_on /\ n.timed = m.timed
    BY <1>0, <2>1 DEF MState
  <2>5. Listed(n)
    BY <1>0, <2>4 DEF Listed
  <2>6. Accounts(n, h)
    BY <1>0, <1>t, <1>h, <1>2, <2>1, <2>4 DEF Accounts
  <2>7. QED
    BY <1>t, <2>1, <2>3, <2>4, <2>5, <2>6 DEF n, h
<1>3. CASE m.owner[x] = t /\ ~(m.lock_count[x] > 1)
  <2>1. m.lock_count[x] = 1 /\ m.owner_orig_prio[x] \in Prios
    BY <1>0, <1>t, <1>3 DEF Accounts
  <2>2. n = Release(m, x)
    BY <1>3 DEF Unlocked
  <2> HIDE DEF n
  <2>3. CASE m.wait_q[x] = <<>>
    <3>1. Granted(t, x) = {}
      BY <2>3 DEF Granted
    <3>2. /\ n \in MState /\ Listed(n)
          /\ n.owner = [m.owner EXCEPT ![x] = NULL]
          /\ n.lock_count = [m.lock_count EXCEPT ![x] = 0]
          /\ n.owner_orig_prio = m.owner_orig_prio /\ n.wait_q = m.wait_q
          /\ n.pended_on = m.pended_on /\ n.timed = m.timed
      BY <1>0, <1>3, <2>1, <2>2, <2>3, ReleaseToNobody
    <3>3. Accounts(n, h)
      <4>1. \A u \in Threads : held[u][x] = IF u = t THEN 1 ELSE 0
        BY <1>0, <1>3, <2>1 DEF Accounts
      <4>2. \A u \in Threads : h[u][x] = 0
        BY <1>h, <1>3, <3>1, <4>1
      <4>3. n.owner[x] = NULL /\ n.lock_count[x] = 0 /\ n.wait_q[x] = <<>>
        BY <1>t, <2>3, <3>2
      <4>4. QED
        BY <1>0, <1>h, <3>2, <4>2, <4>3 DEF Accounts
    <3>4. QED
      BY <1>t, <3>1, <3>2, <3>3 DEF n, h
  <2>4. CASE m.wait_q[x] # <<>>
    <3> DEFINE w == Head(m.wait_q[x])
    <3>1. /\ w \in Threads /\ m.pended_on[w] = x /\ n \in MState /\ Listed(n)
          /\ n.owner = [m.owner EXCEPT ![x] = w]
          /\ n.lock_count = m.lock_count
          /\ n.owner_orig_prio = [m.owner_orig_prio EXCEPT ![x] = n.prio[w]]
          /\ n.wait_q = [m.wait_q EXCEPT ![x] = z_priq_dumb_remove(@, w)]
          /\ n.pended_on = [m.pended_on EXCEPT ![w] = NULL]
          /\ n.timed = [m.timed EXCEPT ![w] = FALSE]
      <4>1. m.owner[x] \in Threads
        BY <1>3
      <4>2. HandedOver(n, m, x)
        BY <1>0, <2>1, <2>2, <2>4, <4>1, ReleaseToHead
      <4>3. QED
        BY <4>2 DEF HandedOver
    <3>2. Granted(t, x) = {w} /\ w # t
      BY <1>0, <1>3, <2>1, <2>4, <3>1 DEF Granted
    <3>3. n.prio[w] \in Prios
      BY <3>1 DEF MState
    <3> HIDE DEF w
    <3>4. Accounts(n, h)
      <4>1. \A u \in Threads : held[u][x] = IF u = t THEN 1 ELSE 0
        BY <1>0, <1>3, <2>1 DEF Accounts
      <4>2. \A u \in Threads : h[u][x] = IF u = w THEN 1 ELSE 0
        BY <1>h, <1>3, <3>2, <4>1
      <4>3. n.owner[x] = w /\ n.lock_count[x] = 1 /\ n.owner_orig_prio[x] \in Prios
        BY <1>t, <2>1, <3>1, <3>3
      <4>4. \A y \in Mutexes \ {x} : /\ n.owner[y] = m.owner[y] /\ n.lock_count[y] = m.lock_count[y]
                                     /\ n.owner_orig_prio[y] = m.owner_orig_prio[y]
                                     /\ n.wait_q[y] = m.wait_q[y]
        BY <1>t, <3>1 DEF Objs
      <4>5. QED
        BY <1>0, <1>h, <3>1, <4>2, <4>3, <4>4 DEF Accounts
    <3>5. /\ n.pended_on = [u \in Threads |-> IF u \in Granted(t, x) THEN NULL
                                             ELSE m.pended_on[u]]
          /\ n.timed = [u \in Threads |-> IF u \in Granted(t, x) THEN FALSE ELSE m.timed[u]]
      BY <1>t, <3>1, <3>2
    <3>6. QED
      BY <3>1, <3>2, <3>4, <3>5 DEF n, h
  <2>5. QED
    BY <2>3, <2>4
<1>4. QED
  BY <1>1, <1>2, <1>3

-----------------------------------------------------------------------------
(* The steps.  Each of them is shown to leave a state that is typed and    *)
(* listed, with right accounts, and threads whose calls agree with it.     *)
CallsAgree ==
  /\ pc \in [Threads -> {"idle", "pended", "timedout", "relock"}]
  /\ rest \in [Threads -> Mutexes \cup {NULL}]
  /\ \A t \in Threads : /\ pc[t] = "pended" <=> m.pended_on[t] # NULL
                        /\ m.timed[t] => pc[t] = "pended"
                        /\ pc[t] \in {"timedout", "relock"} => rest[t] \in Mutexes
                        /\ m.pended_on[t] \in Condvars => rest[t] \in Mutexes

Parts == /\ m \in MState /\ Listed(m) /\ Accounts(m, held) /\ CallsAgree
         /\ held \in [Threads -> [Mutexes -> 0 .. MaxCount]]

LEMMA PartsAreIInv == Parts <=> IInv
BY DEF Parts, IInv, TypeOK, Exclusion, QueuesKept, CallsKept, Accounts, CallsAgree

LEMMA InitParts == Init => Parts
<1> SUFFICES ASSUME Init PROVE Parts
  OBVIOUS
<1> USE KMutexAssumption
<1>0. 0 \in 0 .. MaxCount /\ Base \in [Threads -> Prios] /\ <<>> \in Seq(Threads)
  BY DEF Prios
<1>1. m \in MState
  BY <1>0 DEF Init, MState
<1>2. \A q \in Objs : m.wait_q[q] = <<>>
  BY DEF Init
<1>3. \A t \in Threads : m.pended_on[t] = NULL
  BY DEF Init
<1>4. Listed(m)
  BY <1>2, <1>3, NoneLinked DEF Listed, Objs
<1>5. Accounts(m, held)
  BY <1>2 DEF Init, Accounts, Objs
<1>6. CallsAgree
  BY DEF Init, CallsAgree
<1>7. held \in [Threads -> [Mutexes -> 0 .. MaxCount]]
  BY <1>0 DEF Init
<1>8. QED
  BY <1>1, <1>4, <1>5, <1>6, <1>7 DEF Parts

(* A free mutex, or one's own, is locked.                                  *)
LEMMA LockFreeStep ==
  ASSUME Parts, NEW t \in Threads, NEW x \in Mutexes,
         pc[t] \in {"idle", "relock"}, LockFree(t, x)
  PROVE  Parts'
<1> USE DEF Parts
<1>0. /\ m.lock_count \in [Mutexes -> 0 .. MaxCount] /\ m.owner \in [Mutexes -> Threads \cup {NULL}]
      /\ m.prio \in [Threads -> Prios] /\ MaxCount \in Nat /\ NULL \notin Threads
      /\ m.owner_orig_prio \in [Mutexes -> Int]
  BY KMutexAssumption DEF MState
<1>1. m.lock_count[x] + 1 \in 0 .. MaxCount
  BY <1>0 DEF LockFree
<1>2. m' = LockTaken(m, t, x)
  BY DEF LockFree
<1>3. m' \in MState
  BY <1>0, <1>1, <1>2, PriosAreInts DEF LockTaken, MState
<1>4. /\ m'.owner = [m.owner EXCEPT ![x] = t]
      /\ m'.lock_count = [m.lock_count EXCEPT ![x] = @ + 1]
      /\ m'.owner_orig_prio = [m.owner_orig_prio EXCEPT ![x] =
                                 IF m.lock_count[x] = 0 THEN m.prio[t] ELSE @]
      /\ m'.wait_q = m.wait_q /\ m'.pended_on = m.pended_on /\ m'.timed = m.timed
  BY <1>2 DEF LockTaken, MState
<1>5. Listed(m)'
  BY <1>4 DEF Listed
<1>6. /\ held' \in [Threads -> [Mutexes -> Int]]
      /\ \A u \in Threads, y \in Mutexes :
           held'[u][y] = IF u = t /\ y = x THEN held[u][y] + 1 ELSE held[u][y]
  <2>1. \A u \in Threads : held[u] \in [Mutexes -> Int]
    BY <1>0
  <2>2. QED
    BY <2>1 DEF LockFree
<1>7. Accounts(m', held')
  <2>1. m.owner[x] \in {NULL, t}
    BY <1>0 DEF LockFree, Takes, Accounts
  <2>2. \A u \in Threads : held[u][x] = IF u = t THEN m.lock_count[x] ELSE 0
    BY <1>0, <2>1 DEF Accounts
  <2>3. \A u \in Threads : held'[u][x] = IF u = t THEN m'.lock_count[x] ELSE 0
    BY <1>0, <1>4, <1>6, <2>2
  <2>4. m'.owner[x] = t /\ m'.lock_count[x] # 0 /\ m'.owner_orig_prio[x] \in Prios
    BY <1>0, <1>4, <2>1 DEF Accounts
  <2>5. \A y \in Mutexes \ {x} : /\ m'.owner[y] = m.owner[y] /\ m'.lock_count[y] = m.lock_count[y]
                                 /\ m'.owner_orig_prio[y] = m.owner_orig_prio[y]
    BY <1>0, <1>4
  <2>6. QED
    BY <1>0, <1>4, <1>6, <2>3, <2>4, <2>5, SMTT(30) DEF Accounts
<1>8. held' \in [Threads -> [Mutexes -> 0 .. MaxCount]]
  BY <1>3, <1>6, <1>7, HeldRange
<1>9. CallsAgree'
  BY <1>4, KMutexAssumption DEF CallsAgree, LockFree
<1>10. QED
  BY <1>3, <1>5, <1>7, <1>8, <1>9

(* A busy mutex: its owner may be raised, the thread pends.                *)
LEMMA LockBusyStep ==
  ASSUME Parts, NEW t \in Threads, NEW x \in Mutexes, NEW forever \in BOOLEAN,
         pc[t] \in {"idle", "relock"}, LockBusy(t, x, forever)
  PROVE  Parts'
<1> USE DEF Parts
<1> DEFINE o == m.owner[x]
           p == new_prio_for_inheritance(m.prio[t], m.prio[o])
           raised == IF p < m.prio[o] THEN adjust_owner_prio(m, x, p) ELSE m
<1>1. o \in Threads /\ x \in Objs /\ x \notin Condvars /\ x # NULL
  BY KMutexAssumption DEF LockBusy, Takes, Accounts, MState, Objs
<1>2. p \in Prios
  <2>1. m.prio[t] \in Prios /\ m.prio[o] \in Prios
    BY <1>1 DEF MState
  <2>2. QED
    BY <2>1, InheritedPrio
<1>3. m' = Pend(raised, t, x, forever)
  BY DEF LockBusy, LockPended
<1> HIDE DEF p, o
<1>4. /\ raised \in MState
      /\ raised.owner = m.owner /\ raised.lock_count = m.lock_count
      /\ raised.owner_orig_prio = m.owner_orig_prio /\ raised.wait_q = m.wait_q
      /\ raised.pended_on = m.pended_on /\ raised.timed = m.timed
  BY <1>1, <1>2, AdjustSpec, ZenonT(40) DEF o
<1> HIDE DEF raised
<1>5. Listed(raised) /\ raised.pended_on[t] = NULL
  BY <1>4 DEF Listed, CallsAgree
<1>6. /\ m' \in MState /\ Listed(m')
      /\ m'.owner = m.owner /\ m'.lock_count = m.lock_count
      /\ m'.owner_orig_prio = m.owner_orig_prio
      /\ m'.pended_on = [m.pended_on EXCEPT ![t] = x]
      /\ m'.timed = [m.timed EXCEPT ![t] = ~forever]
      /\ m'.wait_q = [m.wait_q EXCEPT ![x] = z_priq_dumb_add(@, t, raised.prio)]
  <2>1. Pended(m', raised, t, x, forever)
    BY <1>1, <1>3, <1>4, <1>5, PendSpec
  <2>2. QED
    BY <1>4, <2>1 DEF Pended
<1>7. Accounts(m', held')
  <2>1. \A y \in Mutexes : y # x => m'.wait_q[y] = m.wait_q[y]
    BY <1>6 DEF MState, Objs
  <2>2. m'.owner[x] # NULL
    BY <1>1, <1>6, KMutexAssumption DEF o
  <2>3. QED
    BY <1>6, <2>1, <2>2 DEF Accounts, LockBusy
<1>8. CallsAgree'
  BY <1>1, <1>6 DEF CallsAgree, LockBusy, MState
<1>9. QED
  BY <1>6, <1>7, <1>8 DEF LockBusy

LEMMA UnlockStep ==
  ASSUME Parts, NEW t \in Threads, NEW x \in Mutexes, k_mutex_unlock(t, x)
  PROVE  Parts'
<1> USE DEF Parts
<1>0. IInv /\ pc[t] = "idle" /\ NULL \notin Condvars
  BY PartsAreIInv, KMutexAssumption DEF k_mutex_unlock
<1> DEFINE n == Unlocked(m, t, x)
<1>1. m' = n /\ held' = HeldAfterUnlock(t, x)
  BY DEF k_mutex_unlock
<1> HIDE DEF n
<1>2. /\ n \in MState /\ Listed(n) /\ Accounts(n, held')
      /\ n.pended_on = [u \in Threads |-> IF u \in Granted(t, x) THEN NULL ELSE m.pended_on[u]]
      /\ n.timed = [u \in Threads |-> IF u \in Granted(t, x) THEN FALSE ELSE m.timed[u]]
  BY <1>0, <1>1, UnlockedSpec, ZenonT(40) DEF n
<1>3. held' \in [Threads -> [Mutexes -> 0 .. MaxCount]]
  BY <1>0, <1>1, <1>2, HeldAfterUnlockSpec, HeldRange
<1>4. CallsAgree'
  BY <1>0, <1>1, <1>2 DEF CallsAgree, k_mutex_unlock
<1>5. QED
  BY <1>1, <1>2, <1>3, <1>4

(* A waiter's timeout takes it off its queue.                              *)
LEMMA ExpireStep ==
  ASSUME Parts, NEW t \in Threads, Expire(t)
  PROVE  Parts'
<1> USE DEF Parts
<1> DEFINE q == m.pended_on[t]
<1>0. /\ q # NULL /\ q \in Objs /\ NULL \notin Objs /\ m.wait_q \in [Objs -> Seq(Threads)]
      /\ Mutexes \subseteq Objs /\ Condvars \subseteq Objs
      /\ q \in Mutexes \/ q \in Condvars
      /\ ~ (q \in Mutexes /\ q \in Condvars)
  BY KMutexAssumption DEF Expire, CallsAgree, MState, Objs
<1>1. Unpended(m', m, t)
  BY <1>0, UnpendSpec DEF Expire
<1>2. /\ m' \in MState /\ Listed(m')
      /\ m'.owner = m.owner /\ m'.lock_count = m.lock_count
      /\ m'.owner_orig_prio = m.owner_orig_prio
      /\ m'.pended_on = [m.pended_on EXCEPT ![t] = NULL]
      /\ m'.timed = [m.timed EXCEPT ![t] = FALSE]
      /\ \A y \in Objs : y # q => m'.wait_q[y] = m.wait_q[y]
  BY <1>0, <1>1 DEF Unpended
<1>3. Accounts(m', held')
  <2>1. q \in Mutexes => m.owner[q] # NULL
    <3>1. t \in Members(m.wait_q[q])
      BY <1>0 DEF Listed
    <3>2. m.wait_q[q] # <<>>
      BY <3>1 DEF Members
    <3>3. QED
      BY <3>2 DEF Accounts
  <2>2. held' = held
    BY DEF Expire
  <2>3. \A y \in Mutexes : m'.owner[y] = NULL => m'.wait_q[y] = <<>>
    BY <1>0, <1>2, <2>1 DEF Accounts
  <2>4. QED
    BY <1>2, <2>2, <2>3 DEF Accounts
<1>4. CallsAgree'
  <2>1. /\ pc' = [pc EXCEPT ![t] = IF q \in Condvars THEN "relock" ELSE "timedout"]
        /\ rest' = IF q \in Mutexes THEN [rest EXCEPT ![t] = q] ELSE rest
    BY DEF Expire
  <2> HIDE DEF q
  <2>2. m.pended_on \in [Threads -> Objs \cup {NULL}] /\ m.timed \in [Threads -> BOOLEAN]
    BY DEF MState
  <2>3. pc' \in [Threads -> {"idle", "pended", "timedout", "relock"}]
    BY <2>1 DEF CallsAgree
  <2>4. rest' \in [Threads -> Mutexes \cup {NULL}]
    BY <2>1 DEF CallsAgree
  <2>5. q \in Condvars => rest[t] \in Mutexes
    BY DEF CallsAgree, q
  <2>6. QED
    BY <1>0, <1>2, <2>1, <2>2, <2>3, <2>4, <2>5 DEF CallsAgree
<1>5. QED
  BY <1>2, <1>3, <1>4 DEF Expire

(* The second section of a k_mutex_lock that timed out.                    *)
LEMMA TimedOutStep ==
  ASSUME Parts, NEW t \in Threads, LockTimedOut(t)
  PROVE  Parts'
<1> USE DEF Parts
<1> DEFINE x == rest[t]
           p == IF m.wait_q[x] # <<>>
                THEN new_prio_for_inheritance(m.prio[Head(m.wait_q[x])], m.owner_orig_prio[x])
                ELSE m.owner_orig_prio[x]
<1>1. x \in Mutexes /\ x \in Objs
  BY DEF LockTimedOut, CallsAgree, Objs
<1>2. m' = IF m.owner[x] # NULL THEN adjust_owner_prio(m, x, p) ELSE m
  BY DEF LockTimedOut
<1>3. /\ m' \in MState
      /\ m'.owner = m.owner /\ m'.lock_count = m.lock_count
      /\ m'.owner_orig_prio = m.owner_orig_prio /\ m'.wait_q = m.wait_q
      /\ m'.pended_on = m.pended_on /\ m'.timed = m.timed
  <2>1. CASE m.owner[x] # NULL
    <3>1. m.owner[x] \in Threads /\ m.owner_orig_prio[x] \in Prios
      BY <1>1, <2>1 DEF MState, Accounts
    <3>2. m.wait_q[x] # <<>> => m.prio[Head(m.wait_q[x])] \in Prios
      BY <1>1, HeadLinked DEF MState
    <3>3. p \in Prios
      BY <3>1, <3>2, InheritedPrio
    <3> HIDE DEF p, x
    <3>4. QED
      BY <1>1, <1>2, <2>1, <3>1, <3>3, AdjustSpec, ZenonT(40)
  <2>2. CASE m.owner[x] = NULL
    BY <1>2, <2>2
  <2>3. QED
    BY <2>1, <2>2
<1>4. Listed(m') /\ Accounts(m', held')
  <2>1. held' = held
    BY DEF LockTimedOut
  <2>2. QED
    BY <1>3, <2>1 DEF Listed, Accounts
<1>5. CallsAgree'
  BY <1>3, KMutexAssumption, ZenonT(40) DEF CallsAgree, LockTimedOut
<1>6. QED
  BY <1>3, <1>4, <1>5 DEF LockTimedOut

(* k_condvar_wait: the mutex is given up and the thread pends.             *)
LEMMA CondWaitStep ==
  ASSUME Parts, NEW t \in Threads, NEW cv \in Condvars, NEW x \in Mutexes,
         NEW forever \in BOOLEAN, k_condvar_wait(t, cv, x, forever)
  PROVE  Parts'
<1> USE DEF Parts
<1> DEFINE n == Unlocked(m, t, x)
<1>0. /\ IInv /\ pc[t] = "idle" /\ cv \in Objs /\ cv # NULL /\ cv \notin Mutexes
      /\ NULL \notin Condvars /\ m.pended_on[t] = NULL
  BY PartsAreIInv, KMutexAssumption DEF k_condvar_wait, Objs, CallsAgree
<1>1. m' = Pend(n, t, cv, forever) /\ held' = HeldAfterUnlock(t, x)
  BY DEF k_condvar_wait
<1> HIDE DEF n
<1>2. /\ n \in MState /\ Listed(n) /\ Accounts(n, held')
      /\ n.pended_on = [u \in Threads |-> IF u \in Granted(t, x) THEN NULL ELSE m.pended_on[u]]
      /\ n.timed = [u \in Threads |-> IF u \in Granted(t, x) THEN FALSE ELSE m.timed[u]]
      /\ \A u \in Granted(t, x) : u # t
  BY <1>0, <1>1, UnlockedSpec, ZenonT(40) DEF n
<1>3. n.pended_on[t] = NULL
  BY <1>0, <1>2
<1>4. Pended(m', n, t, cv, forever)
  BY <1>0, <1>1, <1>2, <1>3, PendSpec
<1>5. held' \in [Threads -> [Mutexes -> 0 .. MaxCount]]
  BY <1>0, <1>1, <1>2, HeldAfterUnlockSpec, HeldRange
<1>6. \A y \in Mutexes : m'.wait_q[y] = n.wait_q[y]
  BY <1>0, <1>2, <1>4 DEF Pended, MState, Objs
<1>7. Accounts(m', held')
  BY <1>2, <1>4, <1>6 DEF Pended, Accounts
<1>8. CallsAgree'
  <2>1. /\ m'.pended_on = [n.pended_on EXCEPT ![t] = cv]
        /\ m'.timed = [n.timed EXCEPT ![t] = ~forever]
    BY <1>4 DEF Pended
  <2>2. m.pended_on \in [Threads -> Objs \cup {NULL}] /\ m.timed \in [Threads -> BOOLEAN]
    BY DEF MState
  <2>3. /\ pc' = [u \in Threads |-> IF u = t THEN "pended"
                                    ELSE IF u \in Granted(t, x) THEN "idle" ELSE pc[u]]
        /\ rest' = [rest EXCEPT ![t] = x]
    BY DEF k_condvar_wait
  <2>4. /\ pc' \in [Threads -> {"idle", "pended", "timedout", "relock"}]
        /\ rest' \in [Threads -> Mutexes \cup {NULL}]
    BY <2>3 DEF CallsAgree
  <2>5. ASSUME NEW u \in Threads
        PROVE  /\ pc'[u] = "pended" <=> m'.pended_on[u] # NULL
               /\ m'.timed[u] => pc'[u] = "pended"
               /\ pc'[u] \in {"timedout", "relock"} => rest'[u] \in Mutexes
               /\ m'.pended_on[u] \in Condvars => rest'[u] \in Mutexes
    <3>1. CASE u = t
      BY <1>0, <1>2, <2>1, <2>3, <3>1 DEF CallsAgree
    <3>2. CASE u # t
      BY <1>0, <1>2, <2>1, <2>2, <2>3, <3>2, ZenonT(40) DEF CallsAgree
    <3>3. QED
      BY <3>1, <3>2
  <2>6. QED
    BY <2>4, <2>5 DEF CallsAgree
<1>9. QED
  BY <1>4, <1>5, <1>7, <1>8 DEF Pended

(* k_condvar_signal.                                                       *)
LEMMA SignalStep ==
  ASSUME Parts, NEW t \in Threads, NEW cv \in Condvars, k_condvar_signal(t, cv)
  PROVE  Parts'
<1> USE DEF Parts
<1> DEFINE u == Head(m.wait_q[cv])
<1>0. cv \in Objs /\ cv # NULL /\ cv \notin Mutexes /\ m.wait_q[cv] \in Seq(Threads)
  BY KMutexAssumption DEF Objs, MState
<1>1. u \in Threads /\ m.pended_on[u] = cv
  BY <1>0, HeadLinked DEF k_condvar_signal, Listed
<1>2. m' = Unpend(m, u) /\ pc' = [pc EXCEPT ![u] = "relock"] /\ rest' = rest /\ held' = held
  BY DEF k_condvar_signal
<1> HIDE DEF u
<1>3. Unpended(m', m, u)
  BY <1>0, <1>1, <1>2, UnpendSpec
<1>4. \A y \in Mutexes : m'.wait_q[y] = m.wait_q[y]
  BY <1>0, <1>1, <1>3 DEF Unpended, MState, Objs
<1>5. Accounts(m', held')
  BY <1>2, <1>3, <1>4 DEF Unpended, Accounts
<1>6. CallsAgree'
  <2>1. /\ m'.pended_on = [m.pended_on EXCEPT ![u] = NULL]
        /\ m'.timed = [m.timed EXCEPT ![u] = FALSE]
    BY <1>3 DEF Unpended
  <2>2. m.pended_on \in [Threads -> Objs \cup {NULL}] /\ m.timed \in [Threads -> BOOLEAN]
    BY DEF MState
  <2>3. QED
    BY <1>0, <1>1, <1>2, <2>1, <2>2, KMutexAssumption DEF CallsAgree
<1>7. QED
  BY <1>2, <1>3, <1>5, <1>6 DEF Unpended

(* k_condvar_broadcast.                                                    *)
LEMMA BroadcastStep ==
  ASSUME Parts, NEW t \in Threads, NEW cv \in Condvars, k_condvar_broadcast(t, cv)
  PROVE  Parts'
<1> USE DEF Parts
<1> DEFINE woken == Members(m.wait_q[cv])
<1>0. /\ cv \in Objs /\ cv # NULL /\ cv \notin Mutexes /\ m.wait_q \in [Objs -> Seq(Threads)]
      /\ m.pended_on \in [Threads -> Objs \cup {NULL}] /\ m.timed \in [Threads -> BOOLEAN]
      /\ NULL \notin Objs /\ <<>> \in Seq(Threads) /\ Members(<<>>) = {} /\ Distinct(<<>>)
  BY KMutexAssumption, NoneLinked DEF Objs, MState
<1>1. woken = {u \in Threads : m.pended_on[u] = cv}
  BY <1>0 DEF Listed
<1>2. m' = [m EXCEPT !.wait_q[cv] = <<>>,
                    !.pended_on = [u \in Threads |-> IF u \in woken THEN NULL ELSE @[u]],
                    !.timed = [u \in Threads |-> @[u] /\ u \notin woken]]
  BY DEF k_condvar_broadcast
<1> HIDE DEF woken
<1>3. /\ m'.owner = m.owner /\ m'.lock_count = m.lock_count
      /\ m'.owner_orig_prio = m.owner_orig_prio
      /\ m'.wait_q = [m.wait_q EXCEPT ![cv] = <<>>]
      /\ m'.pended_on = [u \in Threads |-> IF u \in woken THEN NULL ELSE m.pended_on[u]]
      /\ m'.timed = [u \in Threads |-> m.timed[u] /\ u \notin woken]
  BY <1>2 DEF MState
<1>4. m' \in MState
  BY <1>0, <1>2 DEF MState
<1>5. Listed(m')
  <2>1. m'.wait_q[cv] = <<>> /\ {u \in Threads : m'.pended_on[u] = cv} = {}
    BY <1>0, <1>1, <1>3
  <2>2. ASSUME NEW q \in Objs, q # cv
        PROVE  /\ m'.wait_q[q] = m.wait_q[q]
               /\ {u \in Threads : m'.pended_on[u] = q} = {u \in Threads : m.pended_on[u] = q}
    BY <1>0, <1>1, <1>3, <2>2
  <2>3. QED
    BY <1>0, <2>1, <2>2 DEF Listed
<1>6. Accounts(m', held')
  <2>1. \A y \in Mutexes : m'.wait_q[y] = m.wait_q[y]
    BY <1>0, <1>3 DEF Objs
  <2>2. QED
    BY <1>3, <2>1 DEF Accounts, k_condvar_broadcast
<1>7. CallsAgree'
  <2>1. pc' = [u \in Threads |-> IF u \in woken THEN "relock" ELSE pc[u]] /\ rest' = rest
    BY DEF k_condvar_broadcast, woken
  <2>2. \A u \in woken : rest[u] \in Mutexes
    BY <1>0, <1>1 DEF CallsAgree
  <2>3. QED
    BY <1>0, <1>1, <1>3, <2>1, <2>2, KMutexAssumption DEF CallsAgree
<1>8. QED
  BY <1>4, <1>5, <1>6, <1>7 DEF k_condvar_broadcast

LEMMA NextParts == Parts /\ [Next]_vars => Parts'
<1> SUFFICES ASSUME Parts, [Next]_vars PROVE Parts'
  OBVIOUS
<1>1. CASE UNCHANGED vars
  BY <1>1 DEF vars, Parts, CallsAgree
<1>2. ASSUME NEW t \in Threads, NEW x \in Mutexes, NEW forever \in BOOLEAN,
             k_mutex_lock(t, x, forever)
      PROVE  Parts'
  BY <1>2, LockFreeStep, LockBusyStep DEF k_mutex_lock
<1>3. ASSUME NEW t \in Threads, CondvarRelock(t) PROVE Parts'
  <2>1. rest[t] \in Mutexes /\ pc[t] = "relock"
    BY <1>3 DEF CondvarRelock, Parts, CallsAgree
  <2>2. QED
    BY <1>3, <2>1, LockFreeStep, LockBusyStep DEF CondvarRelock
<1>4. QED
  BY <1>1, <1>2, <1>3, UnlockStep, ExpireStep, TimedOutStep, CondWaitStep, SignalStep,
     BroadcastStep DEF Next

(* The invariant holds in every reachable state, for any number of threads,*)
(* mutexes and condition variables.                                        *)
LEMMA MutexInvariant == Spec => []IInv
<1>1. Parts => IInv
  BY PartsAreIInv
<1>2. QED
  BY InitParts, NextParts, <1>1, PTL DEF Spec

(* Type correctness: inheritance gives nobody a priority that is neither a *)
(* thread's own nor the ceiling, and lock_count stays within its bound     *)
(* (mutex.c, condvar.c).                                                   *)
THEOREM MutexTypeOK == Spec => []TypeOK
<1>1. IInv => TypeOK
  BY DEF IInv
<1>2. QED
  BY <1>1, MutexInvariant, PTL

(* Mutual exclusion with exact accounts, for any number of mutexes:        *)
(* k_mutex_lock and k_mutex_unlock, hand-overs, timeouts and condition     *)
(* waits that give a mutex up and take it again.                           *)
THEOREM MutexExclusion == Spec => []Exclusion
<1>1. IInv => Exclusion
  BY DEF IInv
<1>2. QED
  BY <1>1, MutexInvariant, PTL

-----------------------------------------------------------------------------
(* Priority inheritance, for one mutex: with a second one, the owner of    *)
(* the first may wait for the second when its priority changes, and the    *)
(* second's queue goes out of order.  CeilingOnTop says that no thread is  *)
(* better than CONFIG_PRIORITY_CEILING, which is -127 in the build: one    *)
(* that is would not lend all of its priority.                             *)
OneMutex == \A x, y \in Mutexes : x = y
CeilingOnTop == \A t \in Threads : Ceiling <= Base[t]

(* In state s queues are in order, only an owner's priority is not its     *)
(* own, and, with the ceiling on top, owners have what the waiters lend    *)
(* them: no less, and if exact no more.                                    *)
Lent(s, exact) ==
  \A x \in Mutexes :
    LET o == s.owner[x]
        waiting == Members(s.wait_q[x])
    IN  /\ Sorted(s.wait_q[x], s.prio) /\ o \notin waiting
        /\ \A t \in Threads : o # t => s.prio[t] = Base[t]
        /\ o # NULL => s.owner_orig_prio[x] = Base[o]
        /\ o # NULL /\ CeilingOnTop =>
             /\ s.prio[o] <= Base[o]
             /\ \A u \in waiting : s.prio[o] <= s.prio[u]
             /\ exact => s.prio[o] = Base[o] \/ \E u \in waiting : s.prio[o] = s.prio[u]

Exact == \A t \in Threads : pc[t] # "timedout"

(* The order of a queue depends on its threads' priorities only.           *)
LEMMA SortedFrame ==
  ASSUME NEW pq \in Seq(Threads), NEW p1, NEW p2, Sorted(pq, p1),
         \A u \in Members(pq) : p1[u] = p2[u]
  PROVE  Sorted(pq, p2)
<1>1. \A i \in 1 .. Len(pq) : p1[pq[i]] = p2[pq[i]]
  BY DEF Members
<1>2. QED
  BY <1>1 DEF Sorted

(* Steps that touch neither an owner nor the queue of a mutex.             *)
LEMMA LentFrame ==
  ASSUME NEW s, NEW n, NEW e1 \in BOOLEAN, NEW e2 \in BOOLEAN, Lent(s, e1), e2 => e1,
         n.owner = s.owner, n.owner_orig_prio = s.owner_orig_prio, n.prio = s.prio,
         \A x \in Mutexes : n.wait_q[x] = s.wait_q[x]
  PROVE  Lent(n, e2)
BY DEF Lent

(* Below the ceiling, inheritance takes the better priority.               *)
LEMMA InheritedBest ==
  ASSUME CeilingOnTop, NEW target \in Prios, NEW limit \in Prios
  PROVE  new_prio_for_inheritance(target, limit) = Higher(target, limit)
<1>1. \A p \in Prios : Ceiling <= p /\ p \in Int
  BY KMutexAssumption, PriosAreInts DEF CeilingOnTop, Prios
<1>2. QED
  BY <1>1, KMutexAssumption DEF new_prio_for_inheritance, Higher

LEMMA LockFreeLends ==
  ASSUME OneMutex, Parts, Lent(m, Exact), NEW t \in Threads, NEW x \in Mutexes,
         pc[t] \in {"idle", "relock"}, LockFree(t, x)
  PROVE  Lent(m, Exact)'
<1>0. /\ m.lock_count \in [Mutexes -> 0 .. MaxCount] /\ m.owner \in [Mutexes -> Threads \cup {NULL}]
      /\ m.owner_orig_prio \in [Mutexes -> Int] /\ Base \in [Threads -> Int]
      /\ m.wait_q[x] \in Seq(Threads) /\ NULL \notin Threads /\ m.prio \in [Threads -> Prios]
  BY KMutexAssumption DEF Parts, MState, Objs
<1>1. /\ m'.owner = [m.owner EXCEPT ![x] = t]
      /\ m'.owner_orig_prio = [m.owner_orig_prio EXCEPT ![x] =
                                 IF m.lock_count[x] = 0 THEN m.prio[t] ELSE @]
      /\ m'.wait_q = m.wait_q /\ m'.prio = m.prio
  BY DEF LockFree, LockTaken, Parts, MState
<1>2. Exact' => Exact
  BY DEF Exact, LockFree
<1>3. \A y \in Mutexes : y = x
  BY DEF OneMutex
<1>4. CASE m.owner[x] = t
  <2>1. m.lock_count[x] # 0
    BY <1>0, <1>4 DEF Parts, Accounts
  <2>2. m'.owner = m.owner /\ m'.owner_orig_prio = m.owner_orig_prio
    BY <1>0, <1>1, <1>4, <2>1
  <2>3. QED
    BY <1>1, <1>2, <2>2 DEF Lent
<1>5. CASE m.owner[x] # t
  <2>1. m.lock_count[x] = 0 /\ m.owner[x] = NULL /\ m.wait_q[x] = <<>>
    BY <1>0, <1>5 DEF LockFree, Takes, Parts, Accounts
  <2>2. m.prio = Base
    BY <1>0, <2>1 DEF Lent
  <2>3. m'.owner[x] = t /\ m'.owner_orig_prio[x] = Base[t] /\ m'.prio = Base
    BY <1>0, <1>1, <2>1, <2>2
  <2>4. Members(m'.wait_q[x]) = {} /\ Sorted(m'.wait_q[x], Base)
    <3>1. m'.wait_q[x] = <<>>
      BY <1>1, <2>1
    <3>2. QED
      BY <3>1 DEF Members, Sorted
  <2>5. QED
    BY <1>0, <1>3, <2>3, <2>4 DEF Lent
<1>6. QED
  BY <1>4, <1>5

LEMMA LockBusyLends ==
  ASSUME OneMutex, Parts, Lent(m, Exact), NEW t \in Threads,
         NEW x \in Mutexes, NEW forever \in BOOLEAN,
         pc[t] \in {"idle", "relock"}, LockBusy(t, x, forever)
  PROVE  Lent(m, Exact)'
<1> DEFINE o == m.owner[x]
           p == new_prio_for_inheritance(m.prio[t], m.prio[o])
           raised == IF p < m.prio[o] THEN adjust_owner_prio(m, x, p) ELSE m
           prio == [m.prio EXCEPT ![o] = IF p < m.prio[o] THEN p ELSE m.prio[o]]
<1>0. /\ m \in MState /\ Listed(m) /\ m.pended_on[t] = NULL /\ m.prio \in [Threads -> Prios]
      /\ x \in Objs /\ m.wait_q[x] \in Seq(Threads) /\ NULL \notin Threads /\ x # NULL
      /\ m.owner \in [Mutexes -> Threads \cup {NULL}] /\ Base \in [Threads -> Int]
      /\ m.wait_q \in [Objs -> Seq(Threads)]
  BY KMutexAssumption DEF Parts, CallsAgree, MState, Objs
<1>1. o \in Threads /\ o # t
  BY <1>0 DEF LockBusy, Takes, Parts, Accounts
<1>2. m.prio[t] \in Prios /\ m.prio[o] \in Prios /\ m.prio[t] \in Int /\ m.prio[o] \in Int
  BY <1>0, <1>1, PriosAreInts
<1>3. /\ p \in Prios /\ p \in Int
      /\ CeilingOnTop => p = Higher(m.prio[t], m.prio[o])
  BY <1>2, InheritedBest, InheritedPrio, PriosAreInts
<1>4. m' = Pend(raised, t, x, forever)
  BY DEF LockBusy, LockPended
<1> HIDE DEF o, p
<1>5. /\ raised \in MState /\ raised.owner = m.owner
      /\ raised.owner_orig_prio = m.owner_orig_prio /\ raised.wait_q = m.wait_q
      /\ raised.pended_on = m.pended_on /\ raised.prio = prio
  <2>1. CASE p < m.prio[o]
    BY <1>0, <1>1, <1>3, <2>1, AdjustSpec DEF o
  <2>2. CASE ~(p < m.prio[o])
    <3>1. m.prio = prio
      BY <1>0, <1>1, <2>2
    <3>2. QED
      BY <1>0, <2>2, <3>1
  <2>3. QED
    BY <2>1, <2>2
<1> HIDE DEF raised, prio
<1>6. Pended(m', raised, t, x, forever)
  <2>1. Listed(raised) /\ raised.pended_on[t] = NULL
    BY <1>0, <1>5 DEF Listed
  <2>2. QED
    BY <1>0, <1>4, <1>5, <2>1, PendSpec
<1>7. /\ m'.owner = m.owner /\ m'.owner_orig_prio = m.owner_orig_prio /\ m'.prio = prio
      /\ m'.wait_q[x] = z_priq_dumb_add(m.wait_q[x], t, prio)
      /\ Members(m'.wait_q[x]) = Members(m.wait_q[x]) \cup {t}
  BY <1>0, <1>5, <1>6 DEF Pended
<1>8. /\ prio \in [Threads -> Int]
      /\ prio[o] = IF p < m.prio[o] THEN p ELSE m.prio[o]
      /\ \A u \in Threads : u # o => prio[u] = m.prio[u]
  BY <1>0, <1>1, <1>2, <1>3, PriosAreInts DEF prio
<1>9. /\ Sorted(m.wait_q[x], m.prio) /\ o \notin Members(m.wait_q[x])
      /\ \A u \in Threads : o # u => m.prio[u] = Base[u]
      /\ m.owner_orig_prio[x] = Base[o]
  BY <1>0, <1>1 DEF Lent, o
<1>10. Members(m.wait_q[x]) \subseteq Threads
  BY <1>0 DEF Listed
<1>11. Sorted(m'.wait_q[x], prio)
  <2>1. Sorted(m.wait_q[x], prio)
    BY <1>0, <1>8, <1>9, <1>10, SortedFrame
  <2>2. QED
    BY <1>0, <1>7, <1>8, <2>1, AddSorted
<1>12. \A u \in Members(m'.wait_q[x]) : u # o /\ prio[u] = m.prio[u] /\ prio[u] \in Int
  BY <1>1, <1>7, <1>8, <1>9, <1>10
<1>13. ASSUME CeilingOnTop
       PROVE  /\ prio[o] <= Base[o]
              /\ \A u \in Members(m'.wait_q[x]) : prio[o] <= prio[u]
              /\ Exact' => \/ prio[o] = Base[o]
                           \/ \E u \in Members(m'.wait_q[x]) : prio[o] = prio[u]
  <2>1. /\ m.prio[o] <= Base[o]
        /\ \A u \in Members(m.wait_q[x]) : m.prio[o] <= m.prio[u]
        /\ Exact => (m.prio[o] = Base[o] \/ \E u \in Members(m.wait_q[x]) : m.prio[o] = m.prio[u])
    BY <1>0, <1>1, <1>13 DEF Lent, o
  <2>2. prio[o] = Higher(m.prio[t], m.prio[o])
    BY <1>2, <1>3, <1>8, <1>13 DEF Higher
  <2>3. prio[o] <= Base[o] /\ \A u \in Members(m'.wait_q[x]) : prio[o] <= prio[u]
    BY <1>0, <1>1, <1>2, <1>7, <1>12, <2>1, <2>2 DEF Higher
  <2>4. Exact' => Exact
    BY DEF Exact, LockBusy
  <2>5. CASE prio[o] = m.prio[o]
    BY <1>7, <1>12, <2>1, <2>3, <2>4, <2>5
  <2>6. CASE prio[o] = m.prio[t]
    BY <1>1, <1>7, <1>8, <2>3, <2>6
  <2>7. QED
    BY <2>2, <2>5, <2>6 DEF Higher
<1>14. QED
  <2>1. \A y \in Mutexes : y = x
    BY DEF OneMutex
  <2>2. m'.owner[x] = o
    BY <1>7 DEF o
  <2>3. o \notin Members(m'.wait_q[x])
    BY <1>1, <1>7, <1>9
  <2>4. \A u \in Threads : o # u => prio[u] = Base[u]
    BY <1>8, <1>9
  <2>5. QED
    BY <1>7, <1>9, <1>11, <1>13, <2>1, <2>2, <2>3, <2>4 DEF Lent

(* k_mutex_unlock: the new owner is a best waiter, so it needs nothing of  *)
(* the ones left, and the old one gets its own priority back.              *)
LEMMA UnlockedLends ==
  ASSUME OneMutex, Parts, Lent(m, Exact), NEW t \in Threads, NEW x \in Mutexes
  PROVE  Lent(Unlocked(m, t, x), Exact)
<1> DEFINE n == Unlocked(m, t, x)
<1>0. /\ m \in MState /\ Listed(m) /\ m.prio \in [Threads -> Int] /\ m.prio \in [Threads -> Prios]
      /\ m.lock_count \in [Mutexes -> 0 .. MaxCount] /\ m.owner \in [Mutexes -> Threads \cup {NULL}]
      /\ m.owner_orig_prio \in [Mutexes -> Int] /\ Base \in [Threads -> Int]
      /\ m.wait_q \in [Objs -> Seq(Threads)] /\ NULL \notin Threads /\ x \in Objs
      /\ MaxCount \in Nat
  BY KMutexAssumption, PriosAreInts DEF Parts, MState, Objs
<1>1. \A y \in Mutexes : y = x
  BY DEF OneMutex
<1>2. CASE m.owner[x] # t
  BY <1>2 DEF Unlocked
<1>3. CASE m.owner[x] = t /\ m.lock_count[x] > 1
  <2>1. n = [m EXCEPT !.lock_count[x] = @ - 1]
    BY <1>3 DEF Unlocked
  <2> HIDE DEF n
  <2>2. /\ n.owner = m.owner /\ n.owner_orig_prio = m.owner_orig_prio /\ n.prio = m.prio
        /\ n.wait_q = m.wait_q
    BY <1>0, <2>1 DEF MState
  <2>3. QED
    BY <2>2, LentFrame DEF n, Exact
<1>4. CASE m.owner[x] = t /\ ~(m.lock_count[x] > 1)
  <2>0. n = Release(m, x) /\ m.owner_orig_prio[x] \in Prios
    BY <1>0, <1>4 DEF Unlocked, Parts, Accounts
  <2>1. /\ Sorted(m.wait_q[x], m.prio) /\ t \notin Members(m.wait_q[x])
        /\ \A u \in Threads : t # u => m.prio[u] = Base[u]
        /\ m.owner_orig_prio[x] = Base[t]
    BY <1>0, <1>4 DEF Lent
  <2>2. [m.prio EXCEPT ![m.owner[x]] = m.owner_orig_prio[x]] = Base
    BY <1>0, <1>4, <2>1
  <2> HIDE DEF n
  <2>3. CASE m.wait_q[x] = <<>>
    <3>1. n.owner = [m.owner EXCEPT ![x] = NULL] /\ n.prio = Base /\ n.wait_q = m.wait_q
      BY <1>0, <1>4, <2>0, <2>2, <2>3, ReleaseToNobody
    <3>2. n.owner[x] = NULL /\ n.wait_q[x] = <<>>
      BY <1>0, <2>3, <3>1
    <3>3. Members(n.wait_q[x]) = {} /\ Sorted(n.wait_q[x], Base)
      BY <3>2 DEF Members, Sorted
    <3>4. QED
      BY <1>0, <1>1, <3>1, <3>2, <3>3 DEF Lent, n
  <2>4. CASE m.wait_q[x] # <<>>
    <3> DEFINE h == Head(m.wait_q[x])
    <3>1. HandedOver(n, m, x)
      BY <1>0, <1>4, <2>0, <2>4, ReleaseToHead
    <3>2. /\ h \in Threads /\ n.owner = [m.owner EXCEPT ![x] = h] /\ n.prio = Base
          /\ n.owner_orig_prio = [m.owner_orig_prio EXCEPT ![x] = Base[h]]
          /\ n.wait_q = [m.wait_q EXCEPT ![x] = z_priq_dumb_remove(@, h)]
          /\ Members(n.wait_q[x]) = Members(m.wait_q[x]) \ {h}
      BY <2>2, <3>1 DEF HandedOver
    <3>3. Members(m.wait_q[x]) \subseteq Threads /\ m.wait_q[x] \in Seq(Threads)
      BY <1>0 DEF Listed
    <3>4. Sorted(m.wait_q[x], Base)
      BY <2>1, <3>3, SortedFrame
    <3>5. \A u \in Members(m.wait_q[x]) : Base[h] <= Base[u]
      BY <1>0, <2>4, <3>3, <3>4, HeadIsBest
    <3>6. Sorted(z_priq_dumb_remove(m.wait_q[x], h), Base)
      BY <1>0, <3>2, <3>3, <3>4, RemoveSpec DEF Listed
    <3> HIDE DEF h
    <3>7. /\ n.owner[x] = h /\ n.owner_orig_prio[x] = Base[h]
          /\ n.wait_q[x] = z_priq_dumb_remove(m.wait_q[x], h)
      BY <1>0, <3>2
    <3>8. Base[h] <= Base[h] /\ h # NULL
      BY <1>0, <3>2
    <3>9. QED
      BY <1>1, <3>2, <3>5, <3>6, <3>7, <3>8 DEF Lent, n
  <2>5. QED
    BY <2>3, <2>4
<1>5. QED
  BY <1>2, <1>3, <1>4

(* A waiter's timeout takes it off its queue; what it lent is not yet      *)
(* taken back.                                                             *)
LEMMA ExpireLends ==
  ASSUME OneMutex, Parts, Lent(m, Exact), NEW t \in Threads, Expire(t)
  PROVE  Lent(m, Exact)'
<1> DEFINE q == m.pended_on[t]
<1>0. /\ m \in MState /\ Listed(m) /\ m.prio \in [Threads -> Int]
      /\ q # NULL /\ q \in Objs /\ m.wait_q \in [Objs -> Seq(Threads)]
      /\ pc \in [Threads -> {"idle", "pended", "timedout", "relock"}]
      /\ q \in Mutexes \/ q \in Condvars
      /\ ~ (q \in Mutexes /\ q \in Condvars)
  BY KMutexAssumption, PriosAreInts DEF Expire, Parts, CallsAgree, MState, Objs
<1>1. Unpended(m', m, t)
  BY <1>0, UnpendSpec DEF Expire
<1>2. /\ m'.owner = m.owner /\ m'.owner_orig_prio = m.owner_orig_prio /\ m'.prio = m.prio
      /\ m'.wait_q = [m.wait_q EXCEPT ![q] = z_priq_dumb_remove(@, t)]
      /\ Members(m'.wait_q[q]) = Members(m.wait_q[q]) \ {t}
  BY <1>1 DEF Unpended
<1>3. pc' = [pc EXCEPT ![t] = IF q \in Condvars THEN "relock" ELSE "timedout"]
  BY DEF Expire
<1> HIDE DEF q
<1>4. CASE q \in Mutexes
  <2>1. ~Exact'
    BY <1>0, <1>3, <1>4 DEF Exact
  <2>2. \A y \in Mutexes : y = q
    BY <1>4 DEF OneMutex
  <2>3. /\ Sorted(m.wait_q[q], m.prio) /\ m.owner[q] \notin Members(m.wait_q[q])
    BY <1>4 DEF Lent
  <2>4. m'.wait_q[q] = z_priq_dumb_remove(m.wait_q[q], t)
    BY <1>0, <1>2
  <2>5. Sorted(m'.wait_q[q], m.prio)
    BY <1>0, <2>3, <2>4, RemoveSpec DEF Listed
  <2>6. QED
    BY <1>2, <1>4, <2>1, <2>2, <2>5 DEF Lent
<1>5. CASE q \notin Mutexes
  <2>1. \A y \in Mutexes : m'.wait_q[y] = m.wait_q[y]
    BY <1>0, <1>2, <1>5 DEF Objs
  <2>2. Exact' => Exact
    BY <1>0, <1>3, <1>5 DEF Exact, Expire
  <2>3. QED
    BY <1>2, <2>1, <2>2 DEF Lent
<1>6. QED
  BY <1>4, <1>5

(* When the call of a waiter that timed out finishes, the owner has        *)
(* exactly what the others lend it.                                        *)
LEMMA TimedOutLends ==
  ASSUME OneMutex, Parts, Lent(m, Exact), NEW t \in Threads, LockTimedOut(t)
  PROVE  Lent(m, Exact)'
<1> DEFINE x == rest[t]
           o == m.owner[x]
           h == Head(m.wait_q[x])
           orig == m.owner_orig_prio[x]
           p == IF m.wait_q[x] # <<>>
                THEN new_prio_for_inheritance(m.prio[h], orig)
                ELSE orig
<1>0. /\ m \in MState /\ Listed(m) /\ m.prio \in [Threads -> Int] /\ m.prio \in [Threads -> Prios]
      /\ x \in Mutexes /\ x \in Objs /\ m.wait_q[x] \in Seq(Threads)
      /\ m.owner \in [Mutexes -> Threads \cup {NULL}]
      /\ Base \in [Threads -> Int] /\ NULL \notin Threads
  BY KMutexAssumption, PriosAreInts DEF LockTimedOut, Parts, CallsAgree, MState, Objs
<1>1. m' = IF o # NULL THEN adjust_owner_prio(m, x, p) ELSE m
  BY DEF LockTimedOut
<1>2. \A y \in Mutexes : y = x
  BY <1>0 DEF OneMutex
<1>3. CASE o = NULL
  <2>1. m' = m
    BY <1>1, <1>3
  <2>2. QED
    BY <1>2, <1>3, <2>1 DEF Lent
<1>4. CASE o # NULL
  <2>1. o \in Threads /\ orig \in Prios
    BY <1>0, <1>4 DEF Parts, Accounts
  <2>2. m.wait_q[x] # <<>> => h \in Threads /\ m.prio[h] \in Prios /\ h \in Members(m.wait_q[x])
    BY <1>0, HeadLinked
  <2>3. p \in Prios
    BY <2>1, <2>2, InheritedPrio
  <2>4. /\ Sorted(m.wait_q[x], m.prio) /\ o \notin Members(m.wait_q[x])
        /\ \A u \in Threads : o # u => m.prio[u] = Base[u]
        /\ orig = Base[o]
    BY <1>0, <1>4 DEF Lent
  <2>5. CeilingOnTop => p = IF m.wait_q[x] # <<>> THEN Higher(m.prio[h], Base[o]) ELSE Base[o]
    BY <2>1, <2>2, <2>4, InheritedBest
  <2>6. m.wait_q[x] # <<>> => \A u \in Members(m.wait_q[x]) : m.prio[h] <= m.prio[u]
    BY <1>0, <2>4, HeadIsBest
  <2>7. Members(m.wait_q[x]) \subseteq Threads /\ (m.wait_q[x] = <<>> => Members(m.wait_q[x]) = {})
    BY <1>0, MembersEmpty DEF Listed
  <2> HIDE DEF p, h, o, x, orig
  <2>8. /\ m'.owner = m.owner /\ m'.owner_orig_prio = m.owner_orig_prio /\ m'.wait_q = m.wait_q
        /\ m'.prio = [m.prio EXCEPT ![o] = p]
    BY <1>0, <1>1, <1>4, <2>1, <2>3, AdjustSpec DEF o
  <2>9. m'.prio[o] = p /\ \A u \in Threads : u # o => m'.prio[u] = m.prio[u]
    BY <1>0, <2>1, <2>8
  <2>10. Sorted(m'.wait_q[x], m'.prio)
    BY <1>0, <2>4, <2>7, <2>8, <2>9, SortedFrame
  <2>11. ASSUME CeilingOnTop
         PROVE  /\ p <= Base[o] /\ \A u \in Members(m.wait_q[x]) : p <= m.prio[u]
                /\ p = Base[o] \/ \E u \in Members(m.wait_q[x]) : p = m.prio[u]
    <3>1. Base[o] \in Int /\ \A u \in Threads : m.prio[u] \in Int
      BY <1>0, <2>1
    <3>2. CASE m.wait_q[x] = <<>>
      BY <2>5, <2>7, <2>11, <3>1, <3>2
    <3>3. CASE m.wait_q[x] # <<>>
      <4>1. p = Higher(m.prio[h], Base[o])
        BY <2>5, <2>11, <3>3
      <4>2. QED
        BY <2>2, <2>6, <2>7, <3>1, <3>3, <4>1 DEF Higher
    <3>4. QED
      BY <3>2, <3>3
  <2>12. \A u \in Members(m.wait_q[x]) : u # o /\ m'.prio[u] = m.prio[u]
    BY <2>4, <2>7, <2>9
  <2>13. m'.owner[x] = o /\ m'.owner_orig_prio[x] = Base[o]
    BY <2>4, <2>8 DEF o, orig
  <2>14. QED
    BY <1>2, <2>4, <2>8, <2>9, <2>10, <2>11, <2>12, <2>13 DEF Lent
<1>5. QED
  BY <1>3, <1>4

LEMMA NextLends == OneMutex /\ Parts /\ Lent(m, Exact) /\ [Next]_vars => Lent(m, Exact)'
<1> SUFFICES ASSUME OneMutex, Parts, Lent(m, Exact), [Next]_vars PROVE Lent(m, Exact)'
  OBVIOUS
<1>0. /\ m \in MState /\ Listed(m) /\ m.wait_q \in [Objs -> Seq(Threads)]
      /\ m.pended_on \in [Threads -> Objs \cup {NULL}]
      /\ \A q \in Objs : q # NULL
      /\ Mutexes \subseteq Objs /\ Condvars \subseteq Objs /\ Mutexes \cap Condvars = {}
  BY KMutexAssumption DEF Parts, MState, Objs
<1>1. CASE UNCHANGED vars
  BY <1>1 DEF vars, Exact, Lent
<1>2. ASSUME NEW t \in Threads, NEW x \in Mutexes, NEW forever \in BOOLEAN,
             k_mutex_lock(t, x, forever)
      PROVE  Lent(m, Exact)'
  BY <1>2, LockFreeLends, LockBusyLends DEF k_mutex_lock
<1>3. ASSUME NEW t \in Threads, CondvarRelock(t) PROVE Lent(m, Exact)'
  <2>1. rest[t] \in Mutexes /\ pc[t] = "relock"
    BY <1>3 DEF CondvarRelock, Parts, CallsAgree
  <2>2. QED
    BY <1>3, <2>1, LockFreeLends, LockBusyLends DEF CondvarRelock
<1>i. IInv
  BY PartsAreIInv
<1>g. ASSUME NEW t \in Threads, NEW x \in Mutexes, pc[t] = "idle", NEW u \in Granted(t, x)
      PROVE  pc[u] # "timedout"
  <2>1. u \in Threads /\ m.pended_on[u] = x /\ x # NULL
    BY <1>0, <1>g, <1>i, UnlockedSpec
  <2>2. QED
    BY <2>1 DEF Parts, CallsAgree
<1>4. ASSUME NEW t \in Threads, NEW x \in Mutexes, k_mutex_unlock(t, x)
      PROVE  Lent(m, Exact)'
  <2>1. m' = Unlocked(m, t, x)
    BY <1>4 DEF k_mutex_unlock
  <2>2. Exact' => Exact
    BY <1>4, <1>g DEF Exact, k_mutex_unlock
  <2>3. QED
    BY <2>1, <2>2, UnlockedLends DEF Lent
<1>5. ASSUME NEW t \in Threads, NEW cv \in Condvars, NEW x \in Mutexes,
             NEW forever \in BOOLEAN, k_condvar_wait(t, cv, x, forever)
      PROVE  Lent(m, Exact)'
  <2> DEFINE n == Unlocked(m, t, x)
  <2>1. pc[t] = "idle" /\ m' = Pend(n, t, cv, forever)
    BY <1>5 DEF k_condvar_wait
  <2>2. /\ n \in MState /\ Listed(n)
        /\ n.pended_on = [u \in Threads |-> IF u \in Granted(t, x) THEN NULL ELSE m.pended_on[u]]
    BY <1>i, <2>1, UnlockedSpec
  <2>3. Lent(n, Exact)
    BY UnlockedLends
  <2> HIDE DEF n
  <2>4. n.pended_on[t] = NULL
    BY <2>1, <2>2 DEF Parts, CallsAgree
  <2>5. Pended(m', n, t, cv, forever)
    BY <1>0, <2>1, <2>2, <2>4, PendSpec
  <2>6. /\ m'.owner = n.owner /\ m'.owner_orig_prio = n.owner_orig_prio /\ m'.prio = n.prio
        /\ \A y \in Mutexes : m'.wait_q[y] = n.wait_q[y]
    BY <1>0, <2>2, <2>5 DEF Pended, MState
  <2>7. Exact' => Exact
    BY <1>5, <1>g, <2>1 DEF Exact, k_condvar_wait
  <2>8. QED
    BY <2>3, <2>6, <2>7 DEF Lent
<1>6. ASSUME NEW t \in Threads, NEW cv \in Condvars, k_condvar_signal(t, cv)
      PROVE  Lent(m, Exact)'
  <2> DEFINE u == Head(m.wait_q[cv])
  <2>1. u \in Threads /\ m.pended_on[u] = cv /\ cv \notin Mutexes
    BY <1>0, <1>6, HeadLinked DEF k_condvar_signal, Listed
  <2>2. m' = Unpend(m, u) /\ pc' = [pc EXCEPT ![u] = "relock"]
    BY <1>6 DEF k_condvar_signal
  <2> HIDE DEF u
  <2>3. Unpended(m', m, u)
    BY <1>0, <2>1, <2>2, UnpendSpec
  <2>4. /\ m'.owner = m.owner /\ m'.owner_orig_prio = m.owner_orig_prio /\ m'.prio = m.prio
        /\ \A y \in Mutexes : m'.wait_q[y] = m.wait_q[y]
    BY <1>0, <2>1, <2>3 DEF Unpended
  <2>5. Exact' => Exact
    BY <1>0, <2>1, <2>2 DEF Exact, Parts, CallsAgree
  <2>6. QED
    BY <2>4, <2>5 DEF Lent
<1>7. ASSUME NEW t \in Threads, NEW cv \in Condvars, k_condvar_broadcast(t, cv)
      PROVE  Lent(m, Exact)'
  <2> DEFINE woken == Members(m.wait_q[cv])
  <2>1. m' = [m EXCEPT !.wait_q[cv] = <<>>,
                !.pended_on = [u \in Threads |-> IF u \in woken THEN NULL ELSE @[u]],
                !.timed = [u \in Threads |-> @[u] /\ u \notin woken]]
    BY <1>7 DEF k_condvar_broadcast
  <2>2. /\ m'.owner = m.owner /\ m'.owner_orig_prio = m.owner_orig_prio /\ m'.prio = m.prio
        /\ m'.wait_q = [m.wait_q EXCEPT ![cv] = <<>>]
    BY <1>0, <2>1 DEF MState
  <2>3. \A y \in Mutexes : m'.wait_q[y] = m.wait_q[y]
    BY <1>0, <2>2
  <2>4. \A u \in woken : u \in Threads /\ pc[u] = "pended"
    BY <1>0 DEF Listed, Parts, CallsAgree
  <2>5. Exact' => Exact
    BY <1>7, <2>4 DEF Exact, k_condvar_broadcast
  <2>6. QED
    BY <2>2, <2>3, <2>5 DEF Lent
<1>8. QED
  BY <1>1, <1>2, <1>3, <1>4, <1>5, <1>6, <1>7, ExpireLends, TimedOutLends DEF Next

LEMMA MutexLends ==
  ASSUME OneMutex
  PROVE  Spec => [](Parts /\ Lent(m, Exact))
<1>1. Init => Lent(m, Exact)
  <2>1. ASSUME NEW x \in Mutexes, Init
        PROVE  m.owner[x] = NULL /\ m.wait_q[x] = <<>> /\ m.prio = Base
    BY <2>1 DEF Init, Objs
  <2>2. Members(<<>>) = {} /\ Sorted(<<>>, Base)
    BY DEF Members, Sorted
  <2>3. QED
    BY <2>1, <2>2, KMutexAssumption DEF Lent
<1>2. QED
  BY <1>1, InitParts, NextParts, NextLends, PTL DEF Spec

(* Waiters are on exactly the queue of what they wait for, and the order   *)
(* that mutex.c relies on at a hand-over holds: the owner's priority       *)
(* changes while it is in no queue.  For one mutex, whatever the ceiling.  *)
THEOREM MutexWaiters ==
  ASSUME OneMutex
  PROVE  Spec => []WaitInv
<1>1. Parts /\ Lent(m, Exact) => WaitInv
  BY PartsAreIInv DEF IInv, WaitInv, Lent
<1>2. QED
  BY <1>1, MutexLends, PTL

(* What the waiters justify is the best of their priorities and the        *)
(* owner's own: the minimum exists because the queue's head is a best one. *)
LEMMA JustifiedSpec ==
  ASSUME Parts, Lent(m, Exact), NEW x \in Mutexes, m.owner[x] # NULL
  PROVE  LET j == Justified(x)
             orig == m.owner_orig_prio[x]
             waiting == Members(m.wait_q[x])
         IN  /\ j = orig \/ \E u \in waiting : j = m.prio[u]
             /\ j <= orig /\ \A u \in waiting : j <= m.prio[u]
<1> DEFINE waiting == Members(m.wait_q[x])
           orig == m.owner_orig_prio[x]
           ps == {m.prio[t] : t \in waiting} \cup {orig}
           h == Head(m.wait_q[x])
<1>1. /\ m.wait_q[x] \in Seq(Threads) /\ m.prio \in [Threads -> Int] /\ orig \in Int
      /\ Members(m.wait_q[x]) \subseteq Threads
  BY PriosAreInts DEF Parts, MState, Objs, Listed
<1>2. Justified(x) = CHOOSE p \in ps : \A p2 \in ps : p <= p2
  BY DEF Justified
<1>3. \A p : p \in ps <=> p = orig \/ \E u \in waiting : p = m.prio[u]
  OBVIOUS
<1>4. waiting = {} \/ (h \in waiting /\ \A u \in waiting : m.prio[h] <= m.prio[u])
  <2>1. CASE m.wait_q[x] = <<>>
    BY <2>1 DEF Members
  <2>2. CASE m.wait_q[x] # <<>>
    BY <1>1, <2>2, HeadIsBest DEF Lent
  <2>3. QED
    BY <2>1, <2>2
<1>5. /\ orig \in Int /\ \A u \in waiting : m.prio[u] \in Int
  BY <1>1
<1> HIDE DEF ps, waiting, orig, h
<1>6. \E p \in ps : \A p2 \in ps : p <= p2
  <2>1. CASE waiting = {}
    <3>1. \A p2 \in ps : p2 = orig
      BY <1>3, <2>1
    <3>2. orig \in ps /\ orig <= orig
      BY <1>3, <1>5
    <3>3. QED
      BY <3>1, <3>2
  <2>2. CASE h \in waiting /\ \A u \in waiting : m.prio[h] <= m.prio[u]
    <3>1. CASE m.prio[h] <= orig
      <4>1. m.prio[h] \in ps /\ \A p2 \in ps : m.prio[h] <= p2
        BY <1>3, <2>2, <3>1
      <4>2. QED
        BY <4>1
    <3>2. CASE ~(m.prio[h] <= orig)
      <4>1. \A u \in waiting : orig <= m.prio[u]
        BY <1>5, <2>2, <3>2
      <4>2. orig \in ps /\ \A p2 \in ps : orig <= p2
        BY <1>3, <1>5, <4>1
      <4>3. QED
        BY <4>2
    <3>3. QED
      BY <3>1, <3>2
  <2>3. QED
    BY <1>4, <2>1, <2>2
<1>7. Justified(x) \in ps /\ \A p \in ps : Justified(x) <= p
  BY <1>2, <1>6
<1>8. QED
  BY <1>3, <1>7 DEF waiting, orig

(* Priority inheritance is exact (the head of mutex.c): the owner has the  *)
(* best priority of its waiters and itself while no call that timed out is *)
(* unfinished, and never less; everybody else has its own.                 *)
THEOREM MutexExactBoost ==
  ASSUME OneMutex, CeilingOnTop
  PROVE  Spec => []ExactBoost
<1>1. ASSUME Parts, Lent(m, Exact) PROVE ExactBoost
  <2>1. ASSUME NEW x \in Mutexes, m.owner[x] # NULL
        PROVE  /\ m.prio[m.owner[x]] <= Justified(x)
               /\ Exact => m.prio[m.owner[x]] = Justified(x)
               /\ m.owner_orig_prio[x] = Base[m.owner[x]]
    <3> DEFINE o == m.owner[x]
               waiting == Members(m.wait_q[x])
               j == Justified(x)
    <3>1. /\ m.owner_orig_prio[x] = Base[o] /\ m.prio[o] <= Base[o]
          /\ \A u \in waiting : m.prio[o] <= m.prio[u]
          /\ Exact => m.prio[o] = Base[o] \/ \E u \in waiting : m.prio[o] = m.prio[u]
      BY <1>1, <2>1 DEF Lent
    <3>2. /\ j = Base[o] \/ \E u \in waiting : j = m.prio[u]
          /\ j <= Base[o] /\ \A u \in waiting : j <= m.prio[u]
      BY <1>1, <2>1, <3>1, JustifiedSpec
    <3>3. /\ o \in Threads /\ Base \in [Threads -> Int] /\ m.prio \in [Threads -> Int]
          /\ waiting \subseteq Threads
      <4>1. /\ m \in MState /\ Listed(m) /\ x \in Objs
        BY <1>1 DEF Parts, Objs
      <4>2. o \in Threads /\ m.prio \in [Threads -> Int]
        BY <2>1, <4>1, PriosAreInts DEF MState
      <4>3. waiting \subseteq Threads
        BY <4>1 DEF Listed
      <4>4. QED
        BY <4>2, <4>3, KMutexAssumption
    <3> HIDE DEF o, waiting, j
    <3>4. j \in Int /\ m.prio[o] \in Int
      BY <3>2, <3>3
    <3>5. m.prio[o] <= j
      BY <3>1, <3>2, <3>3
    <3>6. Exact => j <= m.prio[o]
      BY <3>1, <3>2
    <3>7. QED
      BY <3>1, <3>4, <3>5, <3>6 DEF o, j
  <2>2. QED
    BY <1>1, <2>1 DEF ExactBoost, Exact, Lent
<1>2. QED
  BY <1>1, MutexLends, PTL
=============================================================================
