----------------------------- MODULE SchedProofs -----------------------------
(***************************************************************************)
(* Proofs about the thread scheduler, for any number of threads and wait   *)
(* queues and any priorities.                                              *)
(***************************************************************************)
EXTENDS Sched, PriQProofs

(* The inductive invariant, in parts about a scheduler state s so that     *)
(* they can be stated of the states inside a critical section.  A thread   *)
(* is held by a bit that prevents it from running, able without one and    *)
(* without a timeout, and lost if it is able and not queued.               *)
Held(s, t) == s.state[t] \cap Preventing # {}
Queued(s, t) == "QUEUED" \in s.state[t]
Able(s, t) == ~Held(s, t) /\ ~s.timeout[t]
Lost(s, t) == Able(s, t) /\ ~Queued(s, t)

(* The lists are well linked and say what the threads say.                 *)
Links(s) ==
  /\ s \in KernelState
  /\ Distinct(s.runq) /\ Members(s.runq) = {t \in Threads : Queued(s, t)}
  /\ \A w \in WaitQs : /\ Distinct(s.waitq[w])
                       /\ Members(s.waitq[w]) = {t \in Threads : s.pended_on[t] = w}

(* The bits of a thread agree.                                             *)
BitsAgree(s, t) ==
  /\ "PENDING" \in s.state[t] <=> s.pended_on[t] # NULL
  /\ Queued(s, t) => ~Held(s, t)
  /\ "DEAD" \in s.state[t] => "PENDING" \notin s.state[t] /\ ~s.timeout[t]

Sound(s) == Links(s) /\ \A t \in Threads : BitsAgree(s, t)

(* What changes from s to n is about threads in T.  odd is FALSE except    *)
(* where a node may be unlinked that is not linked, or a priority changed  *)
(* under a list.                                                           *)
Only(n, s, T, odd) ==
  /\ \A u \in Threads \ T : /\ n.state[u] = s.state[u] /\ n.timeout[u] = s.timeout[u]
                            /\ n.pended_on[u] = s.pended_on[u] /\ n.prio[u] = s.prio[u]
                            /\ n.retval[u] = s.retval[u]
  /\ n.current = s.current /\ n.sched_locked = s.sched_locked
  /\ ~odd => /\ n.corrupt => s.corrupt
             /\ Sorted(s.runq, s.prio) => Sorted(n.runq, n.prio)

(* The fields of t that a step leaves alone.                               *)
SameWait(n, s, t) == n.timeout[t] = s.timeout[t] /\ n.pended_on[t] = s.pended_on[t]
SameOwn(n, s, t) == n.prio[t] = s.prio[t] /\ n.retval[t] = s.retval[t]

-----------------------------------------------------------------------------
LEMMA ThreadFacts ==
  /\ \A t \in Threads : /\ t # Idle /\ t # NULL /\ t # SliceTimer
                        /\ t \in WaitQs /\ t \notin Objs
  /\ \A w \in WaitQs : w # NULL
  /\ Objs \subseteq WaitQs
BY SchedAssumption DEF WaitQs

LEMMA PredicateFacts ==
  ASSUME NEW s, NEW t \in Threads
  PROVE  /\ z_is_thread_prevented_from_running(s, t) <=> Held(s, t)
         /\ z_is_thread_ready(s, t) <=> Able(s, t)
         /\ z_is_thread_queued(s, t) <=> Queued(s, t)
BY ThreadFacts DEF z_is_thread_prevented_from_running, z_is_thread_ready, z_is_thread_queued,
                   z_is_thread_timeout_active, Held, Able, Queued

LEMMA OnlyTransitive ==
  ASSUME NEW s, NEW m, NEW n, NEW T, NEW odd, Only(m, s, T, odd), Only(n, m, T, odd)
  PROVE  Only(n, s, T, odd)
BY DEF Only

LEMMA OnlyMore ==
  ASSUME NEW s, NEW n, NEW T, NEW U, T \subseteq U, NEW odd, Only(n, s, T, FALSE)
  PROVE  Only(n, s, U, odd)
BY DEF Only

LEMMA OnlySame ==
  ASSUME NEW s, NEW T, NEW odd
  PROVE  Only(s, s, T, odd)
BY DEF Only

(* Linking and unlinking on the run queue.                                 *)
Enqueues(n, s, t) ==
  /\ Links(n) /\ Only(n, s, {t}, FALSE) /\ SameWait(n, s, t) /\ SameOwn(n, s, t)
  /\ n.state[t] = s.state[t] \cup {"QUEUED"}

LEMMA QueueSpec ==
  ASSUME NEW s, Links(s), NEW t \in Threads, ~Queued(s, t)
  PROVE  Enqueues(queue_thread(s, t), s, t)
<1> DEFINE n == queue_thread(s, t)
           list == z_priq_dumb_add(s.runq, t, s.prio)
           bits == s.state[t] \cup {"QUEUED"}
<1>0. /\ s \in KernelState /\ s.runq \in Seq(Threads) /\ s.prio \in [Threads -> Int]
      /\ Distinct(s.runq) /\ t \notin Members(s.runq)
  BY DEF Links, KernelState
<1>1. /\ list \in Seq(Threads) /\ Distinct(list) /\ Members(list) = Members(s.runq) \cup {t}
      /\ Sorted(s.runq, s.prio) => Sorted(list, s.prio)
  BY <1>0, AddLinks, AddSpec
<1>2. n = [s EXCEPT !.state[t] = bits, !.runq = list]
  BY <1>0 DEF queue_thread, KernelState
<1>3. bits \in SUBSET StateBits
  BY <1>0 DEF KernelState, StateBits
<1> HIDE DEF n, list, bits
<1>4. n \in KernelState
  <2>1. [s.state EXCEPT ![t] = bits] \in [Threads -> SUBSET StateBits]
    BY <1>0, <1>3 DEF KernelState
  <2>2. QED
    BY <1>0, <1>1, <1>2, <2>1 DEF KernelState
<1>5. /\ n.state = [s.state EXCEPT ![t] = bits] /\ n.runq = list /\ n.prio = s.prio
      /\ n.timeout = s.timeout /\ n.pended_on = s.pended_on /\ n.waitq = s.waitq
      /\ n.retval = s.retval /\ n.current = s.current /\ n.sched_locked = s.sched_locked
      /\ n.corrupt = s.corrupt
  BY <1>0, <1>2 DEF KernelState
<1>6. n.state[t] = bits /\ \A u \in Threads \ {t} : n.state[u] = s.state[u]
  BY <1>0, <1>5 DEF KernelState
<1>7. \A u \in Threads : Queued(n, u) <=> Queued(s, u) \/ u = t
  BY <1>6 DEF Queued, bits
<1>8. Links(n)
  BY <1>1, <1>4, <1>5, <1>7 DEF Links
<1>9. Only(n, s, {t}, FALSE)
  BY <1>1, <1>5, <1>6 DEF Only
<1>10. QED
  BY <1>5, <1>6, <1>8, <1>9 DEF Enqueues, SameWait, SameOwn, n, bits

Dequeues(n, s, t, odd) ==
  /\ Links(n) /\ Only(n, s, {t}, odd) /\ SameWait(n, s, t) /\ SameOwn(n, s, t)
  /\ n.state[t] = s.state[t] \ {"QUEUED"}

(* Nothing is corrupted by unlinking a thread that is linked.              *)
LEMMA DequeueSpec ==
  ASSUME NEW s, Links(s), NEW t \in Threads
  PROVE  /\ Dequeues(dequeue_thread(s, t), s, t, ~Queued(s, t))
         /\ Queued(s, t) => Dequeues(dequeue_thread(s, t), s, t, FALSE)
<1> DEFINE n == dequeue_thread(s, t)
           list == z_priq_dumb_remove(s.runq, t)
           bits == s.state[t] \ {"QUEUED"}
           broken == s.corrupt \/ t \notin Members(s.runq)
<1>0. /\ s \in KernelState /\ s.runq \in Seq(Threads) /\ s.prio \in [Threads -> Int]
      /\ Distinct(s.runq) /\ (t \in Members(s.runq) <=> Queued(s, t))
  BY DEF Links, KernelState
<1>1. /\ list \in Seq(Threads) /\ Distinct(list) /\ Members(list) = Members(s.runq) \ {t}
      /\ Sorted(s.runq, s.prio) => Sorted(list, s.prio)
  BY <1>0, RemoveLinks, RemoveSpec
<1>2. n = [s EXCEPT !.state[t] = bits, !.corrupt = broken, !.runq = list]
  BY <1>0 DEF dequeue_thread, KernelState
<1>3. bits \in SUBSET StateBits /\ broken \in BOOLEAN
  BY <1>0 DEF KernelState
<1>b. Queued(s, t) => (broken <=> s.corrupt)
  BY <1>0
<1> HIDE DEF n, list, bits, broken
<1>4. n \in KernelState
  <2>1. [s.state EXCEPT ![t] = bits] \in [Threads -> SUBSET StateBits]
    BY <1>0, <1>3 DEF KernelState
  <2>2. QED
    BY <1>0, <1>1, <1>2, <1>3, <2>1 DEF KernelState
<1>5. /\ n.state = [s.state EXCEPT ![t] = bits] /\ n.runq = list /\ n.prio = s.prio
      /\ n.timeout = s.timeout /\ n.pended_on = s.pended_on /\ n.waitq = s.waitq
      /\ n.retval = s.retval /\ n.current = s.current /\ n.sched_locked = s.sched_locked
      /\ n.corrupt = broken
  BY <1>0, <1>2 DEF KernelState
<1>6. n.state[t] = bits /\ \A u \in Threads \ {t} : n.state[u] = s.state[u]
  BY <1>0, <1>5 DEF KernelState
<1>7. \A u \in Threads : Queued(n, u) <=> Queued(s, u) /\ u # t
  BY <1>6 DEF Queued, bits
<1>8. Links(n)
  BY <1>1, <1>4, <1>5, <1>7 DEF Links
<1>9. Only(n, s, {t}, ~Queued(s, t)) /\ (Queued(s, t) => Only(n, s, {t}, FALSE))
  BY <1>1, <1>5, <1>6, <1>b DEF Only
<1>10. QED
  BY <1>5, <1>6, <1>8, <1>9 DEF Dequeues, SameWait, SameOwn, n, bits

LEMMA DequeueIfSpec ==
  ASSUME NEW s, Links(s), NEW t \in Threads
  PROVE  Dequeues(DequeueIfQueued(s, t), s, t, FALSE)
<1>1. CASE Queued(s, t)
  BY <1>1, DequeueSpec, PredicateFacts DEF DequeueIfQueued
<1>2. CASE ~Queued(s, t)
  <2>1. DequeueIfQueued(s, t) = s
    BY <1>2, PredicateFacts DEF DequeueIfQueued
  <2>2. s.state[t] = s.state[t] \ {"QUEUED"}
    BY <1>2 DEF Queued
  <2>3. QED
    BY <2>1, <2>2, OnlySame DEF Dequeues, SameWait, SameOwn
<1>3. QED
  BY <1>1, <1>2

-----------------------------------------------------------------------------
(* The thread to be switched to is not held; and it is the best queued     *)
(* one, or _current kept on the CPU.                                       *)
CacheRuns(s) == s.cache # Idle => ~Held(s, s.cache)

Chosen(s) ==
  \/ s.cache = next_up(s)
  \/ /\ s.cache = s.current /\ s.current # Idle /\ ~Held(s, s.current)
     /\ ~thread_is_preemptible(s, s.current)

(* A linked list of threads: no queued thread is held.                     *)
QueuedRuns(s) == \A t \in Threads : Queued(s, t) => ~Held(s, t)

(* n is s with the cache looked at again.                                  *)
Recaches(n, s, ok) ==
  /\ Links(n) /\ Only(n, s, {}, FALSE) /\ n.runq = s.runq /\ n.waitq = s.waitq
  /\ n.slicing = s.slicing
  /\ CacheRuns(n) /\ Chosen(n)
  /\ ok => n.cache = next_up(n)
  /\ n.cache \in {s.current, next_up(s)}
  /\ n.cache # s.current =>
       \/ ok \/ thread_is_preemptible(s, s.current)
       \/ s.current # Idle /\ Held(s, s.current)
       \/ next_up(s) # Idle /\ s.timeout[next_up(s)]

LEMMA NextUpFacts ==
  ASSUME NEW s, Links(s)
  PROVE  /\ next_up(s) = Idle \/ (next_up(s) \in Threads /\ Queued(s, next_up(s)))
         /\ next_up(s) = Idle <=> s.runq = <<>>
<1>1. s.runq \in Seq(Threads)
  BY DEF Links, KernelState
<1>2. CASE s.runq = <<>>
  BY <1>2 DEF next_up
<1>3. CASE s.runq # <<>>
  BY <1>1, <1>3, HeadLinked, ThreadFacts DEF next_up, Links
<1>4. QED
  BY <1>2, <1>3

LEMMA UpdateCacheSpec ==
  ASSUME NEW s, Links(s), QueuedRuns(s), NEW ok \in BOOLEAN
  PROVE  Recaches(update_cache(s, ok), s, ok)
<1> DEFINE th == next_up(s)
           pre == should_preempt(s, th, ok)
           n == update_cache(s, ok)
           picked == IF pre THEN th ELSE s.current
           expired == IF pre /\ th # s.current THEN FALSE ELSE s.slice_expired
           armed == IF pre /\ th # s.current THEN thread_is_sliceable(s, th) ELSE s.slice_timeout
<1>0. s \in KernelState /\ s.current \in Threads \cup {Idle}
      /\ s.slice_expired \in BOOLEAN /\ s.slice_timeout \in BOOLEAN
  BY DEF Links, KernelState
<1>1. th = Idle \/ (th \in Threads /\ Queued(s, th) /\ ~Held(s, th))
  BY NextUpFacts DEF QueuedRuns
<1>2. n = [s EXCEPT !.cache = picked, !.slice_expired = expired, !.slice_timeout = armed]
  BY <1>0 DEF update_cache, z_reset_time_slice, KernelState
<1>3. picked \in Threads \cup {Idle} /\ expired \in BOOLEAN /\ armed \in BOOLEAN
  <2>1. thread_is_sliceable(s, th) \in BOOLEAN
    BY DEF thread_is_sliceable
  <2>2. QED
    BY <1>0, <1>1, <2>1
<1>4. ~pre => /\ s.current # Idle /\ ~Held(s, s.current) /\ ~ok
              /\ ~thread_is_preemptible(s, s.current)
  <2>1. ~pre => s.current # Idle
    BY DEF should_preempt, thread_is_preemptible
  <2>2. QED
    BY <2>1, <1>0, PredicateFacts DEF should_preempt
<1>5. pre => \/ ok \/ thread_is_preemptible(s, s.current)
             \/ s.current # Idle /\ Held(s, s.current)
             \/ th # Idle /\ s.timeout[th]
  BY <1>0, PredicateFacts DEF should_preempt, z_is_thread_timeout_active,
                              z_is_thread_prevented_from_running
<1>6. picked = th \/ (picked = s.current /\ ~pre)
  OBVIOUS
<1>7. picked # s.current => pre
  OBVIOUS
<1>8. ok => pre
  BY DEF should_preempt
<1>9. pre => picked = th
  OBVIOUS
<1> HIDE DEF n, pre, picked, expired, armed, th
<1>10. n \in KernelState
  BY <1>0, <1>2, <1>3 DEF KernelState
<1>11. /\ n.state = s.state /\ n.runq = s.runq /\ n.prio = s.prio
       /\ n.timeout = s.timeout /\ n.pended_on = s.pended_on /\ n.waitq = s.waitq
       /\ n.retval = s.retval /\ n.current = s.current /\ n.sched_locked = s.sched_locked
       /\ n.corrupt = s.corrupt /\ n.slicing = s.slicing /\ n.cache = picked
  BY <1>0, <1>2 DEF KernelState
<1>12. Links(n) /\ Only(n, s, {}, FALSE)
  BY <1>10, <1>11 DEF Links, Only, Queued
<1>13. /\ next_up(n) = th /\ thread_is_preemptible(n, n.current) = thread_is_preemptible(s, s.current)
       /\ \A t \in Threads : Held(n, t) <=> Held(s, t)
  BY <1>11 DEF next_up, thread_is_preemptible, Held, th
<1>14. CacheRuns(n)
  BY <1>1, <1>4, <1>6, <1>11, <1>13, <1>3 DEF CacheRuns
<1>15. Chosen(n)
  BY <1>0, <1>4, <1>6, <1>11, <1>13 DEF Chosen
<1>16. ok => n.cache = next_up(n)
  BY <1>8, <1>9, <1>11, <1>13
<1>17. n.cache # s.current =>
       \/ ok \/ thread_is_preemptible(s, s.current)
       \/ s.current # Idle /\ Held(s, s.current)
       \/ th # Idle /\ s.timeout[th]
  BY <1>5, <1>7, <1>11
<1>18. n.cache \in {s.current, th}
  BY <1>6, <1>11
<1>19. QED
  BY <1>11, <1>12, <1>14, <1>15, <1>16, <1>17, <1>18 DEF Recaches, n, th

-----------------------------------------------------------------------------
(* From s to n only t changes, and this is what it becomes.                *)
Becomes(n, s, t, bits, due, queue, value, odd) ==
  /\ Links(n) /\ Only(n, s, {t}, odd)
  /\ n.state[t] = bits /\ n.timeout[t] = due /\ n.pended_on[t] = queue /\ n.retval[t] = value

(* The run queue, the priorities and the cache are left alone.             *)
Quiet(n, s) ==
  n.runq = s.runq /\ n.prio = s.prio /\ n.cache = s.cache /\ n.slicing = s.slicing

(* A thread that is ready is not kept from the CPU by one it should not    *)
(* be preempted by.                                                        *)
Polite(s) ==
  s.cache # s.current => s.current = Idle \/ ~Able(s, s.current)
                                        \/ thread_is_preemptible(s, s.current)

(* No queued thread waits for a timeout.                                   *)
Timely(s) == \A t \in Threads : Queued(s, t) => ~s.timeout[t]

(* What every step of a section keeps of the cache.                        *)
CacheKept(n, s) ==
  /\ CacheRuns(s) => CacheRuns(n)
  /\ Chosen(s) => Chosen(n)

LEMMA BecomesTwice ==
  ASSUME NEW s, NEW m, NEW n, NEW t, NEW odd,
         NEW b, NEW d, NEW w, NEW v, Becomes(m, s, t, b, d, w, v, odd),
         NEW b2, NEW d2, NEW w2, NEW v2, Becomes(n, m, t, b2, d2, w2, v2, odd)
  PROVE  Becomes(n, s, t, b2, d2, w2, v2, odd)
BY OnlyTransitive DEF Becomes

LEMMA BecomesNothing ==
  ASSUME NEW s, Links(s), NEW t, NEW odd
  PROVE  Becomes(s, s, t, s.state[t], s.timeout[t], s.pended_on[t], s.retval[t], odd)
BY OnlySame DEF Becomes

LEMMA CacheKeptTwice ==
  ASSUME NEW s, NEW m, NEW n, CacheKept(m, s), CacheKept(n, m)
  PROVE  CacheKept(n, s)
BY DEF CacheKept

(* Nothing a quiet step does matters to the cache if it holds nobody.      *)
LEMMA QuietCache ==
  ASSUME NEW s, Links(s), NEW n, NEW T, Only(n, s, T, FALSE), Quiet(n, s),
         \A u \in Threads : Held(n, u) => Held(s, u)
  PROVE  CacheKept(n, s)
<1>1. s.current \in Threads \cup {Idle} /\ s.cache \in Threads \cup {Idle}
  BY DEF Links, KernelState
<1>2. /\ n.current = s.current /\ n.sched_locked = s.sched_locked
      /\ n.cache = s.cache /\ n.prio = s.prio /\ next_up(n) = next_up(s)
  BY DEF Only, Quiet, next_up
<1>3. thread_is_preemptible(n, n.current) = thread_is_preemptible(s, s.current)
  BY <1>2 DEF thread_is_preemptible
<1>4. CacheRuns(s) => CacheRuns(n)
  BY <1>1, <1>2 DEF CacheRuns
<1>5. Chosen(s) => Chosen(n)
  BY <1>1, <1>2, <1>3 DEF Chosen
<1>6. QED
  BY <1>4, <1>5 DEF CacheKept

(* Bits other than QUEUED.                                                 *)
LEMMA MarkSpec ==
  ASSUME NEW s, Links(s), NEW t \in Threads, NEW bits \in SUBSET StateBits,
         "QUEUED" \in bits <=> Queued(s, t)
  PROVE  LET n == [s EXCEPT !.state[t] = bits]
         IN  /\ Becomes(n, s, t, bits, s.timeout[t], s.pended_on[t], s.retval[t], FALSE)
             /\ Quiet(n, s)
<1> DEFINE n == [s EXCEPT !.state[t] = bits]
<1>0. s \in KernelState
  BY DEF Links
<1>1. n \in KernelState
  <2>1. [s.state EXCEPT ![t] = bits] \in [Threads -> SUBSET StateBits]
    BY <1>0 DEF KernelState
  <2>2. QED
    BY <1>0, <2>1 DEF KernelState
<1>2. /\ n.state = [s.state EXCEPT ![t] = bits] /\ n.runq = s.runq /\ n.prio = s.prio
      /\ n.timeout = s.timeout /\ n.pended_on = s.pended_on /\ n.waitq = s.waitq
      /\ n.retval = s.retval /\ n.current = s.current /\ n.sched_locked = s.sched_locked
      /\ n.corrupt = s.corrupt /\ n.cache = s.cache /\ n.slicing = s.slicing
  BY <1>0 DEF KernelState
<1>3. n.state[t] = bits /\ \A u \in Threads \ {t} : n.state[u] = s.state[u]
  BY <1>0, <1>2 DEF KernelState
<1> HIDE DEF n
<1>4. \A u \in Threads : Queued(n, u) <=> Queued(s, u)
  BY <1>3 DEF Queued
<1>5. Links(n)
  BY <1>1, <1>2, <1>4 DEF Links
<1>6. Only(n, s, {t}, FALSE)
  BY <1>2, <1>3 DEF Only
<1>7. Becomes(n, s, t, bits, s.timeout[t], s.pended_on[t], s.retval[t], FALSE) /\ Quiet(n, s)
  BY <1>2, <1>3, <1>5, <1>6 DEF Becomes, Quiet
<1>8. QED
  BY <1>7 DEF n

(* Linking and unlinking a timeout.                                        *)
LEMMA TimeoutSpec ==
  ASSUME NEW s, Links(s), NEW t \in Threads, NEW due \in BOOLEAN
  PROVE  LET n == [s EXCEPT !.timeout[t] = due]
         IN  /\ Becomes(n, s, t, s.state[t], due, s.pended_on[t], s.retval[t], FALSE)
             /\ Quiet(n, s)
<1> DEFINE n == [s EXCEPT !.timeout[t] = due]
<1>0. s \in KernelState
  BY DEF Links
<1>1. n \in KernelState
  <2>1. [s.timeout EXCEPT ![t] = due] \in [Threads -> BOOLEAN]
    BY <1>0 DEF KernelState
  <2>2. QED
    BY <1>0, <2>1 DEF KernelState
<1>2. /\ n.timeout = [s.timeout EXCEPT ![t] = due] /\ n.runq = s.runq /\ n.prio = s.prio
      /\ n.state = s.state /\ n.pended_on = s.pended_on /\ n.waitq = s.waitq
      /\ n.retval = s.retval /\ n.current = s.current /\ n.sched_locked = s.sched_locked
      /\ n.corrupt = s.corrupt /\ n.cache = s.cache /\ n.slicing = s.slicing
  BY <1>0 DEF KernelState
<1>3. n.timeout[t] = due /\ \A u \in Threads \ {t} : n.timeout[u] = s.timeout[u]
  BY <1>0, <1>2 DEF KernelState
<1> HIDE DEF n
<1>4. \A u \in Threads : Queued(n, u) <=> Queued(s, u)
  BY <1>2 DEF Queued
<1>5. Links(n)
  BY <1>1, <1>2, <1>4 DEF Links
<1>6. Only(n, s, {t}, FALSE)
  BY <1>2, <1>3 DEF Only
<1>7. Becomes(n, s, t, s.state[t], due, s.pended_on[t], s.retval[t], FALSE) /\ Quiet(n, s)
  BY <1>2, <1>3, <1>5, <1>6 DEF Becomes, Quiet
<1>8. QED
  BY <1>7 DEF n

LEMMA RetvalSpec ==
  ASSUME NEW s, Links(s), NEW t \in Threads, NEW v \in {0, EAGAIN}
  PROVE  /\ Becomes(SetRetval(s, t, v), s, t, s.state[t], s.timeout[t], s.pended_on[t], v, FALSE)
         /\ Quiet(SetRetval(s, t, v), s)
<1> DEFINE n == SetRetval(s, t, v)
<1>0. s \in KernelState
  BY DEF Links
<1>1. n \in KernelState
  <2>1. [s.retval EXCEPT ![t] = v] \in [Threads -> {0, EAGAIN}]
    BY <1>0 DEF KernelState
  <2>2. QED
    BY <1>0, <2>1 DEF KernelState, SetRetval
<1>2. /\ n.retval = [s.retval EXCEPT ![t] = v] /\ n.runq = s.runq /\ n.prio = s.prio
      /\ n.state = s.state /\ n.pended_on = s.pended_on /\ n.waitq = s.waitq
      /\ n.timeout = s.timeout /\ n.current = s.current /\ n.sched_locked = s.sched_locked
      /\ n.corrupt = s.corrupt /\ n.cache = s.cache /\ n.slicing = s.slicing
  BY <1>0 DEF KernelState, SetRetval
<1>3. n.retval[t] = v /\ \A u \in Threads \ {t} : n.retval[u] = s.retval[u]
  BY <1>0, <1>2 DEF KernelState
<1> HIDE DEF n
<1>4. \A u \in Threads : Queued(n, u) <=> Queued(s, u)
  BY <1>2 DEF Queued
<1>5. Links(n)
  BY <1>1, <1>2, <1>4 DEF Links
<1>6. Only(n, s, {t}, FALSE)
  BY <1>2, <1>3 DEF Only
<1>7. QED
  BY <1>2, <1>3, <1>5, <1>6 DEF Becomes, Quiet, n

(* Leaving a wait queue.                                                   *)
LEMMA UnpendSpec ==
  ASSUME NEW s, Links(s), NEW t \in Threads, s.pended_on[t] # NULL
  PROVE  /\ Becomes(unpend_thread_no_timeout(s, t), s, t, s.state[t] \ {"PENDING"},
                    s.timeout[t], NULL, s.retval[t], FALSE)
         /\ Quiet(unpend_thread_no_timeout(s, t), s)
<1> DEFINE n == unpend_thread_no_timeout(s, t)
           w == s.pended_on[t]
           list == z_priq_dumb_remove(s.waitq[w], t)
           bits == s.state[t] \ {"PENDING"}
<1>0. s \in KernelState /\ w \in WaitQs /\ s.waitq[w] \in Seq(Threads) /\ Distinct(s.waitq[w])
  BY DEF Links, KernelState
<1>1. list \in Seq(Threads) /\ Distinct(list) /\ Members(list) = Members(s.waitq[w]) \ {t}
  BY <1>0, RemoveLinks
<1>2. n = [s EXCEPT !.waitq[w] = list, !.state[t] = bits, !.pended_on[t] = NULL]
  BY <1>0 DEF unpend_thread_no_timeout, KernelState
<1>3. bits \in SUBSET StateBits
  BY <1>0 DEF KernelState
<1>q. "QUEUED" \in bits <=> Queued(s, t)
  BY DEF Queued
<1> HIDE DEF n, list, bits
<1>4. n \in KernelState
  <2>1. [s.state EXCEPT ![t] = bits] \in [Threads -> SUBSET StateBits]
    BY <1>0, <1>3 DEF KernelState
  <2>2. [s.pended_on EXCEPT ![t] = NULL] \in [Threads -> WaitQs \cup {NULL}]
    BY <1>0 DEF KernelState
  <2>3. [s.waitq EXCEPT ![w] = list] \in [WaitQs -> Seq(Threads)]
    BY <1>0, <1>1 DEF KernelState
  <2> HIDE DEF w
  <2>4. QED
    BY <1>0, <1>2, <2>1, <2>2, <2>3 DEF KernelState
<1>5. /\ n.state = [s.state EXCEPT ![t] = bits] /\ n.runq = s.runq /\ n.prio = s.prio
      /\ n.pended_on = [s.pended_on EXCEPT ![t] = NULL] /\ n.waitq = [s.waitq EXCEPT ![w] = list]
      /\ n.timeout = s.timeout /\ n.retval = s.retval /\ n.current = s.current
      /\ n.sched_locked = s.sched_locked /\ n.corrupt = s.corrupt /\ n.cache = s.cache
      /\ n.slicing = s.slicing
  BY <1>0, <1>2 DEF KernelState
<1>6. /\ n.state[t] = bits /\ n.pended_on[t] = NULL /\ n.waitq[w] = list
      /\ \A u \in Threads \ {t} : n.state[u] = s.state[u] /\ n.pended_on[u] = s.pended_on[u]
      /\ \A x \in WaitQs \ {w} : n.waitq[x] = s.waitq[x]
  BY <1>0, <1>5 DEF KernelState
<1>7. \A u \in Threads : Queued(n, u) <=> Queued(s, u)
  BY <1>6, <1>q DEF Queued
<1>8. ASSUME NEW x \in WaitQs
      PROVE  /\ Distinct(n.waitq[x])
             /\ Members(n.waitq[x]) = {u \in Threads : n.pended_on[u] = x}
  <2>1. Distinct(s.waitq[x]) /\ Members(s.waitq[x]) = {u \in Threads : s.pended_on[u] = x}
    BY DEF Links
  <2>2. CASE x = w
    BY <1>1, <1>6, <2>1, <2>2, ThreadFacts
  <2>3. CASE x # w
    BY <1>6, <2>1, <2>3, ThreadFacts DEF w
  <2>4. QED
    BY <2>2, <2>3
<1>9. Links(n)
  <2>1. Distinct(n.runq) /\ Members(n.runq) = {u \in Threads : Queued(n, u)}
    BY <1>5, <1>7 DEF Links
  <2>2. QED
    BY <1>4, <1>8, <2>1 DEF Links
<1>10. Only(n, s, {t}, FALSE)
  BY <1>5, <1>6 DEF Only
<1>11. QED
  BY <1>5, <1>6, <1>9, <1>10 DEF Becomes, Quiet, n, bits

(* Joining a wait queue, in the order of any priorities.                   *)
LEMMA PendSpec ==
  ASSUME NEW s, Links(s), NEW t \in Threads, s.pended_on[t] = NULL, NEW w \in WaitQs,
         NEW prio \in [Threads -> Int]
  PROVE  LET n == [s EXCEPT !.state[t] = @ \cup {"PENDING"}, !.pended_on[t] = w,
                            !.waitq[w] = z_priq_dumb_add(@, t, prio)]
         IN  /\ Becomes(n, s, t, s.state[t] \cup {"PENDING"}, s.timeout[t], w, s.retval[t], FALSE)
             /\ Quiet(n, s)
<1> DEFINE list == z_priq_dumb_add(s.waitq[w], t, prio)
           bits == s.state[t] \cup {"PENDING"}
           n == [s EXCEPT !.state[t] = bits, !.pended_on[t] = w, !.waitq[w] = list]
<1>0. s \in KernelState /\ s.waitq[w] \in Seq(Threads) /\ Distinct(s.waitq[w])
      /\ t \notin Members(s.waitq[w])
  <2>1. Members(s.waitq[w]) = {u \in Threads : s.pended_on[u] = w} /\ w # NULL
    BY ThreadFacts DEF Links
  <2>2. QED
    BY <2>1 DEF Links, KernelState
<1>1. list \in Seq(Threads) /\ Distinct(list) /\ Members(list) = Members(s.waitq[w]) \cup {t}
  BY <1>0, AddLinks
<1>2. n = [s EXCEPT !.state[t] = @ \cup {"PENDING"}, !.pended_on[t] = w,
                    !.waitq[w] = z_priq_dumb_add(@, t, prio)]
  BY <1>0 DEF KernelState
<1>3. bits \in SUBSET StateBits
  BY <1>0 DEF KernelState, StateBits, Preventing
<1>q. "QUEUED" \in bits <=> Queued(s, t)
  BY DEF Queued
<1> HIDE DEF list, bits
<1>4. n \in KernelState
  <2>1. [s.state EXCEPT ![t] = bits] \in [Threads -> SUBSET StateBits]
    BY <1>0, <1>3 DEF KernelState
  <2>2. [s.pended_on EXCEPT ![t] = w] \in [Threads -> WaitQs \cup {NULL}]
    BY <1>0 DEF KernelState
  <2>3. [s.waitq EXCEPT ![w] = list] \in [WaitQs -> Seq(Threads)]
    BY <1>0, <1>1 DEF KernelState
  <2>4. QED
    BY <1>0, <2>1, <2>2, <2>3 DEF KernelState
<1>5. /\ n.state = [s.state EXCEPT ![t] = bits] /\ n.runq = s.runq /\ n.prio = s.prio
      /\ n.pended_on = [s.pended_on EXCEPT ![t] = w] /\ n.waitq = [s.waitq EXCEPT ![w] = list]
      /\ n.timeout = s.timeout /\ n.retval = s.retval /\ n.current = s.current
      /\ n.sched_locked = s.sched_locked /\ n.corrupt = s.corrupt /\ n.cache = s.cache
      /\ n.slicing = s.slicing
  BY <1>0 DEF KernelState
<1> HIDE DEF n
<1>6. /\ n.state[t] = bits /\ n.pended_on[t] = w /\ n.waitq[w] = list
      /\ \A u \in Threads \ {t} : n.state[u] = s.state[u] /\ n.pended_on[u] = s.pended_on[u]
      /\ \A x \in WaitQs \ {w} : n.waitq[x] = s.waitq[x]
  BY <1>0, <1>5 DEF KernelState
<1>7. \A u \in Threads : Queued(n, u) <=> Queued(s, u)
  BY <1>6, <1>q DEF Queued
<1>8. ASSUME NEW x \in WaitQs
      PROVE  /\ Distinct(n.waitq[x])
             /\ Members(n.waitq[x]) = {u \in Threads : n.pended_on[u] = x}
  <2>1. Distinct(s.waitq[x]) /\ Members(s.waitq[x]) = {u \in Threads : s.pended_on[u] = x}
    BY DEF Links
  <2>2. CASE x = w
    BY <1>1, <1>6, <2>1, <2>2
  <2>3. CASE x # w
    BY <1>6, <2>1, <2>3, ThreadFacts
  <2>4. QED
    BY <2>2, <2>3
<1>9. Links(n)
  <2>1. Distinct(n.runq) /\ Members(n.runq) = {u \in Threads : Queued(n, u)}
    BY <1>5, <1>7 DEF Links
  <2>2. QED
    BY <1>4, <1>8, <2>1 DEF Links
<1>10. Only(n, s, {t}, FALSE)
  BY <1>5, <1>6 DEF Only
<1>11. Becomes(n, s, t, bits, s.timeout[t], w, s.retval[t], FALSE) /\ Quiet(n, s)
  BY <1>5, <1>6, <1>9, <1>10 DEF Becomes, Quiet
<1>12. QED
  BY <1>2, <1>11 DEF bits

(* A change of the slicing fields or of the lock nesting touches no list.  *)
LEMMA AsideSpec ==
  ASSUME NEW s, Links(s), NEW n \in KernelState,
         /\ n.state = s.state /\ n.runq = s.runq /\ n.prio = s.prio
         /\ n.timeout = s.timeout /\ n.pended_on = s.pended_on /\ n.waitq = s.waitq
         /\ n.retval = s.retval /\ n.current = s.current /\ n.corrupt = s.corrupt
  PROVE  /\ Links(n)
         /\ n.sched_locked = s.sched_locked => Only(n, s, {}, FALSE)
<1>1. \A u \in Threads : Queued(n, u) <=> Queued(s, u)
  BY DEF Queued
<1>2. QED
  BY <1>1 DEF Links, Only

(* Being made ready.                                                       *)
Readied(bits, due) == IF bits \cap Preventing = {} /\ ~due THEN bits \cup {"QUEUED"} ELSE bits

Readies(n, s, t) ==
  /\ Becomes(n, s, t, Readied(s.state[t], s.timeout[t]), s.timeout[t], s.pended_on[t],
             s.retval[t], FALSE)
  /\ CacheKept(n, s) /\ QueuedRuns(n)
  /\ Timely(s) => Timely(n) /\ (Polite(s) \/ Lost(s, t) => Polite(n))

LEMMA ReadySpec ==
  ASSUME NEW s, Links(s), QueuedRuns(s), NEW t \in Threads
  PROVE  Readies(ready_thread(s, t), s, t)
<1> DEFINE n == ready_thread(s, t)
<1>1. CASE Queued(s, t) \/ ~Able(s, t)
  <2>1. n = s
    BY <1>1, PredicateFacts DEF ready_thread
  <2>2. Readied(s.state[t], s.timeout[t]) = s.state[t]
    BY <1>1 DEF Readied, Queued, Able, Held
  <2>3. QED
    BY <1>1, <2>1, <2>2, BecomesNothing DEF Readies, CacheKept, Lost
<1>2. CASE ~Queued(s, t) /\ Able(s, t)
  <2> DEFINE m == queue_thread(s, t)
  <2>1. n = update_cache(m, FALSE)
    BY <1>2, PredicateFacts DEF ready_thread
  <2>2. Enqueues(m, s, t)
    BY <1>2, QueueSpec
  <2> HIDE DEF m, n
  <2>3. Links(m) /\ Only(m, s, {t}, FALSE) /\ SameWait(m, s, t) /\ SameOwn(m, s, t)
        /\ m.state[t] = s.state[t] \cup {"QUEUED"}
    BY <2>2 DEF Enqueues
  <2>4. \A u \in Threads : /\ Held(m, u) <=> Held(s, u)
                           /\ Queued(m, u) <=> Queued(s, u) \/ u = t
                           /\ m.timeout[u] = s.timeout[u]
    BY <2>3 DEF Held, Queued, Only, SameWait, Preventing
  <2>5. QueuedRuns(m)
    BY <2>4, <1>2 DEF QueuedRuns, Able
  <2> DEFINE no == FALSE
  <2>6. no \in BOOLEAN
    OBVIOUS
  <2>7. n = update_cache(m, no)
    BY <2>1
  <2>8. ~no
    OBVIOUS
  <2> HIDE DEF no
  <2>9. Recaches(n, m, no)
    BY <2>3, <2>5, <2>6, <2>7, UpdateCacheSpec
  <2>10. Links(n) /\ Only(n, m, {}, FALSE) /\ CacheRuns(n) /\ Chosen(n)
    BY <2>9 DEF Recaches
  <2>11. n.state[t] = m.state[t] /\ n.timeout[t] = m.timeout[t] /\ n.pended_on[t] = m.pended_on[t]
         /\ n.retval[t] = m.retval[t]
    BY <2>10 DEF Only
  <2>12. Only(n, s, {t}, FALSE)
    <3>1. Only(n, m, {t}, FALSE)
      BY <2>10 DEF Only
    <3>2. QED
      BY <3>1, <2>3, OnlyTransitive
  <2>13. Readied(s.state[t], s.timeout[t]) = n.state[t]
    BY <1>2, <2>11, <2>3 DEF Readied, Able, Held
  <2>14. Becomes(n, s, t, Readied(s.state[t], s.timeout[t]), s.timeout[t], s.pended_on[t],
                 s.retval[t], FALSE)
    BY <2>3, <2>10, <2>11, <2>12, <2>13 DEF Becomes, SameWait, SameOwn
  <2>15. \A u \in Threads : /\ Held(n, u) <=> Held(m, u)
                            /\ Queued(n, u) <=> Queued(m, u)
                            /\ n.timeout[u] = m.timeout[u]
    BY <2>10 DEF Only, Held, Queued
  <2>16. QueuedRuns(n)
    BY <2>5, <2>15 DEF QueuedRuns
  <2>17. Timely(s) => Timely(n) /\ Timely(m)
    BY <2>4, <2>15, <1>2 DEF Timely, Able
  <2>18. Timely(s) => Polite(n)
    <3> SUFFICES ASSUME Timely(m), n.cache # n.current, n.current # Idle
                 PROVE  ~Able(n, n.current) \/ thread_is_preemptible(n, n.current)
      BY <2>17 DEF Polite
    <3>1. n.current = m.current /\ n.prio = m.prio /\ n.sched_locked = m.sched_locked
          /\ n.current \in Threads
      <4>1. n \in KernelState /\ m \in KernelState /\ n.current = m.current /\ n.sched_locked = m.sched_locked
            /\ \A u \in Threads : n.prio[u] = m.prio[u]
        BY <2>3, <2>10 DEF Only, Links
      <4>2. n.prio = m.prio /\ n.current \in Threads \cup {Idle}
        BY <4>1 DEF KernelState
      <4>3. QED
        BY <4>1, <4>2
    <3>2. \/ thread_is_preemptible(m, m.current)
          \/ Held(m, m.current)
          \/ next_up(m) # Idle /\ m.timeout[next_up(m)]
      BY <2>8, <2>9, <3>1 DEF Recaches
    <3>3. ~(next_up(m) # Idle /\ m.timeout[next_up(m)])
      BY <2>3, NextUpFacts DEF Timely
    <3>4. Held(m, m.current) => ~Able(n, n.current)
      BY <2>15, <3>1 DEF Able
    <3>5. thread_is_preemptible(n, n.current) = thread_is_preemptible(m, m.current)
      BY <3>1 DEF thread_is_preemptible
    <3>6. QED
      BY <3>2, <3>3, <3>4, <3>5
  <2>19. QED
    BY <2>10, <2>14, <2>16, <2>17, <2>18 DEF Readies, CacheKept, n
<1>3. QED
  BY <1>1, <1>2

LEMMA QuietTwice ==
  ASSUME NEW s, NEW m, NEW n, Quiet(m, s), Quiet(n, m)
  PROVE  Quiet(n, s)
BY DEF Quiet

(* Every wake: t is released from something, and then made ready.          *)
Wakes(n, s, t, bits, due, queue, value) ==
  /\ Becomes(n, s, t, Readied(bits, due), due, queue, value, FALSE)
  /\ CacheKept(n, s) /\ QueuedRuns(n)
  /\ Timely(s) => Timely(n) /\ (Polite(s) => Polite(n))

LEMMA WakeSpec ==
  ASSUME NEW s, Links(s), QueuedRuns(s), NEW t \in Threads, NEW m,
         NEW bits, NEW due \in BOOLEAN, NEW queue, NEW value,
         Becomes(m, s, t, bits, due, queue, value, FALSE), Quiet(m, s),
         bits \cap Preventing # {} => Held(s, t), due => s.timeout[t]
  PROVE  Wakes(ready_thread(m, t), s, t, bits, due, queue, value)
<1> DEFINE n == ready_thread(m, t)
<1>1. /\ Links(m) /\ Only(m, s, {t}, FALSE) /\ m.state[t] = bits /\ m.timeout[t] = due
      /\ m.pended_on[t] = queue /\ m.retval[t] = value
  BY DEF Becomes
<1>2. \A u \in Threads : Queued(m, u) <=> Queued(s, u)
  BY <1>1 DEF Links, Quiet
<1>3. \A u \in Threads : /\ Held(m, u) => Held(s, u)
                         /\ m.timeout[u] => s.timeout[u]
                         /\ u # t => (Able(m, u) <=> Able(s, u))
  BY <1>1 DEF Only, Held, Able
<1>4. QueuedRuns(m) /\ (Timely(s) => Timely(m))
  BY <1>2, <1>3 DEF QueuedRuns, Timely
<1>5. CacheKept(m, s)
  BY <1>1, <1>3, QuietCache
<1>6. Readies(n, m, t)
  BY <1>1, <1>4, ReadySpec
<1>7. Timely(s) /\ Polite(s) => Polite(m) \/ Lost(m, t)
  <2> SUFFICES ASSUME Timely(s), Polite(s), ~Polite(m) PROVE Lost(m, t)
    OBVIOUS
  <2>1. /\ m.current = s.current /\ m.cache = s.cache /\ m.prio = s.prio
        /\ m.sched_locked = s.sched_locked /\ m.current \in Threads \cup {Idle}
    BY <1>1 DEF Only, Quiet, Links, KernelState
  <2>2. thread_is_preemptible(m, m.current) = thread_is_preemptible(s, s.current)
    BY <2>1 DEF thread_is_preemptible
  <2>3. /\ m.current \in Threads /\ Able(m, m.current) /\ ~Able(s, m.current)
    BY <2>1, <2>2 DEF Polite
  <2>4. m.current = t /\ Able(m, t) /\ ~Able(s, t)
    BY <1>3, <2>3
  <2>5. ~Queued(m, t)
    BY <2>4, <1>2 DEF Able, QueuedRuns, Timely
  <2>6. QED
    BY <2>4, <2>5 DEF Lost
<1> HIDE DEF n
<1>8. Becomes(n, m, t, Readied(bits, due), due, queue, value, FALSE)
  BY <1>1, <1>6 DEF Readies
<1>9. Becomes(n, s, t, Readied(bits, due), due, queue, value, FALSE)
  BY <1>8, BecomesTwice
<1>10. CacheKept(n, s)
  BY <1>5, <1>6, CacheKeptTwice DEF Readies
<1>11. QueuedRuns(n) /\ (Timely(s) => Timely(n) /\ (Polite(s) => Polite(n)))
  BY <1>4, <1>6, <1>7 DEF Readies
<1>12. QED
  BY <1>9, <1>10, <1>11 DEF Wakes, n

(* A waiting thread is taken off its queue with return value 0.            *)
LEMMA WakeThreadSpec ==
  ASSUME NEW s, Links(s), QueuedRuns(s), NEW t \in Threads, s.pended_on[t] # NULL
  PROVE  Wakes(WakeThread(s, t), s, t, s.state[t] \ {"PENDING"}, FALSE, NULL, 0)
<1> DEFINE a == SetRetval(s, t, 0)
           b == unpend_thread_no_timeout(a, t)
           m == z_abort_thread_timeout(b, t)
           bits == s.state[t] \ {"PENDING"}
           due == FALSE
<1>0. s \in KernelState /\ s.timeout[t] \in BOOLEAN
  BY DEF Links, KernelState
<1>1. Becomes(a, s, t, s.state[t], s.timeout[t], s.pended_on[t], 0, FALSE) /\ Quiet(a, s)
  BY RetvalSpec
<1> HIDE DEF a
<1>2. Links(a) /\ a.pended_on[t] # NULL /\ a.state[t] = s.state[t] /\ a.timeout[t] = s.timeout[t]
      /\ a.retval[t] = 0
  BY <1>1 DEF Becomes
<1>3. Becomes(b, a, t, bits, s.timeout[t], NULL, 0, FALSE) /\ Quiet(b, a)
  BY <1>2, UnpendSpec
<1> HIDE DEF b
<1>4. Links(b) /\ b.pended_on[t] = NULL /\ b.state[t] = bits /\ b.retval[t] = 0
  BY <1>3 DEF Becomes
<1>5. due \in BOOLEAN /\ ~due
  OBVIOUS
<1>m. m = [b EXCEPT !.timeout[t] = due]
  BY DEF z_abort_thread_timeout
<1>n. WakeThread(s, t) = ready_thread(m, t)
  BY DEF WakeThread, UnpendAndReady, m, b, a
<1> HIDE DEF due, m
<1>6. Becomes(m, b, t, bits, due, NULL, 0, FALSE) /\ Quiet(m, b)
  BY <1>4, <1>5, <1>m, TimeoutSpec
<1>7. Becomes(b, s, t, bits, s.timeout[t], NULL, 0, FALSE) /\ Quiet(b, s)
  BY <1>1, <1>3, BecomesTwice, QuietTwice
<1>9. bits \cap Preventing # {} => Held(s, t)
  BY DEF Held
<1> HIDE DEF bits
<1>8. Becomes(m, s, t, bits, due, NULL, 0, FALSE) /\ Quiet(m, s)
  BY <1>6, <1>7, BecomesTwice, QuietTwice
<1>10. Wakes(ready_thread(m, t), s, t, bits, due, NULL, 0)
  BY <1>5, <1>8, <1>9, WakeSpec
<1>11. QED
  BY <1>10, <1>n DEF bits, due

-----------------------------------------------------------------------------
(* unpend_all: what the loop has done when it has woken the threads of W.  *)
Emptied(n, s, W) ==
  /\ Links(n) /\ QueuedRuns(n) /\ Only(n, s, W, FALSE) /\ CacheKept(n, s)
  /\ Timely(s) => Timely(n) /\ (Polite(s) => Polite(n))
  /\ \A u \in W : /\ n.state[u] = Readied(s.state[u] \ {"PENDING"}, FALSE)
                  /\ n.timeout[u] = FALSE /\ n.pended_on[u] = NULL /\ n.retval[u] = 0

LEMMA EmptiedMore ==
  ASSUME NEW s, NEW m, NEW n, NEW W, W \subseteq Threads, NEW u \in Threads \ W,
         Emptied(m, s, W), Wakes(n, m, u, m.state[u] \ {"PENDING"}, FALSE, NULL, 0)
  PROVE  Emptied(n, s, W \cup {u})
<1> DEFINE X == W \cup {u}
<1>1. /\ Links(n) /\ Only(n, m, {u}, FALSE) /\ n.timeout[u] = FALSE /\ n.pended_on[u] = NULL
      /\ n.retval[u] = 0 /\ n.state[u] = Readied(m.state[u] \ {"PENDING"}, FALSE)
      /\ CacheKept(n, m) /\ QueuedRuns(n)
      /\ Timely(m) => Timely(n) /\ (Polite(m) => Polite(n))
  BY DEF Wakes, Becomes
<1>2. Only(m, s, W, FALSE) /\ m.state[u] = s.state[u]
  BY DEF Emptied, Only
<1>3. Only(n, s, X, FALSE)
  <2>1. Only(m, s, X, FALSE)
    BY <1>2 DEF Only
  <2>2. Only(n, m, X, FALSE)
    BY <1>1 DEF Only
  <2> HIDE DEF X
  <2>3. QED
    BY <2>1, <2>2, OnlyTransitive
<1>4. CacheKept(n, s) /\ (Timely(s) => Timely(n) /\ (Polite(s) => Polite(n)))
  BY <1>1, CacheKeptTwice DEF Emptied
<1>5. ASSUME NEW x \in X
      PROVE  /\ n.state[x] = Readied(s.state[x] \ {"PENDING"}, FALSE)
             /\ n.timeout[x] = FALSE /\ n.pended_on[x] = NULL /\ n.retval[x] = 0
  <2>1. CASE x = u
    BY <1>1, <1>2, <2>1
  <2>2. CASE x # u
    <3>1. x \in W /\ x \in Threads \ {u}
      BY <2>2
    <3>2. /\ m.state[x] = Readied(s.state[x] \ {"PENDING"}, FALSE)
          /\ m.timeout[x] = FALSE /\ m.pended_on[x] = NULL /\ m.retval[x] = 0
      BY <3>1 DEF Emptied
    <3>3. QED
      BY <1>1, <3>1, <3>2 DEF Only
  <2>3. QED
    BY <2>1, <2>2
<1> HIDE DEF X
<1>6. Emptied(n, s, X)
  BY <1>1, <1>3, <1>4, <1>5 DEF Emptied
<1>7. QED
  BY <1>6 DEF X

(* The recursive definition of the loop defines something: a function that *)
(* follows it exists up to every bound, for the least bound without one    *)
(* would extend the function of its predecessor.                           *)
Follows(f, n, s, q) == f = [i \in 0 .. n |-> IF i = 0 THEN s ELSE WakeThread(f[i - 1], q[i])]

LEMMA LoopDefined ==
  ASSUME NEW s, NEW q \in Seq(Threads)
  PROVE  \E f : Follows(f, Len(q), s, q)
<1> DEFINE Bad == {n \in 0 .. Len(q) : ~\E f : Follows(f, n, s, q)}
<1>0. Len(q) \in Nat
  OBVIOUS
<1>1. SUFFICES Bad = {}
  BY <1>0
<1>2. SUFFICES ASSUME Bad # {} PROVE FALSE
  OBVIOUS
<1>3. PICK n \in Bad : \A y \in Bad : n <= y
  <2>1. Bad \subseteq Nat
    BY <1>0
  <2> HIDE DEF Bad
  <2>2. QED
    BY <1>2, <2>1, LeastNat
<1>4. CASE n = 0
  <2> DEFINE g == [i \in 0 .. 0 |-> s]
  <2>1. Follows(g, 0, s, q)
    BY DEF Follows
  <2>2. QED
    BY <1>3, <1>4, <2>1
<1>5. CASE n # 0
  <2>1. n - 1 \in 0 .. Len(q) /\ n - 1 \notin Bad /\ n \in 1 .. Len(q)
    BY <1>0, <1>3, <1>5
  <2>2. PICK f : Follows(f, n - 1, s, q)
    BY <2>1
  <2> DEFINE g == [i \in 0 .. n |-> IF i < n THEN f[i] ELSE WakeThread(f[n - 1], q[n])]
  <2>3. \A i \in 0 .. n - 1 : f[i] = IF i = 0 THEN s ELSE WakeThread(f[i - 1], q[i])
    BY <2>2 DEF Follows
  <2>4. ASSUME NEW i \in 0 .. n
        PROVE  g[i] = IF i = 0 THEN s ELSE WakeThread(g[i - 1], q[i])
    <3>1. CASE i = n
      <4>1. g[i] = WakeThread(f[n - 1], q[n]) /\ g[i - 1] = f[n - 1] /\ i # 0
        BY <1>5, <2>1, <3>1
      <4>2. QED
        BY <3>1, <4>1
    <3>2. CASE i # n /\ i # 0
      <4>1. i \in 0 .. n - 1 /\ g[i] = f[i] /\ g[i - 1] = f[i - 1]
        BY <2>1, <3>2
      <4>2. QED
        BY <2>3, <3>2, <4>1
    <3>3. CASE i = 0
      <4>1. i \in 0 .. n - 1 /\ g[i] = f[i]
        BY <1>5, <2>1, <3>3
      <4>2. QED
        BY <2>3, <3>3, <4>1
    <3>4. QED
      BY <3>1, <3>2, <3>3
  <2>5. g = [i \in 0 .. n |-> g[i]]
    OBVIOUS
  <2> HIDE DEF g
  <2>6. Follows(g, n, s, q)
    BY <2>4, <2>5 DEF Follows
  <2>7. QED
    BY <1>3, <2>6
<1>6. QED
  BY <1>4, <1>5

LEMMA LoopUnfolds ==
  ASSUME NEW s, NEW w, s.waitq[w] \in Seq(Threads)
  PROVE  \E f : Follows(f, Len(s.waitq[w]), s, s.waitq[w]) /\ unpend_all(s, w) = f[Len(s.waitq[w])]
<1> DEFINE q == s.waitq[w]
           f == CHOOSE g : Follows(g, Len(q), s, q)
<1>1. Follows(f, Len(q), s, q)
  BY LoopDefined
<1>2. unpend_all(s, w) = f[Len(q)]
  BY DEF unpend_all, Follows
<1>3. QED
  BY <1>1, <1>2

(* unpend_all wakes exactly the threads of the queue: the least round      *)
(* after which the loop has done something else does not exist.            *)
LEMMA UnpendAllSpec ==
  ASSUME NEW s, Links(s), QueuedRuns(s), NEW w \in WaitQs
  PROVE  Emptied(unpend_all(s, w), s, {u \in Threads : s.pended_on[u] = w})
<1> DEFINE q == s.waitq[w]
           Front(i) == {q[j] : j \in 1 .. i}
<1>0. /\ q \in Seq(Threads) /\ Len(q) \in Nat /\ Distinct(q) /\ w # NULL
      /\ Members(q) = {u \in Threads : s.pended_on[u] = w}
  BY ThreadFacts DEF Links, KernelState
<1>q. \A j \in 1 .. Len(q) : q[j] \in Threads /\ q[j] \in Members(q)
  BY <1>0 DEF Members
<1>d. \A i, j \in 1 .. Len(q) : q[i] = q[j] => i = j
  BY <1>0 DEF Distinct
<1>1. PICK f : Follows(f, Len(q), s, q) /\ unpend_all(s, w) = f[Len(q)]
  BY <1>0, LoopUnfolds
<1>2. f[0] = s /\ \A i \in 1 .. Len(q) : f[i] = WakeThread(f[i - 1], q[i])
  <2> DEFINE n == Len(q)
  <2>1. n \in Nat
    BY <1>0
  <2> HIDE DEF n, q
  <2>2. \A i \in 0 .. n : f[i] = IF i = 0 THEN s ELSE WakeThread(f[i - 1], q[i])
    BY <1>1 DEF Follows, n
  <2>3. 0 \in 0 .. n /\ \A i \in 1 .. n : i \in 0 .. n /\ i # 0
    BY <2>1
  <2>4. QED
    BY <2>2, <2>3 DEF n
<1>3. Emptied(s, s, Front(0))
  <2>1. Front(0) = {}
    OBVIOUS
  <2>2. Emptied(s, s, {})
    BY OnlySame DEF Emptied, CacheKept
  <2>3. QED
    BY <2>1, <2>2
<1> HIDE DEF q
<1>4. ASSUME NEW i \in 1 .. Len(q), Emptied(f[i - 1], s, Front(i - 1))
      PROVE  Emptied(f[i], s, Front(i))
  <2> DEFINE m == f[i - 1]
             W == Front(i - 1)
             u == q[i]
  <2>1. W \subseteq Threads /\ u \in Threads /\ u \notin W
    BY <1>0, <1>q, <1>d
  <2>2. Front(i) = W \cup {u}
    <3>1. 1 .. i = (1 .. i - 1) \cup {i}
      BY <1>0
    <3>2. QED
      BY <3>1
  <2>3. s.pended_on[u] = w
    BY <1>0, <1>q
  <2>4. f[i] = WakeThread(m, u)
    BY <1>2
  <2>5. Emptied(m, s, W)
    BY <1>4
  <2> HIDE DEF m, W, u
  <2>6. Links(m) /\ QueuedRuns(m) /\ m.pended_on[u] = s.pended_on[u]
    BY <2>1, <2>5 DEF Emptied, Only
  <2>7. Wakes(f[i], m, u, m.state[u] \ {"PENDING"}, FALSE, NULL, 0)
    BY <1>0, <2>1, <2>3, <2>4, <2>6, WakeThreadSpec
  <2>8. Emptied(f[i], s, W \cup {u})
    BY <2>1, <2>5, <2>7, EmptiedMore
  <2>9. QED
    BY <2>2, <2>8
<1> HIDE DEF Front
<1>5. \A i \in 0 .. Len(q) : Emptied(f[i], s, Front(i))
  <2> DEFINE Bad == {i \in 0 .. Len(q) : ~Emptied(f[i], s, Front(i))}
  <2>1. SUFFICES ASSUME Bad # {} PROVE FALSE
    OBVIOUS
  <2>2. Bad \subseteq Nat
    BY <1>0
  <2>3. PICK i \in Bad : \A y \in Bad : i <= y
    <3> HIDE DEF Bad
    <3>1. QED
      BY <2>1, <2>2, LeastNat
  <2>4. i # 0
    BY <1>2, <1>3, <2>3
  <2>5. i - 1 \in 0 .. Len(q) /\ i - 1 \notin Bad /\ i \in 1 .. Len(q)
    BY <1>0, <2>3, <2>4
  <2>6. QED
    BY <1>4, <2>3, <2>5
<1>6. Front(Len(q)) = Members(q)
  BY DEF Front, Members
<1>7. Len(q) \in 0 .. Len(q)
  BY <1>0
<1>8. QED
  BY <1>0, <1>1, <1>5, <1>6, <1>7

-----------------------------------------------------------------------------
(* Facts that join the parts of a section.                                 *)
LEMMA DequeueBecomes ==
  ASSUME NEW s, NEW n, NEW t, NEW odd, Dequeues(n, s, t, odd)
  PROVE  Becomes(n, s, t, s.state[t] \ {"QUEUED"}, s.timeout[t], s.pended_on[t], s.retval[t], odd)
BY DEF Dequeues, Becomes, SameWait, SameOwn

LEMMA EnqueueBecomes ==
  ASSUME NEW s, NEW n, NEW t, Enqueues(n, s, t)
  PROVE  Becomes(n, s, t, s.state[t] \cup {"QUEUED"}, s.timeout[t], s.pended_on[t], s.retval[t], FALSE)
BY DEF Enqueues, Becomes, SameWait, SameOwn

LEMMA BecomesOdd ==
  ASSUME NEW s, NEW n, NEW t, NEW b, NEW d, NEW w, NEW v, Becomes(n, s, t, b, d, w, v, FALSE),
         NEW odd
  PROVE  Becomes(n, s, t, b, d, w, v, odd)
BY DEF Becomes, Only

LEMMA RecacheBecomes ==
  ASSUME NEW s, NEW m, NEW n, NEW t \in Threads, NEW odd, NEW ok,
         NEW b, NEW d, NEW w, NEW v, Becomes(m, s, t, b, d, w, v, odd), Recaches(n, m, ok)
  PROVE  Becomes(n, s, t, b, d, w, v, odd)
<1>1. Links(n) /\ Only(n, m, {}, FALSE) /\ Only(m, s, {t}, odd)
  BY DEF Recaches, Becomes
<1>2. Only(n, m, {t}, odd)
  BY <1>1 DEF Only
<1>3. n.state[t] = b /\ n.timeout[t] = d /\ n.pended_on[t] = w /\ n.retval[t] = v
  BY <1>1 DEF Becomes, Only
<1>4. QED
  BY <1>1, <1>2, <1>3, OnlyTransitive DEF Becomes

LEMMA OneQueued ==
  ASSUME NEW s, QueuedRuns(s), NEW n, NEW t, NEW odd, Only(n, s, {t}, odd),
         Queued(n, t) => ~Held(n, t)
  PROVE  QueuedRuns(n)
BY DEF QueuedRuns, Only, Queued, Held

LEMMA NextRuns ==
  ASSUME NEW n, Links(n), QueuedRuns(n), n.cache = next_up(n)
  PROVE  CacheRuns(n) /\ Chosen(n)
BY NextUpFacts DEF CacheRuns, Chosen, QueuedRuns

(* t is queued again at the end of its priority.                           *)
Best(n) == QueuedRuns(n) /\ n.cache = next_up(n)

LEMMA RequeueSpec ==
  ASSUME NEW s, QueuedRuns(s), NEW t \in Threads, ~Held(s, t), NEW m, NEW odd,
         Becomes(m, s, t, s.state[t] \ {"QUEUED"}, s.timeout[t], s.pended_on[t], s.retval[t], odd),
         NEW ok \in BOOLEAN, ok
  PROVE  LET n == update_cache(queue_thread(m, t), ok)
         IN  /\ Becomes(n, s, t, s.state[t] \cup {"QUEUED"}, s.timeout[t], s.pended_on[t],
                        s.retval[t], odd)
             /\ Best(n) /\ n.prio[t] = m.prio[t]
<1> DEFINE a == queue_thread(m, t)
           n == update_cache(a, ok)
           bits == s.state[t] \cup {"QUEUED"}
<1>1. Links(m) /\ m.state[t] = s.state[t] \ {"QUEUED"} /\ m.timeout[t] = s.timeout[t]
      /\ m.pended_on[t] = s.pended_on[t] /\ m.retval[t] = s.retval[t] /\ ~Queued(m, t)
  BY DEF Becomes, Queued
<1>2. Enqueues(a, m, t)
  BY <1>1, QueueSpec
<1> HIDE DEF a
<1>3. m.state[t] \cup {"QUEUED"} = bits
  BY <1>1
<1>4. Becomes(a, m, t, bits, s.timeout[t], s.pended_on[t], s.retval[t], FALSE)
  BY <1>1, <1>2, <1>3, EnqueueBecomes
<1>h. bits \cap Preventing = {}
  BY DEF Held, Preventing
<1> HIDE DEF bits
<1>5. Becomes(a, s, t, bits, s.timeout[t], s.pended_on[t], s.retval[t], odd)
  <2>1. Becomes(a, m, t, bits, s.timeout[t], s.pended_on[t], s.retval[t], odd)
    BY <1>4, BecomesOdd
  <2> DEFINE less == s.state[t] \ {"QUEUED"}
  <2>2. Becomes(m, s, t, less, s.timeout[t], s.pended_on[t], s.retval[t], odd)
    OBVIOUS
  <2> HIDE DEF less
  <2>3. QED
    BY <2>1, <2>2, BecomesTwice
<1>6. QueuedRuns(a) /\ Links(a)
  <2>1. Only(a, s, {t}, odd) /\ Links(a) /\ a.state[t] = bits
    BY <1>5 DEF Becomes
  <2>2. QED
    BY <2>1, <1>h, OneQueued DEF Held
<1>7. Recaches(n, a, ok)
  BY <1>6, UpdateCacheSpec
<1> HIDE DEF n
<1>8. Becomes(n, s, t, bits, s.timeout[t], s.pended_on[t], s.retval[t], odd)
  BY <1>5, <1>7, RecacheBecomes
<1>9. Best(n)
  <2>1. Only(n, s, {t}, odd) /\ Links(n) /\ n.state[t] = bits
    BY <1>8 DEF Becomes
  <2>2. QueuedRuns(n)
    BY <2>1, <1>h, OneQueued DEF Held
  <2>3. QED
    BY <2>2, <1>7 DEF Best, Recaches
<1>10. n.prio[t] = m.prio[t]
  BY <1>2, <1>7 DEF Enqueues, SameOwn, Recaches, Only
<1>11. QED
  BY <1>8, <1>9, <1>10 DEF n, a, bits

(* _current leaves the run queue.                                          *)
LEMMA UnreadySpec ==
  ASSUME NEW s, Links(s), QueuedRuns(s), NEW t \in Threads, s.current = t
  PROVE  /\ Becomes(unready_thread(s, t), s, t, s.state[t] \ {"QUEUED"}, s.timeout[t],
                    s.pended_on[t], s.retval[t], FALSE)
         /\ Best(unready_thread(s, t))
<1> DEFINE a == DequeueIfQueued(s, t)
           ok == (t = s.current)
           n == update_cache(a, ok)
           bits == s.state[t] \ {"QUEUED"}
<1>1. Dequeues(a, s, t, FALSE)
  BY DequeueIfSpec
<1>2. Becomes(a, s, t, bits, s.timeout[t], s.pended_on[t], s.retval[t], FALSE)
  BY <1>1, DequeueBecomes
<1>3. n = unready_thread(s, t) /\ ok \in BOOLEAN /\ ok
  BY DEF unready_thread
<1>4. "QUEUED" \notin bits
  OBVIOUS
<1> HIDE DEF a, ok, bits
<1>5. Links(a) /\ QueuedRuns(a)
  <2>1. Only(a, s, {t}, FALSE) /\ Links(a) /\ a.state[t] = bits
    BY <1>2 DEF Becomes
  <2>2. QED
    BY <2>1, <1>4, OneQueued DEF Queued
<1>6. Recaches(n, a, ok)
  BY <1>3, <1>5, UpdateCacheSpec
<1> HIDE DEF n
<1>7. Becomes(n, s, t, bits, s.timeout[t], s.pended_on[t], s.retval[t], FALSE)
  BY <1>2, <1>6, RecacheBecomes
<1>8. Best(n)
  <2>1. Only(n, s, {t}, FALSE) /\ Links(n) /\ n.state[t] = bits
    BY <1>7 DEF Becomes
  <2>2. QueuedRuns(n)
    BY <2>1, <1>4, OneQueued DEF Queued
  <2>3. QED
    BY <2>2, <1>3, <1>6 DEF Best, Recaches
<1>9. QED
  BY <1>3, <1>7, <1>8 DEF bits

(* A quiet change of a thread that is not queued leaves the cache best.    *)
LEMMA QuietBest ==
  ASSUME NEW m, Best(m), Links(m), NEW n, NEW t \in Threads, NEW b, NEW d, NEW w, NEW v,
         Becomes(n, m, t, b, d, w, v, FALSE), Quiet(n, m), b \cap Preventing # {} => "QUEUED" \notin b
  PROVE  Best(n)
<1>1. Only(n, m, {t}, FALSE) /\ n.state[t] = b
  BY DEF Becomes
<1>2. QueuedRuns(n)
  BY <1>1, OneQueued DEF Queued, Held, Best
<1>3. next_up(n) = next_up(m) /\ n.cache = m.cache
  BY DEF next_up, Quiet
<1>4. QED
  BY <1>2, <1>3 DEF Best

-----------------------------------------------------------------------------
(* halt_thread with _THREAD_SUSPENDED.                                     *)
LEMMA SuspendSpec ==
  ASSUME NEW s, Sound(s), NEW t \in Threads
  PROVE  LET n == halt_thread(s, t, "SUSPENDED")
         IN  /\ Becomes(n, s, t, (s.state[t] \cup {"SUSPENDED"}) \ {"QUEUED"}, s.timeout[t],
                        s.pended_on[t], s.retval[t], FALSE)
             /\ QueuedRuns(n) /\ CacheKept(n, s)
<1> DEFINE bits == (s.state[t] \cup {"SUSPENDED"}) \ {"QUEUED"}
           n == halt_thread(s, t, "SUSPENDED")
<1>0. Links(s) /\ QueuedRuns(s) /\ s.state[t] \in SUBSET StateBits
  BY DEF Sound, QueuedRuns, BitsAgree, Links, KernelState
<1>1. CASE "SUSPENDED" \in s.state[t]
  <2>1. n = s
    BY <1>1 DEF halt_thread
  <2>2. bits = s.state[t]
    BY <1>0, <1>1 DEF QueuedRuns, Queued, Held, Preventing
  <2>3. QED
    BY <1>0, <2>1, <2>2, BecomesNothing, ZenonT(40) DEF CacheKept
<1>2. CASE "SUSPENDED" \notin s.state[t]
  <2> DEFINE more == s.state[t] \cup {"SUSPENDED"}
             a == [s EXCEPT !.state[t] = more]
             b == DequeueIfQueued(a, t)
             ok == TRUE
  <2>1. ok \in BOOLEAN /\ ok /\ n = update_cache(b, ok)
    BY <1>0, <1>2 DEF halt_thread
  <2>2. more \in SUBSET StateBits /\ ("QUEUED" \in more <=> Queued(s, t))
    BY <1>0 DEF StateBits, Preventing, Queued
  <2> HIDE DEF more
  <2>3. Becomes(a, s, t, more, s.timeout[t], s.pended_on[t], s.retval[t], FALSE)
    BY <1>0, <2>2, MarkSpec
  <2> HIDE DEF a
  <2>4. Links(a) /\ a.state[t] = more /\ a.timeout[t] = s.timeout[t]
        /\ a.pended_on[t] = s.pended_on[t] /\ a.retval[t] = s.retval[t]
    BY <2>3 DEF Becomes
  <2>5. Dequeues(b, a, t, FALSE)
    BY <2>4, DequeueIfSpec
  <2> HIDE DEF b
  <2>6. Becomes(b, a, t, bits, s.timeout[t], s.pended_on[t], s.retval[t], FALSE)
    BY <2>4, <2>5, DequeueBecomes DEF more
  <2>7. "QUEUED" \notin bits
    OBVIOUS
  <2> HIDE DEF bits, n, ok
  <2>8. Becomes(b, s, t, bits, s.timeout[t], s.pended_on[t], s.retval[t], FALSE)
    BY <2>3, <2>6, BecomesTwice
  <2>9. Links(b) /\ QueuedRuns(b)
    <3>1. Only(b, s, {t}, FALSE) /\ Links(b) /\ b.state[t] = bits
      BY <2>8 DEF Becomes
    <3>2. QED
      BY <1>0, <2>7, <3>1, OneQueued DEF Queued
  <2>10. Recaches(n, b, ok)
    BY <2>1, <2>9, UpdateCacheSpec
  <2>11. Becomes(n, s, t, bits, s.timeout[t], s.pended_on[t], s.retval[t], FALSE)
    BY <2>8, <2>10, RecacheBecomes
  <2>12. QueuedRuns(n)
    <3>1. Only(n, s, {t}, FALSE) /\ Links(n) /\ n.state[t] = bits
      BY <2>11 DEF Becomes
    <3>2. QED
      BY <1>0, <2>7, <3>1, OneQueued DEF Queued
  <2>13. CacheKept(n, s)
    BY <2>10 DEF CacheKept, Recaches
  <2>14. QED
    BY <2>11, <2>12, <2>13 DEF bits, n
<1>3. QED
  BY <1>1, <1>2

(* halt_thread with _THREAD_DEAD: t and the threads joining it change.     *)
Joining(s, t) == {u \in Threads \ {t} : s.pended_on[u] = t}

Dies(n, s, t) ==
  /\ Links(n) /\ QueuedRuns(n) /\ CacheRuns(n) /\ Chosen(n)
  /\ Only(n, s, {t} \cup Joining(s, t), FALSE)
  /\ n.state[t] = (s.state[t] \cup {"DEAD"}) \ {"QUEUED", "PENDING"}
  /\ n.timeout[t] = FALSE /\ n.pended_on[t] = NULL /\ n.retval[t] = s.retval[t]
  /\ \A u \in Joining(s, t) :
       /\ n.state[u] = Readied(s.state[u] \ {"PENDING"}, FALSE)
       /\ n.timeout[u] = FALSE /\ n.pended_on[u] = NULL /\ n.retval[u] = 0

LEMMA UnpendIfSpec ==
  ASSUME NEW s, Links(s), NEW t \in Threads, "PENDING" \in s.state[t] <=> s.pended_on[t] # NULL
  PROVE  /\ Becomes(UnpendIfPended(s, t), s, t, s.state[t] \ {"PENDING"}, s.timeout[t], NULL,
                    s.retval[t], FALSE)
         /\ Quiet(UnpendIfPended(s, t), s)
<1>1. CASE s.pended_on[t] # NULL
  BY <1>1, UnpendSpec DEF UnpendIfPended
<1>2. CASE s.pended_on[t] = NULL
  <2>1. UnpendIfPended(s, t) = s /\ s.state[t] \ {"PENDING"} = s.state[t]
    BY <1>2 DEF UnpendIfPended
  <2>2. Becomes(s, s, t, s.state[t], s.timeout[t], NULL, s.retval[t], FALSE)
    BY <1>2, BecomesNothing
  <2>3. QED
    BY <2>1, <2>2 DEF Quiet
<1>3. QED
  BY <1>1, <1>2

LEMMA DieSpec ==
  ASSUME NEW s, Sound(s), NEW t \in Threads, "DEAD" \notin s.state[t]
  PROVE  Dies(halt_thread(s, t, "DEAD"), s, t)
<1> DEFINE more == s.state[t] \cup {"DEAD"}
           less == more \ {"QUEUED"}
           bits == less \ {"PENDING"}
           a == [s EXCEPT !.state[t] = more]
           b == DequeueIfQueued(a, t)
           c == UnpendIfPended(b, t)
           due == FALSE
           d == [c EXCEPT !.timeout[t] = due]
           e == unpend_all(d, t)
           ok == TRUE
           n == update_cache(e, ok)
           J == Joining(s, t)
<1>0. /\ Links(s) /\ QueuedRuns(s) /\ s.state[t] \in SUBSET StateBits
      /\ "PENDING" \in s.state[t] <=> s.pended_on[t] # NULL
      /\ t # NULL /\ t \in WaitQs
  BY ThreadFacts DEF Sound, QueuedRuns, BitsAgree, Links, KernelState
<1>1. ok \in BOOLEAN /\ ok /\ due \in BOOLEAN /\ ~due /\ n = halt_thread(s, t, "DEAD")
  BY <1>0 DEF halt_thread, z_abort_thread_timeout
<1>2. /\ more \in SUBSET StateBits /\ ("QUEUED" \in more <=> Queued(s, t))
      /\ "QUEUED" \notin bits
      /\ "PENDING" \in less <=> "PENDING" \in s.state[t]
      /\ bits = (s.state[t] \cup {"DEAD"}) \ {"QUEUED", "PENDING"}
  BY <1>0 DEF StateBits, Preventing, Queued
<1>3. Becomes(a, s, t, more, s.timeout[t], s.pended_on[t], s.retval[t], FALSE)
  <2> HIDE DEF more
  <2>1. QED
    BY <1>0, <1>2, MarkSpec
<1> HIDE DEF a
<1>4. Links(a) /\ a.state[t] = more /\ a.timeout[t] = s.timeout[t]
      /\ a.pended_on[t] = s.pended_on[t] /\ a.retval[t] = s.retval[t]
  BY <1>3 DEF Becomes
<1>5. Dequeues(b, a, t, FALSE)
  BY <1>4, DequeueIfSpec
<1> HIDE DEF b
<1>6. Becomes(b, a, t, less, s.timeout[t], s.pended_on[t], s.retval[t], FALSE)
  BY <1>4, <1>5, DequeueBecomes
<1> HIDE DEF less, more
<1>7. Becomes(b, s, t, less, s.timeout[t], s.pended_on[t], s.retval[t], FALSE)
  BY <1>3, <1>6, BecomesTwice
<1>8. Links(b) /\ b.state[t] = less /\ b.timeout[t] = s.timeout[t]
      /\ b.pended_on[t] = s.pended_on[t] /\ b.retval[t] = s.retval[t]
  BY <1>7 DEF Becomes
<1>9. Becomes(c, b, t, bits, s.timeout[t], NULL, s.retval[t], FALSE)
  BY <1>0, <1>2, <1>8, UnpendIfSpec
<1> HIDE DEF c, bits
<1>10. Becomes(c, s, t, bits, s.timeout[t], NULL, s.retval[t], FALSE)
  BY <1>7, <1>9, BecomesTwice, ZenonT(40)
<1>11. Links(c) /\ c.state[t] = bits /\ c.pended_on[t] = NULL /\ c.retval[t] = s.retval[t]
  BY <1>10 DEF Becomes
<1> HIDE DEF due
<1>12. Becomes(d, c, t, bits, due, NULL, s.retval[t], FALSE)
  BY <1>1, <1>11, TimeoutSpec
<1> HIDE DEF d
<1>13. Becomes(d, s, t, bits, due, NULL, s.retval[t], FALSE)
  BY <1>10, <1>12, BecomesTwice
<1>14. /\ Links(d) /\ Only(d, s, {t}, FALSE) /\ d.state[t] = bits /\ d.timeout[t] = due
       /\ d.pended_on[t] = NULL /\ d.retval[t] = s.retval[t]
  BY <1>13 DEF Becomes
<1>15. QueuedRuns(d)
  BY <1>0, <1>2, <1>14, OneQueued DEF Queued
<1>16. {u \in Threads : d.pended_on[u] = t} = J /\ J \subseteq Threads \ {t}
  BY <1>0, <1>14 DEF Only, Joining
<1>17. Emptied(e, d, J)
  BY <1>0, <1>14, <1>15, <1>16, UnpendAllSpec
<1> HIDE DEF e, J
<1>18. /\ Links(e) /\ QueuedRuns(e) /\ Only(e, d, J, FALSE)
       /\ \A u \in J : /\ e.state[u] = Readied(d.state[u] \ {"PENDING"}, FALSE)
                       /\ e.timeout[u] = FALSE /\ e.pended_on[u] = NULL /\ e.retval[u] = 0
  BY <1>17 DEF Emptied
<1>19. Recaches(n, e, ok)
  BY <1>1, <1>18, UpdateCacheSpec
<1> HIDE DEF n, ok
<1>20. /\ Links(n) /\ Only(n, e, {}, FALSE) /\ CacheRuns(n) /\ Chosen(n)
  BY <1>19 DEF Recaches
<1>21. QueuedRuns(n)
  BY <1>18, <1>20 DEF QueuedRuns, Only, Queued, Held
<1>22. Only(n, s, {t} \cup J, FALSE)
  <2> DEFINE X == {t} \cup J
  <2>1. Only(d, s, X, FALSE) /\ Only(e, d, X, FALSE) /\ Only(n, e, X, FALSE)
    BY <1>14, <1>18, <1>20 DEF Only
  <2> HIDE DEF X
  <2>2. Only(n, s, X, FALSE)
    BY <2>1, OnlyTransitive
  <2>3. QED
    BY <2>2 DEF X
<1>23. n.state[t] = bits /\ n.timeout[t] = FALSE /\ n.pended_on[t] = NULL /\ n.retval[t] = s.retval[t]
  <2>1. t \in Threads \ J
    BY <1>16
  <2>2. QED
    BY <2>1, <1>1, <1>14, <1>18, <1>20 DEF Only
<1>24. ASSUME NEW u \in J
       PROVE  /\ n.state[u] = Readied(s.state[u] \ {"PENDING"}, FALSE)
              /\ n.timeout[u] = FALSE /\ n.pended_on[u] = NULL /\ n.retval[u] = 0
  <2>1. u \in Threads \ {t}
    BY <1>16
  <2>2. d.state[u] = s.state[u]
    BY <2>1, <1>14 DEF Only
  <2>3. QED
    BY <2>1, <2>2, <1>18, <1>20, ZenonT(40) DEF Only
<1>25. QED
  BY <1>1, <1>2, <1>20, <1>21, <1>22, <1>23, <1>24 DEF Dies, J

-----------------------------------------------------------------------------
(* A new priority.  The order of the run queue survives unless the thread  *)
(* is on it.                                                               *)
LEMMA PrioSpec ==
  ASSUME NEW s, Links(s), NEW t \in Threads, NEW p \in Int, NEW odd, Queued(s, t) => odd
  PROVE  LET n == [s EXCEPT !.prio[t] = p]
         IN  /\ Becomes(n, s, t, s.state[t], s.timeout[t], s.pended_on[t], s.retval[t], odd)
             /\ n.cache = s.cache /\ n.runq = s.runq /\ \A u \in Threads \ {t} : n.prio[u] = s.prio[u]
<1> DEFINE n == [s EXCEPT !.prio[t] = p]
<1>0. s \in KernelState
  BY DEF Links
<1>1. n \in KernelState
  <2>1. [s.prio EXCEPT ![t] = p] \in [Threads -> Int]
    BY <1>0 DEF KernelState
  <2>2. QED
    BY <1>0, <2>1 DEF KernelState
<1>2. /\ n.prio = [s.prio EXCEPT ![t] = p] /\ n.runq = s.runq /\ n.state = s.state
      /\ n.timeout = s.timeout /\ n.pended_on = s.pended_on /\ n.waitq = s.waitq
      /\ n.retval = s.retval /\ n.current = s.current /\ n.sched_locked = s.sched_locked
      /\ n.corrupt = s.corrupt /\ n.cache = s.cache
  BY <1>0 DEF KernelState
<1>3. \A u \in Threads \ {t} : n.prio[u] = s.prio[u]
  BY <1>0, <1>2 DEF KernelState
<1> HIDE DEF n
<1>4. Links(n)
  BY <1>1, <1>2 DEF Links, Queued
<1>5. ~Queued(s, t) /\ Sorted(s.runq, s.prio) => Sorted(n.runq, n.prio)
  <2> SUFFICES ASSUME ~Queued(s, t), Sorted(s.runq, s.prio) PROVE Sorted(s.runq, n.prio)
    BY <1>2
  <2>1. \A i \in 1 .. Len(s.runq) : s.runq[i] \in Threads \ {t}
    BY DEF Links, Members
  <2>2. \A i \in 1 .. Len(s.runq) : n.prio[s.runq[i]] = s.prio[s.runq[i]]
    BY <1>3, <2>1
  <2>3. QED
    BY <2>2 DEF Sorted
<1>6. Only(n, s, {t}, odd)
  BY <1>2, <1>3, <1>5 DEF Only
<1>7. QED
  BY <1>2, <1>3, <1>4, <1>6 DEF Becomes, n

LEMMA SetPrioSpec ==
  ASSUME NEW s, Sound(s), NEW t \in Threads, NEW p \in Int, NEW odd,
         (Queued(s, t) <=> Able(s, t)) \/ odd
  PROVE  LET n == z_thread_prio_set(s, t, p)
         IN  /\ Becomes(n, s, t, Readied(s.state[t], s.timeout[t]), s.timeout[t],
                        s.pended_on[t], s.retval[t], odd)
             /\ QueuedRuns(n)
             /\ CacheRuns(s) => CacheRuns(n)
             /\ Chosen(s) /\ (t = s.current => Able(s, t)) => Chosen(n)
<1> DEFINE n == z_thread_prio_set(s, t, p)
<1>0. Links(s) /\ QueuedRuns(s)
  BY DEF Sound, QueuedRuns, BitsAgree
<1>1. CASE Able(s, t)
  <2> DEFINE a == dequeue_thread(s, t)
             m == [a EXCEPT !.prio[t] = p]
             less == s.state[t] \ {"QUEUED"}
             ok == TRUE
  <2>1. n = update_cache(queue_thread(m, t), ok) /\ ok \in BOOLEAN /\ ok
    BY <1>1, PredicateFacts DEF z_thread_prio_set
  <2>2. Dequeues(a, s, t, odd)
    <3>1. CASE Queued(s, t)
      <4>1. Dequeues(a, s, t, FALSE)
        BY <1>0, <3>1, DequeueSpec
      <4>2. QED
        BY <4>1 DEF Dequeues, Only
    <3>2. CASE ~Queued(s, t)
      <4>1. Dequeues(a, s, t, ~Queued(s, t)) /\ odd
        BY <1>0, <1>1, <3>2, DequeueSpec
      <4>2. QED
        BY <4>1 DEF Dequeues, Only
    <3>3. QED
      BY <3>1, <3>2
  <2> HIDE DEF a
  <2>3. Becomes(a, s, t, less, s.timeout[t], s.pended_on[t], s.retval[t], odd)
    BY <2>2, DequeueBecomes
  <2>4. Links(a) /\ a.state[t] = less /\ a.timeout[t] = s.timeout[t]
        /\ a.pended_on[t] = s.pended_on[t] /\ a.retval[t] = s.retval[t] /\ ~Queued(a, t)
    BY <2>3 DEF Becomes, Queued
  <2> HIDE DEF less
  <2>5. Becomes(m, a, t, less, s.timeout[t], s.pended_on[t], s.retval[t], odd)
    BY <2>4, PrioSpec
  <2> HIDE DEF m
  <2>6. Becomes(m, s, t, less, s.timeout[t], s.pended_on[t], s.retval[t], odd)
    BY <2>3, <2>5, BecomesTwice
  <2>7. ~Held(s, t)
    BY <1>1 DEF Able
  <2> HIDE DEF ok, n
  <2>8. /\ Becomes(n, s, t, s.state[t] \cup {"QUEUED"}, s.timeout[t], s.pended_on[t],
                   s.retval[t], odd)
        /\ Best(n)
    BY <1>0, <2>1, <2>6, <2>7, RequeueSpec DEF less
  <2>9. Readied(s.state[t], s.timeout[t]) = s.state[t] \cup {"QUEUED"}
    BY <1>1 DEF Readied, Able, Held
  <2>10. Links(n) /\ QueuedRuns(n) /\ n.cache = next_up(n)
    BY <2>8 DEF Best, Becomes
  <2>11. CacheRuns(n) /\ Chosen(n)
    BY <2>10, NextRuns
  <2>12. QED
    BY <2>8, <2>9, <2>10, <2>11 DEF n
<1>2. CASE ~Able(s, t)
  <2>1. n = [s EXCEPT !.prio[t] = p]
    BY <1>2, PredicateFacts DEF z_thread_prio_set
  <2>2. Queued(s, t) => odd
    BY <1>2
  <2>3. /\ Becomes(n, s, t, s.state[t], s.timeout[t], s.pended_on[t], s.retval[t], odd)
        /\ n.cache = s.cache /\ n.runq = s.runq /\ \A u \in Threads \ {t} : n.prio[u] = s.prio[u]
    <3> HIDE DEF n
    <3>1. LET m == [s EXCEPT !.prio[t] = p]
          IN  /\ Becomes(m, s, t, s.state[t], s.timeout[t], s.pended_on[t], s.retval[t], odd)
              /\ m.cache = s.cache /\ m.runq = s.runq
              /\ \A u \in Threads \ {t} : m.prio[u] = s.prio[u]
      BY <1>0, <2>2, PrioSpec
    <3>2. QED
      BY <2>1, <3>1
  <2> HIDE DEF n
  <2>4. Readied(s.state[t], s.timeout[t]) = s.state[t]
    BY <1>2 DEF Readied, Able, Held
  <2>5. Only(n, s, {t}, odd) /\ n.state[t] = s.state[t]
    BY <2>3 DEF Becomes
  <2>6. \A u \in Threads : n.state[u] = s.state[u]
    BY <2>5 DEF Only
  <2>7. QueuedRuns(n)
    BY <1>0, <2>6 DEF QueuedRuns, Queued, Held
  <2>8. n.current = s.current /\ n.sched_locked = s.sched_locked /\ next_up(n) = next_up(s)
        /\ s.current \in Threads \cup {Idle} /\ s.cache \in Threads \cup {Idle}
    BY <1>0, <2>3, <2>5 DEF Only, next_up, Links, KernelState
  <2>9. CacheRuns(s) => CacheRuns(n)
    BY <2>3, <2>6, <2>8 DEF CacheRuns, Held
  <2>10. t # s.current => thread_is_preemptible(n, n.current) = thread_is_preemptible(s, s.current)
    BY <2>3, <2>8 DEF thread_is_preemptible
  <2>11. Chosen(s) /\ t # s.current => Chosen(n)
    BY <2>3, <2>6, <2>8, <2>10 DEF Chosen, Held
  <2>12. QED
    BY <1>2, <2>3, <2>4, <2>7, <2>9, <2>11 DEF n
<1>3. QED
  BY <1>1, <1>2

-----------------------------------------------------------------------------
(* How a section ends: nothing changes but a return value that becomes     *)
(* -EAGAIN.                                                                *)
Ends(n, s) ==
  /\ n \in KernelState
  /\ n.state = s.state /\ n.timeout = s.timeout /\ n.pended_on = s.pended_on
  /\ n.waitq = s.waitq /\ n.runq = s.runq /\ n.prio = s.prio
  /\ n.current = s.current /\ n.sched_locked = s.sched_locked /\ n.cache = s.cache
  /\ n.corrupt = s.corrupt /\ n.slicing = s.slicing
  /\ \A u \in Threads : n.retval[u] = 0 => s.retval[u] = 0

LEMMA EndFacts ==
  ASSUME NEW s, Links(s), NEW n, Ends(n, s)
  PROVE  /\ Links(n) /\ (QueuedRuns(s) => QueuedRuns(n))
         /\ CacheRuns(s) => CacheRuns(n)
         /\ Chosen(s) => Chosen(n)
         /\ Best(s) => Best(n)
         /\ Timely(s) => Timely(n)
         /\ Polite(s) => Polite(n)
<1>1. /\ next_up(n) = next_up(s) /\ n.current = s.current /\ n.cache = s.cache
      /\ thread_is_preemptible(n, n.current) = thread_is_preemptible(s, s.current)
  BY DEF Ends, next_up, thread_is_preemptible
<1>2. \A u : /\ Held(n, u) <=> Held(s, u)
             /\ Queued(n, u) <=> Queued(s, u)
             /\ Able(n, u) <=> Able(s, u)
             /\ n.timeout[u] = s.timeout[u]
  BY DEF Ends, Held, Queued, Able
<1>3. Links(n)
  BY <1>2 DEF Links, Ends
<1>4. QueuedRuns(s) => QueuedRuns(n)
  BY <1>2 DEF QueuedRuns
<1>5. CacheRuns(s) => CacheRuns(n)
  BY <1>1, <1>2 DEF CacheRuns
<1>6. Chosen(s) => Chosen(n)
  BY <1>1, <1>2 DEF Chosen
<1>7. Best(s) => Best(n)
  BY <1>1, <1>4 DEF Best
<1>8. Timely(s) => Timely(n)
  BY <1>2 DEF Timely
<1>9. Polite(s) => Polite(n)
  BY <1>1, <1>2 DEF Polite
<1>10. QED
  BY <1>3, <1>4, <1>5, <1>6, <1>7, <1>8, <1>9

LEMMA SwapEnds ==
  ASSUME NEW m, Links(m), m.current \in Threads, z_swap(m)
  PROVE  Ends(k', m) /\ pendsv' = TRUE
<1> DEFINE c == m.current
           n == SetRetval(m, c, EAGAIN)
<1>1. m \in KernelState /\ EAGAIN \in {0, EAGAIN} /\ EAGAIN # 0
  BY DEF Links, EAGAIN
<1>2. n \in KernelState
  <2>1. [m.retval EXCEPT ![c] = EAGAIN] \in [Threads -> {0, EAGAIN}]
    BY <1>1 DEF KernelState
  <2>2. QED
    BY <1>1, <2>1 DEF KernelState, SetRetval
<1>3. /\ n.state = m.state /\ n.timeout = m.timeout /\ n.pended_on = m.pended_on
      /\ n.waitq = m.waitq /\ n.runq = m.runq /\ n.prio = m.prio
      /\ n.current = m.current /\ n.sched_locked = m.sched_locked /\ n.cache = m.cache
      /\ n.corrupt = m.corrupt /\ n.slicing = m.slicing
      /\ n.retval = [m.retval EXCEPT ![c] = EAGAIN]
  BY <1>1 DEF KernelState, SetRetval
<1> HIDE DEF n
<1>4. \A u \in Threads : n.retval[u] = 0 => m.retval[u] = 0
  BY <1>1, <1>3 DEF KernelState
<1>5. Ends(n, m)
  BY <1>2, <1>3, <1>4 DEF Ends
<1>6. QED
  BY <1>5 DEF z_swap, n

LEMMA UnlockEnds ==
  ASSUME NEW m, Links(m), k' = m
  PROVE  Ends(k', m)
BY DEF Ends, Links

LEMMA RescheduleEnds ==
  ASSUME NEW m, Links(m), m.current \in Threads, z_reschedule(m)
  PROVE  /\ Ends(k', m)
         /\ (pendsv' = TRUE /\ k'.cache # k'.current) \/ (pendsv' = pendsv /\ k'.cache = k'.current)
<1>1. CASE m.cache # m.current
  BY <1>1, SwapEnds DEF z_reschedule, Ends
<1>2. CASE m.cache = m.current
  BY <1>2, UnlockEnds DEF z_reschedule, Unlock
<1>3. QED
  BY <1>1, <1>2

(* What a step does to the one thread it is about.  zero: its wait may     *)
(* return 0 now.                                                           *)
Turns(n, s, t, bits, due, queue, zero, odd) ==
  /\ Links(n) /\ n.current = s.current
  /\ n.state[t] = bits /\ n.timeout[t] = due /\ n.pended_on[t] = queue
  /\ \A u \in Threads \ {t} : /\ n.state[u] = s.state[u] /\ n.timeout[u] = s.timeout[u]
                              /\ n.pended_on[u] = s.pended_on[u]
  /\ \A u \in Threads : n.retval[u] = 0 => s.retval[u] = 0 \/ (zero /\ u = t)
  /\ ~odd => /\ n.corrupt => s.corrupt
             /\ Sorted(s.runq, s.prio) => Sorted(n.runq, n.prio)

LEMMA TurnFrom ==
  ASSUME NEW s, NEW m, NEW n, NEW t \in Threads, NEW b, NEW d, NEW w, NEW v, NEW odd, NEW zero,
         Becomes(m, s, t, b, d, w, v, odd), Ends(n, m), v = 0 => zero \/ s.retval[t] = 0
  PROVE  Turns(n, s, t, b, d, w, zero, odd)
<1>1. Links(m) /\ Only(m, s, {t}, odd) /\ m.state[t] = b /\ m.timeout[t] = d
      /\ m.pended_on[t] = w /\ m.retval[t] = v
  BY DEF Becomes
<1>2. Links(n)
  BY <1>1, EndFacts
<1>3. \A u \in Threads : n.retval[u] = 0 => s.retval[u] = 0 \/ (zero /\ u = t)
  BY <1>1 DEF Only, Ends
<1>4. QED
  BY <1>1, <1>2, <1>3 DEF Turns, Only, Ends

-----------------------------------------------------------------------------
(* The invariant that holds whatever calls the application makes.          *)

(* Nobody waits to join a dead thread.                                     *)
DeadAlone(s) == \A t, u \in Threads : "DEAD" \in s.state[t] => s.pended_on[u] # t

(* A thread in k_thread_join waits for its target or for nothing, and has  *)
(* the return value 0 only when the target is dead.                        *)
Joined(s, cl, c) ==
  cl[c].op = "join" => /\ s.pended_on[c] \in {cl[c].arg, NULL}
                       /\ s.retval[c] = 0 => "DEAD" \in s.state[cl[c].arg]

(* Somebody has still to make t ready.                                     *)
Excused(cl, fr, t) ==
  \/ fr = t
  \/ \E c \in Threads : cl[c].op \in {"suspend", "wakeup2"} /\ cl[c].arg = t

(* Outside the window before a pended switch, _current is held by nothing. *)
Exec(s, switching) == ~switching /\ s.current # Idle => ~Held(s, s.current)

Typed ==
  /\ call \in [Threads -> Calls] /\ firing \in Threads \cup {SliceTimer, NULL}
  /\ pendsv \in BOOLEAN /\ tick \in BOOLEAN /\ yielded \in BOOLEAN
  /\ susp \subseteq Threads /\ finite \subseteq Threads

Fires(s, fr, ticking) ==
  /\ fr # NULL => ticking
  /\ fr \in Threads => ~s.timeout[fr]

Core ==
  /\ Typed /\ Sound(k) /\ CacheRuns(k) /\ DeadAlone(k)
  /\ Exec(k, pendsv) /\ Fires(k, firing, tick)
  /\ \A c \in Threads : Joined(k, call, c)
  /\ \A t \in Threads : Lost(k, t) => Excused(call, firing, t)

(* The bits, the timeout and the wait queue of one thread agree.           *)
Agree(bits, due, queue) ==
  /\ "PENDING" \in bits <=> queue # NULL
  /\ "QUEUED" \in bits => bits \cap Preventing = {}
  /\ "DEAD" \in bits => "PENDING" \notin bits /\ ~due

(* The thread a step is about can be left as the step leaves it.           *)
Allowed(s, t, bits, due, queue) ==
  /\ Agree(bits, due, queue)
  /\ "DEAD" \in bits <=> "DEAD" \in s.state[t]
  /\ queue \in Threads => queue = s.pended_on[t] \/ (queue # t /\ "DEAD" \notin s.state[queue])

(* The threads a step leaves alone.                                        *)
Others(n, s, t) ==
  /\ Sound(n) /\ DeadAlone(n)
  /\ \A u \in Threads : "DEAD" \in n.state[u] <=> "DEAD" \in s.state[u]
  /\ \A c \in Threads \ {t} : Joined(n, call, c)
  /\ \A u \in Threads \ {t} : /\ Lost(n, u) <=> Lost(s, u)
                              /\ Held(n, u) <=> Held(s, u)
                              /\ n.timeout[u] = s.timeout[u]

LEMMA TurnOthers ==
  ASSUME Core, NEW n, NEW t \in Threads, NEW b, NEW d, NEW w, NEW zero, NEW odd,
         Turns(n, k, t, b, d, w, zero, odd), Allowed(k, t, b, d, w)
  PROVE  Others(n, k, t)
<1>1. /\ Links(n) /\ n.state[t] = b /\ n.timeout[t] = d /\ n.pended_on[t] = w
      /\ \A u \in Threads \ {t} : /\ n.state[u] = k.state[u] /\ n.timeout[u] = k.timeout[u]
                                  /\ n.pended_on[u] = k.pended_on[u]
      /\ \A u \in Threads \ {t} : n.retval[u] = 0 => k.retval[u] = 0
  BY DEF Turns
<1>2. \A u \in Threads : "DEAD" \in n.state[u] <=> "DEAD" \in k.state[u]
  BY <1>1 DEF Allowed
<1>3. Sound(n)
  <2>1. BitsAgree(n, t)
    BY <1>1 DEF BitsAgree, Queued, Held, Allowed, Agree
  <2>2. ASSUME NEW u \in Threads \ {t} PROVE BitsAgree(n, u)
    <3>1. BitsAgree(k, u)
      BY DEF Core, Sound
    <3>2. QED
      BY <1>1, <3>1 DEF BitsAgree, Queued, Held
  <2>3. QED
    BY <1>1, <2>1, <2>2 DEF Sound
<1>4. DeadAlone(n)
  <2> SUFFICES ASSUME NEW x \in Threads, NEW u \in Threads, "DEAD" \in n.state[x]
               PROVE  n.pended_on[u] # x
    BY DEF DeadAlone
  <2>1. k.pended_on[u] # x
    BY <1>2 DEF Core, DeadAlone
  <2>2. CASE u # t
    BY <1>1, <2>1, <2>2
  <2>3. CASE u = t /\ w = x
    <3>1. "DEAD" \notin k.state[x]
      BY <2>1, <2>3 DEF Allowed
    <3>2. QED
      BY <1>2, <3>1
  <2>4. QED
    BY <1>1, <2>2, <2>3
<1>5. ASSUME NEW c \in Threads \ {t} PROVE Joined(n, call, c)
  <2> SUFFICES ASSUME call[c].op = "join"
               PROVE  /\ n.pended_on[c] \in {call[c].arg, NULL}
                      /\ n.retval[c] = 0 => "DEAD" \in n.state[call[c].arg]
    BY DEF Joined
  <2>1. call[c].arg \in Threads
    BY DEF Core, Typed, Calls, NoCall
  <2>2. /\ k.pended_on[c] \in {call[c].arg, NULL}
        /\ k.retval[c] = 0 => "DEAD" \in k.state[call[c].arg]
    BY DEF Core, Joined
  <2>3. QED
    BY <1>1, <1>2, <2>1, <2>2
<1>6. \A u \in Threads \ {t} : /\ Lost(n, u) <=> Lost(k, u)
                               /\ Held(n, u) <=> Held(k, u)
                               /\ n.timeout[u] = k.timeout[u]
  BY <1>1 DEF Lost, Able, Held, Queued
<1>7. QED
  BY <1>2, <1>3, <1>4, <1>5, <1>6 DEF Others

(* _current may go on executing.                                           *)
MayRun(t, bits) ==
  \/ pendsv' = TRUE
  \/ k'.cache = k'.current
  \/ pendsv' = pendsv /\ (t = k.current /\ bits \cap Preventing # {} => Held(k, t))

LEMMA TurnExec ==
  ASSUME Core, NEW t \in Threads, NEW b, NEW d, NEW w, NEW zero, NEW odd,
         Turns(k', k, t, b, d, w, zero, odd), CacheRuns(k'), MayRun(t, b)
  PROVE  Exec(k', pendsv')
<1>0. k'.current \in Threads \cup {Idle} /\ k'.current = k.current
  BY DEF Turns, Links, KernelState
<1>1. CASE pendsv' = TRUE
  BY <1>1 DEF Exec
<1>2. CASE k'.cache = k'.current
  BY <1>2 DEF Exec, CacheRuns
<1>3. CASE pendsv' = pendsv /\ (t = k.current /\ b \cap Preventing # {} => Held(k, t))
  <2> SUFFICES ASSUME ~pendsv', k'.current # Idle PROVE ~Held(k', k'.current)
    BY DEF Exec
  <2>1. ~Held(k, k.current)
    BY <1>0, <1>3 DEF Core, Exec
  <2>2. CASE t = k.current
    BY <1>0, <1>3, <2>1, <2>2 DEF Turns, Held
  <2>3. CASE t # k.current
    BY <1>0, <2>1, <2>3 DEF Turns, Held
  <2>4. QED
    BY <2>2, <2>3
<1>4. QED
  BY <1>1, <1>2, <1>3 DEF MayRun

(* A step, in general.                                                     *)
LEMMA TurnCore ==
  ASSUME Core, NEW t \in Threads, NEW b, NEW d, NEW w, NEW zero, NEW odd,
         Turns(k', k, t, b, d, w, zero, odd), Allowed(k, t, b, d, w), CacheRuns(k'), MayRun(t, b),
         Typed', Joined(k', call', t), Fires(k', firing', tick'),
         \A c \in Threads \ {t} : call'[c].op = "join" => call'[c] = call[c],
         \A u \in Threads \ {t} : Lost(k', u) /\ Excused(call, firing, u) =>
                                  Excused(call', firing', u),
         Lost(k', t) => Excused(call', firing', t)
  PROVE  Core'
<1> DEFINE n == k'
<1>1. Others(n, k, t)
  BY TurnOthers
<1>2. Exec(n, pendsv')
  BY TurnExec
<1>3. ASSUME NEW c \in Threads PROVE Joined(n, call', c)
  <2>1. CASE c = t
    BY <2>1
  <2>2. CASE c # t
    <3>1. Joined(n, call, c)
      BY <1>1, <2>2 DEF Others
    <3>2. QED
      BY <2>2, <3>1 DEF Joined
  <2>3. QED
    BY <2>1, <2>2
<1>4. ASSUME NEW u \in Threads, Lost(n, u) PROVE Excused(call', firing', u)
  <2>1. CASE u = t
    BY <1>4, <2>1
  <2>2. CASE u # t
    <3>1. Lost(k, u)
      BY <1>1, <1>4, <2>2 DEF Others
    <3>2. QED
      BY <1>4, <2>2, <3>1 DEF Core
  <2>3. QED
    BY <2>1, <2>2
<1> HIDE DEF n
<1>5. /\ Sound(n) /\ CacheRuns(n) /\ DeadAlone(n) /\ Exec(n, pendsv') /\ Fires(n, firing', tick')
      /\ \A c \in Threads : Joined(n, call', c)
      /\ \A u \in Threads : Lost(n, u) => Excused(call', firing', u)
  BY <1>1, <1>2, <1>3, <1>4 DEF Others, n
<1>6. QED
  BY <1>5 DEF Core, n

(* A step that leaves calls and the timer interrupt where they are.        *)
LEMMA TurnKeeps ==
  ASSUME Core, NEW t \in Threads, NEW b, NEW d, NEW w, NEW zero, NEW odd,
         Turns(k', k, t, b, d, w, zero, odd), Allowed(k, t, b, d, w), CacheRuns(k'), MayRun(t, b),
         Typed', call' = call, firing' = firing, tick' = tick,
         call[t].op = "join" => w \in {NULL, k.pended_on[t]} /\ ~zero,
         firing = t => ~d,
         b \cap Preventing = {} /\ ~d /\ "QUEUED" \notin b => Lost(k, t)
  PROVE  Core'
<1>1. Others(k', k, t)
  BY TurnOthers
<1>2. /\ k'.state[t] = b /\ k'.timeout[t] = d /\ k'.pended_on[t] = w
      /\ k'.retval[t] = 0 => k.retval[t] = 0 \/ zero
  BY DEF Turns
<1>3. Fires(k', firing', tick')
  BY <1>1, <1>2 DEF Fires, Core, Others
<1>4. Joined(k', call', t)
  <2> SUFFICES ASSUME call[t].op = "join"
               PROVE  /\ k'.pended_on[t] \in {call[t].arg, NULL}
                      /\ k'.retval[t] = 0 => "DEAD" \in k'.state[call[t].arg]
    BY DEF Joined
  <2>1. call[t].arg \in Threads
    BY DEF Core, Typed, Calls, NoCall
  <2>2. /\ k.pended_on[t] \in {call[t].arg, NULL}
        /\ k.retval[t] = 0 => "DEAD" \in k.state[call[t].arg]
    BY DEF Core, Joined
  <2>3. QED
    BY <1>1, <1>2, <2>1, <2>2 DEF Others
<1>5. Lost(k', t) => Excused(call', firing', t)
  <2>1. Lost(k', t) => Lost(k, t)
    BY <1>2 DEF Lost, Able, Held, Queued
  <2>2. QED
    BY <2>1 DEF Core
<1>6. QED
  BY <1>3, <1>4, <1>5, TurnCore

-----------------------------------------------------------------------------
(* The effect of each operation on the scheduler state.                    *)
Effect(t, bits, due, queue, zero, odd) ==
  /\ Turns(k', k, t, bits, due, queue, zero, odd)
  /\ CacheRuns(k') /\ MayRun(t, bits) /\ (Chosen(k) => Chosen(k'))

LEMMA CoreFacts ==
  ASSUME Core
  PROVE  /\ Links(k) /\ QueuedRuns(k) /\ Sound(k) /\ CacheRuns(k) /\ k \in KernelState
         /\ k.current \in Threads \cup {Idle}
         /\ \A t \in Threads : /\ k.state[t] \in SUBSET StateBits /\ k.timeout[t] \in BOOLEAN
                               /\ k.pended_on[t] \in WaitQs \cup {NULL}
                               /\ k.retval[t] \in {0, EAGAIN}
                               /\ Agree(k.state[t], k.timeout[t], k.pended_on[t])
<1>1. Links(k) /\ Sound(k) /\ CacheRuns(k) /\ k \in KernelState
  BY DEF Core, Sound, Links
<1>2. \A t \in Threads : Agree(k.state[t], k.timeout[t], k.pended_on[t])
  BY <1>1 DEF Agree, Sound, BitsAgree, Held, Queued
<1>3. QueuedRuns(k)
  BY <1>1 DEF Sound, BitsAgree, QueuedRuns
<1>4. QED
  BY <1>1, <1>2, <1>3 DEF KernelState

LEMMA RunFacts ==
  ASSUME Core, NEW c, Running(c)
  PROVE  /\ c \in Threads /\ k.current = c /\ ~Held(k, c) /\ k.pended_on[c] = NULL
         /\ "DEAD" \notin k.state[c] /\ "PENDING" \notin k.state[c] /\ ~pendsv
         /\ tick = FALSE /\ firing = NULL
<1>1. c \in Threads /\ k.current = c /\ ~pendsv /\ ~tick /\ c # Idle
  BY ThreadFacts DEF Running
<1>2. ~Held(k, c)
  BY <1>1 DEF Core, Exec
<1>3. "DEAD" \notin k.state[c] /\ "PENDING" \notin k.state[c]
  BY <1>2 DEF Held, Preventing
<1>4. k.pended_on[c] = NULL
  BY <1>1, <1>3 DEF Core, Sound, BitsAgree
<1>5. tick = FALSE /\ firing = NULL
  BY <1>1 DEF Core, Fires, Typed
<1>6. QED
  BY <1>1, <1>2, <1>3, <1>4, <1>5

LEMMA AsideBecomes ==
  ASSUME NEW s, NEW a, Only(a, s, {}, FALSE), NEW n, NEW t \in Threads, NEW b, NEW d, NEW w, NEW v,
         Becomes(n, a, t, b, d, w, v, FALSE)
  PROVE  Becomes(n, s, t, b, d, w, v, FALSE)
<1>1. Only(a, s, {t}, FALSE)
  BY DEF Only
<1>2. QED
  BY <1>1, OnlyTransitive DEF Becomes

(* pending_current is set or cleared.                                      *)
LEMMA PendingCurrent ==
  ASSUME Core, NEW p \in Threads \cup {NULL}
  PROVE  LET a == [k EXCEPT !.pending_current = p]
         IN  /\ Links(a) /\ QueuedRuns(a) /\ Only(a, k, {}, FALSE) /\ a.current = k.current
             /\ a.state = k.state /\ a.timeout = k.timeout /\ a.pended_on = k.pended_on
             /\ a.retval = k.retval /\ a.prio = k.prio /\ a.cache = k.cache /\ a.slicing = k.slicing
             /\ a.runq = k.runq /\ a.waitq = k.waitq /\ a.sched_locked = k.sched_locked
             /\ a.corrupt = k.corrupt /\ a.slice_expired = k.slice_expired
<1> DEFINE a == [k EXCEPT !.pending_current = p]
<1>0. Links(k) /\ QueuedRuns(k) /\ k \in KernelState
  BY CoreFacts
<1>1. a \in KernelState
  BY <1>0 DEF KernelState
<1>2. /\ a.state = k.state /\ a.runq = k.runq /\ a.prio = k.prio
      /\ a.timeout = k.timeout /\ a.pended_on = k.pended_on /\ a.waitq = k.waitq
      /\ a.retval = k.retval /\ a.current = k.current /\ a.corrupt = k.corrupt
      /\ a.sched_locked = k.sched_locked /\ a.cache = k.cache /\ a.slicing = k.slicing
      /\ a.slice_expired = k.slice_expired
  BY <1>0 DEF KernelState
<1> HIDE DEF a
<1>3. Links(a) /\ Only(a, k, {}, FALSE)
  BY <1>0, <1>1, <1>2, AsideSpec
<1>4. QueuedRuns(a)
  BY <1>0, <1>2 DEF QueuedRuns, Queued, Held
<1>5. QED
  BY <1>2, <1>3, <1>4 DEF a

(* The end of a section that leaves the best thread in the cache and swaps.*)
LEMMA SwapEffect ==
  ASSUME NEW m, NEW t \in Threads, NEW b, NEW d, NEW w, NEW v, NEW odd,
         Becomes(m, k, t, b, d, w, v, odd), Best(m), v = 0 => k.retval[t] = 0,
         m.current \in Threads, z_swap(m), NEW zero
  PROVE  Effect(t, b, d, w, zero, odd) /\ pendsv' = TRUE
<1>1. Links(m) /\ QueuedRuns(m) /\ m.cache = next_up(m)
  BY DEF Best, Becomes
<1>2. CacheRuns(m) /\ Chosen(m)
  BY <1>1, NextRuns
<1>3. Ends(k', m) /\ pendsv' = TRUE
  BY <1>1, SwapEnds
<1>4. CacheRuns(k') /\ Chosen(k')
  BY <1>1, <1>2, <1>3, EndFacts
<1>5. Turns(k', k, t, b, d, w, zero, odd)
  BY <1>3, TurnFrom
<1>6. QED
  BY <1>3, <1>4, <1>5 DEF Effect, MayRun

LEMMA YieldEffect ==
  ASSUME Core, NEW c, k_yield(c), NEW odd, Queued(k, c) \/ odd
  PROVE  /\ Effect(c, k.state[c] \cup {"QUEUED"}, k.timeout[c], k.pended_on[c], FALSE, odd)
         /\ pendsv' = TRUE
<1> DEFINE a == dequeue_thread(k, c)
           ok == TRUE
           m == update_cache(queue_thread(a, c), ok)
<1>1. Running(c) /\ z_swap(m)
  BY DEF k_yield, Starts
<1>2. c \in Threads /\ k.current = c /\ ~Held(k, c) /\ Links(k) /\ QueuedRuns(k)
  BY <1>1, RunFacts, CoreFacts
<1>3. Dequeues(a, k, c, odd)
  <2>1. CASE Queued(k, c)
    <3>1. Dequeues(a, k, c, FALSE)
      BY <1>2, <2>1, DequeueSpec
    <3>2. QED
      BY <3>1 DEF Dequeues, Only
  <2>2. CASE ~Queued(k, c)
    <3>1. Dequeues(a, k, c, ~Queued(k, c)) /\ odd
      BY <1>2, <2>2, DequeueSpec
    <3>2. QED
      BY <3>1 DEF Dequeues, Only
  <2>3. QED
    BY <2>1, <2>2
<1> HIDE DEF a
<1>4. Becomes(a, k, c, k.state[c] \ {"QUEUED"}, k.timeout[c], k.pended_on[c], k.retval[c], odd)
  BY <1>3, DequeueBecomes
<1>5. ok \in BOOLEAN /\ ok
  OBVIOUS
<1> HIDE DEF ok
<1>6. /\ Becomes(m, k, c, k.state[c] \cup {"QUEUED"}, k.timeout[c], k.pended_on[c], k.retval[c], odd)
      /\ Best(m)
  BY <1>2, <1>4, <1>5, RequeueSpec
<1> HIDE DEF m
<1>7. m.current \in Threads
  BY <1>2, <1>6 DEF Becomes, Only
<1> DEFINE bits == k.state[c] \cup {"QUEUED"}
           no == FALSE
<1>8. Becomes(m, k, c, bits, k.timeout[c], k.pended_on[c], k.retval[c], odd)
  BY <1>6
<1> HIDE DEF bits, no
<1>9. Effect(c, bits, k.timeout[c], k.pended_on[c], no, odd) /\ pendsv' = TRUE
  BY <1>1, <1>2, <1>6, <1>7, <1>8, SwapEffect
<1>10. QED
  BY <1>9 DEF bits, no

LEMMA SleepEffect ==
  ASSUME Core, NEW c, z_tick_sleep(c)
  PROVE  /\ Effect(c, (k.state[c] \ {"QUEUED"}) \cup {"SUSPENDED"}, TRUE, k.pended_on[c], FALSE, FALSE)
         /\ pendsv' = TRUE
<1> DEFINE a == [k EXCEPT !.pending_current = c]
           b == unready_thread(a, c)
           due == TRUE
           d == [b EXCEPT !.timeout[c] = due]
           less == k.state[c] \ {"QUEUED"}
           bits == less \cup {"SUSPENDED"}
           m == [d EXCEPT !.state[c] = bits]
           no == FALSE
<1>1. /\ Running(c)
      /\ z_swap([add_thread_timeout(b, c, FALSE) EXCEPT !.state[c] = @ \cup {"SUSPENDED"}])
  BY DEF z_tick_sleep, Starts
<1>2. c \in Threads /\ k.current = c /\ Links(k) /\ k.state[c] \in SUBSET StateBits
  BY <1>1, RunFacts, CoreFacts
<1>3. /\ Links(a) /\ QueuedRuns(a) /\ Only(a, k, {}, FALSE) /\ a.current = c
      /\ a.state[c] = k.state[c] /\ a.timeout[c] = k.timeout[c]
      /\ a.pended_on[c] = k.pended_on[c] /\ a.retval[c] = k.retval[c]
  <2>1. /\ Links(a) /\ QueuedRuns(a) /\ Only(a, k, {}, FALSE) /\ a.current = k.current
        /\ a.state = k.state /\ a.timeout = k.timeout /\ a.pended_on = k.pended_on
        /\ a.retval = k.retval
    BY <1>2, PendingCurrent, ZenonT(40)
  <2> HIDE DEF a
  <2>2. QED
    BY <1>2, <2>1
<1> HIDE DEF a
<1>4. /\ Becomes(b, a, c, less, k.timeout[c], k.pended_on[c], k.retval[c], FALSE)
      /\ Best(b)
  BY <1>2, <1>3, UnreadySpec
<1> HIDE DEF b
<1>5. "QUEUED" \notin less /\ bits \in SUBSET StateBits /\ "QUEUED" \notin bits
  BY <1>2 DEF StateBits, Preventing
<1> HIDE DEF less
<1>6. Becomes(b, k, c, less, k.timeout[c], k.pended_on[c], k.retval[c], FALSE)
  BY <1>2, <1>3, <1>4, AsideBecomes
<1>7. Links(b) /\ b.state[c] = less /\ b.pended_on[c] = k.pended_on[c] /\ b.retval[c] = k.retval[c]
      /\ b \in KernelState
  BY <1>6 DEF Becomes, Links
<1>8. due \in BOOLEAN /\ due
  OBVIOUS
<1>m. z_swap(m)
  <2>1. add_thread_timeout(b, c, FALSE) = d
    BY <1>7, <1>2 DEF add_thread_timeout, KernelState
  <2>2. d.state[c] = less
    BY <1>7, <1>2 DEF KernelState
  <2>3. [add_thread_timeout(b, c, FALSE) EXCEPT !.state[c] = @ \cup {"SUSPENDED"}] = m
    BY <2>1, <2>2
  <2>4. QED
    BY <1>1, <2>3
<1> HIDE DEF due
<1>9. Becomes(d, b, c, less, due, k.pended_on[c], k.retval[c], FALSE) /\ Quiet(d, b)
  BY <1>2, <1>7, <1>8, TimeoutSpec
<1> HIDE DEF d
<1>10. Links(d) /\ d.state[c] = less /\ d.timeout[c] = due /\ d.pended_on[c] = k.pended_on[c]
       /\ d.retval[c] = k.retval[c]
  BY <1>9 DEF Becomes
<1>11. Best(d)
  BY <1>2, <1>4, <1>5, <1>7, <1>9, QuietBest
<1> HIDE DEF bits
<1>12. Becomes(m, d, c, bits, due, k.pended_on[c], k.retval[c], FALSE) /\ Quiet(m, d)
  BY <1>2, <1>5, <1>10, MarkSpec DEF Queued
<1> HIDE DEF m
<1>13. Best(m)
  BY <1>2, <1>5, <1>10, <1>11, <1>12, QuietBest
<1>14. Becomes(d, k, c, less, due, k.pended_on[c], k.retval[c], FALSE)
  BY <1>6, <1>9, BecomesTwice
<1>15. Becomes(m, k, c, bits, due, k.pended_on[c], k.retval[c], FALSE)
  BY <1>12, <1>14, BecomesTwice
<1>16. m.current \in Threads
  BY <1>2, <1>15 DEF Becomes, Only
<1> HIDE DEF no
<1>17. Effect(c, bits, due, k.pended_on[c], no, FALSE) /\ pendsv' = TRUE
  BY <1>2, <1>m, <1>13, <1>15, <1>16, SwapEffect
<1>18. QED
  BY <1>17 DEF bits, less, due, no

LEMMA SwapValue ==
  ASSUME NEW m, Links(m), m.current \in Threads, z_swap(m)
  PROVE  k'.retval[m.current] # 0
BY DEF Links, KernelState, z_swap, SetRetval, EAGAIN

LEMMA PendEffect ==
  ASSUME Core, NEW c, Running(c), NEW w \in WaitQs, NEW forever \in BOOLEAN, NEW a,
         Links(a), QueuedRuns(a), Only(a, k, {}, FALSE), a.current = c,
         a.state[c] = k.state[c], a.timeout[c] = k.timeout[c],
         a.pended_on[c] = k.pended_on[c], a.retval[c] = k.retval[c],
         z_swap(add_thread_timeout(add_to_waitq_locked(a, c, w), c, forever))
  PROVE  /\ Effect(c, (k.state[c] \ {"QUEUED"}) \cup {"PENDING"}, k.timeout[c] \/ ~forever, w,
                   FALSE, FALSE)
         /\ pendsv' = TRUE /\ k'.retval[c] # 0
<1> DEFINE b == unready_thread(a, c)
           prio == a.prio
           e == add_to_waitq_locked(a, c, w)
           due == k.timeout[c] \/ ~forever
           m == [e EXCEPT !.timeout[c] = due]
           less == k.state[c] \ {"QUEUED"}
           bits == less \cup {"PENDING"}
           no == FALSE
<1>1. c \in Threads /\ k.current = c /\ k.pended_on[c] = NULL /\ k.timeout[c] \in BOOLEAN
  BY RunFacts, CoreFacts
<1>2. prio \in [Threads -> Int]
  BY DEF Links, KernelState
<1>3. /\ Becomes(b, a, c, less, k.timeout[c], k.pended_on[c], k.retval[c], FALSE)
      /\ Best(b)
  BY <1>1, UnreadySpec
<1>4. e = [b EXCEPT !.state[c] = @ \cup {"PENDING"}, !.pended_on[c] = w,
                    !.waitq[w] = z_priq_dumb_add(@, c, prio)]
  BY DEF add_to_waitq_locked
<1> HIDE DEF b, prio, e
<1>5. "QUEUED" \notin less /\ "QUEUED" \notin bits
  OBVIOUS
<1> HIDE DEF less
<1>6. Becomes(b, k, c, less, k.timeout[c], k.pended_on[c], k.retval[c], FALSE)
  BY <1>1, <1>3, AsideBecomes
<1>7. Links(b) /\ b.state[c] = less /\ b.timeout[c] = k.timeout[c] /\ b.pended_on[c] = NULL
      /\ b.retval[c] = k.retval[c]
  BY <1>1, <1>6 DEF Becomes
<1>8. Becomes(e, b, c, bits, k.timeout[c], w, k.retval[c], FALSE) /\ Quiet(e, b)
  <2>1. LET n == [b EXCEPT !.state[c] = @ \cup {"PENDING"}, !.pended_on[c] = w,
                            !.waitq[w] = z_priq_dumb_add(@, c, prio)]
        IN  /\ Becomes(n, b, c, b.state[c] \cup {"PENDING"}, b.timeout[c], w, b.retval[c], FALSE)
            /\ Quiet(n, b)
    BY <1>1, <1>2, <1>7, PendSpec
  <2>2. QED
    BY <1>4, <1>7, <2>1
<1> HIDE DEF bits
<1>9. Best(e)
  BY <1>1, <1>3, <1>5, <1>7, <1>8, QuietBest
<1>10. Links(e) /\ e.state[c] = bits /\ e.timeout[c] = k.timeout[c] /\ e.pended_on[c] = w
       /\ e.retval[c] = k.retval[c]
  BY <1>8 DEF Becomes
<1>11. due \in BOOLEAN
  BY <1>1
<1>m. z_swap(m)
  <2>1. add_thread_timeout(e, c, forever) = m
    BY <1>10 DEF add_thread_timeout
  <2>2. QED
    BY <2>1 DEF e
<1> HIDE DEF due
<1>12. Becomes(m, e, c, bits, due, w, k.retval[c], FALSE) /\ Quiet(m, e)
  BY <1>1, <1>10, <1>11, TimeoutSpec
<1> HIDE DEF m
<1>13. Best(m)
  BY <1>1, <1>5, <1>9, <1>10, <1>12, QuietBest
<1>14. Becomes(e, k, c, bits, k.timeout[c], w, k.retval[c], FALSE)
  BY <1>6, <1>8, BecomesTwice
<1>15. Becomes(m, k, c, bits, due, w, k.retval[c], FALSE)
  BY <1>12, <1>14, BecomesTwice
<1>16. m.current \in Threads
  BY <1>1, <1>15 DEF Becomes, Only
<1> HIDE DEF no
<1>17. Effect(c, bits, due, w, no, FALSE) /\ pendsv' = TRUE
  BY <1>1, <1>m, <1>13, <1>15, <1>16, SwapEffect
<1>18. k'.retval[c] # 0
  <2>1. Links(m) /\ m.current = c
    BY <1>1, <1>15 DEF Becomes, Only
  <2>2. QED
    BY <1>m, <1>16, <2>1, SwapValue
<1>19. QED
  BY <1>17, <1>18 DEF bits, less, due, no

(* The ways a section ends that is not a swap of its own.                  *)
Closes(m) ==
  \/ m.current \in Threads /\ z_reschedule(m)
  \/ IsrExit(m)
  \/ k' = m /\ pendsv' = pendsv

LEMMA CloseEnds ==
  ASSUME Core, NEW m, Links(m), Closes(m)
  PROVE  /\ Ends(k', m) /\ pendsv' \in BOOLEAN
         /\ \/ pendsv' = TRUE \/ k'.cache = k'.current \/ (pendsv' = pendsv /\ ~IsrExit(m))
<1>0. pendsv \in BOOLEAN
  BY DEF Core, Typed
<1>1. CASE m.current \in Threads /\ z_reschedule(m)
  BY <1>0, <1>1, RescheduleEnds
<1>2. CASE IsrExit(m)
  <2>1. k' = m /\ pendsv' = (pendsv \/ m.cache # m.current)
    BY <1>2 DEF IsrExit
  <2>2. pendsv' \in BOOLEAN
    BY <1>0, <2>1
  <2>3. pendsv' = TRUE \/ k'.cache = k'.current
    BY <2>1
  <2>4. QED
    BY <2>1, <2>2, <2>3, UnlockEnds
<1>3. CASE k' = m /\ pendsv' = pendsv /\ ~IsrExit(m)
  BY <1>0, <1>3, UnlockEnds
<1>4. QED
  BY <1>1, <1>2, <1>3 DEF Closes

LEMMA CloseEffect ==
  ASSUME Core, NEW m, NEW t \in Threads, NEW b, NEW d, NEW w, NEW v, NEW odd, NEW zero,
         Becomes(m, k, t, b, d, w, v, odd), CacheKept(m, k), Closes(m),
         v = 0 => zero \/ k.retval[t] = 0,
         (b \cap Preventing # {} /\ t = k.current => Held(k, t)) \/ IsrExit(m)
  PROVE  Effect(t, b, d, w, zero, odd) /\ pendsv' \in BOOLEAN
<1>1. Links(m) /\ CacheRuns(m) /\ (Chosen(k) => Chosen(m))
  BY CoreFacts DEF CacheKept, Becomes
<1>2. Ends(k', m) /\ pendsv' \in BOOLEAN
  BY <1>1, CloseEnds
<1>3. CacheRuns(k') /\ (Chosen(k) => Chosen(k'))
  BY <1>1, <1>2, EndFacts
<1>4. Turns(k', k, t, b, d, w, zero, odd)
  BY <1>2, TurnFrom
<1>5. MayRun(t, b)
  <2>1. \/ pendsv' = TRUE \/ k'.cache = k'.current \/ (pendsv' = pendsv /\ ~IsrExit(m))
    BY <1>1, CloseEnds
  <2>2. QED
    BY <2>1 DEF MayRun
<1>6. QED
  BY <1>2, <1>3, <1>4, <1>5 DEF Effect

(* The step takes the CPU from nobody who may keep it.                     *)
Civil == Timely(k) /\ Polite(k) => Polite(k')

LEMMA WakeEffect ==
  ASSUME Core, NEW m, NEW t \in Threads, NEW bits, NEW due, NEW w, NEW v, NEW zero, NEW odd,
         Wakes(m, k, t, bits, due, w, v), Closes(m), v = 0 => zero \/ k.retval[t] = 0,
         bits \cap Preventing # {} => Held(k, t)
  PROVE  Effect(t, Readied(bits, due), due, w, zero, odd) /\ pendsv' \in BOOLEAN /\ Civil
<1> DEFINE more == Readied(bits, due)
<1>1. Becomes(m, k, t, more, due, w, v, FALSE) /\ CacheKept(m, k)
  BY DEF Wakes
<1>2. more \cap Preventing # {} => Held(k, t)
  BY DEF Readied, Preventing
<1> HIDE DEF more
<1>3. Becomes(m, k, t, more, due, w, v, odd)
  BY <1>1, BecomesOdd
<1>4. Civil
  <2>1. Links(m) /\ (Timely(k) /\ Polite(k) => Polite(m))
    BY DEF Wakes, Becomes
  <2>2. Ends(k', m)
    BY <2>1, CloseEnds
  <2>3. QED
    BY <2>1, <2>2, EndFacts DEF Civil
<1>5. QED
  BY <1>1, <1>2, <1>3, <1>4, CloseEffect DEF more

LEMMA WakeFirstEffect ==
  ASSUME Core, NEW w \in Objs, k.waitq[w] # <<>>, Closes(WakeFirst(k, w))
  PROVE  \E t \in Threads :
           /\ k.pended_on[t] = w /\ pendsv' \in BOOLEAN /\ Civil
           /\ Effect(t, Readied(k.state[t] \ {"PENDING"}, FALSE), FALSE, NULL, TRUE, FALSE)
<1> DEFINE t == Head(k.waitq[w])
           m == WakeThread(k, t)
           bits == k.state[t] \ {"PENDING"}
           no == FALSE
           yes == TRUE
<1>1. w \in WaitQs /\ k.waitq[w] \in Seq(Threads) /\ Links(k) /\ QueuedRuns(k) /\ w # NULL
  BY CoreFacts, ThreadFacts DEF KernelState
<1>2. t \in Threads /\ k.pended_on[t] = w
  BY <1>1, HeadLinked DEF Links
<1>3. Closes(m)
  BY DEF WakeFirst
<1> HIDE DEF t
<1>4. Wakes(m, k, t, bits, no, NULL, 0)
  BY <1>1, <1>2, WakeThreadSpec
<1> HIDE DEF m
<1>5. bits \cap Preventing # {} => Held(k, t)
  BY DEF Held
<1>6. yes
  OBVIOUS
<1> HIDE DEF bits, no, yes
<1>7. Effect(t, Readied(bits, no), no, NULL, yes, FALSE) /\ pendsv' \in BOOLEAN /\ Civil
  BY <1>2, <1>3, <1>4, <1>5, <1>6, WakeEffect
<1>8. QED
  BY <1>2, <1>7 DEF bits, no, yes

(* A bit is cleared and the thread made ready.                             *)
LEMMA ReleaseEffect ==
  ASSUME Core, NEW t \in Threads, NEW bit \in Preventing, NEW zero, NEW odd,
         Closes(ready_thread([k EXCEPT !.state[t] = @ \ {bit}], t))
  PROVE  /\ Effect(t, Readied(k.state[t] \ {bit}, k.timeout[t]), k.timeout[t], k.pended_on[t],
                   zero, odd)
         /\ pendsv' \in BOOLEAN /\ Civil
<1> DEFINE bits == k.state[t] \ {bit}
           a == [k EXCEPT !.state[t] = bits]
           due == k.timeout[t]
           m == ready_thread(a, t)
<1>1. Links(k) /\ QueuedRuns(k) /\ k.state[t] \in SUBSET StateBits /\ due \in BOOLEAN
  BY CoreFacts
<1>2. Closes(m)
  OBVIOUS
<1>3. bits \in SUBSET StateBits /\ ("QUEUED" \in bits <=> Queued(k, t))
      /\ (bits \cap Preventing # {} => Held(k, t))
  BY <1>1 DEF Queued, Preventing, Held
<1> HIDE DEF bits
<1>4. Becomes(a, k, t, bits, due, k.pended_on[t], k.retval[t], FALSE) /\ Quiet(a, k)
  BY <1>1, <1>3, MarkSpec
<1> HIDE DEF a
<1>5. Wakes(m, k, t, bits, due, k.pended_on[t], k.retval[t])
  BY <1>1, <1>3, <1>4, WakeSpec
<1> HIDE DEF m, due
<1>6. Effect(t, Readied(bits, due), due, k.pended_on[t], zero, odd) /\ pendsv' \in BOOLEAN /\ Civil
  BY <1>2, <1>3, <1>5, WakeEffect
<1>7. QED
  BY <1>6 DEF bits, due

(* The same with its timeout aborted first.                                *)
LEMMA WakeupEffect ==
  ASSUME Core, NEW t \in Threads, NEW zero, NEW odd,
         Closes(ready_thread([z_abort_thread_timeout(k, t)
                                EXCEPT !.state[t] = @ \ {"SUSPENDED"}], t))
  PROVE  /\ Effect(t, Readied(k.state[t] \ {"SUSPENDED"}, FALSE), FALSE, k.pended_on[t], zero, odd)
         /\ pendsv' \in BOOLEAN /\ Civil
<1> DEFINE due == FALSE
           a == [k EXCEPT !.timeout[t] = due]
           bits == k.state[t] \ {"SUSPENDED"}
           b == [a EXCEPT !.state[t] = bits]
           m == ready_thread(b, t)
<1>1. Links(k) /\ QueuedRuns(k) /\ k.state[t] \in SUBSET StateBits /\ k \in KernelState
      /\ due \in BOOLEAN /\ ~due
  BY CoreFacts
<1>2. Closes(m)
  <2>1. a = z_abort_thread_timeout(k, t)
    BY DEF z_abort_thread_timeout
  <2>2. a.state[t] = k.state[t]
    BY <1>1 DEF KernelState
  <2>3. [a EXCEPT !.state[t] = @ \ {"SUSPENDED"}] = b
    BY <2>2
  <2> HIDE DEF a, b
  <2>4. QED
    BY <2>1, <2>3
<1>3. bits \in SUBSET StateBits /\ ("QUEUED" \in bits <=> Queued(k, t))
      /\ (bits \cap Preventing # {} => Held(k, t))
  BY <1>1 DEF Queued, Preventing, Held
<1> HIDE DEF bits, due
<1>4. Becomes(a, k, t, k.state[t], due, k.pended_on[t], k.retval[t], FALSE) /\ Quiet(a, k)
  BY <1>1, TimeoutSpec
<1> HIDE DEF a
<1>5. Links(a) /\ a.state[t] = k.state[t] /\ a.timeout[t] = due /\ a.pended_on[t] = k.pended_on[t]
      /\ a.retval[t] = k.retval[t]
  BY <1>4 DEF Becomes
<1>6. Becomes(b, a, t, bits, due, k.pended_on[t], k.retval[t], FALSE) /\ Quiet(b, a)
  BY <1>3, <1>5, MarkSpec DEF Queued
<1> HIDE DEF b
<1>7. Becomes(b, k, t, bits, due, k.pended_on[t], k.retval[t], FALSE) /\ Quiet(b, k)
  BY <1>4, <1>6, BecomesTwice, QuietTwice
<1>8. Wakes(m, k, t, bits, due, k.pended_on[t], k.retval[t])
  BY <1>1, <1>3, <1>7, WakeSpec
<1> HIDE DEF m
<1>9. Effect(t, Readied(bits, due), due, k.pended_on[t], zero, odd) /\ pendsv' \in BOOLEAN /\ Civil
  BY <1>2, <1>3, <1>8, WakeEffect
<1>10. QED
  BY <1>9 DEF bits, due

(* A timeout is linked or unlinked.                                        *)
LEMMA TimeoutEffect ==
  ASSUME Core, NEW t \in Threads, NEW due \in BOOLEAN, NEW zero, NEW odd,
         k' = [k EXCEPT !.timeout[t] = due], pendsv' = pendsv
  PROVE  Effect(t, k.state[t], due, k.pended_on[t], zero, odd) /\ pendsv' \in BOOLEAN
<1> DEFINE m == [k EXCEPT !.timeout[t] = due]
<1>1. Links(k)
  BY CoreFacts
<1>2. Becomes(m, k, t, k.state[t], due, k.pended_on[t], k.retval[t], FALSE) /\ Quiet(m, k)
  BY <1>1, TimeoutSpec
<1>3. Closes(m)
  BY DEF Closes
<1> HIDE DEF m
<1>4. \A u \in Threads : Held(m, u) => Held(k, u)
  BY <1>2 DEF Becomes, Only, Held
<1>5. CacheKept(m, k)
  BY <1>1, <1>2, <1>4, QuietCache DEF Becomes
<1>6. Becomes(m, k, t, k.state[t], due, k.pended_on[t], k.retval[t], odd)
  BY <1>2, BecomesOdd
<1>7. k.state[t] \cap Preventing # {} => Held(k, t)
  BY DEF Held
<1>8. QED
  BY <1>3, <1>5, <1>6, <1>7, CloseEffect

(* No thread changes.                                                      *)
LEMMA AsideEffect ==
  ASSUME Core, k' \in KernelState, pendsv' \in BOOLEAN,
         /\ k'.state = k.state /\ k'.runq = k.runq /\ k'.prio = k.prio
         /\ k'.timeout = k.timeout /\ k'.pended_on = k.pended_on /\ k'.waitq = k.waitq
         /\ k'.retval = k.retval /\ k'.current = k.current /\ k'.corrupt = k.corrupt
         /\ k'.cache = k.cache,
         \/ k'.sched_locked = k.sched_locked
         \/ thread_is_preemptible(k', k.current) => thread_is_preemptible(k, k.current),
         pendsv' = TRUE \/ k'.cache = k'.current \/ pendsv' = pendsv,
         NEW t \in Threads, NEW zero, NEW odd
  PROVE  Effect(t, k.state[t], k.timeout[t], k.pended_on[t], zero, odd)
<1>1. Links(k')
  BY CoreFacts, AsideSpec
<1>2. \A u : Held(k', u) <=> Held(k, u)
  BY DEF Held
<1>3. Turns(k', k, t, k.state[t], k.timeout[t], k.pended_on[t], zero, odd)
  BY <1>1 DEF Turns
<1>4. CacheRuns(k')
  BY <1>2, CoreFacts DEF CacheRuns
<1>5. next_up(k') = next_up(k)
  BY DEF next_up
<1>6. thread_is_preemptible(k', k.current) => thread_is_preemptible(k, k.current)
  BY DEF thread_is_preemptible
<1>7. Chosen(k) => Chosen(k')
  BY <1>2, <1>5, <1>6 DEF Chosen
<1>8. MayRun(t, k.state[t])
  BY DEF MayRun, Held
<1>9. QED
  BY <1>3, <1>4, <1>7, <1>8 DEF Effect

LEMMA EndEffect ==
  ASSUME Core, NEW m, NEW t \in Threads, NEW b, NEW d, NEW w, NEW v, NEW odd, NEW zero,
         Becomes(m, k, t, b, d, w, v, odd), CacheKept(m, k), Ends(k', m), MayRun(t, b),
         v = 0 => zero \/ k.retval[t] = 0
  PROVE  Effect(t, b, d, w, zero, odd)
<1>1. Links(m) /\ CacheRuns(m) /\ (Chosen(k) => Chosen(m))
  BY CoreFacts DEF CacheKept, Becomes
<1>2. CacheRuns(k') /\ (Chosen(k) => Chosen(k'))
  BY <1>1, EndFacts
<1>3. Turns(k', k, t, b, d, w, zero, odd)
  BY TurnFrom
<1>4. QED
  BY <1>2, <1>3 DEF Effect

LEMMA SuspendEffect ==
  ASSUME Core, NEW c, k_thread_suspend_halt(c), NEW zero, NEW odd
  PROVE  LET t == call[c].arg
         IN  /\ Effect(t, (k.state[t] \cup {"SUSPENDED"}) \ {"QUEUED"}, k.timeout[t],
                       k.pended_on[t], zero, odd)
             /\ pendsv' \in BOOLEAN
<1> DEFINE t == call[c].arg
           m == halt_thread(k, t, "SUSPENDED")
           bits == (k.state[t] \cup {"SUSPENDED"}) \ {"QUEUED"}
<1>1. /\ Running(c) /\ call[c].op = "suspend"
      /\ IF "SUSPENDED" \in k.state[t] THEN Unlock(k)
         ELSE IF t = c THEN z_swap(m) ELSE Unlock(m)
  BY DEF k_thread_suspend_halt, Continues
<1>2. /\ c \in Threads /\ k.current = c /\ Sound(k) /\ pendsv \in BOOLEAN /\ ~pendsv
      /\ ~Held(k, c) /\ Links(k)
  BY <1>1, RunFacts, CoreFacts DEF Core, Typed
<1>3. t \in Threads
  BY <1>1, <1>2 DEF Core, Typed, Calls, NoCall
<1>4. /\ Becomes(m, k, t, bits, k.timeout[t], k.pended_on[t], k.retval[t], FALSE)
      /\ CacheKept(m, k)
  BY <1>2, <1>3, SuspendSpec
<1>5. "SUSPENDED" \in k.state[t] => m = k
  BY DEF halt_thread
<1>6. Links(m) /\ m.current = c
  BY <1>2, <1>4 DEF Becomes, Only
<1>7. "SUSPENDED" \in k.state[t] => t # c
  BY <1>2 DEF Held, Preventing
<1> HIDE DEF m, bits
<1>8. Ends(k', m) /\ MayRun(t, bits) /\ pendsv' \in BOOLEAN
  <2>1. CASE t # c
    <3>1. k' = m /\ pendsv' = pendsv
      BY <1>1, <1>5, <2>1 DEF Unlock
    <3>2. QED
      BY <1>2, <1>6, <2>1, <3>1, UnlockEnds DEF MayRun
  <2>2. CASE t = c
    <3>1. z_swap(m)
      BY <1>1, <1>7, <2>2
    <3>2. QED
      BY <1>2, <1>6, <3>1, SwapEnds DEF MayRun
  <2>3. QED
    BY <2>1, <2>2
<1>9. Becomes(m, k, t, bits, k.timeout[t], k.pended_on[t], k.retval[t], odd)
  BY <1>4, BecomesOdd
<1>10. Effect(t, bits, k.timeout[t], k.pended_on[t], zero, odd)
  BY <1>3, <1>4, <1>8, <1>9, EndEffect
<1>11. QED
  BY <1>8, <1>10 DEF bits

LEMMA IsrSuspendEffect ==
  ASSUME Core, NEW t \in Threads, IsrSuspend(t), NEW zero, NEW odd
  PROVE  /\ Effect(t, (k.state[t] \cup {"SUSPENDED"}) \ {"QUEUED"}, FALSE, k.pended_on[t], zero, odd)
         /\ pendsv' \in BOOLEAN
<1> DEFINE due == FALSE
           a == [k EXCEPT !.timeout[t] = due]
           m == halt_thread(a, t, "SUSPENDED")
           bits == (k.state[t] \cup {"SUSPENDED"}) \ {"QUEUED"}
<1>1. IsrExit(m) /\ Closes(m)
  BY DEF IsrSuspend, z_abort_thread_timeout, Closes
<1>2. Links(k) /\ Sound(k) /\ due \in BOOLEAN /\ ~due
  BY CoreFacts
<1> HIDE DEF due
<1>3. Becomes(a, k, t, k.state[t], due, k.pended_on[t], k.retval[t], FALSE) /\ Quiet(a, k)
  BY <1>2, TimeoutSpec
<1> HIDE DEF a
<1>4. /\ Links(a) /\ Only(a, k, {t}, FALSE) /\ a.state[t] = k.state[t] /\ a.timeout[t] = due
      /\ a.pended_on[t] = k.pended_on[t] /\ a.retval[t] = k.retval[t]
  BY <1>3 DEF Becomes
<1>5. Sound(a)
  <2>1. ASSUME NEW u \in Threads PROVE BitsAgree(a, u)
    <3>1. BitsAgree(k, u)
      BY <1>2 DEF Sound
    <3>2. a.state[u] = k.state[u] /\ a.pended_on[u] = k.pended_on[u]
          /\ (a.timeout[u] => k.timeout[u])
      BY <1>2, <1>4 DEF Only
    <3>3. QED
      BY <3>1, <3>2 DEF BitsAgree, Queued, Held
  <2>2. QED
    BY <1>4, <2>1 DEF Sound
<1>6. /\ Becomes(m, a, t, bits, due, k.pended_on[t], k.retval[t], FALSE)
      /\ CacheKept(m, a)
  BY <1>4, <1>5, SuspendSpec
<1>7. CacheKept(a, k)
  <2>1. \A u \in Threads : Held(a, u) => Held(k, u)
    BY <1>4 DEF Only, Held
  <2>2. QED
    BY <1>2, <1>3, <1>4, <2>1, QuietCache
<1> HIDE DEF m, bits
<1>8. Becomes(m, k, t, bits, due, k.pended_on[t], k.retval[t], FALSE) /\ CacheKept(m, k)
  BY <1>3, <1>6, <1>7, BecomesTwice, CacheKeptTwice
<1>9. Becomes(m, k, t, bits, due, k.pended_on[t], k.retval[t], odd)
  BY <1>8, BecomesOdd
<1>10. Effect(t, bits, due, k.pended_on[t], zero, odd) /\ pendsv' \in BOOLEAN
  BY <1>1, <1>8, <1>9, CloseEffect
<1>11. QED
  BY <1>10 DEF bits, due

(* The timeout callback of a thread that is not dead.                      *)
LEMMA FireEffect ==
  ASSUME Core, NEW t \in Threads, ~k.timeout[t], "DEAD" \notin k.state[t],
         k' = z_sched_wake_thread(k, t, TRUE), pendsv' = pendsv, NEW zero, NEW odd
  PROVE  /\ Effect(t, Readied(k.state[t] \ {"PENDING", "PRESTART", "SUSPENDED"}, FALSE), FALSE, NULL,
                   zero, odd)
         /\ pendsv' \in BOOLEAN /\ Civil
<1> DEFINE a == UnpendIfPended(k, t)
           some == k.state[t] \ {"PENDING"}
           bits == k.state[t] \ {"PENDING", "PRESTART", "SUSPENDED"}
           b == [a EXCEPT !.state[t] = bits]
           m == ready_thread(b, t)
           due == FALSE
<1>1. Links(k) /\ QueuedRuns(k) /\ k.state[t] \in SUBSET StateBits /\ due \in BOOLEAN /\ ~due
      /\ k.timeout[t] = due /\ ("PENDING" \in k.state[t] <=> k.pended_on[t] # NULL)
  BY CoreFacts DEF Agree
<1>2. Becomes(a, k, t, some, due, NULL, k.retval[t], FALSE) /\ Quiet(a, k)
  BY <1>1, UnpendIfSpec
<1>m. k' = m
  <2>1. a.state[t] = some
    BY <1>2 DEF Becomes
  <2>2. (some \ {"PRESTART"}) \ {"SUSPENDED"} = bits
    OBVIOUS
  <2> HIDE DEF a, some, bits
  <2>3. [a EXCEPT !.state[t] = (@ \ {"PRESTART"}) \ {"SUSPENDED"}] = b
    BY <2>1, <2>2
  <2>4. QED
    BY <2>3 DEF z_sched_wake_thread, a
<1>3. bits \in SUBSET StateBits /\ ("QUEUED" \in bits <=> "QUEUED" \in some)
      /\ (bits \cap Preventing # {} => Held(k, t))
  BY <1>1 DEF Preventing, Held
<1>4. Closes(m)
  BY <1>m DEF Closes
<1> HIDE DEF a, some, bits, due
<1>5. Links(a) /\ a.state[t] = some /\ a.timeout[t] = due /\ a.pended_on[t] = NULL
      /\ a.retval[t] = k.retval[t]
  BY <1>2 DEF Becomes
<1>6. Becomes(b, a, t, bits, due, NULL, k.retval[t], FALSE) /\ Quiet(b, a)
  BY <1>3, <1>5, MarkSpec DEF Queued
<1> HIDE DEF b
<1>7. Becomes(b, k, t, bits, due, NULL, k.retval[t], FALSE) /\ Quiet(b, k)
  BY <1>2, <1>6, BecomesTwice, QuietTwice
<1>8. Wakes(m, k, t, bits, due, NULL, k.retval[t])
  <2>1. Links(k) /\ QueuedRuns(k) /\ due \in BOOLEAN /\ (due => k.timeout[t])
    BY <1>1
  <2> DEFINE v == k.retval[t]
  <2>2. Becomes(b, k, t, bits, due, NULL, v, FALSE)
    BY <1>7
  <2> HIDE DEF v
  <2>3. Wakes(m, k, t, bits, due, NULL, v)
    BY <2>1, <2>2, <1>3, <1>7, WakeSpec
  <2>4. QED
    BY <2>3 DEF v
<1> HIDE DEF m
<1>9. Effect(t, Readied(bits, due), due, NULL, zero, odd) /\ pendsv' \in BOOLEAN /\ Civil
  BY <1>3, <1>4, <1>8, WakeEffect
<1>10. QED
  BY <1>9 DEF bits, due

LEMMA PrioEffect ==
  ASSUME Core, NEW c, NEW t \in Threads, NEW p \in Prios, k_thread_priority_set(c, t, p), NEW odd,
         (Queued(k, t) <=> Able(k, t)) \/ odd, NEW zero
  PROVE  /\ Turns(k', k, t, Readied(k.state[t], k.timeout[t]), k.timeout[t], k.pended_on[t],
                  zero, odd)
         /\ CacheRuns(k') /\ MayRun(t, Readied(k.state[t], k.timeout[t])) /\ pendsv' \in BOOLEAN
         /\ Chosen(k) /\ (t = k.current => Able(k, t)) => Chosen(k')
<1> DEFINE m == z_thread_prio_set(k, t, p)
           bits == Readied(k.state[t], k.timeout[t])
<1>1. Running(c) /\ (z_reschedule(m) \/ Unlock(m))
  BY DEF k_thread_priority_set, Starts
<1>2. c \in Threads /\ k.current = c /\ Sound(k) /\ CacheRuns(k) /\ Links(k) /\ p \in Int
  BY <1>1, RunFacts, CoreFacts, SchedAssumption
<1>3. /\ Becomes(m, k, t, bits, k.timeout[t], k.pended_on[t], k.retval[t], odd)
      /\ CacheRuns(k) => CacheRuns(m)
      /\ Chosen(k) /\ (t = k.current => Able(k, t)) => Chosen(m)
  BY <1>2, SetPrioSpec
<1>h. bits \cap Preventing # {} => Held(k, t)
  BY DEF Readied, Held, Preventing
<1> HIDE DEF m, bits
<1>4. Links(m) /\ m.current = c
  BY <1>2, <1>3 DEF Becomes, Only
<1>5. Closes(m)
  BY <1>1, <1>2, <1>4 DEF Closes, Unlock
<1>6. /\ Ends(k', m) /\ pendsv' \in BOOLEAN
      /\ (pendsv' = TRUE \/ k'.cache = k'.current \/ pendsv' = pendsv)
  BY <1>4, <1>5, CloseEnds
<1>7. Turns(k', k, t, bits, k.timeout[t], k.pended_on[t], zero, odd)
  BY <1>3, <1>6, TurnFrom
<1>8. CacheRuns(k') /\ (Chosen(m) => Chosen(k'))
  BY <1>2, <1>3, <1>4, <1>6, EndFacts
<1>9. MayRun(t, bits)
  BY <1>6, <1>h DEF MayRun
<1>10. QED
  BY <1>3, <1>6, <1>7, <1>8, <1>9 DEF bits

LEMMA UnlockEffect ==
  ASSUME Core, NEW c, k_sched_unlock(c), NEW zero, NEW odd
  PROVE  /\ Effect(c, k.state[c], k.timeout[c], k.pended_on[c], zero, odd) /\ pendsv' \in BOOLEAN
         /\ Civil
<1> DEFINE a == [k EXCEPT !.sched_locked[c] = @ - 1]
           no == FALSE
           m == update_cache(a, no)
<1>1. Running(c) /\ k.sched_locked[c] > 0 /\ z_reschedule(m)
  BY DEF k_sched_unlock, Starts
<1>2. c \in Threads /\ k.current = c /\ Links(k) /\ QueuedRuns(k) /\ k \in KernelState
  BY <1>1, RunFacts, CoreFacts
<1>3. a \in KernelState
  <2>1. MaxLock \in Nat /\ k.sched_locked \in [Threads -> 0 .. MaxLock]
    BY <1>2, SchedAssumption DEF KernelState
  <2>2. [k.sched_locked EXCEPT ![c] = @ - 1] \in [Threads -> 0 .. MaxLock]
    BY <1>1, <1>2, <2>1
  <2>3. QED
    BY <1>2, <2>2 DEF KernelState
<1>4. /\ a.state = k.state /\ a.runq = k.runq /\ a.prio = k.prio
      /\ a.timeout = k.timeout /\ a.pended_on = k.pended_on /\ a.waitq = k.waitq
      /\ a.retval = k.retval /\ a.current = k.current /\ a.corrupt = k.corrupt
  BY <1>2 DEF KernelState
<1> HIDE DEF a
<1>5. Links(a)
  BY <1>2, <1>3, <1>4, AsideSpec
<1>6. QueuedRuns(a)
  BY <1>2, <1>4 DEF QueuedRuns, Queued, Held
<1>7. no \in BOOLEAN /\ ~no
  OBVIOUS
<1> HIDE DEF no
<1>8. Recaches(m, a, no)
  BY <1>5, <1>6, <1>7, UpdateCacheSpec
<1> HIDE DEF m
<1>9. Links(m) /\ Only(m, a, {}, FALSE) /\ CacheRuns(m) /\ Chosen(m) /\ m.current = c
  BY <1>2, <1>4, <1>8 DEF Recaches, Only
<1>10. Closes(m)
  BY <1>1, <1>2, <1>9 DEF Closes
<1>11. /\ Ends(k', m) /\ pendsv' \in BOOLEAN
       /\ (pendsv' = TRUE \/ k'.cache = k'.current \/ pendsv' = pendsv)
  BY <1>9, <1>10, CloseEnds
<1>12. Links(k') /\ CacheRuns(k') /\ Chosen(k')
  BY <1>9, <1>11, EndFacts
<1>13. Turns(k', k, c, k.state[c], k.timeout[c], k.pended_on[c], zero, odd)
  <2>1. \A u \in Threads : /\ k'.state[u] = k.state[u] /\ k'.timeout[u] = k.timeout[u]
                           /\ k'.pended_on[u] = k.pended_on[u]
                           /\ k'.retval[u] = 0 => k.retval[u] = 0
    BY <1>4, <1>9, <1>11 DEF Only, Ends
  <2>2. k'.current = k.current /\ (k'.corrupt => k.corrupt)
        /\ (Sorted(k.runq, k.prio) => Sorted(k'.runq, k'.prio))
    BY <1>4, <1>9, <1>11 DEF Only, Ends
  <2>3. QED
    BY <1>2, <1>12, <2>1, <2>2 DEF Turns
<1>14. MayRun(c, k.state[c])
  BY <1>11 DEF MayRun, Held
<1>15. Timely(k) => Polite(m)
  <2> SUFFICES ASSUME Timely(k), m.cache # m.current
               PROVE  ~Able(m, m.current) \/ thread_is_preemptible(m, m.current)
    BY DEF Polite
  <2>1. \/ thread_is_preemptible(a, a.current)
        \/ Held(a, a.current)
        \/ next_up(a) # Idle /\ a.timeout[next_up(a)]
    BY <1>2, <1>4, <1>7, <1>8, <1>9 DEF Recaches
  <2>2. ~(next_up(a) # Idle /\ a.timeout[next_up(a)])
    BY <1>4, <1>5, NextUpFacts DEF Timely, Queued
  <2>3. /\ m.current = a.current /\ m.sched_locked = a.sched_locked
        /\ m.prio[c] = a.prio[c] /\ m.state[c] = a.state[c] /\ a.current = c
    BY <1>2, <1>4, <1>9 DEF Only
  <2>4. thread_is_preemptible(a, a.current) => thread_is_preemptible(m, m.current)
    BY <2>3 DEF thread_is_preemptible
  <2>5. Held(a, a.current) => ~Able(m, m.current)
    BY <2>3 DEF Held, Able
  <2>6. QED
    BY <2>1, <2>2, <2>4, <2>5
<1>16. Civil
  BY <1>9, <1>11, <1>15, EndFacts DEF Civil
<1>17. QED
  BY <1>11, <1>12, <1>13, <1>14, <1>16 DEF Effect

LEMMA ResetEnds ==
  ASSUME NEW s \in KernelState, NEW t
  PROVE  Ends(z_reset_time_slice(s, t), s)
<1> DEFINE armed == thread_is_sliceable(s, t)
           n == z_reset_time_slice(s, t)
<1>1. armed \in BOOLEAN
  BY DEF thread_is_sliceable
<1>2. n = [s EXCEPT !.slice_expired = FALSE, !.slice_timeout = armed]
  BY DEF z_reset_time_slice
<1> HIDE DEF armed, n
<1>3. n \in KernelState
  BY <1>1, <1>2 DEF KernelState
<1>4. QED
  BY <1>2, <1>3 DEF Ends, KernelState, n

LEMMA EndsTwice ==
  ASSUME NEW s, NEW m, NEW n, Ends(m, s), Ends(n, m)
  PROVE  Ends(n, s)
BY DEF Ends

(* The end of the timer interrupt: nothing, or _current is queued again    *)
(* behind the threads of its priority.                                     *)
LEMMA SliceEffect ==
  ASSUME Core, TickEnd, NEW zero, NEW odd
  PROVE  /\ pendsv' \in BOOLEAN /\ Civil /\ (pendsv' = TRUE \/ k'.cache = k'.current)
         /\ \/ Effect(Main, k.state[Main], k.timeout[Main], k.pended_on[Main], zero, odd)
            \/ LET t == k.current
               IN  /\ t \in Threads /\ ~Held(k, t) /\ thread_is_preemptible(k, t)
                   /\ Effect(t, k.state[t] \cup {"QUEUED"}, k.timeout[t], k.pended_on[t], zero, odd)
<1> DEFINE t == k.current
           a == [k EXCEPT !.pending_current = NULL]
           m == z_time_slice(k)
<1>1. IsrExit(m) /\ Closes(m)
  BY DEF TickEnd, Closes
<1>2. Links(k) /\ k \in KernelState /\ t \in Threads \cup {Idle} /\ CacheRuns(k) /\ Main \in Threads
      /\ QueuedRuns(k)
  BY CoreFacts, SchedAssumption
<1>3. /\ Links(a) /\ QueuedRuns(a) /\ Only(a, k, {}, FALSE) /\ a.current = k.current
      /\ a.state = k.state /\ a.timeout = k.timeout /\ a.pended_on = k.pended_on
      /\ a.retval = k.retval /\ a.prio = k.prio /\ a.cache = k.cache /\ a.slicing = k.slicing
      /\ a.runq = k.runq /\ a.waitq = k.waitq /\ a.sched_locked = k.sched_locked
      /\ a.corrupt = k.corrupt
  BY PendingCurrent
<1>s. a \in KernelState
  BY <1>3 DEF Links
<1>4. \/ m = z_reset_time_slice(k, t)
      \/ m = a
      \/ /\ thread_is_sliceable(a, t)
         /\ m = z_reset_time_slice(IF ~ z_is_thread_prevented_from_running(a, t)
                                   THEN move_thread_to_end_of_prio_q(a, t) ELSE a, t)
  BY DEF z_time_slice
<1> HIDE DEF a, m
<1>5. CASE Ends(m, k)
  <2>1. Links(m) /\ Ends(k', m)
    BY <1>1, <1>2, <1>5, EndFacts, CloseEnds
  <2>2. /\ Ends(k', k) /\ pendsv' \in BOOLEAN /\ (pendsv' = TRUE \/ k'.cache = k'.current)
    BY <1>1, <1>5, <2>1, EndsTwice, CloseEnds
  <2>3. Links(k') /\ CacheRuns(k') /\ (Chosen(k) => Chosen(k'))
    BY <1>2, <2>2, EndFacts
  <2>4. Turns(k', k, Main, k.state[Main], k.timeout[Main], k.pended_on[Main], zero, odd)
    BY <1>2, <2>2, <2>3 DEF Turns, Ends
  <2>5. Civil
    BY <1>2, <2>2, EndFacts DEF Civil
  <2>6. QED
    BY <2>2, <2>3, <2>4, <2>5 DEF Effect, MayRun
<1>6. CASE m = z_reset_time_slice(k, t)
  BY <1>2, <1>5, <1>6, ResetEnds
<1>7. CASE m = a
  BY <1>3, <1>5, <1>7, <1>s DEF Ends
<1>8. CASE thread_is_sliceable(a, t) /\
           m = z_reset_time_slice(IF ~ z_is_thread_prevented_from_running(a, t)
                                  THEN move_thread_to_end_of_prio_q(a, t) ELSE a, t)
  <2> DEFINE b == DequeueIfQueued(a, t)
             ok == (t = a.current)
             e == update_cache(queue_thread(b, t), ok)
             bits == k.state[t] \cup {"QUEUED"}
  <2>1. t # Idle /\ ~z_is_thread_prevented_from_running(a, t) /\ thread_is_preemptible(a, t)
    BY <1>8 DEF thread_is_sliceable
  <2>2. t \in Threads /\ ~Held(a, t) /\ ~Held(k, t) /\ thread_is_preemptible(k, t)
    BY <1>2, <1>3, <2>1, PredicateFacts DEF Held, thread_is_preemptible
  <2>3. m = z_reset_time_slice(e, t)
    BY <1>8, <2>1 DEF move_thread_to_end_of_prio_q
  <2>4. Dequeues(b, a, t, FALSE)
    BY <1>3, <2>2, DequeueIfSpec
  <2> HIDE DEF b
  <2>5. Becomes(b, a, t, a.state[t] \ {"QUEUED"}, a.timeout[t], a.pended_on[t], a.retval[t], FALSE)
    BY <2>4, DequeueBecomes
  <2>6. ok \in BOOLEAN /\ ok
    BY <1>3
  <2> HIDE DEF ok
  <2>7. /\ Becomes(e, a, t, a.state[t] \cup {"QUEUED"}, a.timeout[t], a.pended_on[t], a.retval[t], FALSE)
        /\ Best(e) /\ e.prio[t] = b.prio[t]
    BY <1>3, <2>2, <2>5, <2>6, RequeueSpec, ZenonT(40)
  <2> HIDE DEF e
  <2>p. e.prio[t] = k.prio[t]
    BY <1>3, <2>4, <2>7 DEF Dequeues, SameOwn
  <2>8. Becomes(e, a, t, bits, k.timeout[t], k.pended_on[t], k.retval[t], FALSE)
    BY <1>3, <2>7
  <2> HIDE DEF bits
  <2>9. Becomes(e, k, t, bits, k.timeout[t], k.pended_on[t], k.retval[t], FALSE)
    BY <1>3, <2>2, <2>8, AsideBecomes
  <2>10. Becomes(e, k, t, bits, k.timeout[t], k.pended_on[t], k.retval[t], odd)
    BY <2>9, BecomesOdd
  <2>11. Links(e) /\ CacheRuns(e) /\ Chosen(e) /\ e \in KernelState
    BY <2>7, <2>8, NextRuns DEF Best, Becomes, Links
  <2>12. Ends(m, e)
    BY <2>3, <2>11, ResetEnds
  <2>13. Links(m)
    BY <2>11, <2>12, EndFacts
  <2>14. Ends(k', m) /\ pendsv' \in BOOLEAN /\ (pendsv' = TRUE \/ k'.cache = k'.current)
    BY <1>1, <2>13, CloseEnds
  <2>15. Ends(k', e)
    BY <2>12, <2>14, EndsTwice
  <2>16. CacheKept(e, k)
    BY <2>11 DEF CacheKept
  <2>17. MayRun(t, bits)
    BY <2>14 DEF MayRun
  <2>18. Effect(t, bits, k.timeout[t], k.pended_on[t], zero, odd)
    BY <2>2, <2>10, <2>15, <2>16, <2>17, EndEffect
  <2>19. Civil
    <3>1. e.current = t /\ e.sched_locked = k.sched_locked /\ e.prio[t] = k.prio[t]
      BY <2>9, <2>p DEF Becomes, Only
    <3>2. k'.current = t /\ k'.sched_locked = k.sched_locked /\ k'.prio[t] = k.prio[t]
      BY <2>15, <3>1 DEF Ends
    <3>3. thread_is_preemptible(k', k'.current)
      BY <2>2, <3>2 DEF thread_is_preemptible
    <3>4. QED
      BY <3>3 DEF Civil, Polite
  <2>20. QED
    BY <2>2, <2>14, <2>18, <2>19 DEF bits
<1>9. QED
  BY <1>4, <1>6, <1>7, <1>8

-----------------------------------------------------------------------------
(* Every step keeps the invariant.                                         *)
LEMMA ReadiedFacts ==
  ASSUME NEW b, NEW d
  PROVE  /\ Readied(b, d) \cap Preventing = b \cap Preventing
         /\ \A x \in Preventing : x \in Readied(b, d) <=> x \in b
         /\ "QUEUED" \in Readied(b, d) => "QUEUED" \in b \/ (b \cap Preventing = {} /\ ~d)
         /\ b \cap Preventing = {} /\ ~d => "QUEUED" \in Readied(b, d)
BY DEF Readied, Preventing

LEMMA AgreeReadied ==
  ASSUME NEW b, NEW d, NEW w, Agree(b, d, w)
  PROVE  Agree(Readied(b, d), d, w)
<1>1. "PENDING" \in Preventing /\ "DEAD" \in Preventing
  BY DEF Preventing
<1>2. QED
  BY <1>1, ReadiedFacts DEF Agree

LEMMA EffectParts ==
  ASSUME NEW t, NEW b, NEW d, NEW w, NEW zero, NEW odd, Effect(t, b, d, w, zero, odd)
  PROVE  Turns(k', k, t, b, d, w, zero, odd) /\ CacheRuns(k') /\ MayRun(t, b)
BY DEF Effect

(* A thread that starts a call is in no other.                             *)
LEMMA StartFacts ==
  ASSUME Core, NEW c, NEW op, Starts(c, op)
  PROVE  Running(c) /\ call[c].op = "none"
BY DEF Starts, NoCall

LEMMA YieldKeeps ==
  ASSUME Core, NEW c, k_yield(c)
  PROVE  Core'
<1> DEFINE b == k.state[c] \cup {"QUEUED"}
           no == FALSE
           odd == TRUE
<1>1. Effect(c, b, k.timeout[c], k.pended_on[c], no, odd) /\ pendsv' = TRUE
  BY YieldEffect
<1>2. Running(c) /\ call[c].op = "none" /\ call' = call /\ tick' = tick /\ firing' = firing
      /\ susp' = susp /\ finite' = finite /\ yielded' = TRUE
  BY StartFacts DEF k_yield, SameCalls, SameTick
<1>3. c \in Threads /\ ~Held(k, c) /\ k.pended_on[c] = NULL /\ firing = NULL /\ c # NULL
  BY <1>2, RunFacts, ThreadFacts
<1>4. Allowed(k, c, b, k.timeout[c], k.pended_on[c])
  <2>1. Agree(k.state[c], k.timeout[c], k.pended_on[c])
    BY <1>3, CoreFacts
  <2>2. QED
    BY <1>3, <2>1 DEF Allowed, Agree, Held, Preventing
<1>5. Typed'
  BY <1>1, <1>2 DEF Core, Typed
<1>6. "QUEUED" \in b
  OBVIOUS
<1> HIDE DEF b, no, odd
<1>7. QED
  BY <1>1, <1>2, <1>3, <1>4, <1>5, <1>6, EffectParts, TurnKeeps

LEMMA SleepKeeps ==
  ASSUME Core, NEW c, z_tick_sleep(c)
  PROVE  Core'
<1> DEFINE b == (k.state[c] \ {"QUEUED"}) \cup {"SUSPENDED"}
           no == FALSE
           d == TRUE
<1>1. Effect(c, b, d, k.pended_on[c], no, no) /\ pendsv' = TRUE
  BY SleepEffect
<1>2. Running(c) /\ call[c].op = "none" /\ call' = call /\ tick' = tick /\ firing' = firing
      /\ susp' = susp /\ finite' = finite /\ yielded' = yielded
  BY StartFacts DEF z_tick_sleep, SameCalls, SameTick, SameGhosts
<1>3. c \in Threads /\ ~Held(k, c) /\ k.pended_on[c] = NULL /\ firing = NULL /\ c # NULL
      /\ "DEAD" \notin k.state[c] /\ "PENDING" \notin k.state[c]
  BY <1>2, RunFacts, ThreadFacts
<1>4. Allowed(k, c, b, d, k.pended_on[c])
  BY <1>3 DEF Allowed, Agree
<1>5. Typed'
  BY <1>1, <1>2 DEF Core, Typed
<1>6. d /\ c # firing
  BY <1>3
<1> HIDE DEF b, no, d
<1>7. Turns(k', k, c, b, d, k.pended_on[c], no, no) /\ CacheRuns(k') /\ MayRun(c, b)
  BY <1>1, EffectParts
<1>8. QED
  BY <1>2, <1>3, <1>4, <1>5, <1>6, <1>7, TurnKeeps

LEMMA PendKeeps ==
  ASSUME Core, NEW c, NEW w \in Objs, NEW forever \in BOOLEAN, z_pend_curr(c, w, forever)
  PROVE  Core'
<1> DEFINE a == [k EXCEPT !.pending_current = c]
           b == (k.state[c] \ {"QUEUED"}) \cup {"PENDING"}
           d == k.timeout[c] \/ ~forever
           no == FALSE
<1>1. /\ Running(c) /\ call[c].op = "none" /\ call' = call /\ tick' = tick /\ firing' = firing
      /\ susp' = susp /\ yielded' = yielded
      /\ finite' = IF forever THEN finite \ {c} ELSE finite \cup {c}
      /\ z_swap(add_thread_timeout(add_to_waitq_locked(a, c, w), c, forever))
  BY StartFacts DEF z_pend_curr, SameCalls, SameTick
<1>2. c \in Threads /\ ~Held(k, c) /\ k.pended_on[c] = NULL /\ firing = NULL /\ c # NULL
      /\ "DEAD" \notin k.state[c] /\ "PENDING" \notin k.state[c] /\ k.current = c
  BY <1>1, RunFacts, ThreadFacts
<1>3. /\ Links(a) /\ QueuedRuns(a) /\ Only(a, k, {}, FALSE) /\ a.current = k.current
      /\ a.state = k.state /\ a.timeout = k.timeout /\ a.pended_on = k.pended_on
      /\ a.retval = k.retval
  <2>1. c \in Threads \cup {NULL}
    BY <1>2
  <2>2. QED
    BY <2>1, PendingCurrent
<1> HIDE DEF a
<1>4. w \in WaitQs /\ w # NULL /\ w \notin Threads
  BY ThreadFacts, SchedAssumption
<1>5. Effect(c, b, d, w, no, no) /\ pendsv' = TRUE
  BY <1>1, <1>2, <1>3, <1>4, PendEffect
<1>6. Allowed(k, c, b, d, w)
  BY <1>2, <1>4 DEF Allowed, Agree
<1>7. Typed'
  BY <1>1, <1>2, <1>5 DEF Core, Typed
<1>8. b \cap Preventing # {} /\ c # firing
  BY <1>2 DEF Preventing
<1> HIDE DEF b, d, no
<1>9. QED
  BY <1>1, <1>2, <1>5, <1>6, <1>7, <1>8, EffectParts, TurnKeeps

(* Both wake paths.                                                        *)
LEMMA WakeKeeps ==
  ASSUME Core, NEW w \in Objs, k.waitq[w] # <<>>, Closes(WakeFirst(k, w)),
         call' = call, tick' = tick, firing' = firing, susp' = susp, finite' = finite,
         yielded' = yielded
  PROVE  Core'
<1>1. PICK t \in Threads :
           /\ k.pended_on[t] = w /\ pendsv' \in BOOLEAN
           /\ Effect(t, Readied(k.state[t] \ {"PENDING"}, FALSE), FALSE, NULL, TRUE, FALSE)
  BY WakeFirstEffect
<1> DEFINE less == k.state[t] \ {"PENDING"}
           no == FALSE
           yes == TRUE
           b == Readied(less, no)
<1>2. Effect(t, b, no, NULL, yes, no)
  BY <1>1
<1>3. w # NULL /\ w \notin Threads
  BY ThreadFacts, SchedAssumption
<1>4. call[t].op # "join"
  <2>1. call[t].op = "join" => call[t].arg \in Threads
    BY DEF Core, Typed, Calls, NoCall
  <2>2. call[t].op = "join" => k.pended_on[t] \in {call[t].arg, NULL}
    BY DEF Core, Joined
  <2>3. QED
    BY <1>1, <1>3, <2>1, <2>2
<1>5. Agree(k.state[t], k.timeout[t], k.pended_on[t])
  BY CoreFacts
<1>6. Agree(less, no, NULL) /\ "PENDING" \in k.state[t] /\ "DEAD" \notin k.state[t]
  BY <1>1, <1>3, <1>5 DEF Agree, Preventing
<1>7. ~no /\ NULL \notin Threads /\ "DEAD" \notin less
  BY <1>6, ThreadFacts
<1>8. Typed'
  BY <1>1 DEF Core, Typed
<1> HIDE DEF less, no, yes
<1>9. Agree(b, no, NULL) /\ ("DEAD" \notin b) /\ (b \cap Preventing = {} => "QUEUED" \in b)
  <2>1. "DEAD" \in Preventing
    BY DEF Preventing
  <2>2. QED
    BY <1>6, <1>7, <2>1, AgreeReadied, ReadiedFacts
<1>10. Allowed(k, t, b, no, NULL)
  BY <1>6, <1>7, <1>9 DEF Allowed
<1> HIDE DEF b
<1>11. QED
  BY <1>2, <1>4, <1>7, <1>8, <1>9, <1>10, EffectParts, TurnKeeps

(* A thread that is only released from a bit it had, by a step that leaves *)
(* calls and the timer interrupt alone.                                    *)
LEMMA ReleaseKeeps ==
  ASSUME Core, NEW t \in Threads, NEW bit \in {"SUSPENDED", "PRESTART"}, NEW d \in BOOLEAN,
         Effect(t, Readied(k.state[t] \ {bit}, d), d, k.pended_on[t], FALSE, FALSE),
         d => k.timeout[t],
         pendsv' \in BOOLEAN, call' = call, tick' = tick, firing' = firing,
         susp' \subseteq Threads, finite' = finite, yielded' = yielded
  PROVE  Core'
<1> DEFINE less == k.state[t] \ {bit}
           b == Readied(less, d)
           w == k.pended_on[t]
           no == FALSE
<1>1. Effect(t, b, d, w, no, no)
  OBVIOUS
<1>2. Agree(k.state[t], k.timeout[t], w)
  BY CoreFacts
<1>q. QueuedRuns(k)
  BY CoreFacts
<1>3. Agree(less, d, w) /\ ("DEAD" \in less <=> "DEAD" \in k.state[t])
  BY <1>2 DEF Agree
<1>4. "DEAD" \in Preventing /\ ~no
  BY DEF Preventing
<1>5. Typed'
  BY DEF Core, Typed
<1>6. firing = t => ~d
  BY DEF Core, Fires
<1> HIDE DEF less, no
<1>7. Agree(b, d, w) /\ ("DEAD" \in b <=> "DEAD" \in k.state[t])
  BY <1>3, <1>4, AgreeReadied, ReadiedFacts
<1>8. Allowed(k, t, b, d, w)
  BY <1>7 DEF Allowed
<1>9. b \cap Preventing = {} /\ ~d => "QUEUED" \in b
  BY ReadiedFacts
<1> HIDE DEF b
<1>10. w \in {NULL, k.pended_on[t]}
  OBVIOUS
<1> HIDE DEF w
<1>11. QED
  BY <1>1, <1>4, <1>5, <1>6, <1>8, <1>9, <1>10, EffectParts, TurnKeeps

(* A step that changes no thread, and drops no excuse.                     *)
LEMMA AsideKeeps ==
  ASSUME Core, NEW t \in Threads, NEW zero, ~zero, NEW odd,
         Effect(t, k.state[t], k.timeout[t], k.pended_on[t], zero, odd),
         Typed', firing' # NULL => tick', firing' \in {firing, NULL, SliceTimer},
         \A c \in Threads : call'[c].op = "join" => call'[c] = call[c],
         \A u \in Threads : Excused(call, firing, u) => Excused(call', firing', u)
  PROVE  Core'
<1> DEFINE b == k.state[t]
           d == k.timeout[t]
           w == k.pended_on[t]
<1>1. Turns(k', k, t, b, d, w, zero, odd) /\ CacheRuns(k') /\ MayRun(t, b)
  BY EffectParts
<1>2. /\ k'.state[t] = b /\ k'.timeout[t] = d /\ k'.pended_on[t] = w
      /\ k'.retval[t] = 0 => k.retval[t] = 0
      /\ \A u \in Threads \ {t} : k'.state[u] = k.state[u] /\ k'.timeout[u] = k.timeout[u]
  BY <1>1 DEF Turns
<1>3. Allowed(k, t, b, d, w)
  BY CoreFacts DEF Allowed
<1>4. \A u \in Threads : k'.state[u] = k.state[u] /\ k'.timeout[u] = k.timeout[u]
  BY <1>2
<1>5. Fires(k', firing', tick')
  BY <1>4, ThreadFacts DEF Fires, Core
<1>6. Joined(k', call', t)
  <2>1. Joined(k, call, t)
    BY DEF Core
  <2>2. call[t].op = "join" => call[t].arg \in Threads
    BY DEF Core, Typed, Calls, NoCall
  <2>3. QED
    BY <1>2, <1>4, <2>1, <2>2 DEF Joined
<1>7. Lost(k', t) => Excused(call', firing', t)
  <2>1. Lost(k', t) => Lost(k, t)
    BY <1>4 DEF Lost, Able, Held, Queued
  <2>2. QED
    BY <2>1 DEF Core
<1> HIDE DEF b, d, w
<1>8. QED
  BY <1>1, <1>3, <1>5, <1>6, <1>7, TurnCore

LEMMA DelayKeeps ==
  ASSUME Core, NEW c, NEW t \in Threads, thread_schedule_new(c, t)
  PROVE  Core'
<1> DEFINE d == TRUE
           no == FALSE
<1>1. /\ Running(c) /\ k.state[t] = {"PRESTART"} /\ firing # t /\ call' = call /\ tick' = tick
      /\ firing' = firing /\ susp' = susp /\ finite' = finite /\ yielded' = yielded
      /\ k' = add_thread_timeout(k, t, FALSE) /\ pendsv' = pendsv
  BY DEF thread_schedule_new, Starts, Unlock, SameCalls, SameTick, SameGhosts
<1>2. k' = [k EXCEPT !.timeout[t] = d] /\ d \in BOOLEAN /\ d
  BY <1>1, CoreFacts DEF add_thread_timeout, KernelState
<1> HIDE DEF d, no
<1>3. Effect(t, k.state[t], d, k.pended_on[t], no, no) /\ pendsv' \in BOOLEAN
  BY <1>1, <1>2, TimeoutEffect
<1>4. Turns(k', k, t, k.state[t], d, k.pended_on[t], no, no) /\ CacheRuns(k') /\ MayRun(t, k.state[t])
  BY <1>3, EffectParts
<1>5. Allowed(k, t, k.state[t], d, k.pended_on[t])
  <2>1. Agree(k.state[t], k.timeout[t], k.pended_on[t])
    BY CoreFacts
  <2>2. QED
    BY <1>1, <2>1 DEF Allowed, Agree
<1>6. Typed'
  BY <1>1, <1>3 DEF Core, Typed
<1>7. ~no
  BY DEF no
<1>8. QED
  BY <1>1, <1>2, <1>4, <1>5, <1>6, <1>7, TurnKeeps

LEMMA IsrSuspendKeeps ==
  ASSUME Core, NEW t \in Threads, IsrSuspend(t)
  PROVE  Core'
<1> DEFINE b == (k.state[t] \cup {"SUSPENDED"}) \ {"QUEUED"}
           no == FALSE
           w == k.pended_on[t]
<1>1. /\ call' = call /\ tick' = tick /\ firing' = firing /\ susp' = susp \cup {t}
      /\ finite' = finite /\ yielded' = yielded
  BY DEF IsrSuspend, SameCalls, SameTick
<1>2. Effect(t, b, no, w, no, no) /\ pendsv' \in BOOLEAN
  BY IsrSuspendEffect
<1>3. Allowed(k, t, b, no, w)
  <2>1. Agree(k.state[t], k.timeout[t], w)
    BY CoreFacts
  <2>2. QED
    BY <2>1 DEF Allowed, Agree
<1>4. Typed'
  BY <1>1, <1>2 DEF Core, Typed
<1>5. b \cap Preventing # {} /\ ~no /\ w \in {NULL, k.pended_on[t]}
  BY DEF Preventing
<1> HIDE DEF b, no, w
<1>6. Turns(k', k, t, b, no, w, no, no) /\ CacheRuns(k') /\ MayRun(t, b)
  BY <1>2, EffectParts
<1>7. QED
  BY <1>1, <1>3, <1>4, <1>5, <1>6, TurnKeeps

LEMMA PrioKeeps ==
  ASSUME Core, NEW c, NEW t \in Threads, NEW p \in Prios, k_thread_priority_set(c, t, p)
  PROVE  Core'
<1> DEFINE b == Readied(k.state[t], k.timeout[t])
           d == k.timeout[t]
           w == k.pended_on[t]
           odd == TRUE
           no == FALSE
<1>1. /\ call' = call /\ tick' = tick /\ firing' = firing /\ susp' = susp
      /\ finite' = finite /\ yielded' = yielded
  BY DEF k_thread_priority_set, SameCalls, SameTick, SameGhosts
<1>2. /\ Turns(k', k, t, b, d, w, no, odd) /\ CacheRuns(k') /\ MayRun(t, b) /\ pendsv' \in BOOLEAN
  <2>1. odd
    OBVIOUS
  <2> HIDE DEF odd, no
  <2>2. QED
    BY <2>1, PrioEffect
<1>3. Agree(k.state[t], d, w)
  BY CoreFacts
<1>4. "DEAD" \in Preventing /\ ~no /\ w \in {NULL, k.pended_on[t]}
  BY DEF Preventing
<1>5. Allowed(k, t, b, d, w)
  BY <1>3, <1>4, AgreeReadied, ReadiedFacts DEF Allowed
<1>6. Typed'
  BY <1>1, <1>2 DEF Core, Typed
<1>7. firing = t => ~d
  BY DEF Core, Fires
<1>8. b \cap Preventing = {} /\ ~d => "QUEUED" \in b
  BY ReadiedFacts
<1> HIDE DEF b, d, w, odd, no
<1>9. QED
  BY <1>1, <1>2, <1>4, <1>5, <1>6, <1>7, <1>8, TurnKeeps

LEMMA LockEffect ==
  ASSUME Core, NEW c, k_sched_lock(c), NEW zero, NEW odd
  PROVE  Effect(c, k.state[c], k.timeout[c], k.pended_on[c], zero, odd) /\ pendsv' \in BOOLEAN
<1> DEFINE more == [k.sched_locked EXCEPT ![c] = @ + 1]
           n == [k EXCEPT !.sched_locked = more]
<1>1. Running(c) /\ k.sched_locked[c] < MaxLock /\ k' = [k EXCEPT !.sched_locked[c] = @ + 1]
      /\ pendsv' = pendsv
  BY DEF k_sched_lock, Starts, Unlock
<1>2. c \in Threads /\ c = k.current /\ k \in KernelState /\ pendsv \in BOOLEAN /\ MaxLock \in Nat
      /\ k.sched_locked \in [Threads -> 0 .. MaxLock] /\ c # Idle
  BY <1>1, RunFacts, CoreFacts, SchedAssumption, ThreadFacts DEF Core, Typed, KernelState
<1>3. k' = n
  BY <1>1, <1>2 DEF KernelState
<1>4. more \in [Threads -> 0 .. MaxLock] /\ more[c] = k.sched_locked[c] + 1 /\ more[c] # 0
  BY <1>1, <1>2
<1> HIDE DEF more
<1>5. n \in KernelState
  BY <1>2, <1>4 DEF KernelState
<1>6. /\ n.state = k.state /\ n.runq = k.runq /\ n.prio = k.prio
      /\ n.timeout = k.timeout /\ n.pended_on = k.pended_on /\ n.waitq = k.waitq
      /\ n.retval = k.retval /\ n.current = k.current /\ n.corrupt = k.corrupt
      /\ n.cache = k.cache /\ n.sched_locked = more
  BY <1>2 DEF KernelState
<1> HIDE DEF n
<1>7. ~thread_is_preemptible(n, k.current)
  BY <1>2, <1>4, <1>6 DEF thread_is_preemptible
<1>8. QED
  BY <1>1, <1>2, <1>3, <1>5, <1>6, <1>7, AsideEffect

LEMMA SliceSetEffect ==
  ASSUME Core, NEW c, NEW on \in BOOLEAN, k_sched_time_slice_set(c, on), NEW zero, NEW odd
  PROVE  Effect(c, k.state[c], k.timeout[c], k.pended_on[c], zero, odd) /\ pendsv' \in BOOLEAN
<1> DEFINE a == [k EXCEPT !.slicing = on]
           armed == thread_is_sliceable(a, c)
           n == [a EXCEPT !.slice_expired = FALSE, !.slice_timeout = armed]
<1>1. Running(c) /\ k' = n /\ pendsv' = pendsv
  BY DEF k_sched_time_slice_set, Starts, Unlock, z_reset_time_slice
<1>2. c \in Threads /\ k \in KernelState /\ pendsv \in BOOLEAN
  BY <1>1, RunFacts, CoreFacts DEF Core, Typed
<1>3. armed \in BOOLEAN
  BY DEF thread_is_sliceable
<1> HIDE DEF armed
<1>4. n \in KernelState
  BY <1>2, <1>3 DEF KernelState
<1>5. /\ n.state = k.state /\ n.runq = k.runq /\ n.prio = k.prio
      /\ n.timeout = k.timeout /\ n.pended_on = k.pended_on /\ n.waitq = k.waitq
      /\ n.retval = k.retval /\ n.current = k.current /\ n.corrupt = k.corrupt
      /\ n.cache = k.cache /\ n.sched_locked = k.sched_locked
  BY <1>2 DEF KernelState
<1> HIDE DEF n
<1>6. QED
  BY <1>1, <1>2, <1>4, <1>5, AsideEffect

(* The slice timer's own fields.                                           *)
LEMMA SliceTimerEffect ==
  ASSUME Core, AnnounceSlice \/ slice_timeout, NEW t \in Threads, NEW zero, NEW odd
  PROVE  Effect(t, k.state[t], k.timeout[t], k.pended_on[t], zero, odd) /\ pendsv' \in BOOLEAN
<1> DEFINE x == [k EXCEPT !.slice_timeout = FALSE]
           y == [k EXCEPT !.slice_expired = TRUE]
<1>1. (k' = x \/ k' = y) /\ pendsv' = pendsv
  BY DEF AnnounceSlice, slice_timeout
<1>2. k \in KernelState /\ pendsv \in BOOLEAN
  BY CoreFacts DEF Core, Typed
<1>3. x \in KernelState /\ y \in KernelState
  BY <1>2 DEF KernelState
<1>4. /\ x.state = k.state /\ x.runq = k.runq /\ x.prio = k.prio
      /\ x.timeout = k.timeout /\ x.pended_on = k.pended_on /\ x.waitq = k.waitq
      /\ x.retval = k.retval /\ x.current = k.current /\ x.corrupt = k.corrupt
      /\ x.cache = k.cache /\ x.sched_locked = k.sched_locked
  BY <1>2 DEF KernelState
<1>5. /\ y.state = k.state /\ y.runq = k.runq /\ y.prio = k.prio
      /\ y.timeout = k.timeout /\ y.pended_on = k.pended_on /\ y.waitq = k.waitq
      /\ y.retval = k.retval /\ y.current = k.current /\ y.corrupt = k.corrupt
      /\ y.cache = k.cache /\ y.sched_locked = k.sched_locked
  BY <1>2 DEF KernelState
<1> HIDE DEF x, y
<1>6. CASE k' = x
  BY <1>1, <1>2, <1>3, <1>4, <1>6, AsideEffect
<1>7. CASE k' = y
  BY <1>1, <1>2, <1>3, <1>5, <1>7, AsideEffect
<1>8. QED
  BY <1>1, <1>2, <1>6, <1>7

(* A step that may begin or end a call other than a join.                  *)
LEMMA TurnCalls ==
  ASSUME Core, NEW t \in Threads, NEW b, NEW d, NEW w, NEW zero, NEW odd,
         Turns(k', k, t, b, d, w, zero, odd), Allowed(k, t, b, d, w), CacheRuns(k'), MayRun(t, b),
         Typed', firing' # NULL => tick', firing' \in {firing, NULL, t}, firing' = t => ~d,
         call[t].op = "join" => w \in {NULL, k.pended_on[t]} /\ ~zero,
         \A c \in Threads : call'[c].op = "join" => call'[c] = call[c],
         \A u \in Threads \ {t} : Excused(call, firing, u) => Excused(call', firing', u),
         b \cap Preventing = {} /\ ~d /\ "QUEUED" \notin b => Excused(call', firing', t)
  PROVE  Core'
<1>1. Others(k', k, t)
  BY TurnOthers
<1>2. /\ k'.state[t] = b /\ k'.timeout[t] = d /\ k'.pended_on[t] = w
      /\ k'.retval[t] = 0 => k.retval[t] = 0 \/ zero
  BY DEF Turns
<1>3. Fires(k', firing', tick')
  <2>1. ASSUME firing' \in Threads PROVE ~k'.timeout[firing']
    <3>1. CASE firing' = t
      BY <1>2, <3>1
    <3>2. CASE firing' # t
      <4>1. firing' = firing /\ ~k.timeout[firing]
        BY <2>1, <3>2, ThreadFacts DEF Core, Fires
      <4>2. QED
        BY <1>1, <2>1, <3>2, <4>1 DEF Others
    <3>3. QED
      BY <3>1, <3>2
  <2>2. QED
    BY <2>1 DEF Fires
<1>4. Joined(k', call', t)
  <2> SUFFICES ASSUME call'[t].op = "join"
               PROVE  /\ k'.pended_on[t] \in {call'[t].arg, NULL}
                      /\ k'.retval[t] = 0 => "DEAD" \in k'.state[call'[t].arg]
    BY DEF Joined
  <2>0. call'[t] = call[t] /\ call[t].op = "join"
    OBVIOUS
  <2>1. call[t].arg \in Threads
    BY <2>0 DEF Core, Typed, Calls, NoCall
  <2>2. /\ k.pended_on[t] \in {call[t].arg, NULL}
        /\ k.retval[t] = 0 => "DEAD" \in k.state[call[t].arg]
    BY <2>0 DEF Core, Joined
  <2>3. QED
    BY <1>1, <1>2, <2>0, <2>1, <2>2 DEF Others
<1>5. Lost(k', t) => Excused(call', firing', t)
  BY <1>2 DEF Lost, Able, Held, Queued
<1>6. QED
  BY <1>3, <1>4, <1>5, TurnCore

LEMMA SuspendAbortKeeps ==
  ASSUME Core, NEW c, NEW t \in Threads, k_thread_suspend_abort(c, t)
  PROVE  Core'
<1> DEFINE b == k.state[t]
           w == k.pended_on[t]
           no == FALSE
<1>1. /\ Running(c) /\ call[c].op = "none" /\ tick' = tick /\ firing' = firing
      /\ susp' = susp /\ finite' = finite /\ yielded' = yielded
      /\ call' = [call EXCEPT ![c] = [op |-> "suspend", arg |-> t]]
      /\ k' = [k EXCEPT !.timeout[t] = no] /\ pendsv' = pendsv
  BY StartFacts DEF k_thread_suspend_abort, Unlock, SameTick, SameGhosts, z_abort_thread_timeout
<1>2. c \in Threads /\ firing = NULL /\ call \in [Threads -> Calls]
  BY <1>1, RunFacts DEF Core, Typed
<1>3. call'[c] = [op |-> "suspend", arg |-> t] /\ \A x \in Threads \ {c} : call'[x] = call[x]
  BY <1>1, <1>2
<1>4. no \in BOOLEAN /\ ~no
  OBVIOUS
<1> HIDE DEF no
<1>5. Effect(t, b, no, w, no, no) /\ pendsv' \in BOOLEAN
  BY <1>1, <1>4, TimeoutEffect
<1>6. Turns(k', k, t, b, no, w, no, no) /\ CacheRuns(k') /\ MayRun(t, b)
  BY <1>5, EffectParts
<1>7. Allowed(k, t, b, no, w)
  BY <1>4, CoreFacts DEF Allowed, Agree
<1>8. Typed'
  <2>1. call' \in [Threads -> Calls]
    BY <1>1, <1>2 DEF Calls
  <2>2. QED
    BY <1>1, <1>5, <2>1 DEF Core, Typed
<1>9. Excused(call', firing', t)
  BY <1>2, <1>3 DEF Excused
<1>10. \A u \in Threads : Excused(call, firing, u) => Excused(call', firing', u)
  BY <1>1, <1>3 DEF Excused
<1>11. \A x \in Threads : call'[x].op = "join" => call'[x] = call[x]
  BY <1>3
<1>12. w \in {NULL, k.pended_on[t]} /\ firing' = NULL /\ firing' # t
  BY <1>1, <1>2, ThreadFacts
<1> HIDE DEF b, w
<1>13. QED
  BY <1>4, <1>6, <1>7, <1>8, <1>9, <1>10, <1>11, <1>12, TurnCalls

LEMMA SuspendHaltKeeps ==
  ASSUME Core, NEW c, k_thread_suspend_halt(c)
  PROVE  Core'
<1> DEFINE t == call[c].arg
           b == (k.state[t] \cup {"SUSPENDED"}) \ {"QUEUED"}
           d == k.timeout[t]
           w == k.pended_on[t]
           no == FALSE
<1>1. /\ Running(c) /\ call[c].op = "suspend" /\ tick' = tick /\ firing' = firing
      /\ susp' = susp \cup {t} /\ finite' = finite /\ yielded' = yielded
      /\ call' = [call EXCEPT ![c] = NoCall]
  BY DEF k_thread_suspend_halt, Continues, SameTick
<1>2. c \in Threads /\ firing = NULL /\ call \in [Threads -> Calls]
  BY <1>1, RunFacts DEF Core, Typed
<1>3. t \in Threads
  BY <1>1, <1>2 DEF Calls, NoCall
<1>4. call'[c] = NoCall /\ \A x \in Threads \ {c} : call'[x] = call[x]
  BY <1>1, <1>2
<1>5. Effect(t, b, d, w, no, no) /\ pendsv' \in BOOLEAN
  BY SuspendEffect
<1>6. Allowed(k, t, b, d, w)
  <2>1. Agree(k.state[t], d, w)
    BY <1>3, CoreFacts
  <2>2. QED
    BY <2>1 DEF Allowed, Agree
<1>7. Typed'
  <2>1. call' \in [Threads -> Calls]
    BY <1>1, <1>2 DEF Calls
  <2>2. QED
    BY <1>1, <1>3, <1>5, <2>1 DEF Core, Typed
<1>8. \A u \in Threads \ {t} : Excused(call, firing, u) => Excused(call', firing', u)
  BY <1>1, <1>4 DEF Excused
<1>9. \A x \in Threads : call'[x].op = "join" => call'[x] = call[x]
  BY <1>4 DEF NoCall
<1>10. w \in {NULL, k.pended_on[t]} /\ firing' = NULL /\ firing' # t /\ b \cap Preventing # {} /\ ~no
  BY <1>1, <1>2, <1>3, ThreadFacts DEF Preventing
<1> HIDE DEF b, d, w, t, no
<1>11. Turns(k', k, t, b, d, w, no, no) /\ CacheRuns(k') /\ MayRun(t, b)
  BY <1>5, EffectParts
<1>12. QED
  BY <1>3, <1>6, <1>7, <1>8, <1>9, <1>10, <1>11, TurnCalls

LEMMA WakeupAbortKeeps ==
  ASSUME Core, NEW c, k_wakeup_abort(c)
  PROVE  Core'
<1> DEFINE t == call[c].arg
           b == k.state[t]
           w == k.pended_on[t]
           no == FALSE
           next == [op |-> IF k.timeout[t] THEN "wakeup2" ELSE "wakeup_look", arg |-> t]
<1>1. /\ Running(c) /\ call[c].op = "wakeup1" /\ tick' = tick /\ firing' = firing
      /\ susp' = susp /\ finite' = finite /\ yielded' = yielded
      /\ call' = [call EXCEPT ![c] = next]
      /\ k' = [k EXCEPT !.timeout[t] = no] /\ pendsv' = pendsv
  BY DEF k_wakeup_abort, Continues, Unlock, SameTick, SameGhosts, z_abort_thread_timeout
<1>2. c \in Threads /\ firing = NULL /\ call \in [Threads -> Calls]
  BY <1>1, RunFacts DEF Core, Typed
<1>3. t \in Threads
  BY <1>1, <1>2 DEF Calls, NoCall
<1>4. call'[c] = next /\ (\A x \in Threads \ {c} : call'[x] = call[x]) /\ next \in Calls
      /\ next.op # "join"
  BY <1>1, <1>2, <1>3 DEF Calls, NoCall
<1>5. no \in BOOLEAN /\ ~no
  OBVIOUS
<1> HIDE DEF no
<1>6. Effect(t, b, no, w, no, no) /\ pendsv' \in BOOLEAN
  BY <1>1, <1>3, <1>5, TimeoutEffect
<1>7. Allowed(k, t, b, no, w)
  BY <1>3, <1>5, CoreFacts DEF Allowed, Agree
<1>8. Typed'
  <2>1. call' \in [Threads -> Calls]
    BY <1>1, <1>2, <1>4
  <2>2. QED
    BY <1>1, <1>6, <2>1 DEF Core, Typed
<1>9. \A u \in Threads : Excused(call, firing, u) => Excused(call', firing', u)
  BY <1>1, <1>4 DEF Excused
<1>10. \A x \in Threads : call'[x].op = "join" => call'[x] = call[x]
  BY <1>4
<1>11. w \in {NULL, k.pended_on[t]} /\ firing' = NULL /\ firing' # t
  BY <1>1, <1>2, <1>3, ThreadFacts
<1>12. b \cap Preventing = {} /\ "QUEUED" \notin b => Excused(call', firing', t)
  <2>1. CASE k.timeout[t]
    <3>1. call'[c].op = "wakeup2" /\ call'[c].arg = t
      BY <1>4, <2>1
    <3>2. QED
      BY <1>2, <3>1 DEF Excused
  <2>2. CASE ~k.timeout[t]
    <3>1. b \cap Preventing = {} /\ "QUEUED" \notin b => Lost(k, t)
      BY <2>2 DEF Lost, Able, Held, Queued
    <3>2. QED
      BY <1>3, <1>9, <3>1 DEF Core
  <2>3. QED
    BY <2>1, <2>2
<1> HIDE DEF b, w, t, next
<1>13. Turns(k', k, t, b, no, w, no, no) /\ CacheRuns(k') /\ MayRun(t, b)
  BY <1>6, EffectParts
<1>14. QED
  BY <1>3, <1>5, <1>7, <1>8, <1>9, <1>10, <1>11, <1>12, <1>13, TurnCalls

LEMMA ReleaseCloses ==
  ASSUME Core, NEW c, Running(c), NEW t \in Threads, NEW bit \in Preventing,
         z_reschedule(ready_thread([k EXCEPT !.state[t] = @ \ {bit}], t))
  PROVE  Closes(ready_thread([k EXCEPT !.state[t] = @ \ {bit}], t))
<1> DEFINE less == k.state[t] \ {bit}
           a == [k EXCEPT !.state[t] = less]
           m == ready_thread(a, t)
<1>1. Links(k) /\ QueuedRuns(k) /\ k.state[t] \in SUBSET StateBits /\ k.current \in Threads
  BY CoreFacts, RunFacts
<1>2. less \in SUBSET StateBits /\ ("QUEUED" \in less <=> Queued(k, t))
      /\ (less \cap Preventing # {} => Held(k, t))
  BY <1>1 DEF Queued, Held, Preventing
<1>3. z_reschedule(m)
  OBVIOUS
<1> HIDE DEF less
<1>4. Becomes(a, k, t, less, k.timeout[t], k.pended_on[t], k.retval[t], FALSE)
  BY <1>1, <1>2, MarkSpec
<1> HIDE DEF a
<1>5. Links(a) /\ a.current = k.current /\ Only(a, k, {t}, FALSE) /\ a.state[t] = less
  BY <1>4 DEF Becomes, Only
<1>6. Queued(a, t) => ~Held(a, t)
  <2>1. Queued(a, t) => Queued(k, t)
    BY <1>2, <1>5 DEF Queued
  <2>2. Queued(k, t) => ~Held(k, t)
    BY <1>1 DEF QueuedRuns
  <2>3. Held(a, t) => Held(k, t)
    BY <1>2, <1>5 DEF Held
  <2>4. QED
    BY <2>1, <2>2, <2>3
<1>7. QueuedRuns(a)
  BY <1>1, <1>5, <1>6, OneQueued
<1>8. Readies(m, a, t)
  BY <1>5, <1>7, ReadySpec
<1>9. m.current \in Threads
  BY <1>1, <1>5, <1>8 DEF Readies, Becomes, Only
<1>10. Closes(m)
  BY <1>3, <1>9 DEF Closes
<1>11. QED
  BY <1>10 DEF m, a, less

LEMMA WakeupReadyKeeps ==
  ASSUME Core, NEW c, k_wakeup_ready(c)
  PROVE  Core'
<1> DEFINE t == call[c].arg
           less == k.state[t] \ {"SUSPENDED"}
           d == k.timeout[t]
           b == Readied(less, d)
           w == k.pended_on[t]
           no == FALSE
<1>1. /\ Running(c) /\ call[c].op = "wakeup2" /\ tick' = tick /\ firing' = firing
      /\ susp' = susp \ {t} /\ finite' = finite /\ yielded' = yielded
      /\ call' = [call EXCEPT ![c] = NoCall]
      /\ z_reschedule(ResumeState(t))
  BY DEF k_wakeup_ready, Continues, SameTick
<1>2. c \in Threads /\ firing = NULL /\ call \in [Threads -> Calls] /\ k.current = c
  BY <1>1, RunFacts DEF Core, Typed
<1>3. t \in Threads
  BY <1>1, <1>2 DEF Calls, NoCall
<1>4. call'[c] = NoCall /\ \A x \in Threads \ {c} : call'[x] = call[x]
  BY <1>1, <1>2
<1>5. Effect(t, b, d, w, no, no) /\ pendsv' \in BOOLEAN
  <2>1. "SUSPENDED" \in Preventing
    BY DEF Preventing
  <2>2. Closes(ready_thread([k EXCEPT !.state[t] = @ \ {"SUSPENDED"}], t))
    BY <1>1, <1>3, <2>1, ReleaseCloses DEF ResumeState
  <2> HIDE DEF no
  <2>3. QED
    BY <1>3, <2>1, <2>2, ReleaseEffect
<1>6. Agree(less, d, w) /\ ("DEAD" \in less <=> "DEAD" \in k.state[t]) /\ "DEAD" \in Preventing
  <2>1. Agree(k.state[t], d, w)
    BY <1>3, CoreFacts
  <2>2. QED
    BY <2>1 DEF Agree, Preventing
<1> HIDE DEF less
<1>7. Allowed(k, t, b, d, w)
  BY <1>6, AgreeReadied, ReadiedFacts DEF Allowed
<1>8. Typed'
  <2>1. call' \in [Threads -> Calls]
    BY <1>1, <1>2 DEF Calls
  <2>2. QED
    BY <1>1, <1>5, <2>1 DEF Core, Typed
<1>9. \A u \in Threads \ {t} : Excused(call, firing, u) => Excused(call', firing', u)
  BY <1>1, <1>4 DEF Excused
<1>10. \A x \in Threads : call'[x].op = "join" => call'[x] = call[x]
  BY <1>4 DEF NoCall
<1>11. w \in {NULL, k.pended_on[t]} /\ firing' = NULL /\ firing' # t /\ ~no
       /\ (b \cap Preventing = {} /\ ~d => "QUEUED" \in b)
  BY <1>1, <1>2, <1>3, ThreadFacts, ReadiedFacts
<1> HIDE DEF b, d, w, t, no
<1>12. Turns(k', k, t, b, d, w, no, no) /\ CacheRuns(k') /\ MayRun(t, b)
  BY <1>5, EffectParts
<1>13. QED
  BY <1>3, <1>7, <1>8, <1>9, <1>10, <1>11, <1>12, TurnCalls

LEMMA WakeOneCloses ==
  ASSUME Core, NEW c, NEW w \in Objs, WakeOne(c, w)
  PROVE  Closes(WakeFirst(k, w))
<1> DEFINE t == Head(k.waitq[w])
           m == WakeThread(k, t)
           no == FALSE
<1>1. Running(c) /\ k.waitq[w] # <<>> /\ z_reschedule(WakeFirst(k, w))
  BY DEF WakeOne, Starts
<1>2. /\ w \in WaitQs /\ k.waitq[w] \in Seq(Threads) /\ Links(k) /\ QueuedRuns(k) /\ w # NULL
      /\ k.current \in Threads
  BY <1>1, CoreFacts, RunFacts, ThreadFacts DEF KernelState
<1>3. t \in Threads /\ k.pended_on[t] = w /\ m = WakeFirst(k, w)
  BY <1>1, <1>2, HeadLinked DEF Links, WakeFirst
<1> HIDE DEF t
<1>4. Wakes(m, k, t, k.state[t] \ {"PENDING"}, no, NULL, 0)
  BY <1>2, <1>3, WakeThreadSpec
<1> HIDE DEF m
<1>5. m.current \in Threads
  BY <1>2, <1>4 DEF Wakes, Becomes, Only
<1>6. QED
  BY <1>1, <1>3, <1>5 DEF Closes

LEMMA WakeOneKeeps ==
  ASSUME Core, NEW c, NEW w \in Objs, WakeOne(c, w)
  PROVE  Core'
<1>1. /\ k.waitq[w] # <<>> /\ call' = call /\ tick' = tick /\ firing' = firing /\ susp' = susp
      /\ finite' = finite /\ yielded' = yielded
  BY DEF WakeOne, SameCalls, SameTick, SameGhosts
<1>2. QED
  BY <1>1, WakeOneCloses, WakeKeeps

LEMMA IsrWakeOneKeeps ==
  ASSUME Core, NEW w \in Objs, IsrWakeOne(w)
  PROVE  Core'
<1>1. /\ k.waitq[w] # <<>> /\ IsrExit(WakeFirst(k, w))
      /\ call' = call /\ tick' = tick /\ firing' = firing /\ susp' = susp
      /\ finite' = finite /\ yielded' = yielded
  BY DEF IsrWakeOne, SameCalls, SameTick, SameGhosts
<1>2. Closes(WakeFirst(k, w))
  BY <1>1 DEF Closes
<1>3. QED
  BY <1>1, <1>2, WakeKeeps

LEMMA StartKeeps ==
  ASSUME Core, NEW c, NEW t \in Threads, z_sched_start(c, t)
  PROVE  Core'
<1> DEFINE bit == "PRESTART"
           no == FALSE
<1>1. /\ Running(c) /\ z_reschedule(ready_thread([k EXCEPT !.state[t] = @ \ {bit}], t))
      /\ call' = call /\ tick' = tick /\ firing' = firing /\ susp' = susp
      /\ finite' = finite /\ yielded' = yielded
  BY DEF z_sched_start, Starts, SameCalls, SameTick, SameGhosts
<1>2. bit \in Preventing /\ bit \in {"SUSPENDED", "PRESTART"} /\ susp' \subseteq Threads
      /\ k.timeout[t] \in BOOLEAN
  BY <1>1, CoreFacts DEF Preventing, Core, Typed
<1> HIDE DEF bit
<1>3. Closes(ready_thread([k EXCEPT !.state[t] = @ \ {bit}], t))
  BY <1>1, <1>2, ReleaseCloses
<1> HIDE DEF no
<1>4. /\ Effect(t, Readied(k.state[t] \ {bit}, k.timeout[t]), k.timeout[t], k.pended_on[t], no, no)
      /\ pendsv' \in BOOLEAN
  BY <1>2, <1>3, ReleaseEffect
<1>5. QED
  BY <1>1, <1>2, <1>4, ReleaseKeeps DEF no

LEMMA ResumeKeeps ==
  ASSUME Core, NEW t \in Threads,
         (\E c \in Threads : k_thread_resume(c, t)) \/ IsrResume(t)
  PROVE  Core'
<1> DEFINE bit == "SUSPENDED"
           no == FALSE
<1>1. /\ call' = call /\ tick' = tick /\ firing' = firing /\ susp' = susp \ {t}
      /\ finite' = finite /\ yielded' = yielded
  BY DEF k_thread_resume, IsrResume, SameCalls, SameTick
<1>2. bit \in Preventing /\ bit \in {"SUSPENDED", "PRESTART"} /\ susp' \subseteq Threads
      /\ k.timeout[t] \in BOOLEAN
  BY <1>1, CoreFacts DEF Preventing, Core, Typed
<1>3. ResumeState(t) = ready_thread([k EXCEPT !.state[t] = @ \ {bit}], t)
  BY DEF ResumeState
<1> HIDE DEF bit
<1>4. Closes(ready_thread([k EXCEPT !.state[t] = @ \ {bit}], t))
  <2>1. ASSUME NEW c \in Threads, k_thread_resume(c, t)
        PROVE  Closes(ready_thread([k EXCEPT !.state[t] = @ \ {bit}], t))
    <3>1. Running(c) /\ z_reschedule(ready_thread([k EXCEPT !.state[t] = @ \ {bit}], t))
      BY <1>3, <2>1 DEF k_thread_resume, Starts
    <3>2. QED
      BY <1>2, <3>1, ReleaseCloses
  <2>2. ASSUME IsrResume(t)
        PROVE  Closes(ready_thread([k EXCEPT !.state[t] = @ \ {bit}], t))
    BY <1>3, <2>2 DEF IsrResume, Closes
  <2>3. QED
    BY <2>1, <2>2
<1> HIDE DEF no
<1>5. /\ Effect(t, Readied(k.state[t] \ {bit}, k.timeout[t]), k.timeout[t], k.pended_on[t], no, no)
      /\ pendsv' \in BOOLEAN
  BY <1>2, <1>4, ReleaseEffect
<1>6. QED
  BY <1>1, <1>2, <1>5, ReleaseKeeps DEF no

LEMMA IsrWakeupKeeps ==
  ASSUME Core, NEW t \in Threads, IsrWakeup(t)
  PROVE  Core'
<1> DEFINE no == FALSE
           bit == "SUSPENDED"
<1>1. /\ call' = call /\ tick' = tick /\ firing' = firing /\ susp' = susp \ {t}
      /\ finite' = finite /\ yielded' = yielded
  BY DEF IsrWakeup, SameCalls, SameTick
<1>2. bit \in {"SUSPENDED", "PRESTART"} /\ susp' \subseteq Threads /\ no \in BOOLEAN /\ ~no
  BY <1>1 DEF Core, Typed
<1>3. Closes(ready_thread([z_abort_thread_timeout(k, t) EXCEPT !.state[t] = @ \ {"SUSPENDED"}], t))
  BY DEF IsrWakeup, Closes
<1>4. /\ Effect(t, Readied(k.state[t] \ {bit}, no), no, k.pended_on[t], no, no)
      /\ pendsv' \in BOOLEAN
  BY <1>3, WakeupEffect
<1> HIDE DEF bit
<1>5. QED
  BY <1>1, <1>2, <1>4, ReleaseKeeps

(* The scheduler lock and the slice settings.                              *)
LEMMA SettingsKeep ==
  ASSUME Core, NEW c, NEW on \in BOOLEAN,
         k_sched_lock(c) \/ k_sched_unlock(c) \/ k_sched_time_slice_set(c, on)
  PROVE  Core'
<1> DEFINE no == FALSE
<1>1. /\ Running(c) /\ call' = call /\ tick' = tick /\ firing' = firing /\ susp' = susp
      /\ finite' = finite /\ yielded' = yielded
  BY DEF k_sched_lock, k_sched_unlock, k_sched_time_slice_set, Starts, SameCalls, SameTick,
         SameGhosts
<1>2. ~no /\ c \in Threads /\ firing = NULL
  BY <1>1, RunFacts
<1> HIDE DEF no
<1>3. Effect(c, k.state[c], k.timeout[c], k.pended_on[c], no, no) /\ pendsv' \in BOOLEAN
  BY LockEffect, UnlockEffect, SliceSetEffect
<1>4. Typed'
  BY <1>1, <1>3 DEF Core, Typed
<1>5. QED
  BY <1>1, <1>2, <1>3, <1>4, AsideKeeps

LEMMA SliceTimerKeeps ==
  ASSUME Core, AnnounceSlice \/ slice_timeout
  PROVE  Core'
<1> DEFINE no == FALSE
<1>1. /\ call' = call /\ tick' = tick /\ tick /\ susp' = susp /\ finite' = finite
      /\ yielded' = yielded /\ firing \in {NULL, SliceTimer} /\ firing' \in {NULL, SliceTimer}
  BY DEF AnnounceSlice, slice_timeout, SameCalls, SameGhosts
<1>2. ~no /\ Main \in Threads
  BY SchedAssumption
<1> HIDE DEF no
<1>3. Effect(Main, k.state[Main], k.timeout[Main], k.pended_on[Main], no, no) /\ pendsv' \in BOOLEAN
  BY <1>2, SliceTimerEffect
<1>4. Typed'
  BY <1>1, <1>3 DEF Core, Typed
<1>5. \A u \in Threads : Excused(call, firing, u) => Excused(call', firing', u)
  BY <1>1, ThreadFacts DEF Excused
<1>6. QED
  BY <1>1, <1>2, <1>3, <1>4, <1>5, AsideKeeps

(* Steps that change nothing of the scheduler's.                           *)
LEMMA CallKeeps ==
  ASSUME Core, k' = k, pendsv' = pendsv, Typed', firing' = firing, firing' # NULL => tick',
         \A c \in Threads : call'[c].op = "join" => call'[c] = call[c],
         \A u \in Threads : Excused(call, firing, u) => Excused(call', firing', u)
  PROVE  Core'
<1> DEFINE n == k'
<1>1. \A c \in Threads : Joined(n, call', c)
  BY DEF Core, Joined
<1>2. \A u \in Threads : Lost(n, u) => Excused(call', firing', u)
  BY DEF Core
<1>3. Fires(n, firing', tick') /\ Exec(n, pendsv')
  BY DEF Core, Fires, Exec
<1>4. Sound(n) /\ CacheRuns(n) /\ DeadAlone(n)
  BY DEF Core
<1> HIDE DEF n
<1>5. QED
  BY <1>1, <1>2, <1>3, <1>4 DEF Core, n

LEMMA CheckKeeps ==
  ASSUME Core, NEW c, (\E t \in Threads : k_wakeup_check(c, t)) \/ k_wakeup_look(c) \/ JoinReturns(c)
  PROVE  Core'
<1>1. /\ k' = k /\ pendsv' = pendsv /\ Running(c) /\ tick' = tick /\ firing' = firing
      /\ susp' = susp /\ finite' = finite /\ yielded' = yielded
      /\ call[c].op \in {"none", "join", "wakeup_look"}
      /\ \/ \E t \in Threads : call' = [call EXCEPT ![c] = [op |-> "wakeup1", arg |-> t]]
         \/ call' = [call EXCEPT ![c] = NoCall]
         \/ /\ call' = [call EXCEPT ![c] = [op |-> "wakeup2", arg |-> call[c].arg]]
            /\ call[c].op = "wakeup_look"
  <2>1. ASSUME NEW t \in Threads, k_wakeup_check(c, t)
        PROVE  /\ k' = k /\ pendsv' = pendsv /\ Running(c) /\ tick' = tick /\ firing' = firing
               /\ susp' = susp /\ finite' = finite /\ yielded' = yielded /\ call[c].op = "none"
               /\ call' = [call EXCEPT ![c] = [op |-> "wakeup1", arg |-> t]]
    BY <2>1 DEF k_wakeup_check, Starts, SameTick, SameGhosts, NoCall
  <2>2. CASE JoinReturns(c)
    BY <2>2 DEF JoinReturns, Continues, SameTick, SameGhosts
  <2>3. CASE k_wakeup_look(c)
    <3>1. \/ call' = [call EXCEPT ![c] = NoCall]
          \/ call' = [call EXCEPT ![c] = [op |-> "wakeup2", arg |-> call[c].arg]]
      BY <2>3 DEF k_wakeup_look
    <3>2. QED
      BY <2>3, <3>1 DEF k_wakeup_look, Continues, SameTick, SameGhosts
  <2>4. QED
    BY <2>1, <2>2, <2>3
<1>2. c \in Threads /\ call \in [Threads -> Calls] /\ firing = NULL
  BY <1>1, RunFacts DEF Core, Typed
<1>3. PICK new \in Calls : call' = [call EXCEPT ![c] = new] /\ new.op # "join"
  <2>1. NoCall \in Calls /\ NoCall.op # "join"
    BY DEF Calls, NoCall
  <2>2. ASSUME NEW t \in Threads
        PROVE  /\ [op |-> "wakeup1", arg |-> t] \in Calls
               /\ [op |-> "wakeup1", arg |-> t].op # "join"
    BY DEF Calls
  <2>3. call[c].op = "wakeup_look" =>
          /\ [op |-> "wakeup2", arg |-> call[c].arg] \in Calls
          /\ [op |-> "wakeup2", arg |-> call[c].arg].op # "join"
    BY <1>2 DEF Calls, NoCall
  <2>4. QED
    BY <1>1, <2>1, <2>2, <2>3
<1>4. call'[c] = new /\ (\A x \in Threads \ {c} : call'[x] = call[x]) /\ call' \in [Threads -> Calls]
  BY <1>2, <1>3
<1>5. Typed'
  BY <1>1, <1>4 DEF Core, Typed
<1>6. \A u \in Threads : Excused(call, firing, u) => Excused(call', firing', u)
  BY <1>1, <1>4 DEF Excused
<1>7. QED
  BY <1>1, <1>2, <1>3, <1>4, <1>5, <1>6, CallKeeps

LEMMA TickStartKeeps ==
  ASSUME Core, TickStart
  PROVE  Core'
<1>1. /\ k' = k /\ pendsv' = pendsv /\ tick' = TRUE /\ firing' = firing /\ call' = call
      /\ susp' = susp /\ finite' = finite /\ yielded' = yielded
  BY DEF TickStart, SameCalls, SameGhosts
<1>2. Typed'
  BY <1>1 DEF Core, Typed
<1>3. QED
  BY <1>1, <1>2, CallKeeps

LEMMA AnnounceKeeps ==
  ASSUME Core, NEW t \in Threads, AnnounceThread(t)
  PROVE  Core'
<1> DEFINE b == k.state[t]
           w == k.pended_on[t]
           no == FALSE
<1>1. /\ tick /\ firing = NULL /\ k' = [k EXCEPT !.timeout[t] = no] /\ firing' = t
      /\ call' = call /\ pendsv' = pendsv /\ tick' = tick /\ susp' = susp /\ finite' = finite
      /\ yielded' = yielded
  BY DEF AnnounceThread, SameCalls, SameGhosts, z_abort_thread_timeout
<1>2. no \in BOOLEAN /\ ~no
  OBVIOUS
<1> HIDE DEF no
<1>3. Effect(t, b, no, w, no, no) /\ pendsv' \in BOOLEAN
  BY <1>1, <1>2, TimeoutEffect
<1>4. Turns(k', k, t, b, no, w, no, no) /\ CacheRuns(k') /\ MayRun(t, b)
  BY <1>3, EffectParts
<1>5. Allowed(k, t, b, no, w)
  BY <1>2, CoreFacts DEF Allowed, Agree
<1>6. Typed'
  BY <1>1, <1>3 DEF Core, Typed
<1>7. Excused(call', firing', t)
  BY <1>1 DEF Excused
<1>8. \A u \in Threads : Excused(call, firing, u) => Excused(call', firing', u)
  BY <1>1, ThreadFacts DEF Excused
<1>9. w \in {NULL, k.pended_on[t]}
  OBVIOUS
<1> HIDE DEF b, w
<1>10. QED
  BY <1>1, <1>2, <1>4, <1>5, <1>6, <1>7, <1>8, <1>9, TurnCalls

LEMMA FireKeeps ==
  ASSUME Core, z_thread_timeout
  PROVE  Core'
<1> DEFINE t == firing
           no == FALSE
           less == k.state[t] \ {"PENDING", "PRESTART", "SUSPENDED"}
           b == Readied(less, no)
<1>1. /\ tick /\ t \in Threads /\ k' = z_sched_wake_thread(k, t, TRUE) /\ firing' = NULL
      /\ call' = call /\ pendsv' = pendsv /\ tick' = tick /\ susp' = susp /\ finite' = finite
      /\ yielded' = yielded
  BY DEF z_thread_timeout, SameCalls, SameGhosts
<1>2. ~k.timeout[t] /\ pendsv \in BOOLEAN
  BY <1>1 DEF Core, Fires, Typed
<1>3. Typed'
  BY <1>1 DEF Core, Typed
<1>4. \A u \in Threads \ {t} : Excused(call, firing, u) => Excused(call', firing', u)
  BY <1>1 DEF Excused
<1>5. CASE "DEAD" \in k.state[t]
  <2> DEFINE n == k'
  <2>1. k' = k
    BY <1>1, <1>5 DEF z_sched_wake_thread
  <2>2. \A c \in Threads : Joined(n, call', c)
    BY <1>1, <2>1 DEF Core, Joined
  <2>3. ~Lost(k, t)
    BY <1>5 DEF Lost, Able, Held, Preventing
  <2>4. \A u \in Threads : Lost(n, u) => Excused(call', firing', u)
    BY <1>4, <2>1, <2>3 DEF Core
  <2>5. Fires(n, firing', tick') /\ Exec(n, pendsv')
    BY <1>1, <2>1, ThreadFacts DEF Core, Fires, Exec
  <2>6. Sound(n) /\ CacheRuns(n) /\ DeadAlone(n)
    BY <2>1 DEF Core
  <2> HIDE DEF n
  <2>7. QED
    BY <1>3, <2>2, <2>4, <2>5, <2>6 DEF Core, n
<1>6. CASE "DEAD" \notin k.state[t]
  <2>1. Effect(t, b, no, NULL, no, no)
    BY <1>1, <1>2, <1>6, FireEffect
  <2>2. Agree(k.state[t], k.timeout[t], k.pended_on[t])
    BY <1>1, CoreFacts
  <2>3. Agree(less, no, NULL) /\ "DEAD" \notin less /\ ~no
    BY <1>6, <2>2 DEF Agree
  <2> HIDE DEF less, no
  <2>4. "DEAD" \in Preventing /\ NULL \notin Threads
    BY ThreadFacts DEF Preventing
  <2>5. Agree(b, no, NULL) /\ "DEAD" \notin b /\ (b \cap Preventing = {} => "QUEUED" \in b)
    BY <2>3, <2>4, AgreeReadied, ReadiedFacts
  <2>6. Allowed(k, t, b, no, NULL)
    BY <1>6, <2>4, <2>5 DEF Allowed
  <2> HIDE DEF b, t
  <2>7. Turns(k', k, t, b, no, NULL, no, no) /\ CacheRuns(k') /\ MayRun(t, b)
    BY <2>1, EffectParts
  <2>8. /\ t \in Threads /\ firing' = NULL /\ call' = call /\ ~no
        /\ \A u \in Threads \ {t} : Excused(call, firing, u) => Excused(call', firing', u)
    BY <1>1, <1>4, <2>3
  <2>9. QED
    BY <1>3, <2>5, <2>6, <2>7, <2>8, TurnCalls
<1>7. QED
  BY <1>5, <1>6

LEMMA TickEndKeeps ==
  ASSUME Core, TickEnd
  PROVE  Core'
<1> DEFINE t == k.current
           no == FALSE
           b == k.state[t] \cup {"QUEUED"}
           d == k.timeout[t]
           w == k.pended_on[t]
           odd == TRUE
<1>1. /\ firing = NULL /\ firing' = NULL /\ tick' = FALSE /\ call' = call /\ susp' = susp
      /\ finite' = finite /\ yielded' = yielded
  BY DEF TickEnd, SameCalls, SameGhosts
<1>2. /\ pendsv' \in BOOLEAN
      /\ \/ Effect(Main, k.state[Main], k.timeout[Main], k.pended_on[Main], no, odd)
         \/ t \in Threads /\ ~Held(k, t) /\ Effect(t, b, d, w, no, odd)
  BY SliceEffect
<1>3. Typed'
  BY <1>1, <1>2 DEF Core, Typed
<1>4. ~no /\ Main \in Threads
  BY SchedAssumption
<1>5. CASE Effect(Main, k.state[Main], k.timeout[Main], k.pended_on[Main], no, odd)
  <2> HIDE DEF no, odd
  <2>1. QED
    BY <1>1, <1>3, <1>4, <1>5, AsideKeeps
<1>6. CASE t \in Threads /\ ~Held(k, t) /\ Effect(t, b, d, w, no, odd)
  <2>1. Agree(k.state[t], d, w)
    BY <1>6, CoreFacts
  <2>2. Allowed(k, t, b, d, w) /\ "QUEUED" \in b /\ w \in {NULL, k.pended_on[t]}
    BY <1>6, <2>1 DEF Allowed, Agree, Held, Preventing
  <2>3. t # NULL
    BY <1>6, ThreadFacts
  <2> HIDE DEF no, odd, b, d, w, t
  <2>4. Turns(k', k, t, b, d, w, no, odd) /\ CacheRuns(k') /\ MayRun(t, b)
    BY <1>6, EffectParts
  <2>5. QED
    BY <1>1, <1>3, <1>4, <1>6, <2>2, <2>3, <2>4, TurnCalls
<1>7. QED
  BY <1>2, <1>5, <1>6

LEMMA PendSVKeeps ==
  ASSUME Core, PendSV
  PROVE  Core'
<1> DEFINE n == k'
           a == k.cache
<1>1. /\ k' = [k EXCEPT !.current = a] /\ pendsv' = FALSE /\ yielded' = FALSE /\ call' = call
      /\ tick' = tick /\ firing' = firing /\ susp' = susp /\ finite' = finite
  BY DEF PendSV, SameCalls, SameTick
<1>2. k \in KernelState /\ a \in Threads \cup {Idle} /\ CacheRuns(k) /\ Links(k) /\ Sound(k)
  BY CoreFacts DEF KernelState
<1>3. n \in KernelState
  BY <1>1, <1>2 DEF KernelState
<1>4. /\ n.state = k.state /\ n.timeout = k.timeout /\ n.pended_on = k.pended_on
      /\ n.waitq = k.waitq /\ n.runq = k.runq /\ n.retval = k.retval
      /\ n.cache = a /\ n.current = a
  BY <1>1, <1>2 DEF KernelState
<1>5. Typed'
  BY <1>1 DEF Core, Typed
<1>6. k.cache = a
  OBVIOUS
<1> HIDE DEF n, a
<1>7. \A u : /\ Held(n, u) <=> Held(k, u)
             /\ Queued(n, u) <=> Queued(k, u)
             /\ Lost(n, u) <=> Lost(k, u)
             /\ BitsAgree(n, u) <=> BitsAgree(k, u)
  BY <1>4 DEF Held, Queued, Lost, Able, BitsAgree
<1>8. Sound(n)
  BY <1>2, <1>3, <1>4, <1>7 DEF Sound, Links
<1>9. CacheRuns(n) /\ Exec(n, pendsv')
  BY <1>2, <1>4, <1>6, <1>7 DEF CacheRuns, Exec
<1>10. DeadAlone(n) /\ Fires(n, firing', tick')
  BY <1>1, <1>4 DEF Core, DeadAlone, Fires
<1>11. \A c \in Threads : Joined(n, call', c)
  BY <1>1, <1>4 DEF Core, Joined
<1>12. \A u \in Threads : Lost(n, u) => Excused(call', firing', u)
  BY <1>1, <1>7 DEF Core
<1>13. QED
  BY <1>5, <1>8, <1>9, <1>10, <1>11, <1>12 DEF Core, n

LEMMA JoinKeeps ==
  ASSUME Core, NEW c, NEW t \in Threads, NEW forever \in BOOLEAN, k_thread_join(c, t, forever)
  PROVE  Core'
<1> DEFINE b == (k.state[c] \ {"QUEUED"}) \cup {"PENDING"}
           d == k.timeout[c] \/ ~forever
           no == FALSE
<1>1. /\ Running(c) /\ call[c].op = "none" /\ "DEAD" \notin k.state[t] /\ t # c
      /\ call' = [call EXCEPT ![c] = [op |-> "join", arg |-> t]]
      /\ tick' = tick /\ firing' = firing /\ susp' = susp /\ yielded' = yielded
      /\ finite' = IF forever THEN finite \ {c} ELSE finite \cup {c}
      /\ z_swap(add_thread_timeout(add_to_waitq_locked(k, c, t), c, forever))
  BY StartFacts DEF k_thread_join, SameTick
<1>2. c \in Threads /\ ~Held(k, c) /\ k.pended_on[c] = NULL /\ firing = NULL /\ c # NULL
      /\ "DEAD" \notin k.state[c] /\ "PENDING" \notin k.state[c] /\ k.current = c
      /\ Links(k) /\ QueuedRuns(k) /\ t \in WaitQs /\ t # NULL
  BY <1>1, RunFacts, CoreFacts, ThreadFacts
<1>3. Effect(c, b, d, t, no, no) /\ pendsv' = TRUE /\ k'.retval[c] # 0
  <2>1. Only(k, k, {}, FALSE)
    BY OnlySame
  <2>2. QED
    BY <1>1, <1>2, <2>1, PendEffect
<1>4. Allowed(k, c, b, d, t)
  BY <1>1, <1>2 DEF Allowed, Agree
<1>5. call \in [Threads -> Calls]
  BY DEF Core, Typed
<1>6. /\ call'[c] = [op |-> "join", arg |-> t] /\ \A x \in Threads \ {c} : call'[x] = call[x]
      /\ call' \in [Threads -> Calls]
  BY <1>1, <1>2, <1>5 DEF Calls
<1>7. Typed'
  BY <1>1, <1>2, <1>3, <1>6 DEF Core, Typed
<1>8. b \cap Preventing # {}
  BY DEF Preventing
<1> HIDE DEF b, d, no
<1>9. Turns(k', k, c, b, d, t, no, no) /\ CacheRuns(k') /\ MayRun(c, b)
  BY <1>3, EffectParts
<1>10. k'.state[c] = b /\ k'.pended_on[c] = t
  BY <1>9 DEF Turns
<1>11. Joined(k', call', c)
  BY <1>3, <1>6, <1>10 DEF Joined
<1>12. ~Lost(k', c)
  BY <1>8, <1>10 DEF Lost, Able, Held
<1>13. Fires(k', firing', tick')
  BY <1>1, <1>2, ThreadFacts DEF Fires
<1>14. \A u \in Threads : Excused(call, firing, u) => Excused(call', firing', u)
  BY <1>1, <1>6 DEF Excused
<1>15. QED
  BY <1>2, <1>4, <1>6, <1>7, <1>9, <1>11, <1>12, <1>13, <1>14, TurnCore

(* A thread dies: it leaves every list and the threads that join it are    *)
(* woken.                                                                  *)
LEMMA DeathEffect ==
  ASSUME Core, NEW t \in Threads, "DEAD" \notin k.state[t], NEW m, Dies(m, k, t), Ends(k', m)
  PROVE  /\ Sound(k') /\ DeadAlone(k') /\ CacheRuns(k') /\ Chosen(k')
         /\ \A u \in Threads : "DEAD" \in k'.state[u] <=> u = t \/ "DEAD" \in k.state[u]
         /\ \A c \in Threads : Joined(k', call, c)
         /\ \A u \in Threads : Lost(k', u) => Lost(k, u)
         /\ \A u \in Threads : k'.timeout[u] => k.timeout[u]
         /\ k'.current = k.current
         /\ \A u \in Threads \ {t} : k'.state[u] # k.state[u] => "PENDING" \in k.state[u]
         /\ \A u \in Threads : k'.state[u] # k.state[u] => ~k'.timeout[u]
         /\ k'.corrupt => k.corrupt
         /\ Sorted(k.runq, k.prio) => Sorted(k'.runq, k'.prio)
<1> DEFINE n == k'
           J == Joining(k, t)
           no == FALSE
<1>1. /\ Links(m) /\ QueuedRuns(m) /\ CacheRuns(m) /\ Chosen(m)
      /\ \A u \in Threads \ ({t} \cup J) : /\ m.state[u] = k.state[u] /\ m.timeout[u] = k.timeout[u]
                                           /\ m.pended_on[u] = k.pended_on[u]
                                           /\ m.retval[u] = k.retval[u]
      /\ m.current = k.current
      /\ m.state[t] = (k.state[t] \cup {"DEAD"}) \ {"QUEUED", "PENDING"}
      /\ m.timeout[t] = FALSE /\ m.pended_on[t] = NULL /\ m.retval[t] = k.retval[t]
      /\ \A u \in J : /\ m.state[u] = Readied(k.state[u] \ {"PENDING"}, no)
                      /\ m.timeout[u] = no /\ m.pended_on[u] = NULL
  BY DEF Dies, Only
<1>2. J = {u \in Threads \ {t} : k.pended_on[u] = t} /\ ~no
  BY DEF Joining
<1>3. /\ Links(n) /\ CacheRuns(n) /\ Chosen(n) /\ n.state = m.state /\ n.timeout = m.timeout
      /\ n.pended_on = m.pended_on /\ n.current = m.current
      /\ \A u \in Threads : n.retval[u] = 0 => m.retval[u] = 0
  BY <1>1, EndFacts DEF Ends
<1>4. \A u \in Threads : Agree(k.state[u], k.timeout[u], k.pended_on[u])
  BY CoreFacts
<1>5. t # NULL /\ NULL \notin Threads /\ "DEAD" \in Preventing /\ "PENDING" \in Preventing
  BY ThreadFacts DEF Preventing
<1> HIDE DEF n, J, no
<1>6. /\ Agree(n.state[t], n.timeout[t], n.pended_on[t]) /\ "DEAD" \in n.state[t]
      /\ "QUEUED" \notin n.state[t]
  BY <1>1, <1>3 DEF Agree
<1>7. ASSUME NEW u \in J
      PROVE  /\ Agree(n.state[u], n.timeout[u], n.pended_on[u]) /\ ~Lost(n, u)
             /\ "DEAD" \notin n.state[u] /\ "DEAD" \notin k.state[u] /\ "PENDING" \in k.state[u]
  <2> DEFINE less == k.state[u] \ {"PENDING"}
             b == Readied(less, no)
  <2>1. u \in Threads /\ u # t /\ k.pended_on[u] = t
    BY <1>2, <1>7
  <2>2. Agree(k.state[u], k.timeout[u], k.pended_on[u])
    BY <1>4, <2>1
  <2>3. "PENDING" \in k.state[u] /\ "DEAD" \notin k.state[u]
    BY <1>5, <2>1, <2>2 DEF Agree
  <2>4. Agree(less, no, NULL) /\ "DEAD" \notin less
    BY <2>2, <2>3 DEF Agree, Preventing
  <2> HIDE DEF less
  <2>5. Agree(b, no, NULL) /\ "DEAD" \notin b /\ (b \cap Preventing = {} => "QUEUED" \in b)
    BY <1>2, <1>5, <2>4, AgreeReadied, ReadiedFacts
  <2>6. n.state[u] = b /\ n.timeout[u] = no /\ n.pended_on[u] = NULL
    BY <1>1, <1>3, <1>7 DEF less
  <2> HIDE DEF b
  <2>7. QED
    BY <2>3, <2>5, <2>6 DEF Lost, Able, Held, Queued
<1>8. \A u \in Threads \ ({t} \cup J) : /\ n.state[u] = k.state[u] /\ n.timeout[u] = k.timeout[u]
                                        /\ n.pended_on[u] = k.pended_on[u]
                                        /\ n.retval[u] = 0 => k.retval[u] = 0
  BY <1>1, <1>3
<1>9. Sound(n)
  <2>1. ASSUME NEW u \in Threads PROVE BitsAgree(n, u)
    <3>1. Agree(n.state[u], n.timeout[u], n.pended_on[u])
      BY <1>4, <1>6, <1>7, <1>8
    <3>2. QED
      BY <3>1 DEF Agree, BitsAgree, Queued, Held
  <2>2. QED
    BY <1>3, <2>1 DEF Sound
<1>10. \A u \in Threads : "DEAD" \in n.state[u] <=> u = t \/ "DEAD" \in k.state[u]
  BY <1>6, <1>7, <1>8
<1>11. DeadAlone(n)
  <2> SUFFICES ASSUME NEW x \in Threads, NEW u \in Threads, "DEAD" \in n.state[x]
               PROVE  n.pended_on[u] # x
    BY DEF DeadAlone
  <2>1. CASE u \in {t} \cup J
    <3>1. n.pended_on[u] = NULL
      BY <1>1, <1>3, <2>1
    <3>2. QED
      BY <1>5, <3>1
  <2>2. CASE u \notin {t} \cup J
    <3>1. n.pended_on[u] = k.pended_on[u] /\ k.pended_on[u] # t
      BY <1>2, <1>8, <2>2
    <3>2. x = t \/ "DEAD" \in k.state[x]
      BY <1>10
    <3>3. QED
      BY <3>1, <3>2 DEF Core, DeadAlone
  <2>3. QED
    BY <2>1, <2>2
<1>12. ASSUME NEW c \in Threads PROVE Joined(n, call, c)
  <2> SUFFICES ASSUME call[c].op = "join"
               PROVE  /\ n.pended_on[c] \in {call[c].arg, NULL}
                      /\ n.retval[c] = 0 => "DEAD" \in n.state[call[c].arg]
    BY DEF Joined
  <2>1. call[c].arg \in Threads
    BY DEF Core, Typed, Calls, NoCall
  <2>2. /\ k.pended_on[c] \in {call[c].arg, NULL}
        /\ k.retval[c] = 0 => "DEAD" \in k.state[call[c].arg]
    BY DEF Core, Joined
  <2>3. CASE c \in J
    <3>1. k.pended_on[c] = t /\ n.pended_on[c] = NULL
      BY <1>1, <1>2, <1>3, <2>3
    <3>2. call[c].arg = t
      BY <1>5, <2>2, <3>1
    <3>3. QED
      BY <1>6, <3>1, <3>2
  <2>4. CASE c \notin J
    <3>1. n.retval[c] = 0 => k.retval[c] = 0
      BY <1>1, <1>3, <2>4
    <3>2. n.pended_on[c] \in {k.pended_on[c], NULL}
      BY <1>1, <1>3, <2>4
    <3>3. QED
      BY <1>10, <2>1, <2>2, <3>1, <3>2
  <2>5. QED
    BY <2>3, <2>4
<1>13. ASSUME NEW u \in Threads, Lost(n, u) PROVE Lost(k, u)
  <2>1. u # t
    BY <1>5, <1>6, <1>13 DEF Lost, Able, Held
  <2>2. u \notin J
    BY <1>7, <1>13
  <2>3. QED
    BY <1>8, <1>13, <2>1, <2>2 DEF Lost, Able, Held, Queued
<1>14. \A u \in Threads : n.timeout[u] => k.timeout[u]
  BY <1>1, <1>2, <1>3, ZenonT(40)
<1>15. \A u \in Threads \ {t} : n.state[u] # k.state[u] => "PENDING" \in k.state[u]
  BY <1>7, <1>8
<1>16. \A u \in Threads : n.state[u] # k.state[u] => ~n.timeout[u]
  BY <1>1, <1>2, <1>3, ZenonT(40)
<1>17. n.corrupt => k.corrupt
  BY DEF Dies, Only, Ends, n
<1>18. Sorted(k.runq, k.prio) => Sorted(n.runq, n.prio)
  BY DEF Dies, Only, Ends, n
<1>19. QED
  BY <1>1, <1>3, <1>9, <1>10, <1>11, <1>12, <1>13, <1>14, <1>15, <1>16, <1>17, <1>18 DEF n

LEMMA DeathKeeps ==
  ASSUME Core, NEW t \in Threads, "DEAD" \notin k.state[t], NEW m, Dies(m, k, t), Ends(k', m),
         pendsv' = TRUE \/ k'.cache = k'.current \/ (pendsv' = pendsv /\ t # k.current),
         pendsv' \in BOOLEAN, call' = call, tick' = tick, firing' = firing, susp' = susp,
         finite' = finite, yielded' = yielded
  PROVE  Core'
<1> DEFINE n == k'
<1>1. /\ Sound(n) /\ DeadAlone(n) /\ CacheRuns(n) /\ n.current = k.current
      /\ \A c \in Threads : Joined(n, call', c)
      /\ \A u \in Threads : Lost(n, u) => Lost(k, u)
      /\ \A u \in Threads : n.timeout[u] => k.timeout[u]
      /\ \A u \in Threads \ {t} : n.state[u] # k.state[u] => "PENDING" \in k.state[u]
  BY DeathEffect
<1>2. Typed'
  BY DEF Core, Typed
<1>3. \A u \in Threads : Lost(n, u) => Excused(call', firing', u)
  BY <1>1 DEF Core
<1>4. Fires(n, firing', tick')
  BY <1>1 DEF Core, Fires
<1>5. Exec(n, pendsv')
  <2>1. CASE pendsv' = TRUE
    BY <2>1 DEF Exec
  <2>2. CASE n.cache = n.current
    BY <1>1, <2>2 DEF Exec, CacheRuns
  <2>3. CASE pendsv' = pendsv /\ t # k.current
    <3> SUFFICES ASSUME ~pendsv, k.current # Idle PROVE ~Held(n, k.current)
      BY <1>1, <2>3 DEF Exec
    <3>1. ~Held(k, k.current) /\ k.current \in Threads
      BY CoreFacts DEF Core, Exec
    <3>2. "PENDING" \notin k.state[k.current]
      BY <3>1 DEF Held, Preventing
    <3>3. n.state[k.current] = k.state[k.current]
      BY <1>1, <2>3, <3>1, <3>2
    <3>4. QED
      BY <3>1, <3>3 DEF Held
  <2>4. QED
    BY <2>1, <2>2, <2>3
<1> HIDE DEF n
<1>6. QED
  BY <1>1, <1>2, <1>3, <1>4, <1>5 DEF Core, n

LEMMA AbortEnds ==
  ASSUME Core, NEW t \in Threads, (\E c \in Threads : z_thread_abort(c, t)) \/ IsrAbort(t)
  PROVE  /\ "DEAD" \notin k.state[t] /\ pendsv' \in BOOLEAN
         /\ \E m : Dies(m, k, t) /\ Ends(k', m)
         /\ pendsv' = TRUE \/ k'.cache = k'.current \/ (pendsv' = pendsv /\ t # k.current)
<1> DEFINE m == halt_thread(k, t, "DEAD")
<1>1. "DEAD" \notin k.state[t]
  BY DEF z_thread_abort, IsrAbort
<1>2. Dies(m, k, t) /\ pendsv \in BOOLEAN
  BY <1>1, CoreFacts, DieSpec DEF Core, Typed
<1>3. Links(m) /\ m.current = k.current
  BY <1>2 DEF Dies, Only
<1> HIDE DEF m
<1>4. /\ Ends(k', m) /\ pendsv' \in BOOLEAN
      /\ pendsv' = TRUE \/ k'.cache = k'.current \/ (pendsv' = pendsv /\ t # k.current)
  <2>1. ASSUME NEW c \in Threads, z_thread_abort(c, t)
        PROVE  /\ Ends(k', m) /\ pendsv' \in BOOLEAN
               /\ pendsv' = TRUE \/ (pendsv' = pendsv /\ t # k.current)
    <3>1. Running(c) /\ IF t = c THEN z_swap(m) ELSE Unlock(m)
      BY <2>1 DEF z_thread_abort, Starts, m
    <3>2. k.current = c
      BY <3>1 DEF Running
    <3>3. CASE t = c
      BY <1>3, <3>1, <3>2, <3>3, SwapEnds
    <3>4. CASE t # c
      BY <1>2, <1>3, <3>1, <3>2, <3>4, UnlockEnds DEF Unlock
    <3>5. QED
      BY <3>3, <3>4
  <2>2. ASSUME IsrAbort(t)
        PROVE  /\ Ends(k', m) /\ pendsv' \in BOOLEAN
               /\ pendsv' = TRUE \/ k'.cache = k'.current
    <3>1. k' = m /\ pendsv' = (pendsv \/ m.cache # m.current \/ t = k.current)
      BY <2>2 DEF IsrAbort, m
    <3>2. Ends(k', m)
      BY <1>3, <3>1, UnlockEnds
    <3>3. pendsv' \in BOOLEAN
      BY <1>2, <3>1
    <3>4. pendsv' = TRUE \/ k'.cache = k'.current
      BY <3>1
    <3>5. QED
      BY <3>2, <3>3, <3>4
  <2>3. QED
    BY <2>1, <2>2
<1>5. QED
  BY <1>1, <1>2, <1>4

LEMMA AbortKeeps ==
  ASSUME Core, NEW t \in Threads, (\E c \in Threads : z_thread_abort(c, t)) \/ IsrAbort(t)
  PROVE  Core'
<1>1. /\ call' = call /\ tick' = tick /\ firing' = firing /\ susp' = susp /\ finite' = finite
      /\ yielded' = yielded
  BY DEF z_thread_abort, IsrAbort, SameCalls, SameTick, SameGhosts
<1>2. QED
  BY <1>1, AbortEnds, DeathKeeps

LEMMA InitCore ==
  ASSUME Init
  PROVE  Core
<1>1. /\ k.state = [t \in Threads |-> IF t = Main THEN {"QUEUED"} ELSE {"PRESTART"}]
      /\ k.timeout = [t \in Threads |-> FALSE] /\ k.pended_on = [t \in Threads |-> NULL]
      /\ k.waitq = [w \in WaitQs |-> <<>>] /\ k.runq = <<Main>>
      /\ k.current = Main /\ k.cache = Main /\ k.retval = [t \in Threads |-> EAGAIN]
      /\ call = [t \in Threads |-> NoCall] /\ pendsv = FALSE /\ tick = FALSE /\ firing = NULL
      /\ susp = {} /\ finite = {} /\ yielded = FALSE
  BY DEF Init
<1>2. Main \in Threads /\ Main # Idle /\ NULL \notin WaitQs /\ NULL \notin Threads
      /\ InitPrio \in [Threads -> Int] /\ MaxLock \in Nat
  BY SchedAssumption, ThreadFacts
<1>3. k \in KernelState
  <2>1. k.state \in [Threads -> SUBSET StateBits]
    BY <1>1 DEF StateBits, Preventing
  <2>2. k.waitq \in [WaitQs -> Seq(Threads)] /\ k.runq \in Seq(Threads)
    BY <1>1, <1>2
  <2>3. 0 \in 0 .. MaxLock
    BY <1>2
  <2>4. [t \in Threads |-> 0] \in [Threads -> 0 .. MaxLock]
    BY <2>3
  <2>5. k.timeout \in [Threads -> BOOLEAN] /\ k.pended_on \in [Threads -> WaitQs \cup {NULL}]
        /\ k.retval \in [Threads -> {0, EAGAIN}]
    BY <1>1
  <2>6. QED
    BY <1>1, <1>2, <2>1, <2>2, <2>4, <2>5 DEF Init, KernelState
<1>4. \A t \in Threads : /\ Queued(k, t) <=> t = Main
                         /\ Held(k, t) <=> t # Main
                         /\ "PENDING" \notin k.state[t] /\ "DEAD" \notin k.state[t]
  BY <1>1 DEF Queued, Held, Preventing
<1>5. Links(k)
  <2>1. Distinct(k.runq) /\ Members(k.runq) = {Main}
    BY <1>1, <1>2 DEF Distinct, Members
  <2>2. \A w \in WaitQs : Distinct(k.waitq[w]) /\ Members(k.waitq[w]) = {}
    BY <1>1 DEF Distinct, Members
  <2>3. \A w \in WaitQs : {t \in Threads : k.pended_on[t] = w} = {}
    BY <1>1, <1>2
  <2>4. QED
    BY <1>2, <1>3, <1>4, <2>1, <2>2, <2>3 DEF Links
<1>6. Sound(k)
  BY <1>1, <1>4, <1>5 DEF Sound, BitsAgree
<1>7. CacheRuns(k) /\ DeadAlone(k) /\ Exec(k, pendsv) /\ Fires(k, firing, tick)
  BY <1>1, <1>2, <1>4 DEF CacheRuns, DeadAlone, Exec, Fires
<1>8. \A c \in Threads : Joined(k, call, c)
  BY <1>1 DEF Joined, NoCall
<1>9. \A t \in Threads : ~Lost(k, t)
  BY <1>4 DEF Lost, Able
<1>10. Typed
  BY <1>1 DEF Typed, Calls
<1>11. QED
  BY <1>6, <1>7, <1>8, <1>9, <1>10 DEF Core

LEMMA NextCore ==
  ASSUME Core, [Next]_vars
  PROVE  Core'
<1>1. ASSUME NEW c \in Threads, ThreadStep(c) PROVE Core'
  <2>1. CASE k_yield(c) \/ z_tick_sleep(c) \/ k_thread_suspend_halt(c) \/ k_wakeup_abort(c)
             \/ k_wakeup_ready(c)
    BY <2>1, YieldKeeps, SleepKeeps, SuspendHaltKeeps, WakeupAbortKeeps, WakeupReadyKeeps
  <2>2. CASE \E w \in Objs, f \in BOOLEAN : z_pend_curr(c, w, f)
    BY <2>2, PendKeeps
  <2>3. CASE \E w \in Objs : WakeOne(c, w)
    BY <2>3, WakeOneKeeps
  <2>4. ASSUME NEW t \in Threads, thread_schedule_new(c, t) \/ z_sched_start(c, t)
                                  \/ k_thread_suspend_abort(c, t)
        PROVE  Core'
    BY <2>4, DelayKeeps, StartKeeps, SuspendAbortKeeps
  <2>5. ASSUME NEW t \in Threads, k_thread_resume(c, t) PROVE Core'
    BY <2>5, ResumeKeeps
  <2>6. ASSUME NEW t \in Threads, k_wakeup_check(c, t) PROVE Core'
    BY <2>6, CheckKeeps
  <2>7. ASSUME NEW t \in Threads, z_thread_abort(c, t) PROVE Core'
    BY <2>7, AbortKeeps
  <2>8. ASSUME NEW t \in Threads, NEW f \in BOOLEAN, k_thread_join(c, t, f) PROVE Core'
    BY <2>8, JoinKeeps
  <2>9. ASSUME NEW t \in Threads, NEW p \in Prios, k_thread_priority_set(c, t, p) PROVE Core'
    BY <2>9, PrioKeeps
  <2>10. CASE JoinReturns(c) \/ k_wakeup_look(c)
    BY <2>10, CheckKeeps
  <2>11. ASSUME NEW on \in BOOLEAN,
                k_sched_lock(c) \/ k_sched_unlock(c) \/ k_sched_time_slice_set(c, on)
         PROVE  Core'
    BY <2>11, SettingsKeep
  <2>12. CASE k_sched_lock(c) \/ k_sched_unlock(c)
    BY <2>11, <2>12
  <2>13. QED
    BY <1>1, <2>1, <2>2, <2>3, <2>4, <2>5, <2>6, <2>7, <2>8, <2>9, <2>10, <2>11, <2>12
       DEF ThreadStep
<1>2. ASSUME IsrStep PROVE Core'
  BY <1>2, IsrWakeOneKeeps, IsrSuspendKeeps, ResumeKeeps, IsrWakeupKeeps, AbortKeeps DEF IsrStep
<1>3. ASSUME TimerStep PROVE Core'
  BY <1>3, TickStartKeeps, SliceTimerKeeps, FireKeeps, TickEndKeeps, AnnounceKeeps DEF TimerStep
<1>4. ASSUME UNCHANGED vars PROVE Core'
  <2>1. /\ k' = k /\ call' = call /\ pendsv' = pendsv /\ tick' = tick /\ firing' = firing
        /\ susp' = susp /\ finite' = finite /\ yielded' = yielded
    BY <1>4 DEF vars
  <2>2. Typed'
    BY <2>1 DEF Core, Typed
  <2>3. firing' # NULL => tick'
    BY <2>1 DEF Core, Fires
  <2>4. QED
    BY <2>1, <2>2, <2>3, CallKeeps
<1>5. QED
  BY <1>1, <1>2, <1>3, <1>4, PendSVKeeps DEF Next

(* The inductive invariant, for every set of calls the application makes   *)
(* (every function of sched.c that takes the scheduler lock).              *)
THEOREM SchedCore == Spec => []Core
<1>1. Init => Core
  BY InitCore
<1>2. Core /\ [Next]_vars => Core'
  BY NextCore
<1>3. QED
  BY <1>1, <1>2, PTL DEF Spec

-----------------------------------------------------------------------------
(* What follows from it, for every set of calls the application makes.     *)

(* Type correctness.                                                       *)
THEOREM SchedTypeOK == Spec => []TypeOK
<1>1. Core => TypeOK
  <2> SUFFICES ASSUME Core PROVE TypeOK
    OBVIOUS
  <2>1. k \in KernelState /\ Links(k)
    BY CoreFacts
  <2>2. \A w \in WaitQs : Members(k.waitq[w]) \subseteq Threads
    BY <2>1 DEF Links
  <2>3. Members(k.runq) \subseteq Threads
    BY <2>1 DEF Links
  <2>4. Typed
    BY DEF Core
  <2>5. QED
    BY <2>1, <2>2, <2>3, <2>4 DEF TypeOK, KernelState, Typed
<1>2. QED
  BY <1>1, SchedCore, PTL

(* Wait queues agree with the threads: through every wake, timeout,        *)
(* suspension and abort, PENDING, pended_on and the list a thread is       *)
(* linked on say the same (unpend_thread_no_timeout, add_to_waitq_locked). *)
THEOREM SchedWaitQueues == Spec => []WaitqInv
<1>1. Core => WaitqInv
  BY DEF Core, Sound, Links, BitsAgree, WaitqInv
<1>2. QED
  BY <1>1, SchedCore, PTL

(* An aborted thread is on no queue, has no timeout, is not in the cache   *)
(* and has nobody left waiting to join it (halt_thread).                   *)
THEOREM SchedDeadIsGone == Spec => []DeadIsGone
<1>1. Core => DeadIsGone
  <2> SUFFICES ASSUME Core, NEW t \in Threads, "DEAD" \in k.state[t]
               PROVE  /\ k.state[t] \cap {"QUEUED", "PENDING"} = {} /\ ~k.timeout[t]
                      /\ t \notin Members(k.runq) /\ k.cache # t
                      /\ \A w \in WaitQs : t \notin Members(k.waitq[w])
                      /\ k.waitq[t] = <<>>
    BY DEF DeadIsGone
  <2>1. Links(k) /\ BitsAgree(k, t) /\ CacheRuns(k) /\ k \in KernelState /\ t # Idle /\ t \in WaitQs
    BY CoreFacts, ThreadFacts DEF Core, Sound
  <2>2. Held(k, t)
    BY DEF Held, Preventing
  <2>3. "QUEUED" \notin k.state[t] /\ "PENDING" \notin k.state[t] /\ ~k.timeout[t]
        /\ k.pended_on[t] = NULL
    BY <2>1, <2>2 DEF BitsAgree, Queued
  <2>4. t \notin Members(k.runq)
    BY <2>1, <2>3 DEF Links, Queued
  <2>5. k.cache # t
    BY <2>1, <2>2 DEF CacheRuns
  <2>6. \A w \in WaitQs : t \notin Members(k.waitq[w])
    BY <2>1, <2>3, ThreadFacts DEF Links
  <2>7. Members(k.waitq[t]) = {} /\ k.waitq[t] \in Seq(Threads)
    BY <2>1 DEF Links, Core, DeadAlone, KernelState
  <2>8. k.waitq[t] = <<>>
    BY <2>7, HeadLinked
  <2>9. QED
    BY <2>3, <2>4, <2>5, <2>6, <2>8
<1>2. QED
  BY <1>1, SchedCore, PTL

(* A k_thread_join that is about to return 0 found its target dead, for    *)
(* any number of joins, timeouts and aborts in any order.                  *)
THEOREM SchedJoinHonest == Spec => []JoinHonest
<1>1. Core => JoinHonest
  BY DEF Core, Joined, JoinHonest
<1>2. QED
  BY <1>1, SchedCore, PTL

(* No ready thread is missing from the run queue unless the callback or    *)
(* the call that will queue it is under way.                               *)
THEOREM SchedNoLostThread == Spec => []NoLostThread
<1>1. Core => NoLostThread
  <2> SUFFICES ASSUME Core, NEW t \in Threads, z_is_thread_ready(k, t), t \notin Members(k.runq)
               PROVE  Excused(call, firing, t)
    BY DEF NoLostThread, Excused
  <2>1. Able(k, t) /\ ~Queued(k, t)
    BY PredicateFacts, CoreFacts DEF Links
  <2>2. QED
    BY <2>1 DEF Core, Lost
<1>2. QED
  BY <1>1, SchedCore, PTL

-----------------------------------------------------------------------------
(* The ready queue.  A resume of a thread that only sleeps leaves its      *)
(* timeout running behind it, so what follows is for applications that do  *)
(* not do that ("resume_sleeping"), as in the runs.                        *)

(* The order of the run queue also needs that no priority is changed while *)
(* a k_thread_suspend or k_wakeup call is half way.                        *)
Apart == "prio" \in Ops => "suspend" \notin Ops /\ "wakeup" \notin Ops

(* A call under way is one the application makes.                          *)
Asked ==
  \A c \in Threads : /\ call[c].op = "suspend" => "suspend" \in Ops
                     /\ call[c].op \in {"wakeup1", "wakeup_look", "wakeup2"} => "wakeup" \in Ops

(* _current is queued or held: it never waits for a timeout alone.         *)
Cur(s) == s.current # Idle => Queued(s, s.current) \/ Held(s, s.current)

Sharp ==
  /\ Timely(k) /\ Cur(k) /\ Chosen(k)
  /\ Apart => Sorted(k.runq, k.prio) /\ ~k.corrupt

(* What a step must leave in the thread it is about.                       *)
Fits(t, bits, due) ==
  /\ "QUEUED" \in bits => ~due
  /\ t = k.current /\ "QUEUED" \notin bits => bits \cap Preventing # {}

LEMMA AskedNext ==
  ASSUME Typed, Asked, [Next]_vars
  PROVE  Asked'
<1> USE DEF Typed
<1> DEFINE Fine(new) == /\ new.op = "suspend" => "suspend" \in Ops
                        /\ new.op \in {"wakeup1", "wakeup_look", "wakeup2"} => "wakeup" \in Ops
<1>0. Asked <=> \A c \in Threads : Fine(call[c])
  BY DEF Asked
<1>1. ASSUME call' = call PROVE Asked'
  BY <1>1 DEF Asked
<1>2. ASSUME NEW c \in Threads, NEW new, call' = [call EXCEPT ![c] = new], Fine(new)
      PROVE  Asked'
  BY <1>2, <1>0 DEF Asked
<1>3. Fine(NoCall)
  BY DEF NoCall
<1>4. ASSUME NEW c \in Threads, ThreadStep(c) PROVE Asked'
  <2>1. CASE k_yield(c) \/ z_tick_sleep(c) \/ k_sched_lock(c) \/ k_sched_unlock(c)
    BY <1>1, <2>1 DEF k_yield, z_tick_sleep, k_sched_lock, k_sched_unlock, SameCalls
  <2>2. CASE \E w \in Objs, f \in BOOLEAN : z_pend_curr(c, w, f)
    BY <1>1, <2>2 DEF z_pend_curr, SameCalls
  <2>3. CASE \E w \in Objs : WakeOne(c, w)
    BY <1>1, <2>3 DEF WakeOne, SameCalls
  <2>4. CASE \E on \in BOOLEAN : k_sched_time_slice_set(c, on)
    BY <1>1, <2>4 DEF k_sched_time_slice_set, SameCalls
  <2>5. ASSUME NEW t \in Threads,
               \/ thread_schedule_new(c, t) \/ z_sched_start(c, t) \/ k_thread_resume(c, t)
               \/ z_thread_abort(c, t) \/ \E p \in Prios : k_thread_priority_set(c, t, p)
        PROVE  Asked'
    BY <1>1, <2>5 DEF thread_schedule_new, z_sched_start, k_thread_resume, z_thread_abort,
                      k_thread_priority_set, SameCalls
  <2>6. ASSUME NEW t \in Threads, k_thread_suspend_abort(c, t) PROVE Asked'
    <3>1. /\ "suspend" \in Ops /\ call' = [call EXCEPT ![c] = [op |-> "suspend", arg |-> t]]
      BY <2>6 DEF k_thread_suspend_abort, Starts
    <3>2. QED
      BY <1>2, <3>1
  <2>7. ASSUME NEW t \in Threads, k_wakeup_check(c, t) PROVE Asked'
    <3>1. /\ "wakeup" \in Ops /\ call' = [call EXCEPT ![c] = [op |-> "wakeup1", arg |-> t]]
      BY <2>7 DEF k_wakeup_check, Starts
    <3>2. QED
      BY <1>2, <3>1
  <2>8. ASSUME NEW t \in Threads, NEW f \in BOOLEAN, k_thread_join(c, t, f) PROVE Asked'
    <3>1. call' = [call EXCEPT ![c] = [op |-> "join", arg |-> t]]
      BY <2>8 DEF k_thread_join
    <3>2. QED
      BY <1>2, <3>1
  <2>9. CASE k_wakeup_abort(c) \/ k_wakeup_look(c)
    <3>1. call[c].op \in {"wakeup1", "wakeup_look"} /\ "wakeup" \in Ops
      BY <2>9 DEF k_wakeup_abort, k_wakeup_look, Continues, Asked
    <3>2. PICK new : call' = [call EXCEPT ![c] = new] /\ (new = NoCall \/ new.op \in {"wakeup2", "wakeup_look"})
      BY <2>9 DEF k_wakeup_abort, k_wakeup_look
    <3>3. Fine(new)
      BY <1>3, <3>1, <3>2
    <3>4. QED
      BY <1>2, <3>2, <3>3
  <2>10. CASE k_thread_suspend_halt(c) \/ k_wakeup_ready(c) \/ JoinReturns(c)
    BY <1>2, <1>3, <2>10 DEF k_thread_suspend_halt, k_wakeup_ready, JoinReturns
  <2>11. QED
    BY <1>4, <2>1, <2>2, <2>3, <2>4, <2>5, <2>6, <2>7, <2>8, <2>9, <2>10 DEF ThreadStep
<1>5. ASSUME PendSV \/ IsrStep \/ TimerStep \/ UNCHANGED vars PROVE Asked'
  BY <1>1, <1>5 DEF PendSV, IsrStep, TimerStep, vars, SameCalls, IsrWakeOne, IsrSuspend, IsrResume,
     IsrWakeup, IsrAbort, TickStart, AnnounceSlice, z_thread_timeout, slice_timeout, TickEnd,
     AnnounceThread
<1>6. QED
  BY <1>4, <1>5 DEF Next

LEMMA TurnSharp ==
  ASSUME Core, Sharp, NEW t \in Threads, NEW b, NEW d, NEW w, NEW zero, NEW odd, odd => ~Apart,
         Turns(k', k, t, b, d, w, zero, odd), Chosen(k'), Fits(t, b, d)
  PROVE  Sharp'
<1> DEFINE n == k'
<1>1. /\ n.state[t] = b /\ n.timeout[t] = d /\ n.current = k.current
      /\ \A u \in Threads \ {t} : n.state[u] = k.state[u] /\ n.timeout[u] = k.timeout[u]
      /\ Apart => /\ n.corrupt => k.corrupt
                  /\ Sorted(k.runq, k.prio) => Sorted(n.runq, n.prio)
  BY DEF Turns
<1>2. Timely(k) /\ Cur(k) /\ k.current \in Threads \cup {Idle}
  BY CoreFacts DEF Sharp
<1> HIDE DEF n
<1>3. Timely(n)
  BY <1>1, <1>2 DEF Timely, Queued, Fits
<1>4. Cur(n)
  BY <1>1, <1>2 DEF Cur, Queued, Held, Fits
<1>5. Apart => Sorted(n.runq, n.prio) /\ ~n.corrupt
  BY <1>1 DEF Sharp
<1>6. QED
  BY <1>3, <1>4, <1>5 DEF Sharp, n

LEMMA EffectSharp ==
  ASSUME Core, Sharp, NEW t \in Threads, NEW b, NEW d, NEW w, NEW zero,
         Effect(t, b, d, w, zero, FALSE), Fits(t, b, d)
  PROVE  Sharp'
<1> DEFINE no == FALSE
<1>1. Turns(k', k, t, b, d, w, zero, no) /\ Chosen(k') /\ ~no
  BY DEF Effect, Sharp
<1> HIDE DEF no
<1>2. QED
  BY <1>1, TurnSharp

(* A running thread is queued, and so waits for no timeout.                *)
LEMMA RunSharp ==
  ASSUME Core, Sharp, k.current # Idle, ~Held(k, k.current)
  PROVE  /\ k.current \in Threads /\ Queued(k, k.current) /\ ~k.timeout[k.current]
         /\ Able(k, k.current)
BY CoreFacts DEF Sharp, Timely, Cur, Able

LEMMA ReadiedFits ==
  ASSUME NEW t, NEW b, NEW d, "QUEUED" \in b => ~d,
         t = k.current /\ d => "QUEUED" \in b \/ b \cap Preventing # {}
  PROVE  Fits(t, Readied(b, d), d)
BY ReadiedFacts DEF Fits

(* A thread left as it is, or one whose timeout is unlinked.               *)
LEMMA SameFits ==
  ASSUME Core, Sharp, NEW t \in Threads, NEW d, d => k.timeout[t]
  PROVE  Fits(t, k.state[t], d)
BY ThreadFacts DEF Sharp, Timely, Cur, Fits, Queued, Held

(* _current gives way.                                                     *)
LEMMA GiveWaySharp ==
  ASSUME Core, Sharp, NEW c, k_yield(c) \/ z_tick_sleep(c)
  PROVE  Sharp'
<1>1. Running(c)
  BY DEF k_yield, z_tick_sleep, Starts
<1>2. c \in Threads /\ k.current = c /\ ~Held(k, c) /\ c # Idle
  BY <1>1, RunFacts, ThreadFacts
<1>3. Queued(k, c) /\ ~k.timeout[c]
  BY <1>2, RunSharp
<1>4. CASE k_yield(c)
  <2> DEFINE b == k.state[c] \cup {"QUEUED"}
             no == FALSE
  <2>1. Fits(c, b, k.timeout[c])
    BY <1>3 DEF Fits
  <2>2. Effect(c, b, k.timeout[c], k.pended_on[c], no, no)
    BY <1>3, <1>4, YieldEffect
  <2> HIDE DEF b
  <2>3. QED
    BY <1>2, <2>1, <2>2, EffectSharp
<1>5. CASE z_tick_sleep(c)
  <2> DEFINE b == (k.state[c] \ {"QUEUED"}) \cup {"SUSPENDED"}
             d == TRUE
             no == FALSE
  <2>1. Fits(c, b, d)
    BY DEF Fits, Preventing
  <2>2. Effect(c, b, d, k.pended_on[c], no, no)
    BY <1>5, SleepEffect
  <2> HIDE DEF b, d
  <2>3. QED
    BY <1>2, <2>1, <2>2, EffectSharp
<1>6. QED
  BY <1>4, <1>5

(* _current blocks on an object or on a thread it joins.                   *)
LEMMA BlockEffect ==
  ASSUME Core, NEW c, NEW w, NEW forever \in BOOLEAN,
         \/ w \in Objs /\ z_pend_curr(c, w, forever)
         \/ w \in Threads /\ k_thread_join(c, w, forever)
  PROVE  Effect(c, (k.state[c] \ {"QUEUED"}) \cup {"PENDING"}, k.timeout[c] \/ ~forever, w,
                FALSE, FALSE)
<1>1. Running(c)
  BY DEF z_pend_curr, k_thread_join, Starts
<1>2. c \in Threads /\ k.current = c /\ Links(k) /\ QueuedRuns(k) /\ w \in WaitQs
  BY <1>1, RunFacts, CoreFacts, ThreadFacts
<1>3. CASE z_pend_curr(c, w, forever)
  <2> DEFINE a == [k EXCEPT !.pending_current = c]
  <2>1. z_swap(add_thread_timeout(add_to_waitq_locked(a, c, w), c, forever))
    BY <1>3 DEF z_pend_curr
  <2>2. /\ Links(a) /\ QueuedRuns(a) /\ Only(a, k, {}, FALSE) /\ a.current = k.current
        /\ a.state = k.state /\ a.timeout = k.timeout /\ a.pended_on = k.pended_on
        /\ a.retval = k.retval
    <3>1. c \in Threads \cup {NULL}
      BY <1>2
    <3>2. QED
      BY <3>1, PendingCurrent
  <2> HIDE DEF a
  <2>3. QED
    BY <1>1, <1>2, <2>1, <2>2, PendEffect
<1>4. CASE k_thread_join(c, w, forever)
  <2>1. z_swap(add_thread_timeout(add_to_waitq_locked(k, c, w), c, forever))
    BY <1>4 DEF k_thread_join
  <2>2. Only(k, k, {}, FALSE)
    BY OnlySame
  <2>3. QED
    BY <1>1, <1>2, <2>1, <2>2, PendEffect
<1>5. QED
  BY <1>3, <1>4

LEMMA BlockSharp ==
  ASSUME Core, Sharp, NEW c, NEW w, NEW forever \in BOOLEAN,
         \/ w \in Objs /\ z_pend_curr(c, w, forever)
         \/ w \in Threads /\ k_thread_join(c, w, forever)
  PROVE  Sharp'
<1> DEFINE b == (k.state[c] \ {"QUEUED"}) \cup {"PENDING"}
           d == k.timeout[c] \/ ~forever
           no == FALSE
<1>1. c \in Threads
  BY DEF z_pend_curr, k_thread_join, Starts, Running
<1>2. Fits(c, b, d)
  BY DEF Fits, Preventing
<1>3. Effect(c, b, d, w, no, no)
  BY BlockEffect
<1> HIDE DEF b, d
<1>4. QED
  BY <1>1, <1>2, <1>3, EffectSharp

LEMMA WakeSharp ==
  ASSUME Core, Sharp, NEW w \in Objs, (\E c \in Threads : WakeOne(c, w)) \/ IsrWakeOne(w)
  PROVE  Sharp'
<1>1. k.waitq[w] # <<>>
  BY DEF WakeOne, IsrWakeOne
<1>2. Closes(WakeFirst(k, w))
  <2>1. CASE \E c \in Threads : WakeOne(c, w)
    <3>1. PICK c \in Threads : WakeOne(c, w)
      BY <2>1
    <3>2. QED
      BY <3>1, WakeOneCloses
  <2>2. CASE IsrWakeOne(w)
    BY <2>2 DEF IsrWakeOne, Closes
  <2>3. QED
    BY <2>1, <2>2
<1>3. PICK t \in Threads :
         Effect(t, Readied(k.state[t] \ {"PENDING"}, FALSE), FALSE, NULL, TRUE, FALSE)
  BY <1>1, <1>2, WakeFirstEffect
<1> DEFINE less == k.state[t] \ {"PENDING"}
           no == FALSE
           b == Readied(less, no)
<1>4. Fits(t, b, no)
  <2> HIDE DEF less
  <2>1. QED
    BY ReadiedFits
<1>5. Effect(t, b, no, NULL, TRUE, FALSE)
  BY <1>3
<1> HIDE DEF b, no
<1>6. QED
  BY <1>4, <1>5, EffectSharp

LEMMA DelaySharp ==
  ASSUME Core, Sharp, NEW c, NEW t \in Threads, thread_schedule_new(c, t)
  PROVE  Sharp'
<1> DEFINE d == TRUE
           no == FALSE
<1>1. k.state[t] = {"PRESTART"} /\ k' = add_thread_timeout(k, t, FALSE) /\ pendsv' = pendsv
  BY DEF thread_schedule_new, Unlock
<1>2. k' = [k EXCEPT !.timeout[t] = d] /\ d \in BOOLEAN
  BY <1>1, CoreFacts DEF add_thread_timeout, KernelState
<1>3. Fits(t, k.state[t], d)
  BY <1>1 DEF Fits, Preventing
<1> HIDE DEF d
<1>4. Effect(t, k.state[t], d, k.pended_on[t], no, no)
  BY <1>1, <1>2, TimeoutEffect
<1>5. QED
  BY <1>3, <1>4, EffectSharp

(* A timeout is unlinked.                                                  *)
LEMMA UnlinkSharp ==
  ASSUME Core, Sharp, NEW t \in Threads, k' = z_abort_thread_timeout(k, t), pendsv' = pendsv
  PROVE  Sharp'
<1> DEFINE d == FALSE
           no == FALSE
<1>1. k' = [k EXCEPT !.timeout[t] = d] /\ d \in BOOLEAN /\ ~d
  BY DEF z_abort_thread_timeout
<1> HIDE DEF d
<1>2. Fits(t, k.state[t], d)
  BY <1>1, SameFits
<1>3. Effect(t, k.state[t], d, k.pended_on[t], no, no)
  BY <1>1, TimeoutEffect
<1>4. QED
  BY <1>2, <1>3, EffectSharp

LEMMA SuspendSharp ==
  ASSUME Core, Sharp, (\E c \in Threads : k_thread_suspend_halt(c)) \/ (\E t \in Threads : IsrSuspend(t))
  PROVE  Sharp'
<1>1. ASSUME NEW c \in Threads, k_thread_suspend_halt(c) PROVE Sharp'
  <2> DEFINE t == call[c].arg
             b == (k.state[t] \cup {"SUSPENDED"}) \ {"QUEUED"}
             no == FALSE
  <2>1. t \in Threads
    BY <1>1 DEF k_thread_suspend_halt, Continues, Core, Typed, Calls, NoCall
  <2>2. Effect(t, b, k.timeout[t], k.pended_on[t], no, no)
    BY <1>1, SuspendEffect
  <2>3. Fits(t, b, k.timeout[t])
    BY DEF Fits, Preventing
  <2> HIDE DEF b, t
  <2>4. QED
    BY <2>1, <2>2, <2>3, EffectSharp
<1>2. ASSUME NEW t \in Threads, IsrSuspend(t) PROVE Sharp'
  <2> DEFINE b == (k.state[t] \cup {"SUSPENDED"}) \ {"QUEUED"}
             no == FALSE
  <2>1. Effect(t, b, no, k.pended_on[t], no, no)
    BY <1>2, IsrSuspendEffect
  <2>2. Fits(t, b, no)
    BY DEF Fits, Preventing
  <2> HIDE DEF b
  <2>3. QED
    BY <2>1, <2>2, EffectSharp
<1>3. QED
  BY <1>1, <1>2

(* A bit is cleared and the thread made ready.                             *)
LEMMA ReleaseSharp ==
  ASSUME Core, Sharp, NEW t \in Threads, NEW bit \in Preventing,
         Closes(ready_thread([k EXCEPT !.state[t] = @ \ {bit}], t)),
         t = k.current /\ k.timeout[t] => (k.state[t] \ {bit}) \cap Preventing # {}
  PROVE  Sharp'
<1> DEFINE less == k.state[t] \ {bit}
           d == k.timeout[t]
           b == Readied(less, d)
           no == FALSE
<1>1. Effect(t, b, d, k.pended_on[t], no, no)
  BY ReleaseEffect
<1>2. "QUEUED" \in less => ~d
  BY DEF Sharp, Timely, Queued
<1>3. Fits(t, b, d)
  BY <1>2, ReadiedFits
<1> HIDE DEF b, d
<1>4. QED
  BY <1>1, <1>3, EffectSharp

LEMMA StartSharp ==
  ASSUME Core, Sharp, NEW c, NEW t \in Threads,
         \/ z_sched_start(c, t)
         \/ k_thread_resume(c, t)
         \/ k_wakeup_ready(c) /\ t = call[c].arg
  PROVE  Sharp'
<1>1. Running(c)
  BY DEF z_sched_start, k_thread_resume, k_wakeup_ready, Starts, Continues
<1>2. PICK bit \in Preventing : z_reschedule(ready_thread([k EXCEPT !.state[t] = @ \ {bit}], t))
  BY DEF z_sched_start, k_thread_resume, k_wakeup_ready, ResumeState, Preventing
<1>3. Closes(ready_thread([k EXCEPT !.state[t] = @ \ {bit}], t))
  BY <1>1, <1>2, ReleaseCloses
<1>4. t = k.current => ~k.timeout[t]
  BY <1>1, RunFacts, RunSharp, ThreadFacts
<1>5. QED
  BY <1>3, <1>4, ReleaseSharp

LEMMA IsrReleaseSharp ==
  ASSUME Core, Sharp, "resume_sleeping" \notin Ops, NEW t \in Threads, IsrResume(t) \/ IsrWakeup(t)
  PROVE  Sharp'
<1>1. CASE IsrResume(t)
  <2> DEFINE bit == "SUSPENDED"
  <2>1. k.timeout[t] => "PENDING" \in k.state[t]
    BY <1>1 DEF IsrResume
  <2>2. bit \in Preventing /\ (k.timeout[t] => (k.state[t] \ {bit}) \cap Preventing # {})
    BY <2>1 DEF Preventing
  <2>3. Closes(ready_thread([k EXCEPT !.state[t] = @ \ {bit}], t))
    BY <1>1 DEF IsrResume, ResumeState, Closes
  <2> HIDE DEF bit
  <2>4. QED
    BY <2>2, <2>3, ReleaseSharp
<1>2. CASE IsrWakeup(t)
  <2> DEFINE less == k.state[t] \ {"SUSPENDED"}
             no == FALSE
             b == Readied(less, no)
  <2>1. Closes(ready_thread([z_abort_thread_timeout(k, t) EXCEPT !.state[t] = @ \ {"SUSPENDED"}], t))
    BY <1>2 DEF IsrWakeup, Closes
  <2>2. Effect(t, b, no, k.pended_on[t], no, no)
    BY <2>1, WakeupEffect
  <2>3. Fits(t, b, no)
    BY ReadiedFits
  <2> HIDE DEF b
  <2>4. QED
    BY <2>2, <2>3, EffectSharp
<1>3. QED
  BY <1>1, <1>2

LEMMA AbortSharp ==
  ASSUME Core, Sharp, NEW t \in Threads, (\E c \in Threads : z_thread_abort(c, t)) \/ IsrAbort(t)
  PROVE  Sharp'
<1> DEFINE n == k'
<1>1. "DEAD" \notin k.state[t] /\ \E m : Dies(m, k, t) /\ Ends(k', m)
  BY AbortEnds
<1>2. /\ Chosen(n) /\ n.current = k.current
      /\ \A u \in Threads : n.timeout[u] => k.timeout[u]
      /\ \A u \in Threads : Lost(n, u) => Lost(k, u)
      /\ \A u \in Threads : n.state[u] # k.state[u] => ~n.timeout[u]
      /\ n.corrupt => k.corrupt
      /\ Sorted(k.runq, k.prio) => Sorted(n.runq, n.prio)
  BY <1>1, DeathEffect
<1>3. Timely(k) /\ Cur(k) /\ k.current \in Threads \cup {Idle}
  BY CoreFacts DEF Sharp
<1> HIDE DEF n
<1>4. Timely(n)
  <2> SUFFICES ASSUME NEW u \in Threads, Queued(n, u) PROVE ~n.timeout[u]
    BY DEF Timely
  <2>1. CASE n.state[u] # k.state[u]
    BY <1>2, <2>1
  <2>2. CASE n.state[u] = k.state[u]
    BY <1>2, <1>3, <2>2 DEF Timely, Queued
  <2>3. QED
    BY <2>1, <2>2
<1>5. Cur(n)
  <2> DEFINE u == k.current
  <2> SUFFICES ASSUME u # Idle PROVE Queued(n, u) \/ Held(n, u)
    BY <1>2 DEF Cur
  <2>1. u \in Threads /\ (Queued(k, u) \/ Held(k, u))
    BY <1>3 DEF Cur
  <2> HIDE DEF u
  <2>2. CASE n.state[u] # k.state[u]
    <3>1. ~n.timeout[u] /\ ~Lost(k, u)
      BY <1>2, <2>1, <2>2 DEF Lost, Able
    <3>2. ~Lost(n, u)
      BY <1>2, <2>1, <3>1
    <3>3. QED
      BY <3>1, <3>2 DEF Lost, Able
  <2>3. CASE n.state[u] = k.state[u]
    BY <2>1, <2>3 DEF Queued, Held
  <2>4. QED
    BY <2>2, <2>3
<1>6. Apart => Sorted(n.runq, n.prio) /\ ~n.corrupt
  BY <1>2 DEF Sharp
<1>7. QED
  BY <1>2, <1>4, <1>5, <1>6 DEF Sharp, n

LEMMA PrioSharp ==
  ASSUME Core, Asked, Sharp, NEW c, NEW t \in Threads, NEW p \in Prios, k_thread_priority_set(c, t, p)
  PROVE  Sharp'
<1> DEFINE d == k.timeout[t]
           b == Readied(k.state[t], d)
           w == k.pended_on[t]
           odd == ~Apart
           no == FALSE
<1>1. Running(c) /\ "prio" \in Ops
  BY DEF k_thread_priority_set, Starts
<1>2. c \in Threads /\ k.current = c /\ ~Held(k, c) /\ c # Idle /\ firing = NULL /\ t # NULL
  BY <1>1, RunFacts, ThreadFacts
<1>3. Queued(k, c) /\ ~k.timeout[c] /\ Able(k, c)
  BY <1>2, RunSharp
<1>4. (Queued(k, t) <=> Able(k, t)) \/ odd
  <2> SUFFICES ASSUME Apart PROVE Queued(k, t) <=> Able(k, t)
    OBVIOUS
  <2>1. "suspend" \notin Ops /\ "wakeup" \notin Ops
    BY <1>1 DEF Apart
  <2>2. ~Excused(call, firing, t)
    BY <1>2, <2>1 DEF Excused, Asked
  <2>3. ~Lost(k, t)
    BY <2>2 DEF Core
  <2>4. Queued(k, t) => Able(k, t)
    BY CoreFacts DEF Sharp, Timely, Able, QueuedRuns
  <2>5. QED
    BY <2>3, <2>4 DEF Lost
<1>5. Fits(t, b, d)
  <2>1. "QUEUED" \in k.state[t] => ~d
    BY DEF Sharp, Timely, Queued
  <2>2. t = k.current => ~d
    BY <1>2, <1>3
  <2>3. QED
    BY <2>1, <2>2, ReadiedFits
<1>6. t = k.current => Able(k, t)
  BY <1>2, <1>3
<1>7. Chosen(k) /\ (odd => ~Apart)
  BY DEF Sharp
<1> HIDE DEF odd, no
<1>8. Turns(k', k, t, b, d, w, no, odd) /\ Chosen(k')
  BY <1>4, <1>6, <1>7, PrioEffect
<1> HIDE DEF b, d, w
<1>9. QED
  BY <1>5, <1>7, <1>8, TurnSharp

(* Steps that change no thread.                                            *)
LEMMA AsideSharp ==
  ASSUME Core, Sharp,
         \/ \E c, on : on \in BOOLEAN /\ (k_sched_lock(c) \/ k_sched_unlock(c) \/ k_sched_time_slice_set(c, on))
         \/ AnnounceSlice \/ slice_timeout
  PROVE  Sharp'
<1> DEFINE no == FALSE
<1>1. \E t \in Threads : Effect(t, k.state[t], k.timeout[t], k.pended_on[t], no, no)
  <2>1. ASSUME NEW c, NEW on \in BOOLEAN,
               k_sched_lock(c) \/ k_sched_unlock(c) \/ k_sched_time_slice_set(c, on)
        PROVE  c \in Threads /\ Effect(c, k.state[c], k.timeout[c], k.pended_on[c], no, no)
    <3>1. c \in Threads
      BY <2>1, RunFacts DEF k_sched_lock, k_sched_unlock, k_sched_time_slice_set, Starts
    <3> HIDE DEF no
    <3>2. QED
      BY <2>1, <3>1, LockEffect, UnlockEffect, SliceSetEffect
  <2>2. ASSUME AnnounceSlice \/ slice_timeout
        PROVE  Main \in Threads /\ Effect(Main, k.state[Main], k.timeout[Main], k.pended_on[Main], no, no)
    <3>1. Main \in Threads
      BY SchedAssumption
    <3> HIDE DEF no
    <3>2. QED
      BY <2>2, <3>1, SliceTimerEffect
  <2> HIDE DEF no
  <2>3. QED
    BY <2>1, <2>2
<1>2. PICK t \in Threads : Effect(t, k.state[t], k.timeout[t], k.pended_on[t], no, no)
  BY <1>1
<1>3. Fits(t, k.state[t], k.timeout[t])
  BY SameFits
<1>4. QED
  BY <1>2, <1>3, EffectSharp

LEMMA SameSharp ==
  ASSUME Sharp, k' = k
  PROVE  Sharp'
BY DEF Sharp

LEMMA FireSharp ==
  ASSUME Core, Sharp, z_thread_timeout
  PROVE  Sharp'
<1> DEFINE t == firing
           less == k.state[t] \ {"PENDING", "PRESTART", "SUSPENDED"}
           no == FALSE
           b == Readied(less, no)
<1>1. t \in Threads /\ k' = z_sched_wake_thread(k, t, TRUE) /\ pendsv' = pendsv /\ ~k.timeout[t]
  BY DEF z_thread_timeout, Core, Fires
<1>2. CASE "DEAD" \in k.state[t]
  BY <1>1, <1>2, SameSharp DEF z_sched_wake_thread
<1>3. CASE "DEAD" \notin k.state[t]
  <2>1. Effect(t, b, no, NULL, no, no)
    BY <1>1, <1>3, FireEffect
  <2>2. Fits(t, b, no)
    BY ReadiedFits
  <2> HIDE DEF b, t
  <2>3. QED
    BY <1>1, <2>1, <2>2, EffectSharp
<1>4. QED
  BY <1>2, <1>3

LEMMA TickEndSharp ==
  ASSUME Core, Sharp, TickEnd
  PROVE  Sharp'
<1> DEFINE t == k.current
           b == k.state[t] \cup {"QUEUED"}
           no == FALSE
<1>1. \/ Effect(Main, k.state[Main], k.timeout[Main], k.pended_on[Main], no, no)
      \/ t \in Threads /\ ~Held(k, t) /\ Effect(t, b, k.timeout[t], k.pended_on[t], no, no)
  BY SliceEffect
<1>2. CASE Effect(Main, k.state[Main], k.timeout[Main], k.pended_on[Main], no, no)
  <2>1. Main \in Threads
    BY SchedAssumption
  <2>2. Fits(Main, k.state[Main], k.timeout[Main])
    BY <2>1, SameFits
  <2>3. QED
    BY <1>2, <2>1, <2>2, EffectSharp
<1>3. CASE t \in Threads /\ ~Held(k, t) /\ Effect(t, b, k.timeout[t], k.pended_on[t], no, no)
  <2>1. ~k.timeout[t]
    BY <1>3, RunSharp, ThreadFacts
  <2>2. Fits(t, b, k.timeout[t])
    BY <2>1 DEF Fits
  <2> HIDE DEF b, t
  <2>3. QED
    BY <1>3, <2>2, EffectSharp
<1>4. QED
  BY <1>1, <1>2, <1>3

(* The switch goes to a queued thread.                                     *)
LEMMA SwitchSharp ==
  ASSUME Core, Sharp, PendSV
  PROVE  Sharp'
<1> DEFINE n == k'
           a == k.cache
<1>1. k' = [k EXCEPT !.current = a]
  BY DEF PendSV
<1>2. k \in KernelState /\ Links(k) /\ k.current \in Threads \cup {Idle}
      /\ Timely(k) /\ Cur(k) /\ Chosen(k)
  BY CoreFacts DEF Sharp
<1>3. /\ n.state = k.state /\ n.timeout = k.timeout /\ n.runq = k.runq /\ n.prio = k.prio
      /\ n.cache = a /\ n.current = a /\ n.sched_locked = k.sched_locked /\ n.corrupt = k.corrupt
  BY <1>1, <1>2 DEF KernelState
<1>4. a = Idle \/ Queued(k, a)
  BY <1>2, NextUpFacts DEF Chosen, Cur
<1> HIDE DEF n
<1>5. Timely(n) /\ Cur(n)
  BY <1>2, <1>3, <1>4 DEF Timely, Cur, Queued
<1>6. Chosen(n)
  <2>1. next_up(n) = next_up(k)
    BY <1>3 DEF next_up
  <2>2. CASE k.cache = next_up(k)
    BY <1>3, <2>1, <2>2 DEF Chosen
  <2>3. CASE k.cache # next_up(k)
    <3>1. /\ a = k.current /\ k.current # Idle /\ ~Held(k, k.current)
          /\ ~thread_is_preemptible(k, k.current)
      BY <1>2, <2>3 DEF Chosen
    <3>2. ~thread_is_preemptible(n, n.current)
      BY <1>3, <3>1 DEF thread_is_preemptible
    <3>3. ~Held(n, n.current)
      BY <1>3, <3>1 DEF Held
    <3>4. QED
      BY <1>3, <3>1, <3>2, <3>3 DEF Chosen
  <2>4. QED
    BY <2>2, <2>3
<1>7. Apart => Sorted(n.runq, n.prio) /\ ~n.corrupt
  BY <1>3 DEF Sharp
<1>8. QED
  BY <1>5, <1>6, <1>7 DEF Sharp, n

LEMMA InitSharp ==
  ASSUME Init
  PROVE  Asked /\ Sharp
<1>1. /\ k.state = [t \in Threads |-> IF t = Main THEN {"QUEUED"} ELSE {"PRESTART"}]
      /\ k.timeout = [t \in Threads |-> FALSE] /\ k.runq = <<Main>>
      /\ k.current = Main /\ k.cache = Main /\ k.corrupt = FALSE
      /\ call = [t \in Threads |-> NoCall] /\ Main \in Threads
  BY SchedAssumption DEF Init
<1>2. Timely(k) /\ Cur(k)
  BY <1>1 DEF Timely, Cur, Queued
<1>3. Chosen(k)
  BY <1>1 DEF Chosen, next_up
<1>4. Sorted(k.runq, k.prio)
  BY <1>1 DEF Sorted
<1>5. Asked
  BY <1>1 DEF Asked, NoCall
<1>6. QED
  BY <1>1, <1>2, <1>3, <1>4, <1>5 DEF Sharp

LEMMA NextSharp ==
  ASSUME Core, Asked, Sharp, "resume_sleeping" \notin Ops, [Next]_vars
  PROVE  Sharp'
<1>1. ASSUME NEW c \in Threads, ThreadStep(c) PROVE Sharp'
  <2>1. CASE k_yield(c) \/ z_tick_sleep(c)
    BY <2>1, GiveWaySharp
  <2>2. CASE \E w \in Objs, f \in BOOLEAN : z_pend_curr(c, w, f)
    BY <2>2, BlockSharp
  <2>3. CASE \E w \in Objs : WakeOne(c, w)
    BY <2>3, WakeSharp
  <2>4. ASSUME NEW t \in Threads, thread_schedule_new(c, t) \/ z_sched_start(c, t)
                                  \/ k_thread_resume(c, t)
        PROVE  Sharp'
    BY <2>4, DelaySharp, StartSharp
  <2>5. ASSUME NEW t \in Threads, k_thread_suspend_abort(c, t) PROVE Sharp'
    BY <2>5, UnlinkSharp DEF k_thread_suspend_abort, Unlock
  <2>6. ASSUME NEW t \in Threads, k_wakeup_check(c, t) PROVE Sharp'
    BY <2>6, SameSharp DEF k_wakeup_check
  <2>7. ASSUME NEW t \in Threads, z_thread_abort(c, t) PROVE Sharp'
    BY <2>7, AbortSharp
  <2>8. ASSUME NEW t \in Threads, NEW f \in BOOLEAN, k_thread_join(c, t, f) PROVE Sharp'
    BY <2>8, BlockSharp
  <2>9. ASSUME NEW t \in Threads, NEW p \in Prios, k_thread_priority_set(c, t, p) PROVE Sharp'
    BY <2>9, PrioSharp
  <2>10. CASE k_thread_suspend_halt(c)
    BY <2>10, SuspendSharp
  <2>11. CASE k_wakeup_abort(c) \/ k_wakeup_ready(c)
    <3>1. call[c].arg \in Threads
      BY <2>11 DEF k_wakeup_abort, k_wakeup_ready, Continues, Core, Typed, Calls, NoCall
    <3>2. CASE k_wakeup_abort(c)
      BY <3>1, <3>2, UnlinkSharp DEF k_wakeup_abort, Unlock
    <3>3. CASE k_wakeup_ready(c)
      BY <3>1, <3>3, StartSharp
    <3>4. QED
      BY <2>11, <3>2, <3>3
  <2>12. CASE JoinReturns(c) \/ k_wakeup_look(c)
    BY <2>12, SameSharp DEF JoinReturns, k_wakeup_look
  <2>13. ASSUME NEW on \in BOOLEAN,
                k_sched_lock(c) \/ k_sched_unlock(c) \/ k_sched_time_slice_set(c, on)
         PROVE  Sharp'
    BY <2>13, AsideSharp
  <2>14. CASE k_sched_lock(c) \/ k_sched_unlock(c)
    BY <2>13, <2>14
  <2>15. QED
    BY <1>1, <2>1, <2>2, <2>3, <2>4, <2>5, <2>6, <2>7, <2>8, <2>9, <2>10, <2>11, <2>12, <2>13, <2>14
       DEF ThreadStep
<1>2. ASSUME IsrStep PROVE Sharp'
  BY <1>2, WakeSharp, SuspendSharp, IsrReleaseSharp, AbortSharp DEF IsrStep
<1>3. ASSUME TimerStep PROVE Sharp'
  <2>1. CASE TickStart
    BY <2>1, SameSharp DEF TickStart
  <2>2. ASSUME NEW t \in Threads, AnnounceThread(t) PROVE Sharp'
    BY <2>2, UnlinkSharp DEF AnnounceThread
  <2>3. QED
    BY <1>3, <2>1, <2>2, AsideSharp, FireSharp, TickEndSharp DEF TimerStep
<1>4. ASSUME UNCHANGED vars PROVE Sharp'
  BY <1>4, SameSharp DEF vars
<1>5. QED
  BY <1>1, <1>2, <1>3, <1>4, SwitchSharp DEF Next

(* The inductive invariant of the ready queue.                             *)
THEOREM SchedSharp ==
  ASSUME "resume_sleeping" \notin Ops
  PROVE  Spec => [](Core /\ Asked /\ Sharp)
<1>1. Init => Core /\ Asked /\ Sharp
  BY InitCore, InitSharp
<1>2. (Core /\ Asked /\ Sharp) /\ [Next]_vars => (Core /\ Asked /\ Sharp)'
  <2>1. Core => Typed
    BY DEF Core
  <2>2. QED
    BY <2>1, NextCore, AskedNext, NextSharp
<1>3. QED
  BY <1>1, <1>2, PTL DEF Spec

(* Whatever executes is ready: outside the window before a pended switch   *)
(* _current is neither held nor waiting for a timeout.                     *)
THEOREM SchedRunningIsRunnable ==
  ASSUME "resume_sleeping" \notin Ops
  PROVE  Spec => []RunningIsRunnable
<1>1. Core /\ Sharp => RunningIsRunnable
  <2> SUFFICES ASSUME Core, Sharp, ~pendsv, k.current # Idle PROVE z_is_thread_ready(k, k.current)
    BY DEF RunningIsRunnable
  <2>1. ~Held(k, k.current)
    BY DEF Core, Exec
  <2>2. QED
    BY <2>1, RunSharp, PredicateFacts
<1>2. QED
  BY <1>1, SchedSharp, PTL

(* Run queue and cache: the queue is linked, sorted and exact, nothing was *)
(* ever unlinked that was not on it, and the cache names the best queued   *)
(* thread or a _current that may not be preempted.                         *)
THEOREM SchedReadyQueue ==
  ASSUME "resume_sleeping" \notin Ops, Apart
  PROVE  Spec => []ReadyQInv
<1>1. Core /\ Sharp => ReadyQInv
  <2> SUFFICES ASSUME Core, Sharp PROVE ReadyQInv
    OBVIOUS
  <2>1. Links(k) /\ QueuedRuns(k) /\ Timely(k) /\ Chosen(k) /\ Cur(k)
    BY CoreFacts DEF Sharp
  <2>2. RunqInv
    <3>1. \A t \in Members(k.runq) : z_is_thread_ready(k, t)
      BY <2>1, PredicateFacts DEF Links, QueuedRuns, Timely, Able
    <3>2. QED
      BY <2>1, <3>1 DEF RunqInv, Links, Queued, Sharp
  <2>3. k.cache = Idle => k.runq = <<>>
    BY <2>1, NextUpFacts DEF Chosen
  <2>4. k.cache # Idle => k.cache \in Members(k.runq)
    <3>1. k.cache \in Threads \cup {Idle}
      BY <2>1 DEF Links, KernelState
    <3>2. k.cache # Idle => Queued(k, k.cache)
      BY <2>1, NextUpFacts DEF Chosen, Cur
    <3>3. QED
      BY <2>1, <3>1, <3>2 DEF Links
  <2>5. (k.runq # <<>> /\ k.cache # Head(k.runq)) =>
          (k.cache = k.current /\ ~thread_is_preemptible(k, k.current))
    BY <2>1 DEF Chosen, next_up
  <2>6. QED
    BY <2>2, <2>3, <2>4, <2>5 DEF ReadyQInv, CacheInv
<1>2. QED
  BY <1>1, SchedSharp, PTL

-----------------------------------------------------------------------------
(* The cooperative promise.  halt_thread and z_thread_prio_set look for    *)
(* the best thread whatever _current is, so the promise is for programs    *)
(* that suspend, abort and change priorities of no thread, as in the run.  *)
Gentle == Ops \cap {"suspend", "isr_suspend", "abort", "isr_abort", "prio", "resume_sleeping"} = {}

(* Outside interrupts and the window before a switch the cache names       *)
(* _current; and the cache takes the CPU from nobody who may keep it.      *)
Settled == ~pendsv /\ ~tick => k.cache = k.current
Courteous == Settled /\ (yielded \/ Polite(k))

(* What ends in z_reschedule or in an interrupt's exit is settled.         *)
LEMMA EndSettled ==
  ASSUME Core, NEW m, z_reschedule(m) \/ IsrExit(m)
  PROVE  Settled'
<1>1. CASE IsrExit(m)
  BY <1>1 DEF IsrExit, Settled, Core, Typed
<1>2. CASE z_reschedule(m) /\ m.cache # m.current
  <2>1. pendsv' = TRUE
    BY <1>2 DEF z_reschedule, z_swap
  <2>2. QED
    BY <2>1 DEF Settled
<1>3. CASE z_reschedule(m) /\ m.cache = m.current
  BY <1>3 DEF z_reschedule, Unlock, Settled
<1>4. QED
  BY <1>1, <1>2, <1>3

LEMMA CivilCourteous ==
  ASSUME Sharp, Courteous, Civil, Settled', yielded' = yielded
  PROVE  Courteous'
BY DEF Courteous, Civil, Sharp

(* A thread wakes, starts or resumes another, or an interrupt does.        *)
LEMMA WakeCourteous ==
  ASSUME Core, Sharp, Courteous,
         \/ \E c \in Threads, w \in Objs : WakeOne(c, w)
         \/ \E w \in Objs : IsrWakeOne(w)
  PROVE  Courteous'
<1>1. PICK w \in Objs : (\E c \in Threads : WakeOne(c, w)) \/ IsrWakeOne(w)
  OBVIOUS
<1> DEFINE m == WakeFirst(k, w)
<1>2. z_reschedule(m) \/ IsrExit(m)
  BY <1>1 DEF WakeOne, IsrWakeOne
<1>3. Closes(m)
  <2>1. CASE \E c \in Threads : WakeOne(c, w)
    <3>1. PICK c \in Threads : WakeOne(c, w)
      BY <2>1
    <3>2. QED
      BY <3>1, WakeOneCloses
  <2>2. CASE IsrWakeOne(w)
    BY <2>2 DEF IsrWakeOne, Closes
  <2>3. QED
    BY <1>1, <2>1, <2>2
<1>4. k.waitq[w] # <<>> /\ yielded' = yielded
  BY <1>1 DEF WakeOne, IsrWakeOne, SameGhosts
<1>5. Civil
  BY <1>3, <1>4, WakeFirstEffect
<1> HIDE DEF m
<1>6. Settled'
  BY <1>2, EndSettled
<1>7. QED
  BY <1>4, <1>5, <1>6, CivilCourteous

LEMMA ReleaseCourteous ==
  ASSUME Core, Sharp, Courteous, NEW t \in Threads,
         \/ \E c \in Threads : \/ z_sched_start(c, t) \/ k_thread_resume(c, t)
                               \/ k_wakeup_ready(c) /\ t = call[c].arg
         \/ IsrResume(t)
  PROVE  Courteous'
<1> DEFINE no == FALSE
           m(bit) == ready_thread([k EXCEPT !.state[t] = @ \ {bit}], t)
<1>1. yielded' = yielded
  BY DEF z_sched_start, k_thread_resume, k_wakeup_ready, IsrResume, SameGhosts
<1>2. \E bit \in Preventing : (z_reschedule(m(bit)) \/ IsrExit(m(bit))) /\ Closes(m(bit))
  <2>1. ASSUME NEW c \in Threads, \/ z_sched_start(c, t) \/ k_thread_resume(c, t)
                                  \/ k_wakeup_ready(c) /\ t = call[c].arg
        PROVE  \E bit \in Preventing : z_reschedule(m(bit)) /\ Closes(m(bit))
    <3>1. Running(c)
      BY <2>1 DEF z_sched_start, k_thread_resume, k_wakeup_ready, Starts, Continues
    <3>2. PICK bit \in Preventing : z_reschedule(m(bit))
      BY <2>1 DEF z_sched_start, k_thread_resume, k_wakeup_ready, ResumeState, Preventing
    <3>3. Closes(m(bit))
      BY <3>1, <3>2, ReleaseCloses
    <3>4. QED
      BY <3>2, <3>3
  <2>2. CASE IsrResume(t)
    <3>1. IsrExit(m("SUSPENDED")) /\ "SUSPENDED" \in Preventing
      BY <2>2 DEF IsrResume, ResumeState, Preventing
    <3>2. QED
      BY <3>1 DEF Closes
  <2> HIDE DEF m
  <2>3. QED
    BY <2>1, <2>2
<1>3. PICK bit \in Preventing : (z_reschedule(m(bit)) \/ IsrExit(m(bit))) /\ Closes(m(bit))
  BY <1>2
<1>4. Civil
  BY <1>3, ReleaseEffect
<1> HIDE DEF m
<1>5. Settled'
  BY <1>3, EndSettled
<1>6. QED
  BY <1>1, <1>4, <1>5, CivilCourteous

LEMMA IsrWakeupCourteous ==
  ASSUME Core, Sharp, Courteous, NEW t \in Threads, IsrWakeup(t)
  PROVE  Courteous'
<1> DEFINE m == ready_thread([z_abort_thread_timeout(k, t) EXCEPT !.state[t] = @ \ {"SUSPENDED"}], t)
<1>1. IsrExit(m) /\ Closes(m) /\ yielded' = yielded
  BY DEF IsrWakeup, Closes
<1>2. Civil
  BY <1>1, WakeupEffect
<1> HIDE DEF m
<1>3. Settled'
  BY <1>1, EndSettled
<1>4. QED
  BY <1>1, <1>2, <1>3, CivilCourteous

(* _current gives the CPU up: it is held from then on, or said so.         *)
LEMMA LeaveCourteous ==
  ASSUME Core, Courteous, NEW c \in Threads,
         \/ k_yield(c) \/ z_tick_sleep(c)
         \/ \E w \in Objs, f \in BOOLEAN : z_pend_curr(c, w, f)
         \/ \E t \in Threads, f \in BOOLEAN : k_thread_join(c, t, f)
  PROVE  Courteous'
<1>1. pendsv' = TRUE /\ k.current = c
  BY DEF k_yield, z_tick_sleep, z_pend_curr, k_thread_join, z_swap, Starts, Running
<1>2. Settled'
  BY <1>1 DEF Settled
<1>3. CASE k_yield(c)
  BY <1>2, <1>3 DEF Courteous, k_yield
<1>4. ASSUME NEW bit \in Preventing, NEW d, NEW w, NEW more,
             Effect(c, more \cup {bit}, d, w, FALSE, FALSE)
      PROVE  Polite(k')
  <2> DEFINE n == k'
             b == more \cup {bit}
  <2>1. n.current = c /\ n.state[c] = b
    BY <1>1, <1>4 DEF Effect, Turns
  <2>2. b \cap Preventing # {}
    BY <1>4
  <2> HIDE DEF n, b
  <2>3. ~Able(n, n.current)
    BY <2>1, <2>2 DEF Able, Held
  <2>4. QED
    BY <2>3 DEF Polite, n
<1>5. "PENDING" \in Preventing /\ "SUSPENDED" \in Preventing
  BY DEF Preventing
<1>6. CASE z_tick_sleep(c)
  <2> DEFINE less == k.state[c] \ {"QUEUED"}
  <2>1. Effect(c, less \cup {"SUSPENDED"}, TRUE, k.pended_on[c], FALSE, FALSE)
    BY <1>6, SleepEffect
  <2> HIDE DEF less
  <2>2. Polite(k')
    BY <1>4, <1>5, <2>1
  <2>3. QED
    BY <1>2, <2>2 DEF Courteous
<1>7. ASSUME NEW w \in WaitQs, NEW f \in BOOLEAN,
             \/ w \in Objs /\ z_pend_curr(c, w, f)
             \/ w \in Threads /\ k_thread_join(c, w, f)
      PROVE  Courteous'
  <2> DEFINE less == k.state[c] \ {"QUEUED"}
             d == k.timeout[c] \/ ~f
  <2>1. Effect(c, less \cup {"PENDING"}, d, w, FALSE, FALSE)
    BY <1>7, BlockEffect
  <2> HIDE DEF less, d
  <2>2. Polite(k')
    BY <1>4, <1>5, <2>1
  <2>3. QED
    BY <1>2, <2>2 DEF Courteous
<1>8. QED
  BY <1>3, <1>6, <1>7, ThreadFacts

(* A running thread's calls that leave the cache alone.                    *)
LEMMA StayCourteous ==
  ASSUME Core, Courteous, NEW c \in Threads,
         \/ \E t \in Threads : thread_schedule_new(c, t) \/ k_wakeup_check(c, t)
         \/ k_wakeup_abort(c) \/ k_wakeup_look(c) \/ JoinReturns(c) \/ k_sched_lock(c)
         \/ \E on \in BOOLEAN : k_sched_time_slice_set(c, on)
  PROVE  Courteous'
<1>1. k \in KernelState /\ k.cache = k.current
  <2>1. Running(c)
    BY DEF thread_schedule_new, k_wakeup_check, k_wakeup_abort, k_wakeup_look, JoinReturns, k_sched_lock,
           k_sched_time_slice_set, Starts, Continues
  <2>2. QED
    BY <2>1, CoreFacts DEF Running, Courteous, Settled
<1>2. k'.cache = k.cache /\ k'.current = k.current
  <2>1. CASE k' = k
    BY <2>1
  <2>2. ASSUME NEW t \in Threads, thread_schedule_new(c, t) PROVE k'.cache = k.cache /\ k'.current = k.current
    BY <1>1, <2>2 DEF thread_schedule_new, Unlock, add_thread_timeout, KernelState
  <2>3. CASE k_wakeup_abort(c)
    BY <1>1, <2>3 DEF k_wakeup_abort, Unlock, z_abort_thread_timeout, KernelState
  <2>4. CASE k_sched_lock(c)
    BY <1>1, <2>4 DEF k_sched_lock, Unlock, KernelState
  <2>5. ASSUME NEW on \in BOOLEAN, k_sched_time_slice_set(c, on)
        PROVE  k'.cache = k.cache /\ k'.current = k.current
    BY <1>1, <2>5 DEF k_sched_time_slice_set, Unlock, z_reset_time_slice, KernelState
  <2>6. QED
    BY <2>1, <2>2, <2>3, <2>4, <2>5 DEF k_wakeup_check, k_wakeup_look, JoinReturns
<1>3. QED
  BY <1>1, <1>2 DEF Courteous, Settled, Polite

(* The timer interrupt unlinks a timeout or notes an expired slice: a      *)
(* _current that waits for a timeout is held as well.                      *)
LEMMA AnnounceCourteous ==
  ASSUME Core, Sharp, Courteous,
         TickStart \/ AnnounceSlice \/ slice_timeout \/ \E t \in Threads : AnnounceThread(t)
  PROVE  Courteous'
<1> DEFINE n == k'
<1>1. tick' = TRUE /\ yielded' = yielded
  BY DEF TickStart, AnnounceSlice, slice_timeout, AnnounceThread, SameGhosts, Core, Typed
<1>2. k \in KernelState /\ Timely(k) /\ Cur(k) /\ k.current \in Threads \cup {Idle}
  BY CoreFacts DEF Sharp
<1>3. /\ n.cache = k.cache /\ n.current = k.current /\ n.state = k.state /\ n.prio = k.prio
      /\ n.sched_locked = k.sched_locked
  <2>1. ASSUME NEW t \in Threads, AnnounceThread(t)
        PROVE  /\ n.cache = k.cache /\ n.current = k.current /\ n.state = k.state /\ n.prio = k.prio
               /\ n.sched_locked = k.sched_locked
    BY <1>2, <2>1 DEF AnnounceThread, z_abort_thread_timeout, KernelState
  <2>2. CASE AnnounceSlice \/ slice_timeout
    BY <1>2, <2>2 DEF AnnounceSlice, slice_timeout, KernelState
  <2>3. CASE TickStart
    BY <2>3 DEF TickStart
  <2>4. QED
    BY <2>1, <2>2, <2>3
<1> HIDE DEF n
<1>4. Polite(k) => Polite(n)
  <2>1. thread_is_preemptible(n, n.current) <=> thread_is_preemptible(k, k.current)
    BY <1>3 DEF thread_is_preemptible
  <2>2. k.current # Idle /\ Able(n, n.current) => Able(k, k.current)
    BY <1>2, <1>3 DEF Able, Held, Cur, Timely, Queued
  <2>3. QED
    BY <1>3, <2>1, <2>2 DEF Polite
<1>5. QED
  BY <1>1, <1>4 DEF Courteous, Settled, n

LEMMA FireCourteous ==
  ASSUME Core, Sharp, Courteous, z_thread_timeout
  PROVE  Courteous'
<1> DEFINE t == firing
           no == FALSE
<1>1. t \in Threads /\ k' = z_sched_wake_thread(k, t, TRUE) /\ pendsv' = pendsv /\ ~k.timeout[t]
      /\ tick' = TRUE /\ yielded' = yielded
  BY DEF z_thread_timeout, Core, Fires, Typed, SameGhosts
<1>2. Settled'
  BY <1>1 DEF Settled
<1>3. Civil
  <2>1. CASE "DEAD" \in k.state[t]
    BY <1>1, <2>1 DEF z_sched_wake_thread, Civil
  <2>2. CASE "DEAD" \notin k.state[t]
    BY <1>1, <2>2, FireEffect
  <2>3. QED
    BY <2>1, <2>2
<1>4. QED
  BY <1>1, <1>2, <1>3, CivilCourteous

LEMMA NextCourteous ==
  ASSUME Core, Asked, Sharp, Courteous, Gentle, [Next]_vars
  PROVE  Courteous'
<1>1. ASSUME NEW c \in Threads, ThreadStep(c) PROVE Courteous'
  <2>1. ASSUME NEW t \in Threads, \/ k_thread_suspend_abort(c, t) \/ z_thread_abort(c, t)
                                  \/ \E p \in Prios : k_thread_priority_set(c, t, p)
        PROVE  FALSE
    BY <2>1 DEF k_thread_suspend_abort, z_thread_abort, k_thread_priority_set, Starts, Gentle
  <2>2. ~k_thread_suspend_halt(c)
    BY DEF k_thread_suspend_halt, Continues, Asked, Gentle
  <2>3. CASE k_wakeup_ready(c)
    <3>1. call[c].arg \in Threads
      BY <2>3 DEF k_wakeup_ready, Continues, Core, Typed, Calls, NoCall
    <3>2. QED
      BY <2>3, <3>1, ReleaseCourteous
  <2>4. CASE k_sched_unlock(c)
    <3>1. Civil
      BY <2>4, UnlockEffect
    <3>2. yielded' = yielded /\ \E m : z_reschedule(m)
      BY <2>4 DEF k_sched_unlock, SameGhosts
    <3>3. QED
      BY <3>1, <3>2, EndSettled, CivilCourteous
  <2>5. QED
    BY <1>1, <2>1, <2>2, <2>3, <2>4, LeaveCourteous, StayCourteous, WakeCourteous, ReleaseCourteous
       DEF ThreadStep
<1>2. ASSUME IsrStep PROVE Courteous'
  <2>1. ASSUME NEW t \in Threads, IsrSuspend(t) \/ IsrAbort(t) PROVE FALSE
    BY <2>1 DEF IsrSuspend, IsrAbort, InISR, Gentle
  <2>2. QED
    BY <1>2, <2>1, WakeCourteous, ReleaseCourteous, IsrWakeupCourteous DEF IsrStep
<1>3. ASSUME TickEnd PROVE Courteous'
  <2>1. Civil /\ (pendsv' = TRUE \/ k'.cache = k'.current)
    BY <1>3, SliceEffect
  <2>2. QED
    BY <1>3, <2>1, CivilCourteous DEF TickEnd, SameGhosts, Settled
<1>4. ASSUME PendSV PROVE Courteous'
  <2>1. k'.cache = k'.current
    BY <1>4, CoreFacts DEF PendSV, KernelState
  <2>2. QED
    BY <2>1 DEF Courteous, Settled, Polite
<1>5. ASSUME UNCHANGED vars PROVE Courteous'
  BY <1>5 DEF vars, Courteous, Settled
<1>6. QED
  BY <1>1, <1>2, <1>3, <1>4, <1>5, AnnounceCourteous, FireCourteous DEF Next, TimerStep

(* A ready thread that is cooperative or holds the scheduler lock keeps    *)
(* the CPU until it gives it up itself, through every wake, timeout and    *)
(* time slice that makes a better thread ready (should_preempt).           *)
THEOREM SchedCoopPromise ==
  ASSUME Gentle
  PROVE  Spec => []CoopPromise
<1>1. Init => Courteous
  BY DEF Init, Courteous, Settled, Polite
<1>2. Courteous /\ (Core /\ Asked /\ Sharp) /\ [Next]_vars => Courteous'
  BY NextCourteous
<1>3. "resume_sleeping" \notin Ops
  BY DEF Gentle
<1>4. Spec => [](Core /\ Asked /\ Sharp)
  BY <1>3, SchedSharp
<1>5. Courteous /\ (Core /\ Asked /\ Sharp) => CoopPromise
  <2> SUFFICES ASSUME Courteous, Core, k.cache # k.current, z_is_thread_ready(k, k.current),
                      ~thread_is_preemptible(k, k.current)
               PROVE  yielded
    BY DEF CoopPromise
  <2>1. k.current # Idle /\ k.current \in Threads
    BY CoreFacts DEF thread_is_preemptible
  <2>2. Able(k, k.current)
    BY <2>1, PredicateFacts
  <2>3. QED
    BY <2>1, <2>2 DEF Courteous, Polite
<1>6. QED
  BY <1>1, <1>2, <1>4, <1>5, PTL DEF Spec

-----------------------------------------------------------------------------
(* The timeouts of finite waits.  A resumed wait goes on without the       *)
(* timeout that k_thread_suspend took, and k_wakeup can unlink the timeout *)
(* of a wait that began after its check; the theorem is for programs that  *)
(* make neither call.  k_wakeup out of an interrupt is one section and may *)
(* be made.                                                                *)
Unresumed == Ops \cap {"wakeup", "resume", "isr_resume"} = {}

(* A k_thread_suspend call on t has taken its timeout and is half way.     *)
Halting(cl, t) == \E c \in Threads : cl[c].op = "suspend" /\ cl[c].arg = t

(* One thread changes.                                                     *)
LEMMA TurnTimed ==
  ASSUME Typed, TimeoutsKept, NEW t \in Threads, NEW b, NEW d, NEW w, NEW zero, NEW odd,
         Turns(k', k, t, b, d, w, zero, odd), firing' \in {firing, NULL, SliceTimer, t},
         firing \in {firing', NULL, SliceTimer, t},
         \A u \in Threads \ {t} : Halting(call, u) => Halting(call', u),
         \A u \in Threads \ {t} : u \in finite' \ susp' => u \in finite \ susp,
         "PENDING" \in b /\ t \in finite' \ susp' => d \/ firing' = t \/ Halting(call', t),
         finite' \subseteq Threads
  PROVE  TimeoutsKept'
<1> SUFFICES ASSUME NEW u \in finite' \ susp', "PENDING" \in k'.state[u]
             PROVE  k'.timeout[u] \/ firing' = u \/ Halting(call', u)
  BY DEF TimeoutsKept, Halting
<1>1. u \in Threads /\ u # NULL /\ u # SliceTimer
  BY ThreadFacts
<1>2. CASE u = t
  BY <1>2 DEF Turns
<1>3. CASE u # t
  <2>1. u \in finite \ susp /\ "PENDING" \in k.state[u] /\ k'.timeout[u] = k.timeout[u]
    BY <1>1, <1>3 DEF Turns
  <2>2. k.timeout[u] \/ firing = u \/ Halting(call, u)
    BY <2>1 DEF TimeoutsKept, Halting
  <2>3. QED
    BY <1>1, <1>3, <2>1, <2>2
<1>4. QED
  BY <1>2, <1>3

(* The same when the thread's wait is over, or goes on as it was.          *)
LEMMA PlainTimed ==
  ASSUME Typed, TimeoutsKept, NEW t \in Threads, NEW b, NEW d, NEW w, NEW zero, NEW odd,
         Turns(k', k, t, b, d, w, zero, odd),
         call' = call, firing' = firing, finite' = finite, susp \ {t} \subseteq susp',
         "PENDING" \in b => \/ "PENDING" \in k.state[t] /\ d = k.timeout[t] /\ susp \subseteq susp'
                            \/ d \/ t \in susp'
  PROVE  TimeoutsKept'
<1>1. "PENDING" \in b /\ t \in finite' \ susp' => d \/ firing' = t \/ Halting(call', t)
  BY DEF TimeoutsKept, Halting
<1>2. finite' \subseteq Threads
  BY DEF Typed
<1>3. \A u \in Threads \ {t} : Halting(call, u) => Halting(call', u)
  BY DEF Halting
<1>4. QED
  BY <1>1, <1>2, <1>3, TurnTimed

(* Nothing that matters here changes.                                      *)
LEMMA SameTimed ==
  ASSUME TimeoutsKept, k'.state = k.state, k'.timeout = k.timeout,
         \A t \in Threads : firing = t => firing' = t,
         \A t \in Threads : Halting(call, t) => Halting(call', t),
         finite' = finite, susp' = susp, finite \subseteq Threads
  PROVE  TimeoutsKept'
BY DEF TimeoutsKept, Halting

LEMMA NoneHalting ==
  ASSUME Typed, NEW c \in Threads, NEW new, call' = [call EXCEPT ![c] = new], NEW t,
         call[c].op # "suspend" \/ call[c].arg # t, Halting(call, t)
  PROVE  Halting(call', t)
<1>1. PICK e \in Threads : call[e].op = "suspend" /\ call[e].arg = t
  BY DEF Halting
<1>2. e # c /\ call'[e] = call[e]
  BY <1>1 DEF Typed
<1>3. QED
  BY <1>1, <1>2 DEF Halting

(* _current blocks: a finite wait has its timeout linked.                  *)
LEMMA BlockTimed ==
  ASSUME Core, TimeoutsKept, NEW c \in Threads, NEW w, NEW f \in BOOLEAN,
         \/ w \in Objs /\ z_pend_curr(c, w, f)
         \/ w \in Threads /\ k_thread_join(c, w, f)
  PROVE  TimeoutsKept'
<1> DEFINE b == (k.state[c] \ {"QUEUED"}) \cup {"PENDING"}
           d == k.timeout[c] \/ ~f
           no == FALSE
<1>1. Turns(k', k, c, b, d, w, no, no)
  BY BlockEffect DEF Effect
<1>2. Typed /\ call[c] = NoCall /\ call[c].op = "none"
  BY DEF Core, z_pend_curr, k_thread_join, Starts, NoCall
<1>3. finite' = (IF f THEN finite \ {c} ELSE finite \cup {c}) /\ susp' = susp /\ firing' = firing
  BY DEF z_pend_curr, k_thread_join, SameTick
<1>4. \A u \in Threads : Halting(call, u) => Halting(call', u)
  <2>1. CASE z_pend_curr(c, w, f)
    BY <2>1 DEF z_pend_curr, SameCalls, Halting
  <2>2. CASE k_thread_join(c, w, f)
    BY <1>2, <2>2, NoneHalting DEF k_thread_join
  <2>3. QED
    BY <2>1, <2>2
<1>5. c \in finite' => d
  BY <1>3
<1>6. finite' \subseteq Threads
  BY <1>2, <1>3 DEF Typed
<1> HIDE DEF b, d, no
<1>7. QED
  BY <1>1, <1>2, <1>3, <1>4, <1>5, <1>6, TurnTimed

(* k_thread_suspend: the caller is half way from one section to the next,  *)
(* and then the thread counts as suspended.                                *)
LEMMA SuspendTimed ==
  ASSUME Core, TimeoutsKept, NEW c \in Threads,
         (\E t \in Threads : k_thread_suspend_abort(c, t)) \/ k_thread_suspend_halt(c)
  PROVE  TimeoutsKept'
<1> DEFINE no == FALSE
<1>1. Typed /\ finite' = finite /\ firing' = firing /\ finite' \subseteq Threads
  BY DEF Core, Typed, k_thread_suspend_abort, k_thread_suspend_halt, SameTick, SameGhosts
<1>2. ASSUME NEW t \in Threads, k_thread_suspend_abort(c, t) PROVE TimeoutsKept'
  <2> DEFINE new == [op |-> "suspend", arg |-> t]
  <2>1. k' = z_abort_thread_timeout(k, t) /\ pendsv' = pendsv /\ susp' = susp
        /\ call' = [call EXCEPT ![c] = new] /\ call[c].op # "suspend"
    BY <1>2 DEF k_thread_suspend_abort, Unlock, Starts, NoCall, SameGhosts
  <2>2. Turns(k', k, t, k.state[t], no, k.pended_on[t], no, no)
    BY <2>1, TimeoutEffect DEF z_abort_thread_timeout, Effect
  <2>3. Halting(call', t)
    BY <1>1, <2>1 DEF Halting, Typed
  <2> HIDE DEF new
  <2>4. \A u \in Threads : Halting(call, u) => Halting(call', u)
    BY <1>1, <2>1, NoneHalting
  <2>5. QED
    BY <1>1, <2>1, <2>2, <2>3, <2>4, TurnTimed
<1>3. CASE k_thread_suspend_halt(c)
  <2> DEFINE t == call[c].arg
             b == (k.state[t] \cup {"SUSPENDED"}) \ {"QUEUED"}
  <2>1. t \in Threads
    BY <1>3 DEF k_thread_suspend_halt, Continues, Core, Typed, Calls, NoCall
  <2>2. Turns(k', k, t, b, k.timeout[t], k.pended_on[t], no, no)
    BY <1>3, SuspendEffect DEF Effect
  <2>3. susp' = susp \cup {t} /\ call' = [call EXCEPT ![c] = NoCall]
    BY <1>3 DEF k_thread_suspend_halt
  <2>4. \A u \in Threads \ {t} : Halting(call, u) => Halting(call', u)
    BY <1>1, <2>3, NoneHalting
  <2> HIDE DEF b, t
  <2>5. QED
    BY <1>1, <2>1, <2>2, <2>3, <2>4, TurnTimed
<1>4. QED
  BY <1>2, <1>3

(* The thread that gives way, is woken or is started.                      *)
LEMMA WakeTimed ==
  ASSUME Core, TimeoutsKept,
         \/ \E c \in Threads : k_yield(c) \/ z_tick_sleep(c)
         \/ \E w \in Objs : (\E c \in Threads : WakeOne(c, w)) \/ IsrWakeOne(w)
         \/ \E t \in Threads : IsrWakeup(t)
  PROVE  TimeoutsKept'
<1> DEFINE no == FALSE
           yes == TRUE
<1>1. /\ Typed /\ call' = call /\ firing' = firing /\ finite' = finite
  BY DEF Core, k_yield, z_tick_sleep, WakeOne, IsrWakeOne, IsrWakeup, SameCalls, SameTick, SameGhosts
<1>2. ASSUME NEW c \in Threads, k_yield(c) \/ z_tick_sleep(c) PROVE TimeoutsKept'
  <2> DEFINE y == k.state[c] \cup {"QUEUED"}
             z == (k.state[c] \ {"QUEUED"}) \cup {"SUSPENDED"}
             odd == TRUE
  <2>1. Running(c) /\ susp' = susp
    BY <1>2 DEF k_yield, z_tick_sleep, Starts, SameGhosts
  <2>2. "PENDING" \notin y /\ "PENDING" \notin z
    BY <2>1, RunFacts
  <2>3. CASE k_yield(c)
    <3>1. Turns(k', k, c, y, k.timeout[c], k.pended_on[c], no, odd)
      BY <2>3, YieldEffect DEF Effect
    <3> HIDE DEF y, no, odd
    <3>2. QED
      BY <1>1, <2>1, <2>2, <3>1, PlainTimed
  <2>4. CASE z_tick_sleep(c)
    <3>1. Turns(k', k, c, z, yes, k.pended_on[c], no, no)
      BY <2>4, SleepEffect DEF Effect
    <3> HIDE DEF z, no, yes
    <3>2. QED
      BY <1>1, <2>1, <2>2, <3>1, PlainTimed
  <2>5. QED
    BY <1>2, <2>3, <2>4
<1>3. ASSUME NEW w \in Objs, (\E c \in Threads : WakeOne(c, w)) \/ IsrWakeOne(w) PROVE TimeoutsKept'
  <2>1. k.waitq[w] # <<>> /\ susp' = susp
    BY <1>3 DEF WakeOne, IsrWakeOne, SameGhosts
  <2>2. Closes(WakeFirst(k, w))
    <3>1. ASSUME NEW c \in Threads, WakeOne(c, w) PROVE Closes(WakeFirst(k, w))
      BY <3>1, WakeOneCloses
    <3>2. CASE IsrWakeOne(w)
      BY <3>2 DEF IsrWakeOne, Closes
    <3>3. QED
      BY <1>3, <3>1, <3>2
  <2>3. PICK t \in Threads :
           Effect(t, Readied(k.state[t] \ {"PENDING"}, FALSE), FALSE, NULL, TRUE, FALSE)
    BY <2>1, <2>2, WakeFirstEffect
  <2> DEFINE b == Readied(k.state[t] \ {"PENDING"}, no)
  <2>4. Turns(k', k, t, b, no, NULL, yes, no)
    BY <2>3 DEF Effect
  <2>5. "PENDING" \notin b
    BY DEF Readied
  <2> HIDE DEF b, no, yes
  <2>6. QED
    BY <1>1, <2>1, <2>4, <2>5, PlainTimed
<1>4. ASSUME NEW t \in Threads, IsrWakeup(t) PROVE TimeoutsKept'
  <2> DEFINE b == Readied(k.state[t] \ {"SUSPENDED"}, no)
  <2>1. Closes(ready_thread([z_abort_thread_timeout(k, t) EXCEPT !.state[t] = @ \ {"SUSPENDED"}], t))
    BY <1>4 DEF IsrWakeup, Closes
  <2>2. Turns(k', k, t, b, no, k.pended_on[t], no, no)
    BY <2>1, WakeupEffect DEF Effect
  <2>3. "PENDING" \notin b /\ susp' = susp \ {t}
    BY <1>4 DEF IsrWakeup, Readied
  <2> HIDE DEF b, no
  <2>4. QED
    BY <1>1, <2>2, <2>3, PlainTimed
<1>5. QED
  BY <1>2, <1>3, <1>4

(* Steps after which a thread waits as it did.                             *)
LEMMA WaitTimed ==
  ASSUME Core, TimeoutsKept, NEW t \in Threads,
         \/ \E c \in Threads : \/ z_sched_start(c, t) \/ thread_schedule_new(c, t)
                               \/ \E p \in Prios : k_thread_priority_set(c, t, p)
         \/ IsrSuspend(t)
  PROVE  TimeoutsKept'
<1> DEFINE no == FALSE
           yes == TRUE
           d == k.timeout[t]
           w == k.pended_on[t]
<1>1. Typed /\ call' = call /\ firing' = firing /\ finite' = finite /\ susp \subseteq susp'
  BY DEF Core, z_sched_start, thread_schedule_new, k_thread_priority_set, IsrSuspend, SameCalls,
         SameTick, SameGhosts
<1>2. ASSUME NEW c \in Threads, z_sched_start(c, t) PROVE TimeoutsKept'
  <2> DEFINE bit == "PRESTART"
             b == Readied(k.state[t] \ {bit}, d)
  <2>1. Running(c) /\ bit \in Preventing
        /\ z_reschedule(ready_thread([k EXCEPT !.state[t] = @ \ {bit}], t))
    BY <1>2 DEF z_sched_start, Starts, Preventing
  <2> HIDE DEF bit
  <2>2. Closes(ready_thread([k EXCEPT !.state[t] = @ \ {bit}], t))
    BY <2>1, ReleaseCloses
  <2>3. Turns(k', k, t, b, d, w, no, no)
    BY <2>1, <2>2, ReleaseEffect DEF Effect
  <2>4. "PENDING" \in b => "PENDING" \in k.state[t]
    BY DEF Readied
  <2> HIDE DEF b, no, w
  <2>5. QED
    BY <1>1, <2>3, <2>4, PlainTimed
<1>3. ASSUME NEW c \in Threads, thread_schedule_new(c, t) PROVE TimeoutsKept'
  <2>1. k' = [k EXCEPT !.timeout[t] = yes] /\ pendsv' = pendsv
    BY <1>3, CoreFacts DEF thread_schedule_new, Unlock, add_thread_timeout, KernelState
  <2>2. Turns(k', k, t, k.state[t], yes, w, no, no) /\ yes
    BY <2>1, TimeoutEffect DEF Effect
  <2> HIDE DEF yes, no, w
  <2>3. QED
    BY <1>1, <2>2, PlainTimed
<1>4. ASSUME NEW c \in Threads, NEW p \in Prios, k_thread_priority_set(c, t, p) PROVE TimeoutsKept'
  <2> DEFINE b == Readied(k.state[t], d)
  <2>1. yes
    OBVIOUS
  <2> HIDE DEF yes
  <2>2. Turns(k', k, t, b, d, w, no, yes)
    BY <1>4, <2>1, PrioEffect
  <2>3. "PENDING" \in b => "PENDING" \in k.state[t]
    BY DEF Readied
  <2> HIDE DEF b, no, w
  <2>4. QED
    BY <1>1, <2>2, <2>3, PlainTimed
<1>5. CASE IsrSuspend(t)
  <2> DEFINE b == (k.state[t] \cup {"SUSPENDED"}) \ {"QUEUED"}
  <2>1. Turns(k', k, t, b, no, w, no, no)
    BY <1>5, IsrSuspendEffect DEF Effect
  <2>2. t \in susp'
    BY <1>5 DEF IsrSuspend
  <2> HIDE DEF b, no, w
  <2>3. QED
    BY <1>1, <2>1, <2>2, PlainTimed
<1>6. QED
  BY <1>2, <1>3, <1>4, <1>5

(* A thread is aborted: it waits no more, nor do the threads joining it.   *)
LEMMA AbortTimed ==
  ASSUME Core, TimeoutsKept, NEW t \in Threads, (\E c \in Threads : z_thread_abort(c, t)) \/ IsrAbort(t)
  PROVE  TimeoutsKept'
<1>1. PICK m : Dies(m, k, t) /\ Ends(k', m)
  BY AbortEnds
<1>2. Typed /\ call' = call /\ firing' = firing /\ finite' = finite /\ susp' = susp
  BY DEF Core, z_thread_abort, IsrAbort, SameCalls, SameTick, SameGhosts
<1>3. \A u \in Threads : "PENDING" \in m.state[u] => m.state[u] = k.state[u] /\ m.timeout[u] = k.timeout[u]
  <2> SUFFICES ASSUME NEW u \in Threads, "PENDING" \in m.state[u]
               PROVE  m.state[u] = k.state[u] /\ m.timeout[u] = k.timeout[u]
    OBVIOUS
  <2>1. u # t
    BY <1>1 DEF Dies
  <2>2. u \notin Joining(k, t)
    <3> SUFFICES ASSUME u \in Joining(k, t) PROVE FALSE
      OBVIOUS
    <3>1. m.state[u] = Readied(k.state[u] \ {"PENDING"}, FALSE)
      BY <1>1 DEF Dies
    <3>2. QED
      BY <3>1 DEF Readied
  <2>3. QED
    BY <1>1, <2>1, <2>2 DEF Dies, Only
<1>4. \A u \in Threads : "PENDING" \in k'.state[u] => "PENDING" \in k.state[u] /\ k'.timeout[u] = k.timeout[u]
  BY <1>1, <1>3 DEF Ends
<1>5. QED
  BY <1>2, <1>4 DEF TimeoutsKept, Typed

(* Steps that change no thread, and the switch.                            *)
LEMMA AsideTimed ==
  ASSUME Core, TimeoutsKept,
         \/ PendSV \/ TickStart \/ AnnounceSlice \/ slice_timeout
         \/ \E c \in Threads : \/ k_sched_lock(c) \/ k_sched_unlock(c) \/ JoinReturns(c)
                               \/ \E on \in BOOLEAN : k_sched_time_slice_set(c, on)
  PROVE  TimeoutsKept'
<1> DEFINE no == FALSE
<1>1. Typed /\ k \in KernelState /\ finite \subseteq Threads /\ Main \in Threads
  BY CoreFacts, SchedAssumption DEF Core, Typed
<1>2. CASE PendSV \/ TickStart \/ AnnounceSlice \/ slice_timeout
  <2>1. k'.state = k.state /\ k'.timeout = k.timeout
    BY <1>1, <1>2 DEF PendSV, TickStart, AnnounceSlice, slice_timeout, KernelState
  <2>2. call' = call /\ finite' = finite /\ susp' = susp
    BY <1>2 DEF PendSV, TickStart, AnnounceSlice, slice_timeout, SameCalls, SameGhosts
  <2>3. \A t \in Threads : firing = t => firing' = t
    BY <1>2, ThreadFacts DEF PendSV, TickStart, AnnounceSlice, slice_timeout, SameTick
  <2>4. QED
    BY <1>1, <2>1, <2>2, <2>3, SameTimed DEF Halting
<1>3. ASSUME NEW c \in Threads, JoinReturns(c) PROVE TimeoutsKept'
  <2>1. /\ k' = k /\ finite' = finite /\ susp' = susp /\ firing' = firing
        /\ call' = [call EXCEPT ![c] = NoCall] /\ call[c].op # "suspend"
    BY <1>3 DEF JoinReturns, Continues, SameTick, SameGhosts
  <2>2. \A t \in Threads : Halting(call, t) => Halting(call', t)
    BY <1>1, <2>1, NoneHalting
  <2>3. QED
    BY <1>1, <2>1, <2>2, SameTimed
<1>4. ASSUME NEW c \in Threads, NEW on \in BOOLEAN,
             k_sched_lock(c) \/ k_sched_unlock(c) \/ k_sched_time_slice_set(c, on)
      PROVE  TimeoutsKept'
  <2>1. call' = call /\ firing' = firing /\ finite' = finite /\ susp' = susp
    BY <1>4 DEF k_sched_lock, k_sched_unlock, k_sched_time_slice_set, SameCalls, SameTick, SameGhosts
  <2>2. Effect(c, k.state[c], k.timeout[c], k.pended_on[c], no, no)
    <3> HIDE DEF no
    <3>1. QED
      BY <1>4, LockEffect, UnlockEffect, SliceSetEffect
  <2>3. Turns(k', k, c, k.state[c], k.timeout[c], k.pended_on[c], no, no)
    BY <2>2 DEF Effect
  <2> HIDE DEF no
  <2>4. QED
    BY <1>1, <2>1, <2>3, PlainTimed
<1>5. CASE \E c \in Threads : k_sched_lock(c) \/ k_sched_unlock(c)
  BY <1>4, <1>5
<1>6. QED
  BY <1>2, <1>3, <1>4, <1>5

(* The timer interrupt: a timeout that is unlinked is the one being fired, *)
(* and its callback ends the wait.                                         *)
LEMMA TimerTimed ==
  ASSUME Core, TimeoutsKept, z_thread_timeout \/ TickEnd \/ \E t \in Threads : AnnounceThread(t)
  PROVE  TimeoutsKept'
<1> DEFINE no == FALSE
<1>1. Typed /\ finite' = finite /\ susp' = susp /\ call' = call /\ finite' \subseteq Threads
  BY DEF Core, Typed, z_thread_timeout, TickEnd, AnnounceThread, SameCalls, SameGhosts
<1>2. \A u \in Threads : Halting(call, u) => Halting(call', u)
  BY <1>1 DEF Halting
<1>3. ASSUME NEW t \in Threads, AnnounceThread(t) PROVE TimeoutsKept'
  <2>1. k' = z_abort_thread_timeout(k, t) /\ pendsv' = pendsv /\ firing = NULL /\ firing' = t
    BY <1>3 DEF AnnounceThread
  <2>2. Turns(k', k, t, k.state[t], no, k.pended_on[t], no, no)
    BY <2>1, TimeoutEffect DEF z_abort_thread_timeout, Effect
  <2> HIDE DEF no
  <2>3. QED
    BY <1>1, <1>2, <2>1, <2>2, TurnTimed
<1>4. CASE z_thread_timeout
  <2> DEFINE t == firing
             b == Readied(k.state[t] \ {"PENDING", "PRESTART", "SUSPENDED"}, no)
  <2>1. t \in Threads /\ k' = z_sched_wake_thread(k, t, TRUE) /\ pendsv' = pendsv /\ ~k.timeout[t]
        /\ firing' = NULL
    BY <1>4 DEF z_thread_timeout, Core, Fires
  <2>2. CASE "DEAD" \in k.state[t]
    <3>1. k' = k /\ "PENDING" \notin k.state[t]
      BY <2>1, <2>2, CoreFacts DEF z_sched_wake_thread, Agree
    <3>2. QED
      BY <1>1, <2>1, <3>1 DEF TimeoutsKept
  <2>3. CASE "DEAD" \notin k.state[t]
    <3>1. Turns(k', k, t, b, no, NULL, no, no)
      BY <2>1, <2>3, FireEffect DEF Effect
    <3>2. "PENDING" \notin b
      BY DEF Readied
    <3> HIDE DEF b, no
    <3>3. QED
      BY <1>1, <1>2, <2>1, <3>1, <3>2, TurnTimed
  <2>4. QED
    BY <2>2, <2>3
<1>5. CASE TickEnd
  <2> DEFINE t == k.current
             b == k.state[t] \cup {"QUEUED"}
  <2>1. firing' = firing
    BY <1>5 DEF TickEnd
  <2>2. \/ Effect(Main, k.state[Main], k.timeout[Main], k.pended_on[Main], no, no)
        \/ t \in Threads /\ ~Held(k, t) /\ Effect(t, b, k.timeout[t], k.pended_on[t], no, no)
    BY <1>5, SliceEffect
  <2>3. CASE Effect(Main, k.state[Main], k.timeout[Main], k.pended_on[Main], no, no)
    <3>1. /\ Turns(k', k, Main, k.state[Main], k.timeout[Main], k.pended_on[Main], no, no)
          /\ Main \in Threads
      BY <2>3, SchedAssumption DEF Effect
    <3> HIDE DEF no
    <3>2. QED
      BY <1>1, <2>1, <3>1, PlainTimed
  <2>4. CASE t \in Threads /\ ~Held(k, t) /\ Effect(t, b, k.timeout[t], k.pended_on[t], no, no)
    <3>1. Turns(k', k, t, b, k.timeout[t], k.pended_on[t], no, no) /\ t \in Threads
      BY <2>4 DEF Effect
    <3>2. "PENDING" \in b => "PENDING" \in k.state[t]
      OBVIOUS
    <3> HIDE DEF no, b, t
    <3>3. QED
      BY <1>1, <2>1, <3>1, <3>2, PlainTimed
  <2>5. QED
    BY <2>2, <2>3, <2>4
<1>6. QED
  BY <1>3, <1>4, <1>5

LEMMA NextTimed ==
  ASSUME Core, Asked, TimeoutsKept, Unresumed, [Next]_vars
  PROVE  TimeoutsKept'
<1>1. ASSUME NEW c \in Threads, ThreadStep(c) PROVE TimeoutsKept'
  <2>1. ASSUME NEW t \in Threads, k_thread_resume(c, t) \/ k_wakeup_check(c, t) PROVE FALSE
    BY <2>1 DEF k_thread_resume, k_wakeup_check, Starts, Unresumed
  <2>2. ~k_wakeup_abort(c) /\ ~k_wakeup_look(c) /\ ~k_wakeup_ready(c)
    BY DEF k_wakeup_abort, k_wakeup_look, k_wakeup_ready, Continues, Asked, Unresumed
  <2>3. CASE \E w \in Objs, f \in BOOLEAN : z_pend_curr(c, w, f)
    BY <2>3, BlockTimed
  <2>4. ASSUME NEW t \in Threads, NEW f \in BOOLEAN, k_thread_join(c, t, f) PROVE TimeoutsKept'
    BY <2>4, BlockTimed
  <2>5. QED
    BY <1>1, <2>1, <2>2, <2>3, <2>4, WakeTimed, WaitTimed, SuspendTimed, AbortTimed, AsideTimed
       DEF ThreadStep
<1>2. ASSUME IsrStep PROVE TimeoutsKept'
  <2>1. ASSUME NEW t \in Threads, IsrResume(t) PROVE FALSE
    BY <2>1 DEF IsrResume, InISR, Unresumed
  <2>2. QED
    BY <1>2, <2>1, WakeTimed, WaitTimed, AbortTimed DEF IsrStep
<1>3. ASSUME UNCHANGED vars PROVE TimeoutsKept'
  BY <1>3 DEF vars, TimeoutsKept
<1>4. QED
  BY <1>1, <1>2, <1>3, AsideTimed, TimerTimed DEF Next, TimerStep

(* A wait with a finite timeout does not lose it: a pending thread that is *)
(* not suspended has its timeout linked or being fired, through wakes,     *)
(* timer interrupts, aborts and suspensions in any order (add_thread_      *)
(* timeout, z_unpend_thread, z_thread_timeout).                            *)
THEOREM SchedTimeoutsKept ==
  ASSUME Unresumed
  PROVE  Spec => []TimeoutsKept
<1>1. Init => Core /\ Asked /\ TimeoutsKept
  BY InitCore, InitSharp DEF Init, TimeoutsKept
<1>2. (Core /\ Asked /\ TimeoutsKept) /\ [Next]_vars => (Core /\ Asked /\ TimeoutsKept)'
  <2>1. Core => Typed
    BY DEF Core
  <2>2. QED
    BY <2>1, NextCore, AskedNext, NextTimed
<1>3. QED
  BY <1>1, <1>2, PTL DEF Spec
==============================================================================
