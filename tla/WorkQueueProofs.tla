--------------------------- MODULE WorkQueueProofs ---------------------------
(***************************************************************************)
(* Proofs about work queues, for any number of items, queues and clients.  *)
(***************************************************************************)
EXTENDS WorkQueue, SeqProofs

(* Item i is on the pending list of queue q.                               *)
On(s, i, q) == Contains(s.pending[q], i)

(* The inductive invariant, in parts about explicit values so that they    *)
(* can be stated of the states in between: the flags of items ...          *)
FlagsAgree(s) ==
  \A w \in Works :
    /\ ~Has(s, w, "FLUSHING")
    /\ Has(s, w, "DELAYED") => w \in Delayables
    /\ Has(s, w, "QUEUED") => s.queue[w] \in Queues
    /\ Has(s, w, "CANCELING") => Has(s, w, "RUNNING") /\ ~Has(s, w, "QUEUED")

(* ... the pending lists, ...                                              *)
ListsAgree(s) ==
  /\ \A q \in Queues : IsInjective(s.pending[q])
  /\ \A w \in Works, q \in Queues : On(s, w, q) <=> Has(s, w, "QUEUED") /\ s.queue[w] = q
  /\ \A c \in Clients, q \in Queues : On(s, c, q) => Has(s, c, "FLUSHING")

(* ... what holds of a queue with pending items: it was started, is not    *)
(* asleep, and is not closed, ...                                          *)
Open(s, q) ==
  "STARTED" \in s.qflags[q] /\ ("PLUGGED" \in s.qflags[q] => "DRAIN" \in s.qflags[q])
QueuesAgree(s) ==
  /\ \A q \in Queues : s.pending[q] # <<>> => Open(s, q) /\ q \notin s.notifyq
  /\ \A q \in s.notifyq : "DRAIN" \notin s.qflags[q]

(* ... the items being handled, ...                                        *)
ActiveAgree(s, a) ==
  /\ \A q1, q2 \in Queues : a[q1] # NULL /\ a[q1] = a[q2] => q1 = q2
  /\ \A i \in Items : Has(s, i, "RUNNING") <=> \E q \in Queues : a[q] = i
  /\ \A q \in Queues : /\ a[q] \in Works => s.queue[a[q]] = q
                       /\ a[q] \in Clients => Has(s, a[q], "FLUSHING")
                       /\ a[q] # NULL => Open(s, q)

(* ... the flushers: on one list or being handled, ...                     *)
FlushersAgree(s, a, p, sm) ==
  \A c \in Clients :
    /\ p[c] = "flush" /\ sm[c] = 0 <=> \E q \in Queues : On(s, c, q) \/ a[q] = c
    /\ \A q1, q2 \in Queues : On(s, c, q1) => (On(s, c, q2) => q1 = q2) /\ a[q2] # c

(* ... and the runs that are owed: the flusher of a queued run is behind   *)
(* the item on its list, that of a run going on is on the list of the      *)
(* queue that runs it.                                                     *)
Flushes(p, sm, tg, c) == p[c] = "flush" /\ sm[c] = 0 /\ tg[c] \in Works
OwedAgree(s, a, p, sm, tg, ow) ==
  \A c \in Clients :
    /\ "queued" \in ow[c] =>
         /\ Flushes(p, sm, tg, c) /\ Has(s, tg[c], "QUEUED")
         /\ Ahead(s.pending[s.queue[tg[c]]], tg[c], c)
    /\ "running" \in ow[c] =>
         \/ p[c] = "cancel" /\ sm[c] = 0
         \/ Flushes(p, sm, tg, c) /\ \E q \in Queues : a[q] = tg[c] /\ On(s, c, q)

Good(s, a, p, sm, tg, ow) ==
  /\ s \in WorkState /\ FlagsAgree(s) /\ ListsAgree(s) /\ QueuesAgree(s)
  /\ ActiveAgree(s, a) /\ FlushersAgree(s, a, p, sm) /\ OwedAgree(s, a, p, sm, tg, ow)

-----------------------------------------------------------------------------
(* Changes of flags.                                                       *)

LEMMA Disjoint ==
  /\ \A w \in Works : w \in Items /\ w # NULL /\ w \notin Clients
  /\ \A c \in Clients : c \in Items /\ c # NULL /\ c \notin Works
  /\ \A q \in Queues : q # NULL
BY WorkAssumption DEF Items

(* Steps that leave lists alone, and the flags that the lists depend on.   *)
LEMMA FlagsFrame ==
  ASSUME NEW s, NEW n, NEW a, NEW p, NEW sm, NEW tg, NEW ow, Good(s, a, p, sm, tg, ow),
         n \in WorkState, FlagsAgree(n),
         n.pending = s.pending, n.queue = s.queue, n.qflags = s.qflags, n.notifyq = s.notifyq,
         \A i \in Items, f \in {"QUEUED", "RUNNING", "FLUSHING"} :
            f \in n.flags[i] <=> f \in s.flags[i]
  PROVE  Good(n, a, p, sm, tg, ow)
<1>1. \A i \in Items : /\ Has(n, i, "QUEUED") <=> Has(s, i, "QUEUED")
                       /\ Has(n, i, "RUNNING") <=> Has(s, i, "RUNNING")
                       /\ Has(n, i, "FLUSHING") <=> Has(s, i, "FLUSHING")
  BY DEF Has
<1>2. \A i, q : On(n, i, q) <=> On(s, i, q)
  BY DEF On
<1>3. ListsAgree(n)
  BY <1>1, <1>2, Disjoint DEF Good, ListsAgree
<1>4. QueuesAgree(n)
  BY DEF Good, QueuesAgree, Open
<1>5. ActiveAgree(n, a)
  BY <1>1, Disjoint DEF Good, ActiveAgree, Open
<1>6. FlushersAgree(n, a, p, sm)
  BY <1>2 DEF Good, FlushersAgree
<1>7. OwedAgree(n, a, p, sm, tg, ow)
  BY <1>1, <1>2, Disjoint DEF Good, OwedAgree, Flushes
<1>8. QED
  BY <1>3, <1>4, <1>5, <1>6, <1>7 DEF Good

(* unschedule_locked.                                                      *)
LEMMA UnscheduleKeeps ==
  ASSUME NEW s, NEW a, NEW p, NEW sm, NEW tg, NEW ow, Good(s, a, p, sm, tg, ow),
         NEW w \in Delayables
  PROVE  /\ Good(unschedule_locked(s, w), a, p, sm, tg, ow)
         /\ ~Has(unschedule_locked(s, w), w, "DELAYED")
<1> DEFINE n == unschedule_locked(s, w)
<1>0. s \in WorkState /\ w \in Works /\ w \in Items
  BY WorkAssumption DEF Good, Items
<1>1. CASE ~Has(s, w, "DELAYED")
  BY <1>1 DEF unschedule_locked
<1>2. CASE Has(s, w, "DELAYED")
  <2>1. n = [s EXCEPT !.flags[w] = @ \ {"DELAYED"}, !.linked = @ \ {w}]
    BY <1>2 DEF unschedule_locked
  <2> HIDE DEF n
  <2>2. /\ n \in WorkState /\ n.flags = [s.flags EXCEPT ![w] = @ \ {"DELAYED"}]
        /\ n.pending = s.pending /\ n.queue = s.queue /\ n.qflags = s.qflags
        /\ n.notifyq = s.notifyq
    BY <1>0, <2>1 DEF WorkState
  <2>3. /\ n.flags[w] = s.flags[w] \ {"DELAYED"}
        /\ \A i \in Items : i # w => n.flags[i] = s.flags[i]
    BY <1>0, <2>2 DEF WorkState
  <2>4. FlagsAgree(n)
    BY <2>2, <2>3, Disjoint DEF Good, FlagsAgree, Has
  <2>5. \A i \in Items, f \in {"QUEUED", "RUNNING", "FLUSHING"} :
          f \in n.flags[i] <=> f \in s.flags[i]
    BY <2>3
  <2>6. Good(n, a, p, sm, tg, ow)
    BY <2>2, <2>4, <2>5, FlagsFrame
  <2>7. QED
    BY <2>3, <2>6 DEF n, Has
<1>3. QED
  BY <1>1, <1>2

(* The delay branch of schedule_for_queue_locked.                          *)
LEMMA DelayKeeps ==
  ASSUME NEW s, NEW a, NEW p, NEW sm, NEW tg, NEW ow, Good(s, a, p, sm, tg, ow),
         NEW w \in Delayables, NEW q \in Asked, NEW by
  PROVE  Good(schedule_for_queue_locked(s, w, q, TRUE, by), a, p, sm, tg, ow)
<1> DEFINE n == schedule_for_queue_locked(s, w, q, TRUE, by)
<1>0. s \in WorkState /\ w \in Works /\ w \in Items
  BY WorkAssumption DEF Good, Items
<1>1. n = [s EXCEPT !.flags[w] = @ \cup {"DELAYED"}, !.dqueue[w] = q,
                    !.linked = @ \cup {w}, !.relinked = @ \/ w \in s.linked]
  BY DEF schedule_for_queue_locked
<1> HIDE DEF n
<1>2. /\ n.flags = [s.flags EXCEPT ![w] = @ \cup {"DELAYED"}]
      /\ n.pending = s.pending /\ n.queue = s.queue /\ n.qflags = s.qflags
      /\ n.notifyq = s.notifyq
  BY <1>0, <1>1 DEF WorkState
<1>3. n \in WorkState
  <2> DEFINE again == s.relinked \/ w \in s.linked
  <2>1. "DELAYED" \in WorkFlags /\ again \in BOOLEAN
    BY DEF WorkFlags
  <2>2. n = [s EXCEPT !.flags[w] = @ \cup {"DELAYED"}, !.dqueue[w] = q,
                      !.linked = @ \cup {w}, !.relinked = again]
    BY <1>0, <1>1 DEF WorkState
  <2> HIDE DEF again
  <2>3. QED
    BY <1>0, <2>1, <2>2, ZenonT(40) DEF WorkState, Asked
<1>4. /\ n.flags[w] = s.flags[w] \cup {"DELAYED"}
      /\ \A i \in Items : i # w => n.flags[i] = s.flags[i]
  BY <1>0, <1>2 DEF WorkState
<1>5. FlagsAgree(n)
  BY <1>2, <1>4, Disjoint DEF Good, FlagsAgree, Has
<1>6. \A i \in Items, f \in {"QUEUED", "RUNNING", "FLUSHING"} :
        f \in n.flags[i] <=> f \in s.flags[i]
  BY <1>4
<1>7. QED
  BY <1>2, <1>3, <1>5, <1>6, FlagsFrame DEF n

-----------------------------------------------------------------------------
(* Submitting.  n is s with w at the end of the list of q, which is woken. *)
Enqueued(n, s, w, q) ==
  /\ n \in WorkState /\ q \in Queues /\ Open(s, q)
  /\ ~Has(s, w, "QUEUED") /\ ~Has(s, w, "CANCELING")
  /\ Has(s, w, "RUNNING") => q = s.queue[w]
  /\ n.flags = [s.flags EXCEPT ![w] = @ \cup {"QUEUED"}]
  /\ n.queue = [s.queue EXCEPT ![w] = q]
  /\ n.pending = [s.pending EXCEPT ![q] = Append(@, w)]
  /\ n.qflags = s.qflags /\ n.notifyq = s.notifyq \ {q}
  /\ n.linked = s.linked /\ n.relinked = s.relinked

LEMMA SubmitSpec ==
  ASSUME NEW s \in WorkState, NEW w \in Works, NEW asked \in Asked, NEW by,
         NEW n, n = submit_to_queue_locked(s, w, asked, by), n # s
  PROVE  \E q \in Queues : Enqueued(n, s, w, q)
<1> DEFINE q == IF asked = NULL \/ Has(s, w, "RUNNING") THEN s.queue[w] ELSE asked
<1>1. /\ ~Has(s, w, "CANCELING") /\ ~Has(s, w, "QUEUED") /\ Accepts(s, q, by)
      /\ n = notify_queue_locked([s EXCEPT !.pending[q] = Append(@, w),
               !.flags[w] = @ \cup {"QUEUED"}, !.queue[w] = q], q)
  BY DEF submit_to_queue_locked
<1>2. q \in Queues
  BY <1>1 DEF Accepts, WorkState, Asked
<1>3. Has(s, w, "RUNNING") => q = s.queue[w]
  OBVIOUS
<1> HIDE DEF q
<1>4. Open(s, q)
  BY <1>1 DEF Accepts, Open
<1>5. /\ w \in Items /\ s.pending[q] \in Seq(Items) /\ "QUEUED" \in WorkFlags
      /\ Append(s.pending[q], w) \in Seq(Items)
  BY <1>2, Disjoint DEF WorkState, WorkFlags
<1>6. n = [s EXCEPT !.pending[q] = Append(@, w), !.flags[w] = @ \cup {"QUEUED"},
                    !.queue[w] = q, !.notifyq = @ \ {q}]
  BY <1>1, <1>2 DEF notify_queue_locked, WorkState
<1>7. n \in WorkState
  <2> DEFINE new == Append(s.pending[q], w)
             f == s.flags[w] \cup {"QUEUED"}
  <2>1. n = [s EXCEPT !.pending[q] = new, !.flags[w] = f, !.queue[w] = q, !.notifyq = @ \ {q}]
    BY <1>2, <1>5, <1>6 DEF WorkState
  <2>2. new \in Seq(Items) /\ f \in SUBSET WorkFlags
    BY <1>5 DEF WorkState
  <2>3. w \in Items /\ s.notifyq \ {q} \in SUBSET Queues
    BY <1>5 DEF WorkState
  <2> HIDE DEF new, f
  <2>4. /\ [s.flags EXCEPT ![w] = f] \in [Items -> SUBSET WorkFlags]
        /\ [s.pending EXCEPT ![q] = new] \in [Queues -> Seq(Items)]
        /\ [s.queue EXCEPT ![w] = q] \in [Works -> Queues \cup {NULL}]
    BY <1>2, <2>2, <2>3 DEF WorkState
  <2>5. QED
    BY <2>1, <2>3, <2>4 DEF WorkState
<1>8. /\ n.flags = [s.flags EXCEPT ![w] = @ \cup {"QUEUED"}]
      /\ n.queue = [s.queue EXCEPT ![w] = q]
      /\ n.pending = [s.pending EXCEPT ![q] = Append(@, w)]
      /\ n.qflags = s.qflags /\ n.notifyq = s.notifyq \ {q}
      /\ n.linked = s.linked /\ n.relinked = s.relinked
  BY <1>2, <1>6 DEF WorkState
<1>9. QED
  BY <1>1, <1>2, <1>3, <1>4, <1>7, <1>8 DEF Enqueued

LEMMA EnqueuedKeeps ==
  ASSUME NEW s, NEW a, NEW p, NEW sm, NEW tg, NEW ow, Good(s, a, p, sm, tg, ow),
         NEW w \in Works, NEW q \in Queues, NEW n, Enqueued(n, s, w, q)
  PROVE  Good(n, a, p, sm, tg, ow)
<1>0. s \in WorkState /\ n \in WorkState /\ w \in Items /\ s.pending[q] \in Seq(Items)
  BY Disjoint DEF Good, Enqueued, WorkState
<1>1. ~Has(s, w, "QUEUED") /\ ~Has(s, w, "CANCELING") /\ ~On(s, w, q)
  BY DEF Enqueued, Good, ListsAgree
<1>2. /\ \A i \in Items, f \in WorkFlags :
           Has(n, i, f) <=> Has(s, i, f) \/ (i = w /\ f = "QUEUED")
      /\ Has(n, w, "QUEUED")
  BY <1>0 DEF Enqueued, WorkState, Has
<1>3. n.queue[w] = q /\ \A v \in Works : v # w => n.queue[v] = s.queue[v]
  BY <1>0 DEF Enqueued, WorkState
<1>4. /\ n.pending[q] = Append(s.pending[q], w)
      /\ \A r \in Queues : r # q => n.pending[r] = s.pending[r]
  BY <1>0 DEF Enqueued, WorkState
<1>5. /\ \A x : Contains(n.pending[q], x) <=> Contains(s.pending[q], x) \/ x = w
      /\ IsInjective(s.pending[q]) => IsInjective(n.pending[q])
      /\ \A x, y : Ahead(s.pending[q], x, y) => Ahead(n.pending[q], x, y)
      /\ n.pending[q] # <<>>
  <2>1. n.pending[q] \in Seq(Items) /\ Inserted(n.pending[q], s.pending[q], w, Len(s.pending[q]) + 1)
    BY <1>0, <1>4, AppendFacts
  <2>2. ~Contains(s.pending[q], w)
    BY <1>1 DEF On
  <2>3. QED
    BY <1>0, <2>1, <2>2, InsertedFacts
<1>6. \A i, r \in Queues \cup Items : r \in Queues => (On(n, i, r) <=> On(s, i, r) \/ (i = w /\ r = q))
  BY <1>4, <1>5 DEF On
<1>7. \A x, y, r \in Queues \cup Items :
        r \in Queues /\ Ahead(s.pending[r], x, y) => Ahead(n.pending[r], x, y)
  BY <1>4, <1>5
<1>f. {"QUEUED", "RUNNING", "FLUSHING", "CANCELING", "DELAYED"} \subseteq WorkFlags
  BY DEF WorkFlags
<1>8. FlagsAgree(n)
  BY <1>1, <1>2, <1>3, <1>f, Disjoint DEF Good, FlagsAgree
<1>9. ListsAgree(n)
  <2>1. \A r \in Queues : IsInjective(n.pending[r])
    BY <1>4, <1>5 DEF Good, ListsAgree
  <2>2. ASSUME NEW v \in Works, NEW r \in Queues
        PROVE  On(n, v, r) <=> Has(n, v, "QUEUED") /\ n.queue[v] = r
    BY <1>1, <1>2, <1>3, <1>6, <1>f, Disjoint DEF Good, ListsAgree
  <2>3. ASSUME NEW c \in Clients, NEW r \in Queues
        PROVE  On(n, c, r) => Has(n, c, "FLUSHING")
    BY <1>2, <1>6, <1>f, Disjoint DEF Good, ListsAgree
  <2>4. QED
    BY <2>1, <2>2, <2>3 DEF ListsAgree
<1>10. \A r \in Queues : Open(n, r) <=> Open(s, r)
  BY DEF Open, Enqueued
<1>11. QueuesAgree(n)
  BY <1>4, <1>10 DEF Good, QueuesAgree, Enqueued
<1>12. ActiveAgree(n, a)
  <2>1. ASSUME NEW r \in Queues, a[r] \in Works PROVE n.queue[a[r]] = r
    <3>1. s.queue[a[r]] = r /\ Has(s, a[r], "RUNNING")
      BY <2>1, Disjoint DEF Good, ActiveAgree
    <3>2. QED
      BY <1>3, <2>1, <3>1 DEF Enqueued
  <2>2. \A i \in Items : Has(n, i, "RUNNING") <=> Has(s, i, "RUNNING")
    BY <1>2, <1>f
  <2>3. \A i \in Items : Has(n, i, "FLUSHING") <=> Has(s, i, "FLUSHING")
    BY <1>2, <1>f
  <2>4. QED
    BY <1>10, <2>1, <2>2, <2>3, Disjoint DEF Good, ActiveAgree
<1>13. FlushersAgree(n, a, p, sm)
  <2>1. \A c \in Clients, r \in Queues : On(n, c, r) <=> On(s, c, r)
    BY <1>6, Disjoint
  <2>2. QED
    BY <2>1 DEF Good, FlushersAgree
<1>14. OwedAgree(n, a, p, sm, tg, ow)
  <2>1. ASSUME NEW c \in Clients, "queued" \in ow[c]
        PROVE  /\ Flushes(p, sm, tg, c) /\ Has(n, tg[c], "QUEUED")
               /\ Ahead(n.pending[n.queue[tg[c]]], tg[c], c)
    <3>1. /\ Flushes(p, sm, tg, c) /\ Has(s, tg[c], "QUEUED") /\ tg[c] \in Works
          /\ Ahead(s.pending[s.queue[tg[c]]], tg[c], c)
      BY <2>1 DEF Good, OwedAgree, Flushes
    <3>2. tg[c] # w /\ s.queue[tg[c]] \in Queues
      BY <1>1, <3>1 DEF Good, FlagsAgree
    <3>3. QED
      BY <1>2, <1>3, <1>7, <1>f, <3>1, <3>2, Disjoint
  <2>2. ASSUME NEW c \in Clients, NEW r \in Queues, On(s, c, r) PROVE On(n, c, r)
    BY <1>6, <2>2, Disjoint
  <2>3. QED
    BY <2>1, <2>2 DEF Good, OwedAgree
<1>15. QED
  BY <1>0, <1>8, <1>9, <1>11, <1>12, <1>13, <1>14 DEF Good

LEMMA SubmitKeeps ==
  ASSUME NEW s, NEW a, NEW p, NEW sm, NEW tg, NEW ow, Good(s, a, p, sm, tg, ow),
         NEW w \in Works, NEW asked \in Asked, NEW by
  PROVE  Good(submit_to_queue_locked(s, w, asked, by), a, p, sm, tg, ow)
<1> DEFINE n == submit_to_queue_locked(s, w, asked, by)
<1>1. CASE n = s
  BY <1>1
<1>2. CASE n # s
  <2> HIDE DEF n
  <2>1. PICK q \in Queues : Enqueued(n, s, w, q)
    BY <1>2, SubmitSpec DEF n, Good
  <2>2. QED
    BY <2>1, EnqueuedKeeps DEF n
<1>3. QED
  BY <1>1, <1>2

-----------------------------------------------------------------------------
(* Cancelling.                                                             *)

(* Owing less is as good.                                                  *)
LEMMA OwedLess ==
  ASSUME NEW s, NEW a, NEW p, NEW sm, NEW tg, NEW ow, Good(s, a, p, sm, tg, ow),
         NEW less, \A c \in Clients : less[c] \subseteq ow[c]
  PROVE  Good(s, a, p, sm, tg, less)
BY DEF Good, OwedAgree

(* queue_remove_locked: the run that was queued is owed to nobody then.    *)
LEMMA RemoveKeeps ==
  ASSUME NEW s, NEW a, NEW p, NEW sm, NEW tg, NEW ow, Good(s, a, p, sm, tg, ow),
         NEW w \in Works, \A c \in Clients : tg[c] = w => "queued" \notin ow[c]
  PROVE  LET n == queue_remove_locked(s, w)
         IN  /\ Good(n, a, p, sm, tg, ow)
             /\ n.flags[w] = s.flags[w] \ {"QUEUED"}
             /\ n.linked = s.linked /\ n.relinked = s.relinked
             /\ \A i \in Items : i # w => n.flags[i] = s.flags[i]
<1> DEFINE n == queue_remove_locked(s, w)
<1>0. s \in WorkState /\ w \in Items
  BY Disjoint DEF Good
<1>1. CASE ~Has(s, w, "QUEUED")
  BY <1>1 DEF queue_remove_locked, Has
<1>2. CASE Has(s, w, "QUEUED")
  <2> DEFINE q == s.queue[w]
             new == RemoveFirst(s.pending[q], w)
  <2>1. q \in Queues /\ s.pending[q] \in Seq(Items) /\ IsInjective(s.pending[q])
    BY <1>0, <1>2 DEF Good, FlagsAgree, ListsAgree, WorkState
  <2>2. n = [s EXCEPT !.flags[w] = @ \ {"QUEUED"}, !.pending[q] = new]
    BY <1>0, <1>2, <2>1 DEF queue_remove_locked, WorkState
  <2>3. /\ new \in Seq(Items) /\ IsInjective(new)
        /\ \A x : Contains(new, x) <=> Contains(s.pending[q], x) /\ x # w
        /\ \A x, y : Ahead(s.pending[q], x, y) /\ x # w /\ y # w => Ahead(new, x, y)
    BY <2>1, RemoveFirstFacts
  <2> HIDE DEF n, new
  <2>4. n \in WorkState
    BY <1>0, <2>1, <2>2, <2>3 DEF WorkState
  <2>5. /\ n.flags = [s.flags EXCEPT ![w] = @ \ {"QUEUED"}]
        /\ n.pending = [s.pending EXCEPT ![q] = new]
        /\ n.queue = s.queue /\ n.qflags = s.qflags /\ n.notifyq = s.notifyq
        /\ n.linked = s.linked /\ n.relinked = s.relinked
    BY <1>0, <2>2 DEF WorkState
  <2>6. /\ n.flags[w] = s.flags[w] \ {"QUEUED"}
        /\ \A i \in Items : i # w => n.flags[i] = s.flags[i]
    BY <1>0, <2>5 DEF WorkState
  <2>7. \A i \in Items, f \in WorkFlags : Has(n, i, f) <=> Has(s, i, f) /\ ~(i = w /\ f = "QUEUED")
    BY <2>6 DEF Has
  <2>8. n.pending[q] = new /\ \A r \in Queues : r # q => n.pending[r] = s.pending[r]
    BY <1>0, <2>1, <2>5 DEF WorkState
  <2>9. ASSUME NEW i \in Items, NEW r \in Queues
        PROVE  On(n, i, r) <=> On(s, i, r) /\ i # w
    <3>1. r # q => ~On(s, w, r)
      BY DEF Good, ListsAgree
    <3>2. QED
      BY <2>3, <2>8, <3>1 DEF On
  <2>10. \A r \in Queues, x, y \in Items :
           Ahead(s.pending[r], x, y) /\ x # w /\ y # w => Ahead(n.pending[r], x, y)
    BY <2>3, <2>8
  <2> HIDE DEF q
  <2>f. {"QUEUED", "RUNNING", "FLUSHING", "CANCELING", "DELAYED"} \subseteq WorkFlags
    BY DEF WorkFlags
  <2>11. FlagsAgree(n)
    BY <2>5, <2>7, <2>f, Disjoint DEF Good, FlagsAgree
  <2>12. ListsAgree(n)
    <3>1. \A r \in Queues : IsInjective(n.pending[r])
      BY <2>3, <2>8 DEF Good, ListsAgree
    <3>2. ASSUME NEW v \in Works, NEW r \in Queues
          PROVE  On(n, v, r) <=> Has(n, v, "QUEUED") /\ n.queue[v] = r
      BY <2>5, <2>7, <2>9, <2>f, Disjoint DEF Good, ListsAgree
    <3>3. ASSUME NEW c \in Clients, NEW r \in Queues
          PROVE  On(n, c, r) => Has(n, c, "FLUSHING")
      BY <2>7, <2>9, <2>f, Disjoint DEF Good, ListsAgree
    <3>4. QED
      BY <3>1, <3>2, <3>3 DEF ListsAgree
  <2>13. \A r \in Queues : Open(n, r) <=> Open(s, r)
    BY <2>5 DEF Open
  <2>14. QueuesAgree(n)
    <3>1. s.pending[q] # <<>>
      BY <1>0, <1>2, <2>1, NoneContained DEF Good, ListsAgree, On, q
    <3>2. QED
      BY <2>5, <2>8, <2>13, <3>1 DEF Good, QueuesAgree
  <2>15. ActiveAgree(n, a)
    <3>1. \A i \in Items : /\ Has(n, i, "RUNNING") <=> Has(s, i, "RUNNING")
                           /\ Has(n, i, "FLUSHING") <=> Has(s, i, "FLUSHING")
      BY <2>7, <2>f
    <3>2. QED
      BY <2>5, <2>13, <3>1, Disjoint DEF Good, ActiveAgree
  <2>16. \A c \in Clients, r \in Queues : On(n, c, r) <=> On(s, c, r)
    BY <2>9, Disjoint
  <2>17. FlushersAgree(n, a, p, sm)
    BY <2>16 DEF Good, FlushersAgree
  <2>18. OwedAgree(n, a, p, sm, tg, ow)
    <3>1. ASSUME NEW c \in Clients, "queued" \in ow[c]
          PROVE  /\ Flushes(p, sm, tg, c) /\ Has(n, tg[c], "QUEUED")
                 /\ Ahead(n.pending[n.queue[tg[c]]], tg[c], c)
      <4>1. /\ Flushes(p, sm, tg, c) /\ Has(s, tg[c], "QUEUED") /\ tg[c] \in Works /\ tg[c] # w
            /\ Ahead(s.pending[s.queue[tg[c]]], tg[c], c)
        BY <3>1 DEF Good, OwedAgree, Flushes
      <4>2. s.queue[tg[c]] \in Queues
        BY <4>1 DEF Good, FlagsAgree
      <4>3. QED
        BY <2>5, <2>7, <2>10, <2>f, <4>1, <4>2, Disjoint
    <3>2. QED
      BY <2>16, <3>1 DEF Good, OwedAgree
  <2>19. Good(n, a, p, sm, tg, ow)
    BY <2>4, <2>11, <2>12, <2>14, <2>15, <2>17, <2>18 DEF Good
  <2>20. QED
    BY <2>5, <2>6, <2>19 DEF n
<1>3. QED
  BY <1>1, <1>2

(* cancel_async_locked of an item that is not delayed (any more).          *)
LEMMA CancelKeeps ==
  ASSUME NEW s, NEW a, NEW p, NEW sm, NEW tg, NEW ow, Good(s, a, p, sm, tg, ow),
         NEW w \in Works, ~Has(s, w, "DELAYED"), NEW less,
         \A c \in Clients : less[c] \subseteq ow[c],
         \A c \in Clients : tg[c] = w /\ ~Has(s, w, "CANCELING") => "queued" \notin less[c]
  PROVE  /\ Good(cancel_async_locked(s, w), a, p, sm, tg, less)
         /\ cancel_async_locked(s, w).linked = s.linked
         /\ cancel_async_locked(s, w).relinked = s.relinked
         /\ \A i \in Items : /\ Has(cancel_async_locked(s, w), i, "DELAYED") <=> Has(s, i, "DELAYED")
                             /\ Has(s, i, "CANCELING") => Has(cancel_async_locked(s, w), i, "CANCELING")
<1> DEFINE out == IF Has(s, w, "CANCELING") THEN s ELSE queue_remove_locked(s, w)
           n == cancel_async_locked(s, w)
<1>0. s \in WorkState /\ w \in Items /\ Good(s, a, p, sm, tg, less)
  BY Disjoint, OwedLess DEF Good
<1>1. /\ Good(out, a, p, sm, tg, less) /\ out.linked = s.linked /\ out.relinked = s.relinked
      /\ \A i \in Items : i # w => out.flags[i] = s.flags[i]
      /\ out.flags[w] = IF Has(s, w, "CANCELING") THEN s.flags[w] ELSE s.flags[w] \ {"QUEUED"}
  <2>1. CASE Has(s, w, "CANCELING")
    BY <1>0, <2>1
  <2>2. CASE ~Has(s, w, "CANCELING")
    <3>1. \A c \in Clients : tg[c] = w => "queued" \notin less[c]
      BY <2>2
    <3>2. QED
      BY <1>0, <2>2, <3>1, RemoveKeeps
  <2>3. QED
    BY <2>1, <2>2
<1>2. n = IF out.flags[w] # {} THEN [out EXCEPT !.flags[w] = @ \cup {"CANCELING"}] ELSE out
  BY DEF cancel_async_locked, Busy
<1> HIDE DEF out, n
<1>3. out \in WorkState
  BY <1>1 DEF Good
<1>4. CASE out.flags[w] = {}
  BY <1>1, <1>2, <1>4 DEF n, Has
<1>5. CASE out.flags[w] # {}
  <2>1. n = [out EXCEPT !.flags[w] = @ \cup {"CANCELING"}]
    BY <1>2, <1>5
  <2>2. /\ n \in WorkState /\ n.pending = out.pending /\ n.queue = out.queue
        /\ n.qflags = out.qflags /\ n.notifyq = out.notifyq
        /\ n.flags = [out.flags EXCEPT ![w] = @ \cup {"CANCELING"}]
        /\ n.linked = out.linked /\ n.relinked = out.relinked
    <3>1. "CANCELING" \in WorkFlags
      BY DEF WorkFlags
    <3>2. QED
      BY <1>0, <1>3, <2>1, <3>1, ZenonT(40) DEF WorkState
  <2>3. /\ n.flags[w] = out.flags[w] \cup {"CANCELING"}
        /\ \A i \in Items : i # w => n.flags[i] = out.flags[i]
    BY <1>0, <1>3, <2>2 DEF WorkState
  <2>4. Has(out, w, "RUNNING") /\ ~Has(out, w, "QUEUED")
    <3>1. CASE Has(s, w, "CANCELING")
      BY <1>1, <3>1 DEF Good, FlagsAgree, Has
    <3>2. CASE ~Has(s, w, "CANCELING")
      <4>1. ~Has(s, w, "FLUSHING") /\ s.flags[w] \subseteq WorkFlags
        BY <1>0 DEF Good, FlagsAgree, WorkState
      <4>2. QED
        BY <1>1, <1>5, <3>2, <4>1 DEF Has, WorkFlags
    <3>3. QED
      BY <3>1, <3>2
  <2>5. FlagsAgree(n)
    BY <1>1, <2>2, <2>3, <2>4, Disjoint DEF Good, FlagsAgree, Has
  <2>6. \A i \in Items, f \in {"QUEUED", "RUNNING", "FLUSHING"} :
          f \in n.flags[i] <=> f \in out.flags[i]
    BY <2>3
  <2>7. Good(n, a, p, sm, tg, less)
    BY <1>1, <2>2, <2>5, <2>6, FlagsFrame
  <2>8. \A i \in Items : /\ Has(n, i, "DELAYED") <=> Has(s, i, "DELAYED")
                         /\ Has(s, i, "CANCELING") => Has(n, i, "CANCELING")
    BY <1>1, <2>3 DEF Has
  <2>9. QED
    BY <1>1, <2>2, <2>7, <2>8 DEF n
<1>6. QED
  BY <1>4, <1>5

(* k_work_cancel and k_work_cancel_delayable.                              *)
LEMMA CancelAsyncKeeps ==
  ASSUME Good(wk, active, pc, sem, target, owed), NEW w \in Works
  PROVE  Good(CancelAsync(wk, w), active, pc, sem, target, ForgivenByCancel(w))
<1> DEFINE out == IF w \in Delayables THEN unschedule_locked(wk, w) ELSE wk
           less == ForgivenByCancel(w)
<1>1. Good(out, active, pc, sem, target, owed) /\ ~Has(out, w, "DELAYED")
  BY UnscheduleKeeps DEF Good, FlagsAgree
<1>2. Has(out, w, "CANCELING") <=> Has(wk, w, "CANCELING")
  <2>1. wk \in WorkState /\ w \in Items
    BY Disjoint DEF Good
  <2>2. CASE w \in Delayables /\ Has(wk, w, "DELAYED")
    <3>1. out = [wk EXCEPT !.flags[w] = @ \ {"DELAYED"}, !.linked = @ \ {w}]
      BY <2>2 DEF unschedule_locked
    <3>2. out.flags[w] = wk.flags[w] \ {"DELAYED"}
      BY <2>1, <3>1 DEF WorkState
    <3>3. QED
      BY <3>2 DEF Has
  <2>3. CASE ~(w \in Delayables /\ Has(wk, w, "DELAYED"))
    BY <2>3 DEF unschedule_locked
  <2>4. QED
    BY <2>2, <2>3
<1>3. CancelAsync(wk, w) = cancel_async_locked(out, w)
  BY DEF CancelAsync
<1> HIDE DEF out
<1>4. /\ \A c \in Clients : less[c] \subseteq owed[c]
      /\ \A c \in Clients : target[c] = w /\ ~Has(wk, w, "CANCELING") => "queued" \notin less[c]
  BY DEF ForgivenByCancel, Forgiven
<1> HIDE DEF less
<1>5. Good(cancel_async_locked(out, w), active, pc, sem, target, less)
  BY <1>1, <1>2, <1>4, CancelKeeps
<1>6. QED
  BY <1>3, <1>5 DEF less

-----------------------------------------------------------------------------
(* Flushing: client c, which was idle, is put on the list behind w, or to  *)
(* the front of the queue that runs w.                                     *)
LEMMA FlushKeeps ==
  ASSUME NEW s, NEW a, NEW p, NEW sm, NEW tg, NEW ow, Good(s, a, p, sm, tg, ow),
         NEW w \in Works, NEW c \in Clients, p[c] = "idle", NeedsFlush(s, w),
         NEW p2, NEW sm2, NEW tg2, NEW ow2,
         p2[c] = "flush" /\ sm2[c] = 0 /\ tg2[c] = w /\ ow2[c] = RunsOf(s, w),
         \A d \in Clients : d # c => /\ p2[d] = p[d] /\ sm2[d] = sm[d]
                                     /\ tg2[d] = tg[d] /\ ow2[d] = ow[d]
  PROVE  /\ Good(work_flush_locked(s, w, c), a, p2, sm2, tg2, ow2)
         /\ work_flush_locked(s, w, c).linked = s.linked
         /\ work_flush_locked(s, w, c).relinked = s.relinked
         /\ \A i \in Works : work_flush_locked(s, w, c).flags[i] = s.flags[i]
<1> DEFINE n == work_flush_locked(s, w, c)
           q == s.queue[w]
           at == Place(s.pending[q], w)
           new == InsertAt(s.pending[q], at + 1, c)
<1>0. s \in WorkState /\ w \in Items /\ c \in Items /\ c # w
  BY Disjoint DEF Good
<1>1. q \in Queues
  <2>1. CASE Has(s, w, "QUEUED")
    BY <2>1 DEF Good, FlagsAgree
  <2>2. CASE Has(s, w, "RUNNING")
    <3>1. PICK r \in Queues : a[r] = w
      BY <1>0, <2>2 DEF Good, ActiveAgree
    <3>2. QED
      BY <3>1 DEF Good, ActiveAgree
  <2>3. QED
    BY <2>1, <2>2 DEF NeedsFlush
<1>2. s.pending[q] \in Seq(Items)
  BY <1>0, <1>1 DEF WorkState
<1>3. at \in 0 .. Len(s.pending[q]) /\ (at = 0 <=> ~On(s, w, q)) /\ (at # 0 => s.pending[q][at] = w)
  BY <1>2, PlaceOf DEF On
<1>4. n = [s EXCEPT !.pending[q] = new, !.flags[c] = {"FLUSHING"}, !.notifyq = @ \ {q}]
  BY <1>0, <1>1 DEF work_flush_locked, queue_flusher_locked, notify_queue_locked, WorkState,
                    SelectInSeq, Place
<1> HIDE DEF at, new, n
<1>5. new \in Seq(Items) /\ Inserted(new, s.pending[q], c, at + 1)
  <2>1. at + 1 \in 1 .. Len(s.pending[q]) + 1
    BY <1>2, <1>3
  <2>2. QED
    BY <1>0, <1>2, <2>1, InsertAtFacts DEF new
<1> HIDE DEF q
<1>6. \A r \in Queues : ~On(s, c, r) /\ a[r] # c
  BY DEF Good, FlushersAgree
<1>7. /\ \A x : Contains(new, x) <=> Contains(s.pending[q], x) \/ x = c
      /\ IsInjective(new) /\ new # <<>>
      /\ \A x, y : Ahead(s.pending[q], x, y) => Ahead(new, x, y)
      /\ at # 0 => Ahead(new, s.pending[q][at], c)
  <2>1. IsInjective(s.pending[q]) /\ ~Contains(s.pending[q], c)
    BY <1>1, <1>6 DEF Good, ListsAgree, On
  <2> DEFINE old == s.pending[q]
             k == at + 1
  <2> HIDE DEF old, k
  <2>2. old \in Seq(Items) /\ new \in Seq(Items) /\ Inserted(new, old, c, k)
    BY <1>2, <1>5 DEF old, k
  <2>3. IsInjective(old) /\ ~Contains(old, c)
    BY <2>1 DEF old
  <2>4. /\ \A x : Contains(new, x) <=> Contains(old, x) \/ x = c
        /\ IsInjective(new) /\ new # <<>>
        /\ \A x, y : Ahead(old, x, y) => Ahead(new, x, y)
        /\ \A i \in 1 .. k - 1 : Ahead(new, old[i], c)
    BY <2>2, <2>3, InsertedFacts
  <2>5. at # 0 => at \in 1 .. k - 1
    BY <1>2, <1>3 DEF k
  <2>6. QED
    BY <2>4, <2>5 DEF old
<1>8. On(s, w, q) => Ahead(new, w, c)
  BY <1>3, <1>7
<1>9. n \in WorkState
  <2>1. {"FLUSHING"} \in SUBSET WorkFlags
    BY DEF WorkFlags
  <2>2. QED
    BY <1>0, <1>1, <1>4, <1>5, <2>1 DEF WorkState
<1>10. /\ n.flags = [s.flags EXCEPT ![c] = {"FLUSHING"}]
       /\ n.pending = [s.pending EXCEPT ![q] = new]
       /\ n.queue = s.queue /\ n.qflags = s.qflags /\ n.notifyq = s.notifyq \ {q}
       /\ n.linked = s.linked /\ n.relinked = s.relinked
  BY <1>0, <1>4 DEF WorkState
<1>11. /\ n.flags[c] = {"FLUSHING"} /\ \A i \in Items : i # c => n.flags[i] = s.flags[i]
       /\ n.pending[q] = new /\ \A r \in Queues : r # q => n.pending[r] = s.pending[r]
  BY <1>0, <1>1, <1>10 DEF WorkState
<1>12. \A i \in Items, r \in Queues : On(n, i, r) <=> On(s, i, r) \/ (i = c /\ r = q)
  BY <1>7, <1>11 DEF On
<1>13. \A r \in Queues, x, y \in Items : Ahead(s.pending[r], x, y) => Ahead(n.pending[r], x, y)
  BY <1>7, <1>11
<1>14. \A v \in Works : n.flags[v] = s.flags[v]
  BY <1>11, Disjoint
<1>15. FlagsAgree(n)
  BY <1>10, <1>14 DEF Good, FlagsAgree, Has
<1>16. ListsAgree(n)
  <2>1. \A r \in Queues : IsInjective(n.pending[r])
    BY <1>7, <1>11 DEF Good, ListsAgree
  <2>2. ASSUME NEW v \in Works, NEW r \in Queues
        PROVE  On(n, v, r) <=> Has(n, v, "QUEUED") /\ n.queue[v] = r
    BY <1>10, <1>12, <1>14, Disjoint DEF Good, ListsAgree, Has
  <2>3. ASSUME NEW d \in Clients, NEW r \in Queues
        PROVE  On(n, d, r) => Has(n, d, "FLUSHING")
    BY <1>11, <1>12, Disjoint DEF Good, ListsAgree, Has
  <2>4. QED
    BY <2>1, <2>2, <2>3 DEF ListsAgree
<1>17. \A r \in Queues : Open(n, r) <=> Open(s, r)
  BY <1>10 DEF Open
<1>18. Open(s, q) /\ (Has(s, w, "RUNNING") => a[q] = w)
  <2>1. Has(s, w, "RUNNING") => a[q] = w
    BY <1>0 DEF Good, ActiveAgree, q
  <2>2. CASE Has(s, w, "QUEUED")
    <3>1. On(s, w, q)
      BY <1>1, <2>2 DEF Good, ListsAgree, q
    <3>2. s.pending[q] # <<>>
      BY <3>1 DEF On, Contains
    <3>3. QED
      BY <1>1, <2>1, <3>2 DEF Good, QueuesAgree
  <2>3. CASE Has(s, w, "RUNNING")
    BY <1>1, <2>1, <2>3, Disjoint DEF Good, ActiveAgree
  <2>4. QED
    BY <2>2, <2>3 DEF NeedsFlush
<1>19. QueuesAgree(n)
  BY <1>1, <1>10, <1>11, <1>17, <1>18 DEF Good, QueuesAgree
<1>20. ActiveAgree(n, a)
  <2>1. \A i \in Items : Has(n, i, "RUNNING") <=> Has(s, i, "RUNNING")
    <3>1. ~Has(s, c, "RUNNING")
      BY <1>0, <1>6 DEF Good, ActiveAgree
    <3>2. QED
      BY <1>11, <3>1 DEF Has
  <2>2. \A r \in Queues : a[r] \in Clients => Has(n, a[r], "FLUSHING")
    BY <1>6, <1>11, Disjoint DEF Good, ActiveAgree, Has
  <2>3. QED
    BY <1>10, <1>17, <2>1, <2>2 DEF Good, ActiveAgree
<1>21. FlushersAgree(n, a, p2, sm2)
  <2>1. ASSUME NEW d \in Clients
        PROVE  /\ p2[d] = "flush" /\ sm2[d] = 0 <=> \E r \in Queues : On(n, d, r) \/ a[r] = d
               /\ \A r1, r2 \in Queues : On(n, d, r1) => (On(n, d, r2) => r1 = r2) /\ a[r2] # d
    <3>1. CASE d = c
      BY <1>0, <1>1, <1>6, <1>12, <3>1
    <3>2. CASE d # c
      <4>1. \A r \in Queues : On(n, d, r) <=> On(s, d, r)
        BY <1>12, <3>2, Disjoint
      <4>2. QED
        BY <3>2, <4>1 DEF Good, FlushersAgree
    <3>3. QED
      BY <3>1, <3>2
  <2>2. QED
    BY <2>1 DEF FlushersAgree
<1>22. OwedAgree(n, a, p2, sm2, tg2, ow2)
  <2>1. ASSUME NEW d \in Clients
        PROVE  /\ "queued" \in ow2[d] =>
                    /\ Flushes(p2, sm2, tg2, d) /\ Has(n, tg2[d], "QUEUED")
                    /\ Ahead(n.pending[n.queue[tg2[d]]], tg2[d], d)
               /\ "running" \in ow2[d] =>
                    \/ p2[d] = "cancel" /\ sm2[d] = 0
                    \/ /\ Flushes(p2, sm2, tg2, d)
                       /\ \E r \in Queues : a[r] = tg2[d] /\ On(n, d, r)
    <3>1. CASE d = c
      <4>1. Flushes(p2, sm2, tg2, d)
        BY <3>1 DEF Flushes
      <4>2. ASSUME "queued" \in ow2[d]
            PROVE  Has(n, w, "QUEUED") /\ Ahead(n.pending[n.queue[w]], w, c)
        <5>1. Has(s, w, "QUEUED")
          BY <3>1, <4>2 DEF RunsOf
        <5>2. On(s, w, q)
          BY <1>1, <5>1 DEF Good, ListsAgree, q
        <5>3. n.queue[w] = q /\ n.pending[q] = new
          BY <1>10, <1>11 DEF q
        <5>4. QED
          BY <1>8, <1>14, <5>1, <5>2, <5>3 DEF Has
      <4>3. ASSUME "running" \in ow2[d] PROVE a[q] = w /\ On(n, c, q)
        <5>1. Has(s, w, "RUNNING")
          BY <3>1, <4>3 DEF RunsOf
        <5>2. QED
          BY <1>0, <1>1, <1>12, <1>18, <5>1
      <4>4. QED
        BY <1>1, <3>1, <4>1, <4>2, <4>3
    <3>2. CASE d # c
      <4>1. Flushes(p2, sm2, tg2, d) <=> Flushes(p, sm, tg, d)
        BY <3>2 DEF Flushes
      <4>2. ASSUME "queued" \in ow[d]
            PROVE  Has(n, tg[d], "QUEUED") /\ Ahead(n.pending[n.queue[tg[d]]], tg[d], d)
        <5>1. /\ Has(s, tg[d], "QUEUED") /\ tg[d] \in Works
              /\ Ahead(s.pending[s.queue[tg[d]]], tg[d], d)
          BY <4>2 DEF Good, OwedAgree, Flushes
        <5>2. s.queue[tg[d]] \in Queues
          BY <5>1 DEF Good, FlagsAgree
        <5>3. QED
          BY <1>10, <1>13, <1>14, <5>1, <5>2, Disjoint DEF Has
      <4>3. \A r \in Queues : On(s, d, r) => On(n, d, r)
        BY <1>12, Disjoint
      <4>4. QED
        BY <3>2, <4>1, <4>2, <4>3 DEF Good, OwedAgree
    <3>3. QED
      BY <3>1, <3>2
  <2>2. QED
    BY <2>1 DEF OwedAgree
<1>23. Good(n, a, p2, sm2, tg2, ow2)
  BY <1>9, <1>15, <1>16, <1>19, <1>20, <1>21, <1>22 DEF Good
<1>24. QED
  BY <1>10, <1>14, <1>23 DEF n

-----------------------------------------------------------------------------
(* The rest of the invariant: types, and the list of cancellers holds      *)
(* exactly those who wait.                                                 *)
Calls ==
  /\ active \in [Queues -> Items \cup {NULL}]
  /\ pending_cancels \in Seq(Clients) /\ IsInjective(pending_cancels)
  /\ sem \in [Clients -> 0 .. 1]
  /\ pc \in [Clients -> {"idle", "flush", "cancel", "drain"}]
  /\ target \in [Clients -> Works \cup Queues \cup {NULL}]
  /\ firing \in Delayables \cup {NULL}
  /\ owed \in [Clients -> SUBSET {"queued", "running"}]
  /\ \A c \in Clients : /\ Contains(pending_cancels, c) <=> pc[c] = "cancel" /\ sem[c] = 0
                        /\ pc[c] \in {"flush", "cancel"} => target[c] \in Works
                        /\ pc[c] = "cancel" => c \in Cancellers

GoodNow == Good(wk, active, pc, sem, target, owed)

(* work_queue_main takes the first item of its list.                       *)
LEMMA QueueGetKeeps ==
  ASSUME GoodNow, Calls, NEW q \in Queues, QueueGet(q)
  PROVE  GoodNow'
<1> DEFINE i == Head(wk.pending[q])
<1>0. /\ wk \in WorkState /\ wk.pending[q] \in Seq(Items) /\ wk.pending[q] # <<>>
      /\ active[q] = NULL /\ active \in [Queues -> Items \cup {NULL}]
      /\ owed \in [Clients -> SUBSET {"queued", "running"}]
  BY DEF GoodNow, Good, WorkState, QueueGet, AtLoopTop, Calls
<1>1. /\ i \in Items /\ On(wk, i, q)
      /\ Tail(wk.pending[q]) \in Seq(Items) /\ IsInjective(Tail(wk.pending[q]))
      /\ \A x : Contains(Tail(wk.pending[q]), x) <=> Contains(wk.pending[q], x) /\ x # i
      /\ \A x, y : Ahead(wk.pending[q], x, y) /\ x # i => Ahead(Tail(wk.pending[q]), x, y)
      /\ \A x, y : Ahead(wk.pending[q], x, y) => y # i /\ Contains(wk.pending[q], y)
  <2>1. IsInjective(wk.pending[q])
    BY DEF GoodNow, Good, ListsAgree
  <2>2. QED
    BY <1>0, <2>1, TailFacts DEF On
<1>2. /\ wk' = [wk EXCEPT !.pending[q] = Tail(@), !.qflags[q] = @ \cup {"BUSY"},
                          !.flags[i] = (@ \cup {"RUNNING"}) \ {"QUEUED"}]
      /\ active' = [active EXCEPT ![q] = i]
      /\ owed' = [c \in Clients |->
           IF target[c] = i /\ "queued" \in owed[c]
           THEN (owed[c] \ {"queued"}) \cup {"running"} ELSE owed[c]]
      /\ sem' = sem /\ pc' = pc /\ target' = target
  BY DEF QueueGet
<1> DEFINE new == Tail(wk.pending[q])
           n == wk'
<1> HIDE DEF i
<1>3. n \in WorkState
  <2> DEFINE f == (wk.flags[i] \cup {"RUNNING"}) \ {"QUEUED"}
             g == wk.qflags[q] \cup {"BUSY"}
  <2>1. n = [wk EXCEPT !.pending[q] = new, !.qflags[q] = g, !.flags[i] = f]
    BY <1>0, <1>1, <1>2 DEF WorkState
  <2>2. f \in SUBSET WorkFlags /\ g \in SUBSET QueueFlags /\ new \in Seq(Items)
    BY <1>0, <1>1 DEF WorkState, WorkFlags, QueueFlags
  <2> HIDE DEF f, g, new, n
  <2>3. QED
    BY <1>0, <1>1, <2>1, <2>2 DEF WorkState
<1> HIDE DEF new
<1>4. /\ n.flags = [wk.flags EXCEPT ![i] = (@ \cup {"RUNNING"}) \ {"QUEUED"}]
      /\ n.pending = [wk.pending EXCEPT ![q] = new]
      /\ n.qflags = [wk.qflags EXCEPT ![q] = @ \cup {"BUSY"}]
      /\ n.queue = wk.queue /\ n.notifyq = wk.notifyq
  BY <1>0, <1>2 DEF WorkState, new
<1> HIDE DEF n
<1>5. /\ n.flags[i] = (wk.flags[i] \cup {"RUNNING"}) \ {"QUEUED"}
      /\ \A x \in Items : x # i => n.flags[x] = wk.flags[x]
      /\ n.pending[q] = new /\ \A r \in Queues : r # q => n.pending[r] = wk.pending[r]
      /\ active'[q] = i /\ \A r \in Queues : r # q => active'[r] = active[r]
  BY <1>0, <1>1, <1>2, <1>4 DEF WorkState
<1>6. \A r \in Queues : Open(n, r) <=> Open(wk, r)
  <2>1. \A r \in Queues, f \in {"STARTED", "PLUGGED", "DRAIN"} :
          f \in n.qflags[r] <=> f \in wk.qflags[r]
    BY <1>0, <1>4 DEF WorkState
  <2>2. QED
    BY <2>1 DEF Open
<1>7. ASSUME NEW r \in Queues, On(wk, i, r) PROVE r = q
  BY <1>1, <1>7, Disjoint DEF GoodNow, Good, ListsAgree, FlushersAgree, Items
<1>8. \A x \in Items, r \in Queues : On(n, x, r) <=> On(wk, x, r) /\ x # i
  BY <1>1, <1>5, <1>7 DEF On, new
<1>9. \A r \in Queues : active[r] # i
  <2>1. CASE i \in Clients
    BY <1>1, <2>1 DEF GoodNow, Good, FlushersAgree
  <2>2. CASE i \in Works
    BY <1>0, <1>1, <2>2, Disjoint DEF GoodNow, Good, ListsAgree, ActiveAgree
  <2>3. QED
    BY <1>1, <2>1, <2>2 DEF Items
<1>10. \A x \in Items : x # i => (\E r \in Queues : active'[r] = x) <=> (\E r \in Queues : active[r] = x)
  BY <1>0, <1>5, Disjoint DEF Items
<1>11. FlagsAgree(n)
  BY <1>4, <1>5, Disjoint DEF GoodNow, Good, FlagsAgree, Has
<1>12. ListsAgree(n)
  <2>1. \A r \in Queues : IsInjective(n.pending[r])
    BY <1>1, <1>5 DEF GoodNow, Good, ListsAgree, new
  <2>2. ASSUME NEW v \in Works, NEW r \in Queues
        PROVE  On(n, v, r) <=> Has(n, v, "QUEUED") /\ n.queue[v] = r
    BY <1>4, <1>5, <1>8, Disjoint DEF GoodNow, Good, ListsAgree, Has
  <2>3. ASSUME NEW d \in Clients, NEW r \in Queues
        PROVE  On(n, d, r) => Has(n, d, "FLUSHING")
    BY <1>5, <1>8, Disjoint DEF GoodNow, Good, ListsAgree, Has
  <2>4. QED
    BY <2>1, <2>2, <2>3 DEF ListsAgree
<1>13. QueuesAgree(n)
  <2>1. \A r \in n.notifyq : r \in Queues /\ r \in wk.notifyq /\ "DRAIN" \notin n.qflags[r]
    BY <1>0, <1>4 DEF GoodNow, Good, QueuesAgree, WorkState
  <2>2. QED
    BY <1>0, <1>4, <1>5, <1>6, <2>1 DEF GoodNow, Good, QueuesAgree
<1>14. ActiveAgree(n, active')
  <2>1. \A r1, r2 \in Queues : active'[r1] # NULL /\ active'[r1] = active'[r2] => r1 = r2
    BY <1>5, <1>9 DEF GoodNow, Good, ActiveAgree
  <2>2. ASSUME NEW x \in Items
        PROVE  Has(n, x, "RUNNING") <=> \E r \in Queues : active'[r] = x
    <3>1. CASE x = i
      BY <1>5, <3>1 DEF Has
    <3>2. CASE x # i
      BY <1>5, <1>10, <3>2 DEF GoodNow, Good, ActiveAgree, Has
    <3>3. QED
      BY <3>1, <3>2
  <2>3. ASSUME NEW r \in Queues
        PROVE  /\ active'[r] \in Works => n.queue[active'[r]] = r
               /\ active'[r] \in Clients => Has(n, active'[r], "FLUSHING")
               /\ active'[r] # NULL => Open(n, r)
    <3>1. CASE r = q
      BY <1>0, <1>1, <1>4, <1>5, <1>6, <3>1 DEF GoodNow, Good, ListsAgree, QueuesAgree, Has
    <3>2. CASE r # q
      BY <1>4, <1>5, <1>6, <1>9, <3>2, Disjoint DEF GoodNow, Good, ActiveAgree, Has
    <3>3. QED
      BY <3>1, <3>2
  <2>4. QED
    BY <2>1, <2>2, <2>3 DEF ActiveAgree
<1>15. FlushersAgree(n, active', pc, sem)
  <2>1. ASSUME NEW c \in Clients
        PROVE  /\ pc[c] = "flush" /\ sem[c] = 0 <=> \E r \in Queues : On(n, c, r) \/ active'[r] = c
               /\ \A r1, r2 \in Queues : On(n, c, r1) => (On(n, c, r2) => r1 = r2) /\ active'[r2] # c
    <3>1. CASE c = i
      BY <1>1, <1>5, <1>8, <3>1 DEF GoodNow, Good, FlushersAgree
    <3>2. CASE c # i
      <4>1. \A r \in Queues : On(n, c, r) <=> On(wk, c, r)
        BY <1>8, <3>2, Disjoint
      <4>2. \A r \in Queues : active'[r] = c <=> active[r] = c
        BY <1>0, <1>5, <3>2, Disjoint
      <4>3. QED
        BY <4>1, <4>2 DEF GoodNow, Good, FlushersAgree
    <3>3. QED
      BY <3>1, <3>2
  <2>2. QED
    BY <2>1 DEF FlushersAgree
<1>16. OwedAgree(n, active', pc, sem, target, owed')
  <2>1. ASSUME NEW c \in Clients, "queued" \in owed'[c]
        PROVE  /\ Flushes(pc, sem, target, c) /\ Has(n, target[c], "QUEUED")
               /\ Ahead(n.pending[n.queue[target[c]]], target[c], c)
    <3>1. "queued" \in owed[c] /\ target[c] # i
      BY <1>2, <2>1
    <3>2. /\ Flushes(pc, sem, target, c) /\ Has(wk, target[c], "QUEUED") /\ target[c] \in Works
          /\ Ahead(wk.pending[wk.queue[target[c]]], target[c], c)
      BY <3>1 DEF GoodNow, Good, OwedAgree, Flushes
    <3>3. wk.queue[target[c]] \in Queues
      BY <3>2 DEF GoodNow, Good, FlagsAgree
    <3>4. QED
      BY <1>1, <1>4, <1>5, <3>1, <3>2, <3>3, Disjoint DEF Has, new
  <2>2. ASSUME NEW c \in Clients, "running" \in owed'[c]
        PROVE  \/ pc[c] = "cancel" /\ sem[c] = 0
               \/ /\ Flushes(pc, sem, target, c)
                  /\ \E r \in Queues : active'[r] = target[c] /\ On(n, c, r)
    <3>1. CASE target[c] = i /\ "queued" \in owed[c]
      <4>1. /\ Flushes(pc, sem, target, c) /\ i \in Works /\ Has(wk, i, "QUEUED")
            /\ Ahead(wk.pending[wk.queue[i]], i, c)
        BY <3>1 DEF GoodNow, Good, OwedAgree, Flushes
      <4>2. wk.queue[i] = q
        BY <1>1, <4>1 DEF GoodNow, Good, ListsAgree
      <4>3. On(n, c, q)
        BY <1>1, <1>8, <4>1, <4>2, Disjoint DEF On
      <4>4. QED
        BY <1>5, <3>1, <4>1, <4>3
    <3>2. CASE "running" \in owed[c] /\ pc[c] = "cancel"
      BY <3>2 DEF GoodNow, Good, OwedAgree, Flushes
    <3>3. CASE "running" \in owed[c] /\ pc[c] # "cancel"
      <4>1. PICK r \in Queues : active[r] = target[c] /\ On(wk, c, r)
        BY <3>3 DEF GoodNow, Good, OwedAgree
      <4>2. Flushes(pc, sem, target, c)
        BY <3>3 DEF GoodNow, Good, OwedAgree
      <4>3. r # q /\ c # i
        BY <1>0, <1>7, <4>1, <4>2, Disjoint DEF Flushes
      <4>4. QED
        BY <1>5, <1>8, <4>1, <4>2, <4>3, Disjoint
    <3>4. QED
      BY <1>2, <2>2, <3>1, <3>2, <3>3
  <2>3. QED
    BY <2>1, <2>2 DEF OwedAgree
<1>17. Good(n, active', pc, sem, target, owed')
  BY <1>3, <1>11, <1>12, <1>13, <1>14, <1>15, <1>16 DEF Good
<1>18. QED
  BY <1>2, <1>17 DEF GoodNow, n

(* finalize_cancel_locked releases one canceller of w, if there is one.    *)
Released(w, d) ==
  /\ d \in Clients /\ Contains(pending_cancels, d) /\ target[d] = w
  /\ sem' = [sem EXCEPT ![d] = 1]
  /\ pending_cancels' \in Seq(Clients) /\ IsInjective(pending_cancels')
  /\ \A x : Contains(pending_cancels', x) <=> Contains(pending_cancels, x) /\ x # d

LEMMA FinalizeSpec ==
  ASSUME Calls, NEW w \in Works, finalize_cancel_locked(w)
  PROVE  \/ /\ sem' = sem /\ pending_cancels' = pending_cancels
            /\ \A c \in Clients : Contains(pending_cancels, c) => target[c] # w
         \/ \E d \in Clients : Released(w, d)
<1> DEFINE I == {i \in 1 .. Len(pending_cancels) : target[pending_cancels[i]] = w}
           at == FirstCanceller(w)
<1>1. at = IF I # {} THEN Min(I) ELSE 0
  BY DEF FirstCanceller, SelectInSeq
<1>2. /\ pending_cancels \in Seq(Clients) /\ IsInjective(pending_cancels)
      /\ I \subseteq Nat /\ \A i \in I : i \in 1 .. Len(pending_cancels) /\ i # 0
                                         /\ target[pending_cancels[i]] = w
  BY DEF Calls
<1>3. I = {} => \A c \in Clients : Contains(pending_cancels, c) => target[c] # w
  BY DEF Contains
<1> HIDE DEF I
<1>4. I # {} => at \in I
  BY <1>1, <1>2, MinOfNats
<1>5. CASE I = {}
  BY <1>1, <1>3, <1>5 DEF finalize_cancel_locked
<1>6. CASE I # {}
  <2> DEFINE d == pending_cancels[at]
             new == RemoveAt(pending_cancels, at)
  <2>1. at \in 1 .. Len(pending_cancels) /\ at # 0 /\ target[d] = w
    BY <1>2, <1>4, <1>6
  <2>2. pending_cancels' = new /\ sem' = [sem EXCEPT ![d] = 1]
    BY <2>1 DEF finalize_cancel_locked
  <2> HIDE DEF at
  <2>3. new \in Seq(Clients) /\ Deleted(new, pending_cancels, at)
    BY <1>2, <2>1, RemoveAtFacts
  <2> HIDE DEF new
  <2>4. IsInjective(new) /\ \A x : Contains(new, x) <=> Contains(pending_cancels, x) /\ x # d
    BY <1>2, <2>3, DeletedFacts
  <2>5. d \in Clients /\ Contains(pending_cancels, d)
    BY <1>2, <2>1 DEF Contains
  <2>6. QED
    BY <2>1, <2>2, <2>3, <2>4, <2>5 DEF Released
<1>7. QED
  BY <1>5, <1>6

(* The handler has returned.                                               *)
LEMMA QueueFinishKeeps ==
  ASSUME GoodNow, Calls, NEW q \in Queues, QueueFinish(q)
  PROVE  GoodNow' /\ Calls'
<1> DEFINE i == active[q]
           n == wk'
<1>0. /\ wk \in WorkState /\ i \in Items /\ i # NULL /\ active \in [Queues -> Items \cup {NULL}]
      /\ owed \in [Clients -> SUBSET {"queued", "running"}] /\ sem \in [Clients -> 0 .. 1]
  BY DEF GoodNow, Good, QueueFinish, Calls
<1>1. /\ n = [wk EXCEPT !.flags[i] = @ \ {"RUNNING", "FLUSHING", "CANCELING"},
                        !.qflags[q] = @ \ {"BUSY"}]
      /\ active' = [active EXCEPT ![q] = NULL]
      /\ owed' = [c \in Clients |-> IF target[c] = i THEN owed[c] \ {"running"} ELSE owed[c]]
      /\ pc' = pc /\ target' = target /\ firing' = firing
  BY DEF QueueFinish, Forgiven
<1>2. \/ i \in Clients /\ sem' = [sem EXCEPT ![i] = 1] /\ pending_cancels' = pending_cancels
      \/ i \in Works /\ sem' = sem /\ pending_cancels' = pending_cancels
      \/ i \in Works /\ \E d \in Clients : Released(i, d)
  <2>1. CASE i \in Clients
    <3>1. Has(wk, i, "FLUSHING")
      BY <2>1 DEF GoodNow, Good, ActiveAgree
    <3>2. QED
      BY <2>1, <3>1 DEF QueueFinish
  <2>2. CASE i \in Works
    <3>1. ~Has(wk, i, "FLUSHING")
      BY <2>2 DEF GoodNow, Good, FlagsAgree
    <3>2. (sem' = sem /\ pending_cancels' = pending_cancels) \/ finalize_cancel_locked(i)
      BY <2>2, <3>1 DEF QueueFinish
    <3>3. QED
      BY <2>2, <3>2, FinalizeSpec
  <2>3. QED
    BY <1>0, <2>1, <2>2 DEF Items
<1>3. n \in WorkState
  BY <1>0, <1>1 DEF WorkState
<1>4. /\ n.flags = [wk.flags EXCEPT ![i] = @ \ {"RUNNING", "FLUSHING", "CANCELING"}]
      /\ n.qflags = [wk.qflags EXCEPT ![q] = @ \ {"BUSY"}]
      /\ n.pending = wk.pending /\ n.queue = wk.queue /\ n.notifyq = wk.notifyq
  BY <1>0, <1>1 DEF WorkState
<1>5. ASSUME NEW c \in Clients
      PROVE  /\ sem'[c] \in 0 .. 1
             /\ c = i => sem'[c] = 1
             /\ pc[c] # "cancel" /\ c # i => sem'[c] = sem[c]
             /\ pc[c] = "cancel" /\ target[c] # i => sem'[c] = sem[c]
             /\ Contains(pending_cancels', c) <=> pc[c] = "cancel" /\ sem'[c] = 0
  <2>1. CASE i \in Clients /\ sem' = [sem EXCEPT ![i] = 1] /\ pending_cancels' = pending_cancels
    <3>1. pc[i] = "flush"
      BY <2>1 DEF GoodNow, Good, FlushersAgree
    <3>2. QED
      BY <1>0, <2>1, <3>1 DEF Calls
  <2>2. CASE i \in Works /\ sem' = sem /\ pending_cancels' = pending_cancels
    BY <1>0, <2>2, Disjoint DEF Calls
  <2>3. CASE i \in Works /\ \E d \in Clients : Released(i, d)
    <3>1. PICK d \in Clients : Released(i, d)
      BY <2>3
    <3>2. pc[d] = "cancel" /\ target[d] = i
      BY <3>1 DEF Released, Calls
    <3>3. CASE c = d
      BY <1>0, <2>3, <3>1, <3>2, <3>3, Disjoint DEF Released
    <3>4. CASE c # d
      BY <1>0, <2>3, <3>1, <3>4, Disjoint DEF Released, Calls
    <3>5. QED
      BY <3>3, <3>4
  <2>4. QED
    BY <1>2, <2>1, <2>2, <2>3
<1>6. /\ pending_cancels' \in Seq(Clients) /\ IsInjective(pending_cancels')
      /\ sem' \in [Clients -> 0 .. 1]
  <2>1. DOMAIN sem' = Clients
    BY <1>0, <1>2 DEF Released
  <2>2. \E f : sem' = [sem EXCEPT ![f] = 1] \/ sem' = sem
    BY <1>2 DEF Released
  <2>3. sem' \in [Clients -> 0 .. 1]
    BY <1>0, <1>5, <2>2
  <2>4. QED
    BY <1>2, <2>3 DEF Released, Calls
<1>7. Calls'
  <2>1. active' \in [Queues -> Items \cup {NULL}]
    BY <1>0, <1>1
  <2>2. owed' \in [Clients -> SUBSET {"queued", "running"}]
    BY <1>0, <1>1
  <2>3. QED
    BY <1>1, <1>5, <1>6, <2>1, <2>2 DEF Calls
<1> HIDE DEF n
<1>8. /\ n.flags[i] = wk.flags[i] \ {"RUNNING", "FLUSHING", "CANCELING"}
      /\ \A x \in Items : x # i => n.flags[x] = wk.flags[x]
      /\ active'[q] = NULL /\ \A r \in Queues : r # q => active'[r] = active[r]
  BY <1>0, <1>1, <1>4 DEF WorkState
<1>9. \A r \in Queues : Open(n, r) <=> Open(wk, r)
  <2>1. \A r \in Queues, f \in {"STARTED", "PLUGGED", "DRAIN"} :
          f \in n.qflags[r] <=> f \in wk.qflags[r]
    BY <1>0, <1>4 DEF WorkState
  <2>2. QED
    BY <2>1 DEF Open
<1>10. \A x, r : On(n, x, r) <=> On(wk, x, r)
  BY <1>4 DEF On
<1>11. \A r \in Queues : active[r] = i => r = q
  BY <1>0 DEF GoodNow, Good, ActiveAgree
<1>12. \A x \in Items, r \in Queues : active'[r] = x <=> active[r] = x /\ x # i
  BY <1>8, <1>11, Disjoint DEF Items
<1>13. i \in Clients => \A r \in Queues : ~On(wk, i, r)
  BY DEF GoodNow, Good, FlushersAgree
<1> HIDE DEF i
<1>14. FlagsAgree(n)
  BY <1>4, <1>8, Disjoint DEF GoodNow, Good, FlagsAgree, Has
<1>15. ListsAgree(n)
  <2>1. \A r \in Queues : IsInjective(n.pending[r])
    BY <1>4 DEF GoodNow, Good, ListsAgree
  <2>2. ASSUME NEW v \in Works, NEW r \in Queues
        PROVE  On(n, v, r) <=> Has(n, v, "QUEUED") /\ n.queue[v] = r
    <3>1. Has(n, v, "QUEUED") <=> Has(wk, v, "QUEUED")
      BY <1>8, Disjoint DEF Has
    <3>2. QED
      BY <1>4, <1>10, <3>1 DEF GoodNow, Good, ListsAgree
  <2>3. ASSUME NEW d \in Clients, NEW r \in Queues
        PROVE  On(n, d, r) => Has(n, d, "FLUSHING")
    BY <1>8, <1>10, <1>13, Disjoint DEF GoodNow, Good, ListsAgree, Has
  <2>4. QED
    BY <2>1, <2>2, <2>3 DEF ListsAgree
<1>16. QueuesAgree(n)
  <2>1. \A r \in n.notifyq : r \in Queues /\ r \in wk.notifyq /\ "DRAIN" \notin n.qflags[r]
    BY <1>0, <1>4 DEF GoodNow, Good, QueuesAgree, WorkState
  <2>2. QED
    BY <1>4, <1>9, <2>1 DEF GoodNow, Good, QueuesAgree
<1>17. ActiveAgree(n, active')
  <2>1. \A r1, r2 \in Queues : active'[r1] # NULL /\ active'[r1] = active'[r2] => r1 = r2
    BY <1>8 DEF GoodNow, Good, ActiveAgree
  <2>2. ASSUME NEW x \in Items
        PROVE  Has(n, x, "RUNNING") <=> \E r \in Queues : active'[r] = x
    <3>1. CASE x = i
      BY <1>8, <1>12, <3>1 DEF Has
    <3>2. CASE x # i
      BY <1>8, <1>12, <3>2 DEF GoodNow, Good, ActiveAgree, Has
    <3>3. QED
      BY <3>1, <3>2
  <2>3. ASSUME NEW r \in Queues
        PROVE  /\ active'[r] \in Works => n.queue[active'[r]] = r
               /\ active'[r] \in Clients => Has(n, active'[r], "FLUSHING")
               /\ active'[r] # NULL => Open(n, r)
    <3>1. CASE r = q
      BY <1>8, <3>1, Disjoint
    <3>2. CASE r # q
      BY <1>4, <1>8, <1>9, <1>11, <3>2, Disjoint DEF GoodNow, Good, ActiveAgree, Has
    <3>3. QED
      BY <3>1, <3>2
  <2>4. QED
    BY <2>1, <2>2, <2>3 DEF ActiveAgree
<1>18. FlushersAgree(n, active', pc, sem')
  <2>1. ASSUME NEW c \in Clients
        PROVE  /\ pc[c] = "flush" /\ sem'[c] = 0 <=> \E r \in Queues : On(n, c, r) \/ active'[r] = c
               /\ \A r1, r2 \in Queues : On(n, c, r1) => (On(n, c, r2) => r1 = r2) /\ active'[r2] # c
    <3>1. CASE c = i
      <4>1. sem'[c] = 1
        BY <1>5, <3>1
      <4>2. \A r \in Queues : ~On(n, c, r) /\ active'[r] # c
        BY <1>10, <1>12, <1>13, <3>1, Disjoint
      <4>3. QED
        BY <4>1, <4>2
    <3>2. CASE c # i
      <4>1. pc[c] = "flush" => sem'[c] = sem[c]
        BY <1>5, <3>2
      <4>2. \A r \in Queues : active'[r] = c <=> active[r] = c
        BY <1>12, <3>2, Disjoint
      <4>3. QED
        BY <1>10, <4>1, <4>2 DEF GoodNow, Good, FlushersAgree
    <3>3. QED
      BY <3>1, <3>2
  <2>2. QED
    BY <2>1 DEF FlushersAgree
<1>19. OwedAgree(n, active', pc, sem', target, owed')
  <2>1. ASSUME NEW c \in Clients, Flushes(pc, sem, target, c), \E r \in Queues : On(wk, c, r)
        PROVE  Flushes(pc, sem', target, c)
    BY <1>5, <1>13, <2>1 DEF Flushes
  <2>2. ASSUME NEW c \in Clients, "queued" \in owed'[c]
        PROVE  /\ Flushes(pc, sem', target, c) /\ Has(n, target[c], "QUEUED")
               /\ Ahead(n.pending[n.queue[target[c]]], target[c], c)
    <3>1. "queued" \in owed[c]
      BY <1>1, <2>2
    <3>2. /\ Flushes(pc, sem, target, c) /\ Has(wk, target[c], "QUEUED") /\ target[c] \in Works
          /\ Ahead(wk.pending[wk.queue[target[c]]], target[c], c)
      BY <3>1 DEF GoodNow, Good, OwedAgree, Flushes
    <3>3. wk.queue[target[c]] \in Queues
      BY <3>2 DEF GoodNow, Good, FlagsAgree
    <3>4. On(wk, c, wk.queue[target[c]])
      BY <1>0, <3>2, <3>3, NoneContained DEF On, WorkState
    <3>5. Has(n, target[c], "QUEUED")
      BY <1>8, <3>2, Disjoint DEF Has
    <3>6. QED
      BY <1>4, <2>1, <3>2, <3>3, <3>4, <3>5
  <2>3. ASSUME NEW c \in Clients, "running" \in owed'[c]
        PROVE  \/ pc[c] = "cancel" /\ sem'[c] = 0
               \/ /\ Flushes(pc, sem', target, c)
                  /\ \E r \in Queues : active'[r] = target[c] /\ On(n, c, r)
    <3>1. "running" \in owed[c] /\ target[c] # i
      BY <1>1, <2>3
    <3>2. CASE pc[c] = "cancel"
      BY <1>5, <3>1, <3>2 DEF GoodNow, Good, OwedAgree, Flushes
    <3>3. CASE pc[c] # "cancel"
      <4>1. PICK r \in Queues : active[r] = target[c] /\ On(wk, c, r)
        BY <3>1, <3>3 DEF GoodNow, Good, OwedAgree
      <4>2. Flushes(pc, sem, target, c)
        BY <3>1, <3>3 DEF GoodNow, Good, OwedAgree
      <4>3. active'[r] = target[c]
        BY <1>12, <3>1, <4>1, <4>2, Disjoint DEF Flushes
      <4>4. QED
        BY <1>10, <2>1, <4>1, <4>2, <4>3
    <3>4. QED
      BY <3>2, <3>3
  <2>4. QED
    BY <2>2, <2>3 DEF OwedAgree
<1>20. Good(n, active', pc, sem', target, owed')
  BY <1>3, <1>14, <1>15, <1>16, <1>17, <1>18, <1>19 DEF Good, n
<1>21. QED
  BY <1>1, <1>7, <1>20 DEF GoodNow, n

-----------------------------------------------------------------------------
(* Steps that change no list.                                              *)

(* Of queues, only flags and who sleeps.                                   *)
LEMMA QueueFrame ==
  ASSUME NEW s, NEW n, NEW a, NEW p, NEW sm, NEW tg, NEW ow, Good(s, a, p, sm, tg, ow),
         n \in WorkState, n.flags = s.flags, n.pending = s.pending, n.queue = s.queue,
         QueuesAgree(n), \A q \in Queues : a[q] # NULL => Open(n, q)
  PROVE  Good(n, a, p, sm, tg, ow)
<1>1. FlagsAgree(n)
  BY DEF Good, FlagsAgree, Has
<1>2. \A i, q : On(n, i, q) <=> On(s, i, q)
  BY DEF On
<1>3. \A i, f : Has(n, i, f) <=> Has(s, i, f)
  BY DEF Has
<1>4. ListsAgree(n) /\ ActiveAgree(n, a)
  BY <1>2, <1>3 DEF Good, ListsAgree, ActiveAgree
<1>5. FlushersAgree(n, a, p, sm)
  BY <1>2 DEF Good, FlushersAgree
<1>6. OwedAgree(n, a, p, sm, tg, ow)
  BY <1>2, <1>3 DEF Good, OwedAgree
<1>7. QED
  BY <1>1, <1>4, <1>5, <1>6 DEF Good

(* Of clients, those that wait for no flusher; a canceller is owed at most *)
(* the run going on.                                                       *)
LEMMA ClientFrame ==
  ASSUME NEW s, NEW a, NEW p, NEW sm, NEW tg, NEW ow, Good(s, a, p, sm, tg, ow),
         NEW p2, NEW sm2, NEW tg2, NEW ow2,
         \A c \in Clients :
           /\ p2[c] = "flush" /\ sm2[c] = 0 <=> p[c] = "flush" /\ sm[c] = 0
           /\ \/ ow2[c] \subseteq {"running"} /\ p2[c] = "cancel" /\ sm2[c] = 0
              \/ ow2[c] = {}
              \/ ow2[c] \subseteq ow[c] /\ p2[c] = p[c] /\ sm2[c] = sm[c] /\ tg2[c] = tg[c]
  PROVE  Good(s, a, p2, sm2, tg2, ow2)
<1>1. FlushersAgree(s, a, p2, sm2)
  BY DEF Good, FlushersAgree
<1>2. OwedAgree(s, a, p2, sm2, tg2, ow2)
  BY DEF Good, OwedAgree, Flushes
<1>3. QED
  BY <1>1, <1>2 DEF Good

(* Whom nobody owes: an idle client, and one that drains a queue.          *)
LEMMA NothingOwed ==
  ASSUME GoodNow, Calls, NEW c \in Clients,
         pc[c] \notin {"flush", "cancel"} \/ sem[c] # 0
  PROVE  owed[c] = {}
<1>1. owed[c] \subseteq {"queued", "running"}
  BY DEF Calls
<1>2. "queued" \notin owed[c] /\ "running" \notin owed[c]
  BY DEF GoodNow, Good, OwedAgree, Flushes
<1>3. QED
  BY <1>1, <1>2

LEMMA StartKeeps ==
  ASSUME GoodNow, Calls, NEW q \in Queues, k_work_queue_start(q)
  PROVE  GoodNow' /\ Calls'
<1>0. /\ wk \in WorkState /\ "STARTED" \notin wk.qflags[q]
      /\ wk' = [wk EXCEPT !.qflags[q] = {"STARTED"}, !.pending[q] = <<>>]
      /\ active' = active /\ pending_cancels' = pending_cancels /\ sem' = sem /\ pc' = pc
      /\ target' = target /\ firing' = firing /\ owed' = owed
  BY DEF GoodNow, Good, k_work_queue_start, NoClientChanges
<1>1. wk.pending[q] = <<>> /\ active[q] = NULL
  BY <1>0 DEF GoodNow, Good, QueuesAgree, ActiveAgree, Open
<1>2. [wk.pending EXCEPT ![q] = <<>>] = wk.pending
  BY <1>0, <1>1 DEF WorkState
<1>3. /\ wk' \in WorkState /\ wk'.flags = wk.flags /\ wk'.pending = wk.pending
      /\ wk'.queue = wk.queue /\ wk'.notifyq = wk.notifyq
      /\ wk'.qflags = [wk.qflags EXCEPT ![q] = {"STARTED"}]
  <2>1. {"STARTED"} \in SUBSET QueueFlags /\ <<>> \in Seq(Items)
    BY DEF QueueFlags
  <2>2. QED
    BY <1>0, <1>2, <2>1 DEF WorkState
<1>4. /\ wk'.qflags[q] = {"STARTED"}
      /\ \A r \in Queues : r # q => wk'.qflags[r] = wk.qflags[r]
      /\ wk.notifyq \subseteq Queues
  BY <1>0, <1>3 DEF WorkState
<1>5. QueuesAgree(wk')
  BY <1>1, <1>3, <1>4 DEF GoodNow, Good, QueuesAgree, Open
<1>6. \A r \in Queues : active[r] # NULL => Open(wk', r)
  BY <1>1, <1>4 DEF GoodNow, Good, ActiveAgree, Open
<1>7. Good(wk', active, pc, sem, target, owed)
  BY <1>3, <1>5, <1>6, QueueFrame DEF GoodNow
<1>8. QED
  BY <1>0, <1>7 DEF GoodNow, Calls

LEMMA UnplugKeeps ==
  ASSUME GoodNow, Calls, NEW q \in Queues, k_work_queue_unplug(q)
  PROVE  GoodNow' /\ Calls'
<1>0. /\ wk \in WorkState
      /\ wk' = [wk EXCEPT !.qflags[q] = @ \ {"PLUGGED"}]
      /\ active' = active /\ pending_cancels' = pending_cancels /\ sem' = sem /\ pc' = pc
      /\ target' = target /\ firing' = firing /\ owed' = owed
  BY DEF GoodNow, Good, k_work_queue_unplug, NoClientChanges
<1>1. /\ wk' \in WorkState /\ wk'.flags = wk.flags /\ wk'.pending = wk.pending
      /\ wk'.queue = wk.queue /\ wk'.notifyq = wk.notifyq
      /\ wk'.qflags = [wk.qflags EXCEPT ![q] = @ \ {"PLUGGED"}]
  BY <1>0 DEF WorkState
<1>2. /\ wk'.qflags[q] = wk.qflags[q] \ {"PLUGGED"}
      /\ \A r \in Queues : r # q => wk'.qflags[r] = wk.qflags[r]
      /\ wk.notifyq \subseteq Queues
  BY <1>0, <1>1 DEF WorkState
<1>3. \A r \in Queues : Open(wk, r) => Open(wk', r)
  BY <1>2 DEF Open
<1>4. QueuesAgree(wk')
  BY <1>1, <1>2, <1>3 DEF GoodNow, Good, QueuesAgree
<1>5. \A r \in Queues : active[r] # NULL => Open(wk', r)
  BY <1>3 DEF GoodNow, Good, ActiveAgree
<1>6. Good(wk', active, pc, sem, target, owed)
  BY <1>1, <1>4, <1>5, QueueFrame DEF GoodNow
<1>7. QED
  BY <1>0, <1>6 DEF GoodNow, Calls

LEMMA DrainKeeps ==
  ASSUME GoodNow, Calls, NEW q \in Queues, NEW c \in Clients, NEW plug \in BOOLEAN,
         k_work_queue_drain(c, q, plug)
  PROVE  GoodNow' /\ Calls'
<1> DEFINE f == wk.qflags[q] \cup {"DRAIN"} \cup (IF plug THEN {"PLUGGED"} ELSE {})
<1>0. /\ wk \in WorkState /\ "STARTED" \in wk.qflags[q] /\ pc[c] = "idle"
      /\ wk' = notify_queue_locked([wk EXCEPT !.qflags[q] = @ \cup {"DRAIN"} \cup
                                            (IF plug THEN {"PLUGGED"} ELSE {})], q)
      /\ sem' = [sem EXCEPT ![c] = 0] /\ pc' = [pc EXCEPT ![c] = "drain"]
      /\ target' = [target EXCEPT ![c] = q]
      /\ active' = active /\ pending_cancels' = pending_cancels /\ firing' = firing /\ owed' = owed
  BY DEF GoodNow, Good, k_work_queue_drain, CanBlock, Blocks
<1>1. wk' = [wk EXCEPT !.qflags[q] = f, !.notifyq = @ \ {q}]
  BY <1>0 DEF notify_queue_locked, WorkState
<1>2. f \in SUBSET QueueFlags /\ "STARTED" \in f /\ "DRAIN" \in f
  BY <1>0 DEF WorkState, QueueFlags
<1> HIDE DEF f
<1>3. /\ wk' \in WorkState /\ wk'.flags = wk.flags /\ wk'.pending = wk.pending
      /\ wk'.queue = wk.queue /\ wk'.notifyq = wk.notifyq \ {q}
      /\ wk'.qflags = [wk.qflags EXCEPT ![q] = f]
  <2>1. /\ [wk.qflags EXCEPT ![q] = f] \in [Queues -> SUBSET QueueFlags]
        /\ wk.notifyq \ {q} \in SUBSET Queues
    BY <1>0, <1>2 DEF WorkState
  <2>2. QED
    BY <1>0, <1>1, <2>1 DEF WorkState
<1>4. /\ wk'.qflags[q] = f /\ \A r \in Queues : r # q => wk'.qflags[r] = wk.qflags[r]
      /\ wk.notifyq \subseteq Queues
  BY <1>0, <1>3 DEF WorkState
<1>5. Open(wk', q) /\ \A r \in Queues : Open(wk, r) => Open(wk', r)
  BY <1>2, <1>4 DEF Open
<1>6. QueuesAgree(wk')
  BY <1>3, <1>4, <1>5 DEF GoodNow, Good, QueuesAgree
<1>7. \A r \in Queues : active[r] # NULL => Open(wk', r)
  BY <1>5 DEF GoodNow, Good, ActiveAgree
<1>8. Good(wk', active, pc, sem, target, owed)
  BY <1>3, <1>6, <1>7, QueueFrame DEF GoodNow
<1>9. /\ owed[c] = {} /\ pc'[c] = "drain" /\ sem'[c] = 0 /\ target'[c] = q
      /\ \A d \in Clients : d # c => pc'[d] = pc[d] /\ sem'[d] = sem[d] /\ target'[d] = target[d]
  BY <1>0, NothingOwed DEF Calls
<1>10. Good(wk', active, pc', sem', target', owed)
  <2>1. ASSUME NEW d \in Clients
        PROVE  /\ pc'[d] = "flush" /\ sem'[d] = 0 <=> pc[d] = "flush" /\ sem[d] = 0
               /\ \/ owed[d] = {}
                  \/ pc'[d] = pc[d] /\ sem'[d] = sem[d] /\ target'[d] = target[d]
    BY <1>0, <1>9
  <2>2. QED
    BY <1>8, <2>1, ClientFrame
<1>11. /\ sem' \in [Clients -> 0 .. 1] /\ pc' \in [Clients -> {"idle", "flush", "cancel", "drain"}]
       /\ target' \in [Clients -> Works \cup Queues \cup {NULL}]
  BY <1>0 DEF Calls
<1>12. Calls'
  BY <1>0, <1>9, <1>11 DEF Calls
<1>13. QED
  BY <1>0, <1>10, <1>12 DEF GoodNow

LEMMA SyncReturnsKeeps ==
  ASSUME GoodNow, Calls, NEW c \in Clients, SyncReturns(c)
  PROVE  GoodNow' /\ Calls'
<1>0. /\ wk' = wk /\ active' = active /\ pending_cancels' = pending_cancels /\ firing' = firing
      /\ sem' = [sem EXCEPT ![c] = 0] /\ pc' = [pc EXCEPT ![c] = "idle"]
      /\ target' = [target EXCEPT ![c] = NULL] /\ owed' = [owed EXCEPT ![c] = {}]
      /\ sem[c] # 0
  BY DEF SyncReturns, Calls
<1>1. /\ owed'[c] = {} /\ pc'[c] = "idle" /\ sem'[c] = 0
      /\ \A d \in Clients : d # c => /\ pc'[d] = pc[d] /\ sem'[d] = sem[d]
                                     /\ target'[d] = target[d] /\ owed'[d] = owed[d]
  BY <1>0 DEF Calls
<1>2. Good(wk, active, pc', sem', target', owed')
  <2>1. ASSUME NEW d \in Clients
        PROVE  /\ pc'[d] = "flush" /\ sem'[d] = 0 <=> pc[d] = "flush" /\ sem[d] = 0
               /\ \/ owed'[d] = {}
                  \/ /\ owed'[d] = owed[d]
                     /\ pc'[d] = pc[d] /\ sem'[d] = sem[d] /\ target'[d] = target[d]
    BY <1>0, <1>1
  <2>2. QED
    BY <2>1, ClientFrame DEF GoodNow
<1>3. /\ sem' \in [Clients -> 0 .. 1] /\ pc' \in [Clients -> {"idle", "flush", "cancel", "drain"}]
      /\ target' \in [Clients -> Works \cup Queues \cup {NULL}]
      /\ owed' \in [Clients -> SUBSET {"queued", "running"}]
  BY <1>0 DEF Calls
<1>4. Calls'
  BY <1>0, <1>1, <1>3 DEF Calls
<1>5. QED
  BY <1>0, <1>2, <1>4 DEF GoodNow

LEMMA QueueIdleKeeps ==
  ASSUME GoodNow, Calls, NEW q \in Queues, QueueIdle(q)
  PROVE  GoodNow' /\ Calls'
<1> DEFINE released == {c \in Clients : /\ "DRAIN" \in wk.qflags[q]
                                        /\ pc[c] = "drain" /\ target[c] = q}
<1>0. /\ wk \in WorkState /\ wk.pending[q] = <<>> /\ active[q] = NULL
      /\ wk' = [wk EXCEPT !.qflags[q] = @ \ {"DRAIN"}, !.notifyq = @ \cup {q}]
      /\ pc' = [c \in Clients |-> IF c \in released THEN "idle" ELSE pc[c]]
      /\ target' = [c \in Clients |-> IF c \in released THEN NULL ELSE target[c]]
      /\ active' = active /\ pending_cancels' = pending_cancels /\ sem' = sem
      /\ firing' = firing /\ owed' = owed
  BY DEF GoodNow, Good, QueueIdle, AtLoopTop
<1>1. /\ wk' \in WorkState /\ wk'.flags = wk.flags /\ wk'.pending = wk.pending
      /\ wk'.queue = wk.queue /\ wk'.notifyq = wk.notifyq \cup {q}
      /\ wk'.qflags = [wk.qflags EXCEPT ![q] = @ \ {"DRAIN"}]
  BY <1>0 DEF WorkState
<1>2. /\ wk'.qflags[q] = wk.qflags[q] \ {"DRAIN"}
      /\ \A r \in Queues : r # q => wk'.qflags[r] = wk.qflags[r]
      /\ wk.notifyq \subseteq Queues
  BY <1>0, <1>1 DEF WorkState
<1>3. QueuesAgree(wk')
  BY <1>0, <1>1, <1>2 DEF GoodNow, Good, QueuesAgree, Open
<1>4. \A r \in Queues : active[r] # NULL => Open(wk', r)
  BY <1>0, <1>2 DEF GoodNow, Good, ActiveAgree, Open
<1>5. Good(wk', active, pc, sem, target, owed)
  BY <1>1, <1>3, <1>4, QueueFrame DEF GoodNow
<1>6. ASSUME NEW c \in Clients
      PROVE  \/ pc'[c] = pc[c] /\ target'[c] = target[c]
             \/ pc[c] = "drain" /\ pc'[c] = "idle" /\ owed[c] = {} /\ target'[c] = NULL
  BY <1>0, NothingOwed
<1>7. Good(wk', active, pc', sem, target', owed)
  BY <1>5, <1>6, ClientFrame
<1> HIDE DEF released
<1>8. Calls'
  <2>1. /\ pc' \in [Clients -> {"idle", "flush", "cancel", "drain"}]
        /\ target' \in [Clients -> Works \cup Queues \cup {NULL}]
    BY <1>0 DEF Calls
  <2>2. QED
    BY <1>0, <1>6, <2>1 DEF Calls
<1>9. QED
  BY <1>0, <1>7, <1>8 DEF GoodNow

-----------------------------------------------------------------------------
(* The steps of Next that are left.                                        *)

LEMMA QueueGetCalls ==
  ASSUME GoodNow, Calls, NEW q \in Queues, QueueGet(q)
  PROVE  Calls'
<1> DEFINE i == Head(wk.pending[q])
<1>1. wk.pending[q] \in Seq(Items) /\ wk.pending[q] # <<>> /\ i \in Items
  BY DEF QueueGet, AtLoopTop, GoodNow, Good, WorkState
<1>2. /\ active' = [active EXCEPT ![q] = i]
      /\ owed' = [c \in Clients |->
              IF target[c] = i /\ "queued" \in owed[c]
              THEN (owed[c] \ {"queued"}) \cup {"running"} ELSE owed[c]]
      /\ pending_cancels' = pending_cancels /\ sem' = sem /\ pc' = pc /\ target' = target
      /\ firing' = firing
  BY DEF QueueGet
<1> HIDE DEF i
<1>3. /\ active' \in [Queues -> Items \cup {NULL}]
      /\ owed' \in [Clients -> SUBSET {"queued", "running"}]
  BY <1>1, <1>2 DEF Calls
<1>4. QED
  BY <1>2, <1>3 DEF Calls

(* schedule_for_queue_locked, whatever the delay.                          *)
LEMMA ScheduleKeeps ==
  ASSUME NEW s, NEW a, NEW p, NEW sm, NEW tg, NEW ow, Good(s, a, p, sm, tg, ow),
         NEW w \in Delayables, NEW q \in Asked, NEW delay \in BOOLEAN, NEW by
  PROVE  Good(schedule_for_queue_locked(s, w, q, delay, by), a, p, sm, tg, ow)
<1>1. CASE delay
  BY <1>1, DelayKeeps DEF schedule_for_queue_locked
<1>2. CASE ~delay
  <2>1. w \in Works
    BY WorkAssumption
  <2>2. Good(submit_to_queue_locked(s, w, q, by), a, p, sm, tg, ow)
    BY <2>1, SubmitKeeps
  <2>3. QED
    BY <1>2, <2>2 DEF schedule_for_queue_locked
<1>3. QED
  BY <1>1, <1>2

LEMMA NonBlockingKeeps ==
  ASSUME GoodNow, Calls, NoClientChanges,
         NEW n, wk' = n, Good(n, active, pc, sem, target, owed'),
         owed' \in [Clients -> SUBSET {"queued", "running"}]
  PROVE  GoodNow' /\ Calls'
<1>1. /\ active' = active /\ pending_cancels' = pending_cancels /\ sem' = sem /\ pc' = pc
      /\ target' = target /\ firing' = firing
  BY DEF NoClientChanges
<1>2. GoodNow'
  BY <1>1 DEF GoodNow
<1>3. Calls'
  BY <1>1 DEF Calls
<1>4. QED
  BY <1>2, <1>3

LEMMA SubmissionKeeps ==
  ASSUME GoodNow, Calls, NEW w \in Works, NEW q \in Asked, NEW by \in Asked,
         k_work_submit_to_queue(w, q, by)
  PROVE  GoodNow' /\ Calls'
<1> DEFINE n == submit_to_queue_locked(wk, w, q, by)
<1>1. wk' = n /\ NoClientChanges /\ owed' = owed
  BY DEF k_work_submit_to_queue
<1>2. Good(n, active, pc, sem, target, owed)
  BY SubmitKeeps DEF GoodNow
<1> HIDE DEF n
<1>3. owed' \in [Clients -> SUBSET {"queued", "running"}]
  BY <1>1 DEF Calls
<1>4. QED
  BY <1>1, <1>2, <1>3, NonBlockingKeeps

LEMMA SchedulingKeeps ==
  ASSUME GoodNow, Calls, NEW w \in Delayables, NEW q \in Asked, NEW delay \in BOOLEAN,
         NEW by \in Asked,
         \/ k_work_schedule_for_queue(w, q, delay, by)
         \/ k_work_reschedule_for_queue(w, q, delay, by)
  PROVE  GoodNow' /\ Calls'
<1>1. PICK s : /\ s = wk \/ s = unschedule_locked(wk, w)
               /\ wk' = schedule_for_queue_locked(s, w, q, delay, by)
  BY DEF k_work_schedule_for_queue, k_work_reschedule_for_queue
<1>2. NoClientChanges /\ owed' = owed
  BY DEF k_work_schedule_for_queue, k_work_reschedule_for_queue
<1>3. Good(s, active, pc, sem, target, owed)
  BY <1>1, UnscheduleKeeps DEF GoodNow
<1> DEFINE n == schedule_for_queue_locked(s, w, q, delay, by)
<1>4. Good(n, active, pc, sem, target, owed)
  BY <1>3, ScheduleKeeps
<1>5. wk' = n
  BY <1>1
<1> HIDE DEF n
<1>6. owed' \in [Clients -> SUBSET {"queued", "running"}]
  BY <1>2 DEF Calls
<1>7. QED
  BY <1>2, <1>4, <1>5, <1>6, NonBlockingKeeps

LEMMA ForgivenType ==
  ASSUME Calls, NEW w
  PROVE  /\ ForgivenByCancel(w) \in [Clients -> SUBSET {"queued", "running"}]
         /\ \A c \in Clients : ForgivenByCancel(w)[c] \subseteq owed[c]
BY DEF ForgivenByCancel, Forgiven, Calls

LEMMA CancellationKeeps ==
  ASSUME GoodNow, Calls, NEW w \in Works, k_work_cancel(w)
  PROVE  GoodNow' /\ Calls'
<1> DEFINE n == CancelAsync(wk, w)
<1>1. wk' = n /\ NoClientChanges /\ owed' = ForgivenByCancel(w)
  BY DEF k_work_cancel
<1>2. Good(n, active, pc, sem, target, ForgivenByCancel(w))
  BY CancelAsyncKeeps DEF GoodNow
<1> HIDE DEF n
<1>3. QED
  BY <1>1, <1>2, ForgivenType, NonBlockingKeeps

LEMMA AnnounceKeeps ==
  ASSUME GoodNow, Calls, NEW w \in Delayables, Announce(w)
  PROVE  GoodNow' /\ Calls'
<1>0. /\ wk \in WorkState /\ wk' = [wk EXCEPT !.linked = @ \ {w}] /\ firing' = w
      /\ active' = active /\ pending_cancels' = pending_cancels /\ sem' = sem /\ pc' = pc
      /\ target' = target /\ owed' = owed
  BY DEF GoodNow, Good, Announce
<1>1. /\ wk' \in WorkState /\ wk'.flags = wk.flags /\ wk'.pending = wk.pending
      /\ wk'.queue = wk.queue /\ wk'.qflags = wk.qflags /\ wk'.notifyq = wk.notifyq
  BY <1>0 DEF WorkState
<1>2. FlagsAgree(wk')
  BY <1>1 DEF GoodNow, Good, FlagsAgree, Has
<1>3. Good(wk', active, pc, sem, target, owed)
  BY <1>1, <1>2, FlagsFrame DEF GoodNow
<1>4. Calls'
  BY <1>0 DEF Calls
<1>5. QED
  BY <1>0, <1>3, <1>4 DEF GoodNow

LEMMA TimeoutKeeps ==
  ASSUME GoodNow, Calls, work_timeout
  PROVE  GoodNow' /\ Calls'
<1> DEFINE w == firing
           s == [wk EXCEPT !.flags[w] = @ \ {"DELAYED"}]
           n == submit_to_queue_locked(s, w, wk.dqueue[w], NULL)
<1>0. /\ wk \in WorkState /\ w \in Delayables /\ w \in Works /\ w \in Items
      /\ wk.dqueue[w] \in Asked
  BY WorkAssumption DEF GoodNow, Good, work_timeout, Calls, Items, WorkState, Asked
<1>1. /\ wk' = n \/ wk' = wk
      /\ firing' = NULL /\ active' = active /\ pending_cancels' = pending_cancels /\ sem' = sem
      /\ pc' = pc /\ target' = target /\ owed' = owed
  BY DEF work_timeout
<1>2. Good(s, active, pc, sem, target, owed)
  <2>1. /\ s \in WorkState /\ s.flags = [wk.flags EXCEPT ![w] = @ \ {"DELAYED"}]
        /\ s.pending = wk.pending /\ s.queue = wk.queue /\ s.qflags = wk.qflags
        /\ s.notifyq = wk.notifyq
    BY <1>0 DEF WorkState
  <2>2. /\ s.flags[w] = wk.flags[w] \ {"DELAYED"}
        /\ \A i \in Items : i # w => s.flags[i] = wk.flags[i]
    BY <1>0, <2>1 DEF WorkState
  <2> HIDE DEF s, w
  <2>4. FlagsAgree(s)
    BY <2>1, <2>2, Disjoint DEF GoodNow, Good, FlagsAgree, Has
  <2>5. \A i \in Items, f \in {"QUEUED", "RUNNING", "FLUSHING"} :
          f \in s.flags[i] <=> f \in wk.flags[i]
    BY <2>2
  <2>6. QED
    BY <2>1, <2>4, <2>5, FlagsFrame DEF GoodNow
<1> HIDE DEF s
<1>3. Good(n, active, pc, sem, target, owed)
  BY <1>0, <1>2, SubmitKeeps
<1> HIDE DEF n
<1>4. Good(wk', active, pc, sem, target, owed)
  BY <1>1, <1>3 DEF GoodNow
<1>5. Calls'
  BY <1>1 DEF Calls
<1>6. QED
  BY <1>1, <1>4, <1>5 DEF GoodNow

LEMMA FlushCallKeeps ==
  ASSUME GoodNow, Calls, NEW c \in Clients, NEW w \in Works, k_work_flush(c, w)
  PROVE  GoodNow' /\ Calls'
<1> DEFINE out == IF w \in Delayables THEN unschedule_locked(wk, w) ELSE wk
           due == IF w \in Delayables /\ Unscheduled(wk, w)
                  THEN submit_to_queue_locked(out, w, wk.dqueue[w], NULL) ELSE out
<1>0. /\ pc[c] = "idle" /\ wk' = work_flush_locked(due, w, c)
      /\ IF NeedsFlush(due, w)
         THEN Blocks(c, "flush", w) /\ owed' = [owed EXCEPT ![c] = RunsOf(due, w)]
         ELSE UNCHANGED <<sem, pc, target, owed>>
      /\ active' = active /\ pending_cancels' = pending_cancels /\ firing' = firing
  BY DEF k_work_flush, CanBlock
<1>1. Good(out, active, pc, sem, target, owed)
  BY UnscheduleKeeps DEF GoodNow
<1>2. w \in Delayables => wk.dqueue[w] \in Asked
  BY DEF GoodNow, Good, WorkState, Asked
<1> HIDE DEF out
<1>3. Good(due, active, pc, sem, target, owed)
  BY <1>1, <1>2, SubmitKeeps
<1> HIDE DEF due
<1>4. CASE NeedsFlush(due, w)
  <2> DEFINE runs == RunsOf(due, w)
  <2>1. /\ sem' = [sem EXCEPT ![c] = 0] /\ pc' = [pc EXCEPT ![c] = "flush"]
        /\ target' = [target EXCEPT ![c] = w] /\ owed' = [owed EXCEPT ![c] = runs]
        /\ runs \subseteq {"queued", "running"}
    BY <1>0, <1>4 DEF Blocks, RunsOf
  <2> HIDE DEF runs
  <2>2. /\ pc'[c] = "flush" /\ sem'[c] = 0 /\ target'[c] = w /\ owed'[c] = runs
        /\ \A d \in Clients : d # c => /\ pc'[d] = pc[d] /\ sem'[d] = sem[d]
                                       /\ target'[d] = target[d] /\ owed'[d] = owed[d]
    BY <2>1 DEF Calls
  <2>3. Good(work_flush_locked(due, w, c), active, pc', sem', target', owed')
    BY <1>0, <1>3, <1>4, <2>2, FlushKeeps DEF runs
  <2>4. /\ sem' \in [Clients -> 0 .. 1] /\ pc' \in [Clients -> {"idle", "flush", "cancel", "drain"}]
        /\ target' \in [Clients -> Works \cup Queues \cup {NULL}]
        /\ owed' \in [Clients -> SUBSET {"queued", "running"}]
    BY <2>1 DEF Calls
  <2>5. Calls'
    BY <1>0, <2>2, <2>4 DEF Calls
  <2>6. QED
    BY <1>0, <2>3, <2>5 DEF GoodNow
<1>5. CASE ~NeedsFlush(due, w)
  <2>1. wk' = due /\ sem' = sem /\ pc' = pc /\ target' = target /\ owed' = owed
    BY <1>0, <1>5 DEF work_flush_locked
  <2>2. GoodNow'
    BY <1>0, <1>3, <2>1 DEF GoodNow
  <2>3. Calls'
    BY <1>0, <2>1 DEF Calls
  <2>4. QED
    BY <2>2, <2>3
<1>6. QED
  BY <1>4, <1>5

LEMMA CancelSyncKeeps ==
  ASSUME GoodNow, Calls, NEW c \in Clients, NEW w \in Works, k_work_cancel_sync(c, w)
  PROVE  GoodNow' /\ Calls'
<1> DEFINE out == CancelAsync(wk, w)
           ow == ForgivenByCancel(w)
<1>0. /\ pc[c] = "idle" /\ c \in Cancellers /\ wk' = out
      /\ IF Has(out, w, "CANCELING")
         THEN /\ Blocks(c, "cancel", w)
              /\ pending_cancels' = Append(pending_cancels, c)
              /\ owed' = [ow EXCEPT ![c] = RunsOf(out, w)]
         ELSE UNCHANGED <<sem, pc, target, pending_cancels>> /\ owed' = ow
      /\ active' = active /\ firing' = firing
  BY DEF k_work_cancel_sync, CanBlock
<1>1. Good(out, active, pc, sem, target, ow)
  BY CancelAsyncKeeps DEF GoodNow
<1>2. ow \in [Clients -> SUBSET {"queued", "running"}]
  BY ForgivenType
<1> HIDE DEF out, ow
<1>3. CASE Has(out, w, "CANCELING")
  <2> DEFINE runs == RunsOf(out, w)
  <2>1. runs \subseteq {"running"}
    BY <1>1, <1>3 DEF Good, FlagsAgree, RunsOf
  <2>2. /\ sem' = [sem EXCEPT ![c] = 0] /\ pc' = [pc EXCEPT ![c] = "cancel"]
        /\ target' = [target EXCEPT ![c] = w] /\ owed' = [ow EXCEPT ![c] = runs]
        /\ pending_cancels' = Append(pending_cancels, c)
    BY <1>0, <1>3 DEF Blocks
  <2> HIDE DEF runs
  <2>3. /\ pc'[c] = "cancel" /\ sem'[c] = 0 /\ target'[c] = w /\ owed'[c] = runs
        /\ \A d \in Clients : d # c => /\ pc'[d] = pc[d] /\ sem'[d] = sem[d]
                                       /\ target'[d] = target[d] /\ owed'[d] = ow[d]
    BY <1>2, <2>2 DEF Calls
  <2>4. Good(out, active, pc', sem', target', owed')
    <3>1. ASSUME NEW d \in Clients
          PROVE  /\ pc'[d] = "flush" /\ sem'[d] = 0 <=> pc[d] = "flush" /\ sem[d] = 0
                 /\ \/ owed'[d] \subseteq {"running"} /\ pc'[d] = "cancel" /\ sem'[d] = 0
                    \/ /\ owed'[d] = ow[d]
                       /\ pc'[d] = pc[d] /\ sem'[d] = sem[d] /\ target'[d] = target[d]
      BY <1>0, <2>1, <2>3
    <3>2. QED
      BY <1>1, <3>1, ClientFrame
  <2>5. /\ pending_cancels' \in Seq(Clients) /\ IsInjective(pending_cancels')
        /\ \A x : Contains(pending_cancels', x) <=> Contains(pending_cancels, x) \/ x = c
    <3>1. /\ pending_cancels \in Seq(Clients) /\ IsInjective(pending_cancels)
          /\ ~Contains(pending_cancels, c)
      BY <1>0 DEF Calls
    <3>2. /\ pending_cancels' \in Seq(Clients)
          /\ Inserted(pending_cancels', pending_cancels, c, Len(pending_cancels) + 1)
      BY <2>2, <3>1, AppendFacts
    <3>3. QED
      BY <3>1, <3>2, InsertedFacts
  <2>6. /\ sem' \in [Clients -> 0 .. 1] /\ pc' \in [Clients -> {"idle", "flush", "cancel", "drain"}]
        /\ target' \in [Clients -> Works \cup Queues \cup {NULL}]
        /\ owed' \in [Clients -> SUBSET {"queued", "running"}]
    BY <1>2, <2>1, <2>2 DEF Calls
  <2>7. ASSUME NEW d \in Clients
        PROVE  /\ Contains(pending_cancels', d) <=> pc'[d] = "cancel" /\ sem'[d] = 0
               /\ pc'[d] \in {"flush", "cancel"} => target'[d] \in Works
               /\ pc'[d] = "cancel" => d \in Cancellers
    BY <1>0, <2>3, <2>5 DEF Calls
  <2>8. Calls'
    BY <1>0, <2>5, <2>6, <2>7 DEF Calls
  <2>9. QED
    BY <1>0, <2>4, <2>8 DEF GoodNow
<1>4. CASE ~Has(out, w, "CANCELING")
  <2>1. /\ sem' = sem /\ pc' = pc /\ target' = target /\ pending_cancels' = pending_cancels
        /\ owed' = ow
    BY <1>0, <1>4
  <2>2. GoodNow'
    BY <1>0, <1>1, <2>1 DEF GoodNow
  <2>3. Calls'
    BY <1>0, <1>2, <2>1 DEF Calls
  <2>4. QED
    BY <2>2, <2>3
<1>5. QED
  BY <1>3, <1>4

-----------------------------------------------------------------------------
(* The invariant.                                                          *)

LEMMA InitGood ==
  ASSUME Init
  PROVE  GoodNow /\ Calls
<1>0. /\ wk \in WorkState /\ active = [q \in Queues |-> NULL] /\ pending_cancels = <<>>
      /\ sem = [c \in Clients |-> 0] /\ pc = [c \in Clients |-> "idle"]
      /\ target = [c \in Clients |-> NULL] /\ firing = NULL /\ owed = [c \in Clients |-> {}]
  BY DEF Init, WorkState
<1>1. /\ \A i \in Items : wk.flags[i] = {}
      /\ \A q \in Queues : wk.pending[q] = <<>> /\ wk.qflags[q] = {}
      /\ wk.notifyq = {}
  BY DEF Init
<1>2. \A i \in Items : \A f : ~Has(wk, i, f)
  BY <1>1 DEF Has
<1>3. \A i : ~Contains(<<>>, i)
  BY DEF Contains
<1>4. \A i, q : q \in Queues => ~On(wk, i, q)
  BY <1>1, <1>3 DEF On
<1>5. IsInjective(<<>>)
  BY DEF IsInjective
<1>6. FlagsAgree(wk) /\ ListsAgree(wk) /\ QueuesAgree(wk)
  BY <1>1, <1>2, <1>4, <1>5, Disjoint DEF FlagsAgree, ListsAgree, QueuesAgree
<1>7. ActiveAgree(wk, active)
  <2>1. NULL \notin Works /\ NULL \notin Clients /\ NULL \notin Items
    BY WorkAssumption DEF Items
  <2>2. \A q \in Queues : active[q] = NULL
    BY <1>0
  <2>3. QED
    BY <1>2, <2>1, <2>2 DEF ActiveAgree
<1>8. FlushersAgree(wk, active, pc, sem)
  BY <1>0, <1>4, Disjoint DEF FlushersAgree
<1>9. OwedAgree(wk, active, pc, sem, target, owed)
  BY <1>0 DEF OwedAgree
<1>10. Calls
  BY <1>0, <1>3, <1>5 DEF Calls
<1>11. QED
  BY <1>0, <1>6, <1>7, <1>8, <1>9, <1>10 DEF GoodNow, Good

(* The invariant is inductive.                                             *)
LEMMA WorkInductive ==
  ASSUME GoodNow, Calls, [Next]_vars
  PROVE  GoodNow' /\ Calls'
<1>1. ASSUME NEW w \in Works, NEW q \in Asked, NEW by \in Asked, k_work_submit_to_queue(w, q, by)
      PROVE  GoodNow' /\ Calls'
  BY <1>1, SubmissionKeeps
<1>2. ASSUME NEW w \in Delayables, NEW q \in Asked, NEW delay \in BOOLEAN, NEW by \in Asked,
             \/ k_work_schedule_for_queue(w, q, delay, by)
             \/ k_work_reschedule_for_queue(w, q, delay, by)
      PROVE  GoodNow' /\ Calls'
  BY <1>2, SchedulingKeeps
<1>3. ASSUME NEW w \in Works, k_work_cancel(w)
      PROVE  GoodNow' /\ Calls'
  BY <1>3, CancellationKeeps
<1>4. ASSUME NEW q \in Queues, k_work_queue_start(q) \/ k_work_queue_unplug(q)
      PROVE  GoodNow' /\ Calls'
  BY <1>4, StartKeeps, UnplugKeeps
<1>5. ASSUME NEW c \in Clients, NEW w \in Works, k_work_flush(c, w) \/ k_work_cancel_sync(c, w)
      PROVE  GoodNow' /\ Calls'
  BY <1>5, FlushCallKeeps, CancelSyncKeeps
<1>6. ASSUME NEW c \in Clients, NEW q \in Queues, NEW plug \in BOOLEAN,
             k_work_queue_drain(c, q, plug)
      PROVE  GoodNow' /\ Calls'
  BY <1>6, DrainKeeps
<1>7. ASSUME NEW c \in Clients, SyncReturns(c)
      PROVE  GoodNow' /\ Calls'
  BY <1>7, SyncReturnsKeeps
<1>8. ASSUME NEW q \in Queues, QueueThread(q)
      PROVE  GoodNow' /\ Calls'
  BY <1>8, QueueGetKeeps, QueueGetCalls, QueueIdleKeeps, QueueFinishKeeps DEF QueueThread
<1>9. ASSUME work_timeout \/ \E w \in Delayables : Announce(w)
      PROVE  GoodNow' /\ Calls'
  BY <1>9, TimeoutKeeps, AnnounceKeeps
<1>10. ASSUME UNCHANGED vars
       PROVE  GoodNow' /\ Calls'
  BY <1>10 DEF vars, GoodNow, Calls
<1>11. QED
  BY <1>1, <1>2, <1>3, <1>4, <1>5, <1>6, <1>7, <1>8, <1>9, <1>10 DEF Next, Call, Submits, BlockingCall

LEMMA WorkInvariant == Spec => [](GoodNow /\ Calls)
<1>1. Init => GoodNow /\ Calls
  BY InitGood
<1>2. (GoodNow /\ Calls) /\ [Next]_vars => (GoodNow /\ Calls)'
  BY WorkInductive
<1>3. QED
  BY <1>1, <1>2, PTL DEF Spec

-----------------------------------------------------------------------------
(* What follows from it.                                                   *)

(* Every variable keeps its type, and a canceller's record is on the list  *)
(* once, after any sequence of calls, timeouts and steps of queue threads. *)
THEOREM WorkTypeOK == Spec => []TypeOK
<1>1. GoodNow /\ Calls => TypeOK
  BY DEF GoodNow, Good, Calls, TypeOK
<1>2. QED
  BY <1>1, WorkInvariant, PTL

(* No two queue threads ever handle the same item, an item that is handled *)
(* is handled by the queue it names, and its RUNNING flag tells.           *)
THEOREM WorkNoReentry == Spec => []NoReentry
<1>1. GoodNow /\ Calls => NoReentry
  BY DEF GoodNow, Good, ActiveAgree, NoReentry
<1>2. QED
  BY <1>1, WorkInvariant, PTL

(* The pending lists of all queues agree with the flags of the items, with *)
(* the clients that wait in a flush and with the state of the queues.      *)
THEOREM WorkLists == Spec => []ListInv
<1>1. ASSUME GoodNow, Calls PROVE ListInv
  <2>1. /\ \A q \in Queues : IsInjective(wk.pending[q])
        /\ \A w \in Works, q \in Queues :
             Contains(wk.pending[q], w) <=> (Has(wk, w, "QUEUED") /\ wk.queue[w] = q)
    BY <1>1 DEF GoodNow, Good, ListsAgree, On
  <2>2. ASSUME NEW c \in Clients
        PROVE  LET on == {q \in Queues : Contains(wk.pending[q], c)}
                   in == {q \in Queues : active[q] = c}
               IN  IF pc[c] = "flush" /\ sem[c] = 0
                   THEN \E q \in Queues : (on = {q} /\ in = {}) \/ (on = {} /\ in = {q})
                   ELSE on = {} /\ in = {}
    <3> DEFINE on == {q \in Queues : Contains(wk.pending[q], c)}
               in == {q \in Queues : active[q] = c}
    <3>1. /\ pc[c] = "flush" /\ sem[c] = 0 <=>
               \E q \in Queues : Contains(wk.pending[q], c) \/ active[q] = c
          /\ \A q1, q2 \in Queues : Contains(wk.pending[q1], c) =>
               (Contains(wk.pending[q2], c) => q1 = q2) /\ active[q2] # c
      BY <1>1 DEF GoodNow, Good, FlushersAgree, On
    <3>2. \A q1, q2 \in Queues : active[q1] = c /\ active[q2] = c => q1 = q2
      BY <1>1, Disjoint DEF GoodNow, Good, ActiveAgree
    <3>3. CASE pc[c] = "flush" /\ sem[c] = 0
      <4>1. PICK q \in Queues : Contains(wk.pending[q], c) \/ active[q] = c
        BY <3>1, <3>3
      <4>2. CASE Contains(wk.pending[q], c)
        <5>1. on = {q} /\ in = {}
          BY <3>1, <4>2
        <5>2. QED
          BY <3>3, <5>1
      <4>3. CASE active[q] = c
        <5>1. on = {} /\ in = {q}
          BY <3>1, <3>2, <4>3
        <5>2. QED
          BY <3>3, <5>1
      <4>4. QED
        BY <4>1, <4>2, <4>3
    <3>4. CASE ~(pc[c] = "flush" /\ sem[c] = 0)
      BY <3>1, <3>4
    <3>5. QED
      BY <3>3, <3>4
  <2>3. ASSUME NEW q \in Queues, "PLUGGED" \in wk.qflags[q], "DRAIN" \notin wk.qflags[q]
        PROVE  wk.pending[q] = <<>> /\ active[q] = NULL
    BY <1>1, <2>3 DEF GoodNow, Good, QueuesAgree, ActiveAgree, Open
  <2>4. QED
    BY <2>1, <2>2, <2>3 DEF ListInv
<1>2. QED
  BY <1>1, WorkInvariant, PTL

(* The thread of a queue is never asleep over a pending item or a drain    *)
(* request.                                                                *)
THEOREM WorkNoLostWakeup == Spec => []NoLostWakeup
<1>1. GoodNow /\ Calls => NoLostWakeup
  BY DEF GoodNow, Good, WorkState, QueuesAgree, NoLostWakeup
<1>2. QED
  BY <1>1, WorkInvariant, PTL

(* A flush or a synchronous cancellation is released only when each run of *)
(* the item that it waits for has ended or was cancelled.                  *)
THEOREM WorkSyncHonest == Spec => []SyncHonest
<1>1. ASSUME GoodNow, Calls PROVE SyncHonest
  BY <1>1, NothingOwed DEF SyncHonest
<1>2. QED
  BY <1>1, WorkInvariant, PTL

-----------------------------------------------------------------------------
(* Delays and cancellations.  What the transformers do to the flags        *)
(* DELAYED and CANCELING and to the timeouts.                              *)
Kept(n, s) == \A w \in Works : Has(s, w, "CANCELING") => Has(n, w, "CANCELING")
Alike(n, s) ==
  /\ n.linked = s.linked /\ n.relinked = s.relinked /\ Kept(n, s)
  /\ \A w \in Works : Has(n, w, "DELAYED") <=> Has(s, w, "DELAYED")

LEMMA AlikeFlags ==
  ASSUME NEW n, NEW s, n.flags = s.flags, n.linked = s.linked, n.relinked = s.relinked
  PROVE  Alike(n, s)
BY DEF Alike, Kept, Has

LEMMA SubmitAlike ==
  ASSUME NEW s \in WorkState, NEW w \in Works, NEW asked \in Asked, NEW by
  PROVE  Alike(submit_to_queue_locked(s, w, asked, by), s)
<1> DEFINE n == submit_to_queue_locked(s, w, asked, by)
<1>1. CASE n = s
  BY <1>1, AlikeFlags
<1>2. CASE n # s
  <2> HIDE DEF n
  <2>1. PICK q \in Queues : Enqueued(n, s, w, q)
    BY <1>2, SubmitSpec DEF n
  <2>2. \A v \in Works : n.flags[v] = IF v = w THEN s.flags[v] \cup {"QUEUED"} ELSE s.flags[v]
    BY <2>1, Disjoint DEF Enqueued, WorkState
  <2>3. QED
    BY <2>1, <2>2 DEF Enqueued, Alike, Kept, Has, n
<1>3. QED
  BY <1>1, <1>2

(* unschedule_locked takes the flag and the timeout of w away.             *)
Undelayed(n, s, w) ==
  /\ n.relinked = s.relinked /\ Kept(n, s)
  /\ IF Has(s, w, "DELAYED") THEN n.linked = s.linked \ {w} ELSE n.linked = s.linked
  /\ \A v \in Works : Has(n, v, "DELAYED") <=> Has(s, v, "DELAYED") /\ v # w

LEMMA UnscheduleSpec ==
  ASSUME NEW s \in WorkState, NEW w \in Delayables
  PROVE  Undelayed(unschedule_locked(s, w), s, w)
<1> DEFINE n == unschedule_locked(s, w)
<1>0. w \in Works /\ w \in Items
  BY WorkAssumption DEF Items
<1>1. CASE ~Has(s, w, "DELAYED")
  BY <1>1 DEF unschedule_locked, Undelayed, Kept
<1>2. CASE Has(s, w, "DELAYED")
  <2>1. n = [s EXCEPT !.flags[w] = @ \ {"DELAYED"}, !.linked = @ \ {w}]
    BY <1>2 DEF unschedule_locked
  <2> HIDE DEF n
  <2>2. /\ n.flags = [s.flags EXCEPT ![w] = @ \ {"DELAYED"}]
        /\ n.linked = s.linked \ {w} /\ n.relinked = s.relinked
    BY <2>1 DEF WorkState
  <2>3. \A v \in Works : n.flags[v] = IF v = w THEN s.flags[v] \ {"DELAYED"} ELSE s.flags[v]
    BY <1>0, <2>2, Disjoint DEF WorkState
  <2>4. QED
    BY <1>2, <2>2, <2>3 DEF Undelayed, Kept, Has, n
<1>3. QED
  BY <1>1, <1>2

(* The delay branch of schedule_for_queue_locked sets them.                *)
Delayed(n, s, w) ==
  /\ n.linked = s.linked \cup {w} /\ Kept(n, s)
  /\ n.relinked <=> s.relinked \/ w \in s.linked
  /\ \A v \in Works : Has(n, v, "DELAYED") <=> Has(s, v, "DELAYED") \/ v = w

LEMMA DelaySpec ==
  ASSUME NEW s \in WorkState, NEW w \in Delayables, NEW q, NEW delay, delay, NEW by
  PROVE  Delayed(schedule_for_queue_locked(s, w, q, delay, by), s, w)
<1> DEFINE n == schedule_for_queue_locked(s, w, q, delay, by)
<1>0. w \in Works /\ w \in Items
  BY WorkAssumption DEF Items
<1>1. n = [s EXCEPT !.flags[w] = @ \cup {"DELAYED"}, !.dqueue[w] = q,
                    !.linked = @ \cup {w}, !.relinked = @ \/ w \in s.linked]
  BY DEF schedule_for_queue_locked
<1> HIDE DEF n
<1>2. /\ n.flags = [s.flags EXCEPT ![w] = @ \cup {"DELAYED"}]
      /\ n.linked = s.linked \cup {w} /\ (n.relinked <=> s.relinked \/ w \in s.linked)
  BY <1>1 DEF WorkState
<1>3. \A v \in Works : n.flags[v] = IF v = w THEN s.flags[v] \cup {"DELAYED"} ELSE s.flags[v]
  BY <1>0, <1>2, Disjoint DEF WorkState
<1>4. QED
  BY <1>2, <1>3 DEF Delayed, Kept, Has, n

(* k_work_cancel and k_work_cancel_delayable.                              *)
LEMMA CancelSpec ==
  ASSUME GoodNow, Calls, NEW w \in Works
  PROVE  LET out == IF w \in Delayables THEN unschedule_locked(wk, w) ELSE wk
         IN  Alike(CancelAsync(wk, w), out) /\ (w \in Delayables => Undelayed(out, wk, w))
<1> DEFINE out == IF w \in Delayables THEN unschedule_locked(wk, w) ELSE wk
           n == cancel_async_locked(out, w)
<1>1. Good(out, active, pc, sem, target, owed) /\ ~Has(out, w, "DELAYED")
  BY UnscheduleKeeps DEF GoodNow, Good, FlagsAgree
<1>2. w \in Delayables => Undelayed(out, wk, w)
  BY UnscheduleSpec DEF GoodNow, Good
<1>3. n = CancelAsync(wk, w)
  BY DEF CancelAsync
<1> HIDE DEF out
<1> DEFINE less == [c \in Clients |-> {}]
<1>4. /\ \A c \in Clients : less[c] \subseteq owed[c]
      /\ \A c \in Clients : target[c] = w /\ ~Has(out, w, "CANCELING") => "queued" \notin less[c]
  OBVIOUS
<1> HIDE DEF less
<1>5. /\ n.linked = out.linked /\ n.relinked = out.relinked
      /\ \A i \in Items : /\ Has(n, i, "DELAYED") <=> Has(out, i, "DELAYED")
                          /\ Has(out, i, "CANCELING") => Has(n, i, "CANCELING")
  BY <1>1, <1>4, CancelKeeps
<1>6. Alike(n, out)
  BY <1>5, Disjoint DEF Alike, Kept
<1>7. QED
  BY <1>2, <1>3, <1>6 DEF out

(* Threads make calls only while no timeout callback is due.               *)
Delays(s, f) ==
  /\ ~s.relinked
  /\ \A w \in Delayables : /\ Has(s, w, "DELAYED") => (w \in s.linked \/ f = w)
                           /\ w \in s.linked => Has(s, w, "DELAYED")
                           /\ f = w => w \notin s.linked

LEMMA AlikeDelays ==
  ASSUME NEW n, NEW s, NEW f, Alike(n, s), Delays(s, f)
  PROVE  Delays(n, f)
BY WorkAssumption DEF Alike, Delays

LEMMA UndelayedDelays ==
  ASSUME NEW n, NEW s, NEW w \in Delayables, Undelayed(n, s, w), Delays(s, NULL)
  PROVE  Delays(n, NULL) /\ w \notin n.linked
BY WorkAssumption DEF Undelayed, Delays

(* k_work_schedule_for_queue and k_work_reschedule_for_queue: the timeout  *)
(* of an item that is not delayed is not linked.                           *)
LEMMA ScheduleDelays ==
  ASSUME NEW s \in WorkState, NEW w \in Delayables, NEW q \in Asked, NEW delay \in BOOLEAN, NEW by,
         Delays(s, NULL), ~Has(s, w, "DELAYED")
  PROVE  Delays(schedule_for_queue_locked(s, w, q, delay, by), NULL)
<1>1. CASE ~delay
  <2>1. w \in Works
    BY WorkAssumption
  <2>2. QED
    BY <1>1, <2>1, SubmitAlike, AlikeDelays DEF schedule_for_queue_locked
<1>2. CASE delay
  <2> DEFINE n == schedule_for_queue_locked(s, w, q, delay, by)
  <2>1. Delayed(n, s, w)
    BY <1>2, DelaySpec
  <2> HIDE DEF n
  <2>2. Delays(n, NULL)
    BY <2>1, WorkAssumption DEF Delayed, Delays
  <2>3. QED
    BY <2>2 DEF n
<1>3. QED
  BY <1>1, <1>2

(* Steps that are no part of a delay, and keep cancellations going.        *)
LEMMA OtherSteps ==
  ASSUME GoodNow, Calls,
         \/ \E q \in Queues : k_work_queue_start(q) \/ k_work_queue_unplug(q)
         \/ \E c \in Clients, q \in Queues, plug \in BOOLEAN : k_work_queue_drain(c, q, plug)
         \/ \E c \in Clients : SyncReturns(c)
         \/ \E q \in Queues : QueueGet(q) \/ QueueIdle(q)
         \/ UNCHANGED vars
  PROVE  Alike(wk', wk) /\ firing' = firing
<1>0. wk \in WorkState
  BY DEF GoodNow, Good
<1>1. ASSUME NEW q \in Queues, k_work_queue_start(q) \/ k_work_queue_unplug(q)
      PROVE  Alike(wk', wk) /\ firing' = firing
  <2>1. wk'.flags = wk.flags /\ wk'.linked = wk.linked /\ wk'.relinked = wk.relinked
    BY <1>0, <1>1 DEF k_work_queue_start, k_work_queue_unplug, WorkState
  <2>2. QED
    BY <1>1, <2>1, AlikeFlags DEF k_work_queue_start, k_work_queue_unplug, NoClientChanges
<1>2. ASSUME NEW c \in Clients, NEW q \in Queues, NEW plug \in BOOLEAN, k_work_queue_drain(c, q, plug)
      PROVE  Alike(wk', wk) /\ firing' = firing
  <2>1. wk'.flags = wk.flags /\ wk'.linked = wk.linked /\ wk'.relinked = wk.relinked
    BY <1>0, <1>2 DEF k_work_queue_drain, notify_queue_locked, WorkState
  <2>2. QED
    BY <1>2, <2>1, AlikeFlags DEF k_work_queue_drain
<1>3. ASSUME NEW c \in Clients, SyncReturns(c)
      PROVE  Alike(wk', wk) /\ firing' = firing
  BY <1>3, AlikeFlags DEF SyncReturns
<1>4. ASSUME NEW q \in Queues, QueueGet(q)
      PROVE  Alike(wk', wk) /\ firing' = firing
  <2> DEFINE i == Head(wk.pending[q])
  <2>1. i \in Items
    <3>1. wk.pending[q] \in Seq(Items) /\ wk.pending[q] # <<>>
      BY <1>0, <1>4 DEF QueueGet, WorkState
    <3>2. QED
      BY <3>1
  <2>2. /\ wk' = [wk EXCEPT !.pending[q] = Tail(@), !.qflags[q] = @ \cup {"BUSY"},
                            !.flags[i] = (@ \cup {"RUNNING"}) \ {"QUEUED"}]
        /\ firing' = firing
    BY <1>4 DEF QueueGet
  <2> HIDE DEF i
  <2>3. /\ wk'.flags = [wk.flags EXCEPT ![i] = (@ \cup {"RUNNING"}) \ {"QUEUED"}]
        /\ wk'.linked = wk.linked /\ wk'.relinked = wk.relinked
    BY <1>0, <2>2 DEF WorkState
  <2>4. \A v \in Works : wk'.flags[v] = IF v = i THEN (wk.flags[v] \cup {"RUNNING"}) \ {"QUEUED"}
                                        ELSE wk.flags[v]
    BY <1>0, <2>1, <2>3, Disjoint DEF WorkState
  <2>5. QED
    BY <2>2, <2>3, <2>4 DEF Alike, Kept, Has
<1>5. ASSUME NEW q \in Queues, QueueIdle(q)
      PROVE  Alike(wk', wk) /\ firing' = firing
  <2>1. wk'.flags = wk.flags /\ wk'.linked = wk.linked /\ wk'.relinked = wk.relinked
    BY <1>0, <1>5 DEF QueueIdle, WorkState
  <2>2. QED
    BY <1>5, <2>1, AlikeFlags DEF QueueIdle
<1>6. ASSUME UNCHANGED vars
      PROVE  Alike(wk', wk) /\ firing' = firing
  BY <1>6, AlikeFlags DEF vars
<1>7. QED
  BY <1>1, <1>2, <1>3, <1>4, <1>5, <1>6

LEMMA FinishSpec ==
  ASSUME GoodNow, Calls, NEW q \in Queues, QueueFinish(q)
  PROVE  /\ active[q] \in Items /\ firing' = firing
         /\ wk'.linked = wk.linked /\ wk'.relinked = wk.relinked
         /\ \A v \in Works : /\ Has(wk', v, "DELAYED") <=> Has(wk, v, "DELAYED")
                             /\ Has(wk', v, "CANCELING") <=> Has(wk, v, "CANCELING") /\ v # active[q]
<1> DEFINE i == active[q]
<1>0. wk \in WorkState /\ i \in Items
  BY DEF GoodNow, Good, Calls, QueueFinish
<1>1. /\ wk' = [wk EXCEPT !.flags[i] = @ \ {"RUNNING", "FLUSHING", "CANCELING"},
                          !.qflags[q] = @ \ {"BUSY"}]
      /\ firing' = firing
  BY DEF QueueFinish
<1> HIDE DEF i
<1>2. /\ wk'.flags = [wk.flags EXCEPT ![i] = @ \ {"RUNNING", "FLUSHING", "CANCELING"}]
      /\ wk'.linked = wk.linked /\ wk'.relinked = wk.relinked
  BY <1>0, <1>1 DEF WorkState
<1>3. \A v \in Works : wk'.flags[v] = IF v = i THEN wk.flags[v] \ {"RUNNING", "FLUSHING", "CANCELING"}
                                      ELSE wk.flags[v]
  BY <1>0, <1>2, Disjoint DEF WorkState
<1>4. \A v \in Works : /\ Has(wk', v, "DELAYED") <=> Has(wk, v, "DELAYED")
                       /\ Has(wk', v, "CANCELING") <=> Has(wk, v, "CANCELING") /\ v # i
  BY <1>3 DEF Has
<1>5. QED
  BY <1>0, <1>1, <1>2, <1>4 DEF i

(* k_work_flush and k_work_flush_delayable.                                *)
LEMMA FlushSpec ==
  ASSUME GoodNow, Calls, NEW c \in Clients, NEW w \in Works, k_work_flush(c, w)
  PROVE  \E out : /\ Alike(wk', out)
                  /\ out = wk \/ (w \in Delayables /\ Undelayed(out, wk, w))
<1> DEFINE out == IF w \in Delayables THEN unschedule_locked(wk, w) ELSE wk
           due == IF w \in Delayables /\ Unscheduled(wk, w)
                  THEN submit_to_queue_locked(out, w, wk.dqueue[w], NULL) ELSE out
<1>0. wk' = work_flush_locked(due, w, c) /\ pc[c] = "idle"
  BY DEF k_work_flush, CanBlock
<1>1. Good(out, active, pc, sem, target, owed)
  BY UnscheduleKeeps DEF GoodNow
<1>2. w \in Delayables => wk.dqueue[w] \in Asked
  BY DEF GoodNow, Good, WorkState, Asked
<1>3. out = wk \/ (w \in Delayables /\ Undelayed(out, wk, w))
  BY UnscheduleSpec DEF GoodNow, Good
<1> HIDE DEF out
<1>4. Good(due, active, pc, sem, target, owed)
  BY <1>1, <1>2, SubmitKeeps
<1>5. Alike(due, out)
  <2>1. out \in WorkState
    BY <1>1 DEF Good
  <2>2. QED
    BY <1>2, <2>1, SubmitAlike, AlikeFlags
<1> HIDE DEF due
<1>6. Alike(wk', due)
  <2>1. CASE ~NeedsFlush(due, w)
    BY <1>0, <2>1, AlikeFlags DEF work_flush_locked
  <2>2. CASE NeedsFlush(due, w)
    <3> DEFINE p2 == [d \in Clients |-> IF d = c THEN "flush" ELSE pc[d]]
               sm2 == [d \in Clients |-> IF d = c THEN 0 ELSE sem[d]]
               tg2 == [d \in Clients |-> IF d = c THEN w ELSE target[d]]
               ow2 == [d \in Clients |-> IF d = c THEN RunsOf(due, w) ELSE owed[d]]
    <3>1. /\ p2[c] = "flush" /\ sm2[c] = 0 /\ tg2[c] = w /\ ow2[c] = RunsOf(due, w)
          /\ \A d \in Clients : d # c => /\ p2[d] = pc[d] /\ sm2[d] = sem[d]
                                         /\ tg2[d] = target[d] /\ ow2[d] = owed[d]
      OBVIOUS
    <3> HIDE DEF p2, sm2, tg2, ow2
    <3>2. /\ wk'.linked = due.linked /\ wk'.relinked = due.relinked
          /\ \A i \in Works : wk'.flags[i] = due.flags[i]
      BY <1>0, <1>4, <2>2, <3>1, FlushKeeps
    <3>3. QED
      BY <3>2 DEF Alike, Kept, Has
  <2>3. QED
    BY <2>1, <2>2
<1>7. Alike(wk', out)
  BY <1>5, <1>6 DEF Alike, Kept
<1>8. QED
  BY <1>3, <1>7

LEMMA DelaysInductive ==
  ASSUME ~NestedISR, GoodNow, Calls, Delays(wk, firing), [Next]_vars
  PROVE  Delays(wk, firing)'
<1>0. wk \in WorkState /\ \A by \in Asked : Caller(by) => firing = NULL
  BY DEF GoodNow, Good, Caller
<1>1. ASSUME NEW w \in Works, NEW q \in Asked, NEW by \in Asked, k_work_submit_to_queue(w, q, by)
      PROVE  Delays(wk, firing)'
  <2>1. wk' = submit_to_queue_locked(wk, w, q, by) /\ firing' = firing
    BY <1>1 DEF k_work_submit_to_queue, NoClientChanges
  <2>2. QED
    BY <1>0, <2>1, SubmitAlike, AlikeDelays
<1>2. ASSUME NEW w \in Delayables, NEW q \in Asked, NEW delay \in BOOLEAN, NEW by \in Asked,
             k_work_schedule_for_queue(w, q, delay, by)
      PROVE  Delays(wk, firing)'
  <2>1. /\ wk' = schedule_for_queue_locked(wk, w, q, delay, by) /\ firing' = firing
        /\ ~Has(wk, w, "DELAYED") /\ firing = NULL
    BY <1>0, <1>2 DEF k_work_schedule_for_queue, NoClientChanges, Has
  <2>2. QED
    BY <1>0, <2>1, ScheduleDelays
<1>3. ASSUME NEW w \in Delayables, NEW q \in Asked, NEW delay \in BOOLEAN, NEW by \in Asked,
             k_work_reschedule_for_queue(w, q, delay, by)
      PROVE  Delays(wk, firing)'
  <2> DEFINE s == unschedule_locked(wk, w)
  <2>1. /\ wk' = schedule_for_queue_locked(s, w, q, delay, by) /\ firing' = firing
        /\ firing = NULL
    BY <1>0, <1>3 DEF k_work_reschedule_for_queue, NoClientChanges
  <2>2. Undelayed(s, wk, w)
    BY <1>0, UnscheduleSpec
  <2>3. s \in WorkState /\ ~Has(s, w, "DELAYED")
    BY UnscheduleKeeps DEF GoodNow, Good
  <2> HIDE DEF s
  <2>4. Delays(s, NULL)
    BY <2>1, <2>2, UndelayedDelays
  <2>5. QED
    BY <2>1, <2>3, <2>4, ScheduleDelays
<1>4. ASSUME NEW w \in Works, wk' = CancelAsync(wk, w), firing' = firing, firing = NULL
      PROVE  Delays(wk, firing)'
  <2> DEFINE out == IF w \in Delayables THEN unschedule_locked(wk, w) ELSE wk
  <2>1. Alike(wk', out) /\ (w \in Delayables => Undelayed(out, wk, w))
    BY <1>4, CancelSpec
  <2>2. w \notin Delayables => out = wk
    OBVIOUS
  <2> HIDE DEF out
  <2>3. Delays(out, NULL)
    BY <1>4, <2>1, <2>2, UndelayedDelays
  <2>4. QED
    BY <1>4, <2>1, <2>3, AlikeDelays
<1>5. ASSUME NEW c \in Clients, NEW w \in Works, k_work_flush(c, w)
      PROVE  Delays(wk, firing)'
  <2>1. firing = NULL /\ firing' = firing
    BY <1>5 DEF k_work_flush, CanBlock
  <2>2. PICK out : Alike(wk', out) /\ (out = wk \/ (w \in Delayables /\ Undelayed(out, wk, w)))
    BY <1>5, FlushSpec
  <2>3. Delays(out, NULL)
    BY <2>1, <2>2, UndelayedDelays
  <2>4. QED
    BY <2>1, <2>2, <2>3, AlikeDelays
<1>6. ASSUME NEW q \in Queues, QueueFinish(q)
      PROVE  Delays(wk, firing)'
  BY <1>6, FinishSpec, WorkAssumption DEF Delays
<1>7. ASSUME NEW w \in Delayables, Announce(w)
      PROVE  Delays(wk, firing)'
  <2>1. /\ wk' = [wk EXCEPT !.linked = @ \ {w}] /\ firing' = w /\ firing = NULL /\ w \in wk.linked
    BY <1>7 DEF Announce
  <2>2. wk'.linked = wk.linked \ {w} /\ wk'.relinked = wk.relinked /\ wk'.flags = wk.flags
    BY <1>0, <2>1 DEF WorkState
  <2>3. QED
    BY <2>1, <2>2, WorkAssumption DEF Delays, Has
<1>8. ASSUME work_timeout
      PROVE  Delays(wk, firing)'
  <2> DEFINE w == firing
             s == [wk EXCEPT !.flags[w] = @ \ {"DELAYED"}]
             n == submit_to_queue_locked(s, w, wk.dqueue[w], NULL)
  <2>0. /\ w \in Delayables /\ w \in Works /\ w \in Items /\ wk.dqueue[w] \in Asked /\ firing' = NULL
    BY <1>0, <1>8, WorkAssumption DEF work_timeout, Calls, Items, WorkState, Asked
  <2>1. CASE ~Has(wk, w, "DELAYED")
    <3>1. wk' = wk
      BY <1>8, <2>1 DEF work_timeout
    <3>2. QED
      BY <2>0, <2>1, <3>1, WorkAssumption DEF Delays
  <2>2. CASE Has(wk, w, "DELAYED")
    <3>1. wk' = n
      BY <1>8, <2>2 DEF work_timeout
    <3>2. /\ s \in WorkState /\ s.flags = [wk.flags EXCEPT ![w] = @ \ {"DELAYED"}]
          /\ s.linked = wk.linked /\ s.relinked = wk.relinked
      BY <1>0, <2>0 DEF WorkState
    <3>3. \A v \in Works : s.flags[v] = IF v = w THEN wk.flags[v] \ {"DELAYED"} ELSE wk.flags[v]
      BY <1>0, <2>0, <3>2, Disjoint DEF WorkState
    <3> HIDE DEF s
    <3>4. Delays(s, NULL)
      BY <2>0, <3>2, <3>3, WorkAssumption DEF Delays, Has
    <3>5. Alike(n, s)
      BY <2>0, <3>2, SubmitAlike
    <3> HIDE DEF n
    <3>6. Delays(n, NULL)
      BY <3>4, <3>5, AlikeDelays
    <3>7. QED
      BY <2>0, <3>1, <3>6
  <2>3. QED
    BY <2>1, <2>2
<1>9. ASSUME Alike(wk', wk), firing' = firing
      PROVE  Delays(wk, firing)'
  BY <1>9, AlikeDelays
<1>10. ASSUME NEW w \in Works, k_work_cancel(w)
       PROVE  Delays(wk, firing)'
  <2>1. NULL \in Asked
    BY DEF Asked
  <2>2. QED
    BY <1>0, <1>4, <1>10, <2>1 DEF k_work_cancel, NoClientChanges
<1>11. ASSUME NEW c \in Clients, NEW w \in Works, k_work_cancel_sync(c, w)
       PROVE  Delays(wk, firing)'
  BY <1>4, <1>11 DEF k_work_cancel_sync, CanBlock
<1>12. QED
  BY <1>1, <1>2, <1>3, <1>5, <1>6, <1>7, <1>8, <1>9, <1>10, <1>11, OtherSteps
     DEF Next, Call, Submits, BlockingCall, QueueThread

(* When no interrupt preempts the timer interrupt, no delay is lost, none  *)
(* outlives its cancellation and no timeout is linked twice.               *)
THEOREM WorkDelays ==
  ASSUME ~NestedISR
  PROVE  Spec => []DelayInv
<1>1. Init => Delays(wk, firing)
  <2>1. ASSUME Init PROVE ~wk.relinked /\ wk.linked = {} /\ \A i \in Items : wk.flags[i] = {}
    BY <2>1 DEF Init
  <2>2. ASSUME Init PROVE Delays(wk, firing)
    BY <2>1, <2>2, WorkAssumption DEF Delays, Has, Items
  <2>3. QED
    BY <2>2
<1>2. (GoodNow /\ Calls) /\ Delays(wk, firing) /\ [Next]_vars => Delays(wk, firing)'
  BY DelaysInductive
<1>3. Delays(wk, firing) => DelayInv
  BY DEF Delays, DelayInv
<1>4. QED
  BY <1>1, <1>2, <1>3, WorkInvariant, PTL DEF Spec

(* A canceller waits for an item that still is CANCELING.                  *)
WaitsToCancel(c) == pc[c] = "cancel" /\ sem[c] = 0
Stays == \A c \in Clients : WaitsToCancel(c) => Has(wk, target[c], "CANCELING")

(* No two threads wait for the cancellation of one item: an item is        *)
(* cancelled synchronously by one thread at a time.                        *)
OneEach == \A c, d \in Clients : WaitsToCancel(c) /\ WaitsToCancel(d) /\ target[c] = target[d] => c = d

LEMMA StaysFrame ==
  ASSUME Calls, Stays, Kept(wk', wk),
         \A c \in Clients : WaitsToCancel(c)' => WaitsToCancel(c) /\ target'[c] = target[c]
  PROVE  Stays'
<1>1. \A c \in Clients : WaitsToCancel(c) => target[c] \in Works
  BY DEF Calls, WaitsToCancel
<1>2. ASSUME NEW c \in Clients, WaitsToCancel(c)' PROVE Has(wk, target[c], "CANCELING")'
  BY <1>1, <1>2 DEF Stays, Kept, Has
<1>3. QED
  BY <1>2 DEF Stays

(* Only the end of a run ends a cancellation, and it releases the first    *)
(* canceller of the item: with one canceller per item there is no other.   *)
LEMMA StaysInductive ==
  ASSUME OneEach, GoodNow, Calls, Stays, [Next]_vars
  PROVE  Stays'
<1>0. /\ wk \in WorkState /\ sem \in [Clients -> 0 .. 1]
      /\ pc \in [Clients -> {"idle", "flush", "cancel", "drain"}]
      /\ target \in [Clients -> Works \cup Queues \cup {NULL}]
  BY DEF GoodNow, Good, Calls
<1>1. ASSUME NoClientChanges, Kept(wk', wk) PROVE Stays'
  BY <1>1, StaysFrame DEF NoClientChanges, WaitsToCancel
<1>2. ASSUME NEW w \in Works, NEW q \in Asked, NEW by \in Asked, k_work_submit_to_queue(w, q, by)
      PROVE  Stays'
  BY <1>0, <1>1, <1>2, SubmitAlike DEF k_work_submit_to_queue, Alike
<1>3. ASSUME NEW w \in Delayables, NEW q \in Asked, NEW delay \in BOOLEAN, NEW by \in Asked,
             \/ k_work_schedule_for_queue(w, q, delay, by)
             \/ k_work_reschedule_for_queue(w, q, delay, by)
      PROVE  Stays'
  <2>1. PICK s : /\ s = wk \/ s = unschedule_locked(wk, w)
                 /\ wk' = schedule_for_queue_locked(s, w, q, delay, by)
    BY <1>3 DEF k_work_schedule_for_queue, k_work_reschedule_for_queue
  <2>2. NoClientChanges
    BY <1>3 DEF k_work_schedule_for_queue, k_work_reschedule_for_queue
  <2>3. s \in WorkState /\ Kept(s, wk) /\ w \in Works
    <3>1. s = wk => s \in WorkState /\ Kept(s, wk)
      BY <1>0 DEF Kept
    <3>2. s = unschedule_locked(wk, w) => s \in WorkState /\ Kept(s, wk)
      BY <1>0, UnscheduleSpec, UnscheduleKeeps DEF GoodNow, Good, Undelayed
    <3>3. QED
      BY <2>1, <3>1, <3>2, WorkAssumption
  <2>4. Kept(wk', s)
    <3>1. CASE delay
      BY <2>1, <2>3, <3>1, DelaySpec DEF Delayed
    <3>2. CASE ~delay
      BY <2>1, <2>3, <3>2, SubmitAlike DEF schedule_for_queue_locked, Alike
    <3>3. QED
      BY <3>1, <3>2
  <2>5. Kept(wk', wk)
    BY <2>3, <2>4 DEF Kept
  <2>6. QED
    BY <1>1, <2>2, <2>5
<1>4. ASSUME NEW w \in Works, wk' = CancelAsync(wk, w)
      PROVE  Kept(wk', wk)
  <2> DEFINE out == IF w \in Delayables THEN unschedule_locked(wk, w) ELSE wk
  <2>1. Alike(wk', out) /\ (w \in Delayables => Undelayed(out, wk, w))
    BY <1>4, CancelSpec
  <2>2. w \notin Delayables => out = wk
    OBVIOUS
  <2> HIDE DEF out
  <2>3. QED
    BY <2>1, <2>2 DEF Alike, Undelayed, Kept
<1>5. ASSUME NEW w \in Works, k_work_cancel(w) PROVE Stays'
  BY <1>1, <1>4, <1>5 DEF k_work_cancel
<1>6. ASSUME NEW c \in Clients, NEW w \in Works, k_work_cancel_sync(c, w)
      PROVE  Stays'
  <2>1. Kept(wk', wk)
    BY <1>4, <1>6 DEF k_work_cancel_sync
  <2>2. CASE Has(wk', w, "CANCELING")
    <3>1. sem' = [sem EXCEPT ![c] = 0] /\ pc' = [pc EXCEPT ![c] = "cancel"]
          /\ target' = [target EXCEPT ![c] = w]
      BY <1>6, <2>2 DEF k_work_cancel_sync, Blocks
    <3>2. /\ target'[c] = w
          /\ \A d \in Clients : d # c => pc'[d] = pc[d] /\ sem'[d] = sem[d] /\ target'[d] = target[d]
      BY <1>0, <3>1
    <3>3. ASSUME NEW d \in Clients, d # c, WaitsToCancel(d)'
          PROVE  Has(wk', target'[d], "CANCELING")
      <4>1. WaitsToCancel(d) /\ target[d] \in Works /\ target'[d] = target[d]
        BY <3>2, <3>3 DEF WaitsToCancel, Calls
      <4>2. QED
        BY <2>1, <4>1 DEF Stays, Kept
    <3>4. ASSUME NEW d \in Clients, WaitsToCancel(d)' PROVE Has(wk', target'[d], "CANCELING")
      BY <2>2, <3>2, <3>3, <3>4
    <3>5. QED
      BY <3>4 DEF Stays, Has
  <2>3. CASE ~Has(wk', w, "CANCELING")
    <3>1. sem' = sem /\ pc' = pc /\ target' = target
      BY <1>6, <2>3 DEF k_work_cancel_sync
    <3>2. QED
      BY <2>1, <3>1, StaysFrame DEF WaitsToCancel
  <2>4. QED
    BY <2>2, <2>3
<1>7. ASSUME NEW c \in Clients, NEW w \in Works, k_work_flush(c, w)
      PROVE  Stays'
  <2>1. PICK out : Alike(wk', out) /\ (out = wk \/ (w \in Delayables /\ Undelayed(out, wk, w)))
    BY <1>7, FlushSpec
  <2>2. Kept(wk', wk)
    BY <2>1 DEF Alike, Undelayed, Kept
  <2>3. \/ /\ sem' = [sem EXCEPT ![c] = 0] /\ pc' = [pc EXCEPT ![c] = "flush"]
           /\ target' = [target EXCEPT ![c] = w]
        \/ sem' = sem /\ pc' = pc /\ target' = target
    BY <1>7 DEF k_work_flush, Blocks
  <2>4. \A d \in Clients : \/ pc'[d] = "flush"
                           \/ pc'[d] = pc[d] /\ sem'[d] = sem[d] /\ target'[d] = target[d]
    BY <1>0, <2>3
  <2>5. QED
    BY <2>2, <2>4, StaysFrame DEF WaitsToCancel
<1>8. ASSUME NEW q \in Queues, QueueFinish(q)
      PROVE  Stays'
  <2> DEFINE i == active[q]
  <2>1. /\ i \in Items /\ pc' = pc /\ target' = target
        /\ \A v \in Works : Has(wk', v, "CANCELING") <=> Has(wk, v, "CANCELING") /\ v # i
    BY <1>8, FinishSpec DEF QueueFinish
  <2>2. ASSUME NEW c \in Clients, WaitsToCancel(c)'
        PROVE  Has(wk', target'[c], "CANCELING")
    <3>1. CASE WaitsToCancel(c) /\ target[c] # i
      BY <2>1, <3>1 DEF Stays, Calls, WaitsToCancel
    <3>2. CASE WaitsToCancel(c) /\ target[c] = i
      <4>1. i \in Works /\ Has(wk, i, "CANCELING") /\ Contains(pending_cancels, c)
        BY <3>2 DEF Stays, Calls, WaitsToCancel
      <4>2. ~Has(wk, i, "FLUSHING")
        BY <4>1 DEF GoodNow, Good, FlagsAgree
      <4>3. finalize_cancel_locked(i)
        BY <1>8, <4>1, <4>2 DEF QueueFinish
      <4> HIDE DEF i
      <4>4. PICK d \in Clients : Released(i, d)
        BY <3>2, <4>1, <4>3, FinalizeSpec
      <4>5. d = c
        <5>1. WaitsToCancel(d) /\ target[d] = i
          BY <4>4 DEF Released, Calls, WaitsToCancel
        <5>2. QED
          BY <3>2, <5>1 DEF OneEach
      <4>6. sem'[c] = 1
        BY <1>0, <4>4, <4>5 DEF Released
      <4>7. QED
        BY <2>2, <4>6 DEF WaitsToCancel
    <3>3. CASE ~WaitsToCancel(c)
      <4>1. pc[c] = "cancel" /\ sem[c] # 0 /\ sem'[c] = 0
        BY <2>1, <2>2, <3>3 DEF WaitsToCancel
      <4>2. \/ sem' = sem
            \/ \E d \in Clients : sem' = [sem EXCEPT ![d] = 1]
        <5>1. CASE Has(wk, i, "FLUSHING")
          <6>1. i \in Clients
            BY <2>1, <5>1 DEF GoodNow, Good, FlagsAgree, Items
          <6>2. QED
            BY <1>8, <5>1, <6>1 DEF QueueFinish
        <5>2. CASE ~Has(wk, i, "FLUSHING") /\ ~Has(wk, i, "CANCELING")
          BY <1>8, <5>2 DEF QueueFinish
        <5>3. CASE ~Has(wk, i, "FLUSHING") /\ Has(wk, i, "CANCELING")
          <6>1. finalize_cancel_locked(i)
            BY <1>8, <5>3 DEF QueueFinish
          <6>2. i \in Works
            <7>1. i \in Clients => Has(wk, i, "FLUSHING")
              BY DEF GoodNow, Good, ActiveAgree
            <7>2. QED
              BY <2>1, <5>3, <7>1 DEF Items
          <6> HIDE DEF i
          <6>3. QED
            BY <6>1, <6>2, FinalizeSpec DEF Released
        <5>4. QED
          BY <5>1, <5>2, <5>3
      <4>3. sem'[c] = sem[c] \/ sem'[c] = 1
        BY <1>0, <4>2
      <4>4. QED
        BY <4>1, <4>3
    <3>4. QED
      BY <3>1, <3>2, <3>3
  <2>3. QED
    BY <2>2 DEF Stays, Has
<1>9. ASSUME NEW w \in Delayables, Announce(w)
      PROVE  Stays'
  <2>1. /\ wk' = [wk EXCEPT !.linked = @ \ {w}] /\ sem' = sem /\ pc' = pc /\ target' = target
    BY <1>9 DEF Announce
  <2>2. Kept(wk', wk)
    BY <1>0, <2>1 DEF Kept, Has, WorkState
  <2>3. QED
    BY <2>1, <2>2, StaysFrame DEF WaitsToCancel
<1>10. ASSUME work_timeout
       PROVE  Stays'
  <2> DEFINE w == firing
             s == [wk EXCEPT !.flags[w] = @ \ {"DELAYED"}]
             n == submit_to_queue_locked(s, w, wk.dqueue[w], NULL)
  <2>0. w \in Works /\ w \in Items /\ wk.dqueue[w] \in Asked
    BY <1>0, <1>10, WorkAssumption DEF work_timeout, Calls, Items, WorkState, Asked
  <2>1. (wk' = n \/ wk' = wk) /\ sem' = sem /\ pc' = pc /\ target' = target
    BY <1>10 DEF work_timeout
  <2>2. s \in WorkState /\ Kept(s, wk)
    <3>1. s \in WorkState /\ s.flags = [wk.flags EXCEPT ![w] = @ \ {"DELAYED"}]
      BY <1>0, <2>0 DEF WorkState
    <3>2. \A v \in Works : s.flags[v] = IF v = w THEN wk.flags[v] \ {"DELAYED"} ELSE wk.flags[v]
      BY <1>0, <2>0, <3>1, Disjoint DEF WorkState
    <3> HIDE DEF s
    <3>3. QED
      BY <3>1, <3>2 DEF Kept, Has
  <2> HIDE DEF s
  <2>3. Kept(n, s)
    BY <2>0, <2>2, SubmitAlike DEF Alike
  <2> HIDE DEF n
  <2>4. Kept(wk', wk)
    BY <2>1, <2>2, <2>3 DEF Kept
  <2>5. QED
    BY <2>1, <2>4, StaysFrame DEF WaitsToCancel
<1>11. ASSUME Kept(wk', wk),
              \A d \in Clients : \/ pc'[d] # "cancel"
                                 \/ pc'[d] = pc[d] /\ sem'[d] = sem[d] /\ target'[d] = target[d]
       PROVE  Stays'
  BY <1>11, StaysFrame DEF WaitsToCancel
<1>12. ASSUME NEW q \in Queues, k_work_queue_start(q) \/ k_work_queue_unplug(q)
       PROVE  Stays'
  <2>1. Kept(wk', wk)
    BY <1>12, OtherSteps DEF Alike
  <2>2. QED
    BY <1>1, <1>12, <2>1 DEF k_work_queue_start, k_work_queue_unplug
<1>13. ASSUME NEW c \in Clients, NEW q \in Queues, NEW plug \in BOOLEAN, k_work_queue_drain(c, q, plug)
       PROVE  Stays'
  <2>1. Kept(wk', wk)
    BY <1>13, OtherSteps DEF Alike
  <2>2. \A d \in Clients : \/ pc'[d] # "cancel"
                           \/ pc'[d] = pc[d] /\ sem'[d] = sem[d] /\ target'[d] = target[d]
    BY <1>0, <1>13 DEF k_work_queue_drain, Blocks
  <2>3. QED
    BY <1>11, <2>1, <2>2
<1>14. ASSUME NEW c \in Clients, SyncReturns(c)
       PROVE  Stays'
  <2>1. Kept(wk', wk)
    BY <1>14, OtherSteps DEF Alike
  <2>2. \A d \in Clients : \/ pc'[d] # "cancel"
                           \/ pc'[d] = pc[d] /\ sem'[d] = sem[d] /\ target'[d] = target[d]
    BY <1>0, <1>14 DEF SyncReturns
  <2>3. QED
    BY <1>11, <2>1, <2>2
<1>15. ASSUME NEW q \in Queues, QueueGet(q) \/ QueueIdle(q)
       PROVE  Stays'
  <2>1. Kept(wk', wk)
    BY <1>15, OtherSteps DEF Alike
  <2>2. \A d \in Clients : \/ pc'[d] # "cancel"
                           \/ pc'[d] = pc[d] /\ sem'[d] = sem[d] /\ target'[d] = target[d]
    <3>1. CASE QueueGet(q)
      BY <3>1 DEF QueueGet
    <3>2. CASE QueueIdle(q)
      BY <3>2 DEF QueueIdle
    <3>3. QED
      BY <1>15, <3>1, <3>2
  <2>3. QED
    BY <1>11, <2>1, <2>2
<1>16. ASSUME UNCHANGED vars
       PROVE  Stays'
  BY <1>16 DEF vars, Stays, WaitsToCancel
<1>17. QED
  BY <1>2, <1>3, <1>5, <1>6, <1>7, <1>8, <1>9, <1>10, <1>12, <1>13, <1>14, <1>15, <1>16
     DEF Next, Call, Submits, BlockingCall, QueueThread

(* Any number of threads may cancel synchronously, also at once, as long   *)
(* as no two of them wait for one item: then none ever waits for an item   *)
(* whose run has ended, and its record can be found.  Without that         *)
(* condition it is false: finalize_cancel_locked releases one record per   *)
(* run, and the second thread is stranded.                                 *)
THEOREM WorkNoStranded == Spec /\ []OneEach => []NoStrandedCanceller
<1>1. Init => Stays
  BY DEF Init, Stays, WaitsToCancel
<1>2. (GoodNow /\ Calls) /\ OneEach /\ Stays /\ [Next]_vars => Stays'
  BY StaysInductive
<1>3. (GoodNow /\ Calls) /\ Stays => NoStrandedCanceller
  <2>1. ASSUME GoodNow, Calls, Stays, NEW c \in Clients, pc[c] = "cancel", sem[c] = 0
        PROVE  /\ Contains(pending_cancels, c)
               /\ {"CANCELING", "RUNNING"} \subseteq wk.flags[target[c]]
    <3>1. Contains(pending_cancels, c) /\ target[c] \in Works /\ Has(wk, target[c], "CANCELING")
      BY <2>1 DEF Calls, Stays, WaitsToCancel
    <3>2. Has(wk, target[c], "RUNNING")
      BY <2>1, <3>1 DEF GoodNow, Good, FlagsAgree
    <3>3. QED
      BY <3>1, <3>2 DEF Has
  <2>2. QED
    BY <2>1 DEF NoStrandedCanceller
<1>4. QED
  BY <1>1, <1>2, <1>3, WorkInvariant, PTL DEF Spec
==============================================================================
