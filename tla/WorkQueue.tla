------------------------------ MODULE WorkQueue ------------------------------
(***************************************************************************)
(* Work queues: kernel/work.c.  Work items are submitted, delayed, flushed *)
(* and cancelled by threads and interrupt handlers and run by the thread   *)
(* of a queue.  Each section under the module's spinlock is one step.      *)
(*                                                                         *)
(* A client is a thread that makes blocking calls; its k_work_sync object  *)
(* is named by the client, so a client on a pending list is its flusher.   *)
(* Calls that do not block leave nothing of their caller behind and are    *)
(* made by anybody at any time.  The timer interrupt unlinks an expired    *)
(* timeout in one step and runs work_timeout in the next; threads do not   *)
(* execute in between, other interrupts do if NestedISR.                   *)
(***************************************************************************)
EXTENDS Integers, Sequences, SequencesExt

CONSTANTS
  Works,        \* work items
  Delayables,   \* those inside a k_work_delayable
  Queues,       \* work queues, each with its thread
  Clients,      \* threads making blocking calls
  Cancellers,   \* the clients that use the _sync cancellations
  NULL,         \* no queue, no item, no client
  NestedISR,    \* TRUE: an interrupt may preempt the timer interrupt
  Chaining      \* TRUE: handlers submit work themselves

ASSUME WorkAssumption ==
  /\ Delayables \subseteq Works /\ Cancellers \subseteq Clients
  /\ NestedISR \in BOOLEAN /\ Chaining \in BOOLEAN
  /\ Works \cap Clients = {} /\ NULL \notin Works \cup Clients \cup Queues

VARIABLES
  wk,               \* items and queues, see WorkState
  active,           \* active[q]: the item q's thread is handling
  pending_cancels,  \* the list of waiting cancellers
  sem,              \* the semaphore in each client's k_work_sync
  pc, target,       \* the call each client blocks in, and on what
  firing,           \* the item whose timeout callback is due
  owed              \* ghost: the runs of its item a client waits for

vars == <<wk, active, pending_cancels, sem, pc, target, firing, owed>>

Items == Works \cup Clients

(* K_WORK_*_BIT and K_WORK_QUEUE_*_BIT; K_WORK_DELAYABLE is Delayables.    *)
WorkFlags == {"RUNNING", "CANCELING", "QUEUED", "DELAYED", "FLUSHING"}
QueueFlags == {"STARTED", "BUSY", "DRAIN", "PLUGGED"}

WorkState ==
  [flags : [Items -> SUBSET WorkFlags],
   queue : [Works -> Queues \cup {NULL}],        \* work->queue
   dqueue : [Delayables -> Queues \cup {NULL}],  \* dwork->queue
   pending : [Queues -> Seq(Items)],
   qflags : [Queues -> SUBSET QueueFlags],
   notifyq : SUBSET Queues,                      \* queue threads asleep
   linked : SUBSET Delayables,                   \* timeouts on the list
   relinked : BOOLEAN]                           \* one was linked twice

Init ==
  /\ wk = [flags |-> [i \in Items |-> {}], queue |-> [w \in Works |-> NULL],
           dqueue |-> [w \in Delayables |-> NULL], pending |-> [q \in Queues |-> <<>>],
           qflags |-> [q \in Queues |-> {}], notifyq |-> {}, linked |-> {},
           relinked |-> FALSE]
  /\ active = [q \in Queues |-> NULL]
  /\ pending_cancels = <<>> /\ sem = [c \in Clients |-> 0]
  /\ pc = [c \in Clients |-> "idle"] /\ target = [c \in Clients |-> NULL]
  /\ firing = NULL /\ owed = [c \in Clients |-> {}]

-----------------------------------------------------------------------------
(* State transformers, named after the static functions of work.c.         *)

Has(s, i, flag) == flag \in s.flags[i]

(* work_busy_get_locked: every dynamic flag is in K_WORK_MASK.             *)
Busy(s, w) == s.flags[w] # {}

notify_queue_locked(s, q) == [s EXCEPT !.notifyq = @ \ {q}]

(* The tests of queue_submit_locked; by is the queue whose thread makes    *)
(* the call out of a handler, or NULL.                                     *)
Accepts(s, q, by) ==
  /\ q # NULL
  /\ "STARTED" \in s.qflags[q]
  /\ "DRAIN" \in s.qflags[q] => by = q
  /\ "PLUGGED" \in s.qflags[q] => "DRAIN" \in s.qflags[q]

(* Mutants: the queue asked for is used even while the item runs           *)
(* elsewhere; the item goes to the front of the list.                      *)
submit_to_queue_locked_any_queue(s, w, asked, by) ==
  LET q == IF asked = NULL THEN s.queue[w] ELSE asked
  IN  IF Has(s, w, "CANCELING") \/ Has(s, w, "QUEUED") \/ ~Accepts(s, q, by) THEN s
      ELSE notify_queue_locked([s EXCEPT !.pending[q] = Append(@, w),
             !.flags[w] = @ \cup {"QUEUED"}, !.queue[w] = q], q)
submit_to_queue_locked_in_front(s, w, asked, by) ==
  LET q == IF asked = NULL \/ Has(s, w, "RUNNING") THEN s.queue[w] ELSE asked
  IN  IF Has(s, w, "CANCELING") \/ Has(s, w, "QUEUED") \/ ~Accepts(s, q, by) THEN s
      ELSE notify_queue_locked([s EXCEPT !.pending[q] = <<w>> \o @,
             !.flags[w] = @ \cup {"QUEUED"}, !.queue[w] = q], q)

submit_to_queue_locked(s, w, asked, by) ==
  LET q == IF asked = NULL \/ Has(s, w, "RUNNING") THEN s.queue[w] ELSE asked
  IN  IF Has(s, w, "CANCELING") \/ Has(s, w, "QUEUED") \/ ~Accepts(s, q, by) THEN s
      ELSE notify_queue_locked([s EXCEPT !.pending[q] = Append(@, w),
             !.flags[w] = @ \cup {"QUEUED"}, !.queue[w] = q], q)

(* Mutant: the flusher goes to the front, ahead of the item.               *)
queue_flusher_locked_in_front(s, w, c) ==
  LET q == s.queue[w]
  IN  [s EXCEPT !.pending[q] = <<c>> \o @, !.flags[c] = {"FLUSHING"}]

(* Right behind the item if it is on the list, else at the front.          *)
queue_flusher_locked(s, w, c) ==
  LET q == s.queue[w]
      at == SelectInSeq(s.pending[q], LAMBDA i : i = w)
  IN  [s EXCEPT !.pending[q] = InsertAt(@, at + 1, c), !.flags[c] = {"FLUSHING"}]

NeedsFlush(s, w) == Has(s, w, "QUEUED") \/ Has(s, w, "RUNNING")

work_flush_locked(s, w, c) ==
  IF NeedsFlush(s, w) THEN notify_queue_locked(queue_flusher_locked(s, w, c), s.queue[w]) ELSE s

(* Mutant: the flag is cleared, the node stays on the list.                *)
queue_remove_locked_flag_only(s, w) == [s EXCEPT !.flags[w] = @ \ {"QUEUED"}]

queue_remove_locked(s, w) ==
  IF Has(s, w, "QUEUED")
  THEN [s EXCEPT !.flags[w] = @ \ {"QUEUED"},
                 !.pending[s.queue[w]] = RemoveFirst(@, w)]
  ELSE s

cancel_async_locked(s, w) ==
  LET out == IF Has(s, w, "CANCELING") THEN s ELSE queue_remove_locked(s, w)
  IN  IF Busy(out, w) THEN [out EXCEPT !.flags[w] = @ \cup {"CANCELING"}] ELSE out

(* Mutant: the timeout is left running.                                    *)
unschedule_locked_flag_only(s, w) == [s EXCEPT !.flags[w] = @ \ {"DELAYED"}]

(* unschedule_locked, and what it returns.                                 *)
unschedule_locked(s, w) ==
  IF Has(s, w, "DELAYED")
  THEN [s EXCEPT !.flags[w] = @ \ {"DELAYED"}, !.linked = @ \ {w}] ELSE s
Unscheduled(s, w) == Has(s, w, "DELAYED") /\ w \in s.linked

(* delay is FALSE for K_NO_WAIT.  z_add_timeout asserts that the node is   *)
(* not linked; without assertions it is linked a second time.              *)
schedule_for_queue_locked(s, w, q, delay, by) ==
  IF delay
  THEN [s EXCEPT !.flags[w] = @ \cup {"DELAYED"}, !.dqueue[w] = q,
                 !.linked = @ \cup {w}, !.relinked = @ \/ w \in s.linked]
  ELSE submit_to_queue_locked(s, w, q, by)

(* k_work_cancel for an item, k_work_cancel_delayable for a delayable.     *)
CancelAsync(s, w) ==
  cancel_async_locked(IF w \in Delayables THEN unschedule_locked(s, w) ELSE s, w)

-----------------------------------------------------------------------------
(* Calls that do not block.                                                *)

(* Who calls: by = NULL for a thread or an interrupt handler, by = q for   *)
(* the handler q's thread is running (handle_flush calls nothing).         *)
Caller(by) ==
  IF by = NULL THEN firing = NULL \/ NestedISR
  ELSE Chaining /\ firing = NULL /\ active[by] \in Works

NoClientChanges == UNCHANGED <<active, pending_cancels, sem, pc, target, firing>>

(* k_work_submit_to_queue and k_work_submit.                               *)
k_work_submit_to_queue(w, q, by) ==
  /\ w \notin Delayables /\ Caller(by)
  /\ wk' = submit_to_queue_locked(wk, w, q, by)
  /\ NoClientChanges /\ UNCHANGED owed

k_work_schedule_for_queue(w, q, delay, by) ==
  /\ Caller(by) /\ wk.flags[w] \subseteq {"RUNNING"}
  /\ wk' = schedule_for_queue_locked(wk, w, q, delay, by)
  /\ NoClientChanges /\ UNCHANGED owed

k_work_reschedule_for_queue(w, q, delay, by) ==
  /\ Caller(by)
  /\ wk' = schedule_for_queue_locked(unschedule_locked(wk, w), w, q, delay, by)
  /\ NoClientChanges /\ UNCHANGED owed

(* A run that was queued and is taken off the queue is owed to nobody.     *)
Forgiven(w, run) == [c \in Clients |-> IF target[c] = w THEN owed[c] \ {run} ELSE owed[c]]
ForgivenByCancel(w) ==
  IF Has(wk, w, "CANCELING") THEN owed ELSE Forgiven(w, "queued")

k_work_cancel(w) ==
  /\ Caller(NULL)
  /\ wk' = CancelAsync(wk, w) /\ owed' = ForgivenByCancel(w)
  /\ NoClientChanges

(* The code writes the queue's fields without the lock before its thread   *)
(* exists: k_work_queue_start must be over before anybody uses the queue.  *)
k_work_queue_start(q) ==
  /\ Caller(NULL) /\ "STARTED" \notin wk.qflags[q]
  /\ wk' = [wk EXCEPT !.qflags[q] = {"STARTED"}, !.pending[q] = <<>>]
  /\ NoClientChanges /\ UNCHANGED owed

k_work_queue_unplug(q) ==
  /\ Caller(NULL) /\ "PLUGGED" \in wk.qflags[q]
  /\ wk' = [wk EXCEPT !.qflags[q] = @ \ {"PLUGGED"}]
  /\ NoClientChanges /\ UNCHANGED owed

-----------------------------------------------------------------------------
(* Calls that may block, and their return.                                 *)

CanBlock(c) == pc[c] = "idle" /\ firing = NULL

Blocks(c, call, on) ==
  /\ sem' = [sem EXCEPT ![c] = 0]
  /\ pc' = [pc EXCEPT ![c] = call] /\ target' = [target EXCEPT ![c] = on]

(* The runs of w that exist in state s.                                    *)
RunsOf(s, w) == {r \in {"queued", "running"} :
                   IF r = "queued" THEN Has(s, w, "QUEUED") ELSE Has(s, w, "RUNNING")}

(* k_work_flush; k_work_flush_delayable first submits an item that is      *)
(* still delayed, and returns at once if the item is idle.                 *)
k_work_flush(c, w) ==
  LET out == IF w \in Delayables THEN unschedule_locked(wk, w) ELSE wk
      due == IF w \in Delayables /\ Unscheduled(wk, w)
             THEN submit_to_queue_locked(out, w, wk.dqueue[w], NULL) ELSE out
  IN  /\ CanBlock(c) /\ Busy(wk, w)
      /\ wk' = work_flush_locked(due, w, c)
      /\ IF NeedsFlush(due, w)
         THEN Blocks(c, "flush", w) /\ owed' = [owed EXCEPT ![c] = RunsOf(due, w)]
         ELSE UNCHANGED <<sem, pc, target, owed>>
      /\ UNCHANGED <<active, pending_cancels, firing>>

(* k_work_cancel_sync and k_work_cancel_delayable_sync.                    *)
k_work_cancel_sync(c, w) ==
  LET out == CancelAsync(wk, w)
  IN  /\ CanBlock(c) /\ c \in Cancellers /\ Busy(wk, w)
      /\ wk' = out
      /\ IF Has(out, w, "CANCELING")
         THEN /\ Blocks(c, "cancel", w)
              /\ pending_cancels' = Append(pending_cancels, c)
              /\ owed' = [ForgivenByCancel(w) EXCEPT ![c] = RunsOf(out, w)]
         ELSE UNCHANGED <<sem, pc, target, pending_cancels>> /\ owed' = ForgivenByCancel(w)
      /\ UNCHANGED <<active, firing>>

(* Mutant: the queue thread is not told.                                   *)
k_work_queue_drain_silent(c, q, plug) ==
  /\ CanBlock(c) /\ "STARTED" \in wk.qflags[q]
  /\ wk.qflags[q] \cap {"BUSY", "DRAIN"} # {} \/ plug \/ wk.pending[q] # <<>>
  /\ wk' = [wk EXCEPT !.qflags[q] = @ \cup {"DRAIN"} \cup (IF plug THEN {"PLUGGED"} ELSE {})]
  /\ Blocks(c, "drain", q)
  /\ UNCHANGED <<active, pending_cancels, firing, owed>>

(* k_work_queue_drain of a queue that was started.                         *)
k_work_queue_drain(c, q, plug) ==
  /\ CanBlock(c) /\ "STARTED" \in wk.qflags[q]
  /\ wk.qflags[q] \cap {"BUSY", "DRAIN"} # {} \/ plug \/ wk.pending[q] # <<>>
  /\ wk' = notify_queue_locked([wk EXCEPT !.qflags[q] = @ \cup {"DRAIN"} \cup
                                            (IF plug THEN {"PLUGGED"} ELSE {})], q)
  /\ Blocks(c, "drain", q)
  /\ UNCHANGED <<active, pending_cancels, firing, owed>>

(* k_sem_take on the flusher's or canceller's semaphore succeeds.          *)
SyncReturns(c) ==
  /\ pc[c] \in {"flush", "cancel"} /\ sem[c] > 0 /\ firing = NULL
  /\ sem' = [sem EXCEPT ![c] = 0]
  /\ pc' = [pc EXCEPT ![c] = "idle"] /\ target' = [target EXCEPT ![c] = NULL]
  /\ owed' = [owed EXCEPT ![c] = {}]
  /\ UNCHANGED <<wk, active, pending_cancels, firing>>

-----------------------------------------------------------------------------
(* work_queue_main, one step per locked section.                           *)

AtLoopTop(q) ==
  "STARTED" \in wk.qflags[q] /\ q \notin wk.notifyq /\ active[q] = NULL /\ firing = NULL

QueueGet(q) ==
  /\ AtLoopTop(q) /\ wk.pending[q] # <<>>
  /\ LET i == Head(wk.pending[q])
     IN  /\ wk' = [wk EXCEPT !.pending[q] = Tail(@), !.qflags[q] = @ \cup {"BUSY"},
                             !.flags[i] = (@ \cup {"RUNNING"}) \ {"QUEUED"}]
         /\ active' = [active EXCEPT ![q] = i]
         /\ owed' = [c \in Clients |->
              IF target[c] = i /\ "queued" \in owed[c]
              THEN (owed[c] \ {"queued"}) \cup {"running"} ELSE owed[c]]
  /\ UNCHANGED <<pending_cancels, sem, pc, target, firing>>

QueueIdle(q) ==
  /\ AtLoopTop(q) /\ wk.pending[q] = <<>>
  /\ wk' = [wk EXCEPT !.qflags[q] = @ \ {"DRAIN"}, !.notifyq = @ \cup {q}]
  /\ LET released == {c \in Clients : /\ "DRAIN" \in wk.qflags[q]
                                      /\ pc[c] = "drain" /\ target[c] = q}
     IN  /\ pc' = [c \in Clients |-> IF c \in released THEN "idle" ELSE pc[c]]
         /\ target' = [c \in Clients |-> IF c \in released THEN NULL ELSE target[c]]
  /\ UNCHANGED <<active, pending_cancels, sem, firing, owed>>

(* finalize_cancel_locked takes the first record that names w off the list *)
(* and gives its semaphore: the loop ends in a break.                      *)
FirstCanceller(w) == SelectInSeq(pending_cancels, LAMBDA c : target[c] = w)

(* Mutants: the record is not taken off the list; the semaphore is not     *)
(* given.                                                                  *)
finalize_cancel_locked_kept(w) ==
  LET at == FirstCanceller(w)
  IN  IF at = 0 THEN UNCHANGED <<pending_cancels, sem>>
      ELSE sem' = [sem EXCEPT ![pending_cancels[at]] = 1] /\ UNCHANGED pending_cancels

finalize_cancel_locked_not_given(w) ==
  LET at == FirstCanceller(w)
  IN  IF at = 0 THEN UNCHANGED <<pending_cancels, sem>>
      ELSE pending_cancels' = RemoveAt(pending_cancels, at) /\ UNCHANGED sem

finalize_cancel_locked(w) ==
  LET at == FirstCanceller(w)
  IN  IF at = 0 THEN UNCHANGED <<pending_cancels, sem>>
      ELSE /\ pending_cancels' = RemoveAt(pending_cancels, at)
           /\ sem' = [sem EXCEPT ![pending_cancels[at]] = 1]

(* The handler has returned.                                               *)
QueueFinish(q) ==
  /\ active[q] # NULL /\ firing = NULL
  /\ LET i == active[q]
     IN  /\ wk' = [wk EXCEPT !.flags[i] = @ \ {"RUNNING", "FLUSHING", "CANCELING"},
                             !.qflags[q] = @ \ {"BUSY"}]
         /\ IF Has(wk, i, "FLUSHING")
            THEN sem' = [sem EXCEPT ![i] = 1] /\ UNCHANGED pending_cancels
            ELSE IF Has(wk, i, "CANCELING") THEN finalize_cancel_locked(i)
            ELSE UNCHANGED <<sem, pending_cancels>>
         /\ owed' = Forgiven(i, "running")
  /\ active' = [active EXCEPT ![q] = NULL]
  /\ UNCHANGED <<pc, target, firing>>

-----------------------------------------------------------------------------
(* The timer interrupt: sys_clock_announce unlinks a timeout, and          *)
(* work_timeout submits the item if it still is marked delayed.            *)
Announce(w) ==
  /\ firing = NULL /\ w \in wk.linked
  /\ wk' = [wk EXCEPT !.linked = @ \ {w}] /\ firing' = w
  /\ UNCHANGED <<active, pending_cancels, sem, pc, target, owed>>

work_timeout ==
  /\ firing # NULL
  /\ wk' = IF Has(wk, firing, "DELAYED")
           THEN submit_to_queue_locked([wk EXCEPT !.flags[firing] = @ \ {"DELAYED"}],
                                       firing, wk.dqueue[firing], NULL)
           ELSE wk
  /\ firing' = NULL
  /\ UNCHANGED <<active, pending_cancels, sem, pc, target, owed>>

-----------------------------------------------------------------------------
Asked == Queues \cup {NULL}

Submits(by) ==
  \/ \E w \in Works, q \in Asked : k_work_submit_to_queue(w, q, by)
  \/ \E w \in Delayables, q \in Asked, delay \in BOOLEAN :
       \/ k_work_schedule_for_queue(w, q, delay, by)
       \/ k_work_reschedule_for_queue(w, q, delay, by)

Call ==
  \/ \E by \in Asked : Submits(by)
  \/ \E w \in Works : k_work_cancel(w)
  \/ \E q \in Queues : k_work_queue_start(q) \/ k_work_queue_unplug(q)

BlockingCall(c) ==
  \/ \E w \in Works : k_work_flush(c, w) \/ k_work_cancel_sync(c, w)
  \/ \E q \in Queues, plug \in BOOLEAN : k_work_queue_drain(c, q, plug)

QueueThread(q) == QueueGet(q) \/ QueueIdle(q) \/ QueueFinish(q)

Next ==
  \/ Call
  \/ \E c \in Clients : BlockingCall(c) \/ SyncReturns(c)
  \/ \E q \in Queues : QueueThread(q)
  \/ work_timeout \/ \E w \in Delayables : Announce(w)

Spec == Init /\ [][Next]_vars

(* The threads of the queues and the released clients are scheduled again  *)
(* and again, handlers return, and the timer interrupt goes on.            *)
Fairness ==
  /\ \A q \in Queues : SF_vars(QueueThread(q))
  /\ \A c \in Clients : SF_vars(SyncReturns(c))
  /\ WF_vars(work_timeout)

FairSpec == Spec /\ Fairness

-----------------------------------------------------------------------------
(* The type invariant; a canceller's record is on the list once.           *)
TypeOK ==
  /\ wk \in WorkState
  /\ active \in [Queues -> Items \cup {NULL}]
  /\ pending_cancels \in Seq(Clients) /\ IsInjective(pending_cancels)
  /\ sem \in [Clients -> 0 .. 1]
  /\ pc \in [Clients -> {"idle", "flush", "cancel", "drain"}]
  /\ target \in [Clients -> Works \cup Queues \cup {NULL}]
  /\ firing \in Delayables \cup {NULL}
  /\ owed \in [Clients -> SUBSET {"queued", "running"}]

(* A handler is never re-entered: one queue thread at most is handling an  *)
(* item, exactly while its RUNNING flag is set, and that queue is the one  *)
(* the item names (submit_to_queue_locked keeps a running item where it    *)
(* runs).                                                                  *)
NoReentry ==
  /\ \A q1, q2 \in Queues : active[q1] # NULL /\ active[q1] = active[q2] => q1 = q2
  /\ \A q \in Queues : active[q] \in Works => wk.queue[active[q]] = q
  /\ \A i \in Items : Has(wk, i, "RUNNING") <=> \E q \in Queues : active[q] = i

(* The pending lists agree with the flags: an item is on a list exactly    *)
(* when it is QUEUED, once, and on its own queue's; a flusher is on a list *)
(* or being handled, never both, exactly while its client waits for it;    *)
(* and a queue that was drained and plugged stays empty (kernel.h on       *)
(* k_work_queue_drain; queue_flusher_locked, queue_remove_locked,          *)
(* queue_submit_locked, work_queue_main).                                  *)
ListInv ==
  /\ \A q \in Queues : IsInjective(wk.pending[q])
  /\ \A w \in Works, q \in Queues :
       Contains(wk.pending[q], w) <=> (Has(wk, w, "QUEUED") /\ wk.queue[w] = q)
  /\ \A c \in Clients :
       LET on == {q \in Queues : Contains(wk.pending[q], c)}
           in == {q \in Queues : active[q] = c}
       IN  IF pc[c] = "flush" /\ sem[c] = 0
           THEN \E q \in Queues : (on = {q} /\ in = {}) \/ (on = {} /\ in = {q})
           ELSE on = {} /\ in = {}
  /\ \A q \in Queues : "PLUGGED" \in wk.qflags[q] /\ "DRAIN" \notin wk.qflags[q] =>
       wk.pending[q] = <<>> /\ active[q] = NULL

(* The thread of a queue sleeps only when it has nothing to do: no item    *)
(* and no drain request is overlooked, whoever put it there                *)
(* (notify_queue_locked after every change).                               *)
NoLostWakeup ==
  \A q \in wk.notifyq : wk.pending[q] = <<>> /\ "DRAIN" \notin wk.qflags[q]

(* kernel.h on k_work_flush and k_work_cancel_sync: when the call returns, *)
(* the runs of the item that were queued or going on when it was made have *)
(* ended or were cancelled.                                                *)
SyncHonest == \A c \in Clients : sem[c] = 1 => owed[c] = {}

(* A canceller that waits will be released: its item still is CANCELING,   *)
(* hence running, and its record is on the list that                       *)
(* finalize_cancel_locked searches.  The comment of that function has it   *)
(* "release what's waiting for the completion" and says that several       *)
(* threads may be; its loop ends in a break after the first, so that this  *)
(* fails when two wait for one item (run cancel_strands).                  *)
NoStrandedCanceller ==
  \A c \in Clients : pc[c] = "cancel" /\ sem[c] = 0 =>
    /\ Contains(pending_cancels, c)
    /\ {"CANCELING", "RUNNING"} \subseteq wk.flags[target[c]]

(* A delayed item has its timeout linked or its callback due, and a linked *)
(* timeout belongs to a delayed item: no delay is lost, none strikes after *)
(* it was cancelled, and z_add_timeout never gets a node that is linked    *)
(* (unschedule_locked, work_timeout, the assertion in timeout.c).          *)
DelayInv ==
  /\ ~wk.relinked
  /\ \A w \in Delayables :
       /\ Has(wk, w, "DELAYED") => (w \in wk.linked \/ firing = w)
       /\ w \in wk.linked => Has(wk, w, "DELAYED")

(* kernel.h on k_work_flush, k_work_cancel_sync and k_work_queue_drain:    *)
(* each of them returns, although handlers go on submitting work; only a   *)
(* drain, which lets them, may have to wait for as long as they do.        *)
SyncEnds ==
  \A c \in Clients :
    /\ pc[c] \in {"flush", "cancel"} ~> pc[c] = "idle"
    /\ (pc[c] = "drain" ~> pc[c] = "idle") \/ []<><<\E q \in Queues : Submits(q)>>_vars

(* An item on a pending list is run or taken off it, whatever handlers and *)
(* clients submit meanwhile (work_queue_main serves the list in order).    *)
QueuedRuns == \A w \in Works : Has(wk, w, "QUEUED") ~> ~Has(wk, w, "QUEUED")
==============================================================================
