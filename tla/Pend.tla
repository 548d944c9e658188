-------------------------------- MODULE Pend --------------------------------
(***************************************************************************)
(* Threads that block on a kernel object: the part of sched.c and          *)
(* timeout.c that message queues, stacks, slabs, queues and mailboxes      *)
(* share.  The scheduler itself is in Sched; here any thread that is in no *)
(* call may be executing, and a call that does not block may also be made  *)
(* by an interrupt handler.  The timer interrupt takes two steps for a     *)
(* timeout, between which only other interrupt handlers execute.           *)
(***************************************************************************)
EXTENDS PriQ, FiniteSets

CONSTANTS
  Threads,
  Prio,    \* their priorities
  Items,   \* messages, stack words, blocks, list nodes
  NULL

ASSUME PendAssumption ==
  /\ Prio \in [Threads -> Int] /\ NULL \notin Threads \cup Items
  /\ IsFiniteSet(Threads) /\ IsFiniteSet(Items)

VARIABLES
  thr,      \* where each thread is, and the fields of struct k_thread used
  waitq,    \* the wait queue of each object, by its name
  firing,   \* the thread whose timeout callback is due
  reply     \* what the last call that did not block returned

EAGAIN == -11
ENOMEM == -12
EBUSY == -16
ENOMSG == -35

WaitQueues == {"msgq", "stack", "slab", "queue", "tx", "rx", "async"}

Idle == [at |-> "idle", op |-> "none", q |-> NULL, data |-> NULL, ret |-> 0, armed |-> FALSE]
NoReply == [ret |-> 1, data |-> NULL]
Reply(ret, data) == reply' = [ret |-> ret, data |-> data]
Looked(at, ret, data) == reply' = [at |-> at, ret |-> ret, data |-> data]
Silent == reply' = NoReply

PendInit ==
  /\ thr = [t \in Threads |-> Idle] /\ waitq = [q \in WaitQueues |-> <<>>]
  /\ firing = NULL /\ reply = NoReply

(* A thread executes and is in no call.                                    *)
Free(t) == thr[t].at = "idle" /\ firing = NULL

(* z_pend_curr with swap_data set to data; -EAGAIN is the return value     *)
(* that stays if nobody sets another.  prio ranks everybody in the queue.  *)
PendBy(prio, t, q, op, data, timed) ==
  /\ thr' = [thr EXCEPT ![t] = [at |-> "pended", op |-> op, q |-> q, data |-> data,
                                ret |-> EAGAIN, armed |-> timed]]
  /\ waitq' = [waitq EXCEPT ![q] = z_priq_dumb_add(@, t, prio)]
  /\ Silent /\ UNCHANGED firing

PendOn(t, q, op, data, timed) == PendBy(Prio, t, q, op, data, timed)

(* The record of thread t unpended, given its return value and made ready. *)
Woken(t, ret, data) == [thr[t] EXCEPT !.at = "done", !.ret = ret, !.data = data, !.armed = FALSE]

(* z_unpend_first_thread, z_thread_return_value_set_with_data and          *)
(* z_ready_thread.                                                         *)
WakeFirst(q, ret, data) ==
  LET t == Head(waitq[q])
  IN  /\ thr' = [thr EXCEPT ![t] = Woken(t, ret, data)]
      /\ waitq' = [waitq EXCEPT ![q] = z_priq_dumb_remove(@, t)]

(* The same for every thread of the queue, in a loop.                      *)
WakeAll(q, ret) ==
  /\ thr' = [t \in Threads |-> IF t \in Members(waitq[q]) THEN Woken(t, ret, NULL) ELSE thr[t]]
  /\ waitq' = [waitq EXCEPT ![q] = <<>>]

NobodyMoves == UNCHANGED <<thr, waitq>>

(* sys_clock_announce unlinks an expired timeout, z_thread_timeout unpends *)
(* the thread if it still is pended, and makes it ready.  "limbo" is that  *)
(* of a thread that stands in no queue and that nobody will make ready.    *)
Announce(t) ==
  /\ firing = NULL /\ thr[t].armed
  /\ thr' = [thr EXCEPT ![t].armed = FALSE] /\ firing' = t
  /\ Silent /\ UNCHANGED waitq

(* Mutant: the thread is made ready but stays in the queue.                *)
z_thread_timeout_stays ==
  /\ firing # NULL /\ firing' = NULL
  /\ IF thr[firing].at = "pended"
     THEN thr' = [thr EXCEPT ![firing].at = "done", ![firing].data = NULL]
     ELSE UNCHANGED thr
  /\ Silent /\ UNCHANGED waitq

z_thread_timeout ==
  /\ firing # NULL /\ firing' = NULL
  /\ IF thr[firing].at \in {"pended", "limbo"}
     THEN /\ thr' = [thr EXCEPT ![firing].at = "done", ![firing].data = NULL]
          /\ waitq' = [waitq EXCEPT ![thr[firing].q] = z_priq_dumb_remove(@, firing)]
     ELSE NobodyMoves
  /\ Silent

(* A call that blocked returns to its caller.                              *)
Returns(t) ==
  /\ thr[t].at = "done" /\ firing = NULL
  /\ thr' = [thr EXCEPT ![t] = Idle]
  /\ Silent /\ UNCHANGED <<waitq, firing>>

PendNext == z_thread_timeout \/ \E t \in Threads : Announce(t)
=============================================================================
