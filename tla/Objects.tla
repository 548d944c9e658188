------------------------------- MODULE Objects ------------------------------
(***************************************************************************)
(* The objects that hold data, side by side over the same threads: used    *)
(* tells which of them the threads of a behaviour work with.               *)
(***************************************************************************)
EXTENDS MsgQ, MemSlab, KQueue, Mbox

CONSTANT Kinds
VARIABLE used

vars == <<used, thr, waitq, firing, reply, msgqVars, entries, slabVars, data_q, mboxVars>>

InSomeOrder(set) == CHOOSE s \in [1 .. Cardinality(set) -> set] : Distinct(s)

(* The kernel's start-up code: init_mbox_module fills async_msg_free.      *)
Init ==
  /\ used \in Kinds /\ PendInit
  /\ k_msgq_init /\ k_queue_init /\ k_mbox_init
  /\ k_mem_slab_init(InSomeOrder(Items))
  /\ k_stack_init([s \in Stacks |-> IF s = "async" THEN InSomeOrder(Descs) ELSE <<>>])

Next ==
  /\ UNCHANGED used
  /\ \/ used = "msgq" /\ MsgqNext /\ UNCHANGED <<entries, slabVars, data_q, mboxVars>>
     \/ used = "stack" /\ StackNext /\ UNCHANGED <<msgqVars, slabVars, data_q, mboxVars>>
     \/ used = "slab" /\ SlabNext /\ UNCHANGED <<msgqVars, entries, data_q, mboxVars>>
     \/ used = "queue" /\ QueueNext /\ UNCHANGED <<msgqVars, entries, slabVars, mboxVars>>
     \/ used = "mbox" /\ MboxNext /\ UNCHANGED <<msgqVars, slabVars, data_q>>

Spec == Init /\ [][Next]_vars
-----------------------------------------------------------------------------
Waiting(q, op) == \E t \in Members(waitq[q]) : t \in Threads /\ thr[t].op = op

(* Waiters of every kind of object.  A blocked thread stands once, and     *)
(* sorted, in the queue of the object it waits for, or is a mailbox sender *)
(* whose message somebody has; nobody waits for what is there, a message   *)
(* queue's readers and writers never wait together; and nobody but a       *)
(* waiter has a timeout running.  z_unpend_first_thread, z_thread_timeout  *)
(* and the tests in front of each z_pend_curr.                             *)
ObjWaitInv ==
  /\ \A q \in WaitQueues : Distinct(waitq[q]) /\ Sorted(waitq[q], TxPrio)
  /\ \A t \in Threads, q \in WaitQueues :
       t \in Members(waitq[q]) <=> thr[t].at = "pended" /\ thr[t].q = q
  /\ \A t \in Threads : thr[t].armed => thr[t].at = "pended"
  /\ Waiting("msgq", "get") => used_msgs = 0
  /\ Waiting("msgq", "put") => used_msgs = max_msgs
  /\ \A s \in Stacks : waitq[s] # <<>> => entries[s] = <<>>
  /\ waitq["slab"] # <<>> => free_list = <<>>
  /\ waitq["queue"] # <<>> => data_q = <<>>

(* The abstract store behind the object in use.                            *)
Content ==
  CASE used = "msgq" -> Messages
    [] used = "stack" -> [i \in 1 .. Len(entries["stack"]) |->
                            entries["stack"][Len(entries["stack"]) + 1 - i]]
    [] used = "slab" -> free_list
    [] used = "queue" -> [i \in 1 .. Len(data_q) |-> data_q[i].data]
    [] OTHER -> <<>>

Buffer == INSTANCE AbsBuffer WITH
  kind <- used, content <- Content,
  Capacity <- [msgq |-> max_msgs, stack |-> num_entries["stack"]],
  wants <- [t \in Threads |-> IF thr[t].at = "pended" /\ used # "mbox"
                              THEN [ret |-> 0, data |-> thr[t].data] ELSE NoReply],
  outcome <- [t \in Threads |-> IF thr[t].at = "done" /\ used # "mbox"
                                THEN [ret |-> thr[t].ret, data |-> thr[t].data] ELSE NoReply],
  reply <- IF used = "mbox" THEN NoReply ELSE reply

(* Each object is the store it promises to be: the ring is a FIFO and the  *)
(* free list and the stack LIFOs through every wrap, an item goes to one   *)
(* of the best waiters or to the store and never to both, a timeout that   *)
(* races a hand-over takes nothing with it, and each call returns what the *)
(* store says, a peek what is at its place.  The whole of msg_q.c, stack.c *)
(* and mem_slab.c, and the calls of queue.c that take its lock.            *)
ImplementsAbsBuffer == Buffer!Spec

(* kernel.h on k_msgq_get, "-ENOMSG Returned without waiting", and on      *)
(* k_queue_get, "NULL if returned without waiting, or waiting period timed *)
(* out": a thread that waits for an item stands in the wait queue until an *)
(* item, its timeout or k_queue_cancel_wait ends the wait.  Neither the    *)
(* purge of a message queue, which is to wake "any threads that are        *)
(* waiting to write" (msg_q.c), nor items handed to others take it away.   *)
GettersKept ==
  \A t \in Threads : thr[t].op = "get" =>
    \/ t \in Members(waitq[thr[t].q])
    \/ thr[t].at = "done" /\ thr[t].ret # ENOMSG
=============================================================================
