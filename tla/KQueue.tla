------------------------------- MODULE KQueue -------------------------------
(***************************************************************************)
(* Queues, and FIFOs and LIFOs, which are queues: kernel/queue.c.  A node  *)
(* of the list is a data item itself, or an alloc_node that points to one. *)
(* The calls that take the queue's lock; k_queue_remove and                *)
(* k_queue_unique_append walk the list without it and are left out.        *)
(***************************************************************************)
EXTENDS Pend

CONSTANTS
  MaxNodes,   \* bounds the list
  Surplus     \* may a list be appended that has fewer items than waiters?
ASSUME KQueueAssumption == MaxNodes \in Nat \ {0} /\ Surplus \in BOOLEAN

VARIABLE data_q    \* of records: the data, and whether an alloc_node has it

Node(x, alloc) == [data |-> x, alloc |-> alloc]
k_queue_init == data_q = <<>>

(* An item that is a node of the list, or on its way to a getter, is not   *)
(* the caller's to put in.                                                 *)
Mine(x) == /\ Node(x, FALSE) \notin Members(data_q)
           /\ \A t \in Threads : thr[t].at = "done" => thr[t].data # x

(* sys_sflist_insert behind the first pos nodes.                           *)
InsertBehind(pos, node) ==
  data_q' = SubSeq(data_q, 1, pos) \o <<node>> \o SubSeq(data_q, pos + 1, Len(data_q))

(* queue_insert.  k_queue_append passes the end of the list as pos,        *)
(* k_queue_prepend its head, k_queue_insert any node of it; the alloc      *)
(* variants append or prepend.                                             *)
queue_insert(pos, x, alloc) ==
  /\ Mine(x)
  /\ \/ waitq["queue"] # <<>> /\ WakeFirst("queue", 0, x) /\ Reply(0, NULL) /\ UNCHANGED data_q
     \/ /\ waitq["queue"] = <<>> /\ Len(data_q) < MaxNodes
        /\ InsertBehind(pos, Node(x, alloc)) /\ NobodyMoves /\ Reply(0, NULL)
     \/ /\ waitq["queue"] = <<>> /\ alloc     \* z_thread_malloc fails
        /\ NobodyMoves /\ Reply(ENOMEM, NULL) /\ UNCHANGED data_q
  /\ UNCHANGED firing

(* k_queue_append_list, and k_queue_merge_slist, for the items of a list.  *)
(* One thread more is unpended than there are items to hand out: it is on  *)
(* no queue, not ready, and its timeout is gone.                           *)
k_queue_append_list(items) ==
  LET w == waitq["queue"]
      n == IF Len(w) < Len(items) THEN Len(w) ELSE Len(items)
      taken == IF n = Len(items) /\ n < Len(w) THEN n + 1 ELSE n
      Rank(t) == CHOOSE i \in 1 .. Len(w) : w[i] = t
  IN  /\ Distinct(items) /\ \A x \in Members(items) : Mine(x)
      /\ Surplus \/ taken = n
      /\ Len(data_q) + Len(items) - n <= MaxNodes
      /\ thr' = [t \in Threads |->
                   CASE t \notin Members(SubSeq(w, 1, taken)) -> thr[t]
                     [] t \in Members(SubSeq(w, 1, n)) -> Woken(t, 0, items[Rank(t)])
                     [] OTHER -> [thr[t] EXCEPT !.at = "limbo", !.armed = FALSE]]
      /\ waitq' = [waitq EXCEPT !["queue"] = SubSeq(w, taken + 1, Len(w))]
      /\ data_q' = data_q \o [i \in 1 .. (Len(items) - n) |-> Node(items[n + i], FALSE)]
      /\ Reply(0, NULL) /\ UNCHANGED firing

(* k_queue_get: without blocking (z_queue_node_peek frees an alloc_node    *)
(* and returns what it points to), and with a timeout on an empty queue.   *)
k_queue_get ==
  /\ IF data_q # <<>>
     THEN Reply(0, Head(data_q).data) /\ data_q' = Tail(data_q)
     ELSE Reply(0, NULL) /\ UNCHANGED data_q
  /\ NobodyMoves /\ UNCHANGED firing

k_queue_get_wait(t, timed) ==
  /\ Free(t) /\ data_q = <<>>
  /\ PendOn(t, "queue", "get", NULL, timed) /\ UNCHANGED data_q

k_queue_cancel_wait ==
  /\ IF waitq["queue"] # <<>> THEN WakeFirst("queue", 0, NULL) ELSE NobodyMoves
  /\ Silent /\ UNCHANGED <<firing, data_q>>

(* k_queue_peek_head and k_queue_peek_tail.                                *)
k_queue_peek(end) ==
  /\ LET i == IF end = "head" THEN 1 ELSE Len(data_q)
     IN  Looked(end, 0, IF data_q = <<>> THEN NULL ELSE data_q[i].data)
  /\ NobodyMoves /\ UNCHANGED <<firing, data_q>>

QueueNext ==
  \/ \E x \in Items : \/ \E pos \in 0 .. Len(data_q) : queue_insert(pos, x, FALSE)
                      \/ \E pos \in {0, Len(data_q)} : queue_insert(pos, x, TRUE)
  \/ \E items \in UNION {[1 .. n -> Items] : n \in 1 .. 2} : k_queue_append_list(items)
  \/ k_queue_get \/ k_queue_cancel_wait \/ \E end \in {"head", "tail"} : k_queue_peek(end)
  \/ \E t \in Threads, timed \in BOOLEAN : k_queue_get_wait(t, timed)
  \/ (PendNext \/ \E t \in Threads : Returns(t)) /\ UNCHANGED data_q
=============================================================================
