------------------------------ MODULE MemSlab -------------------------------
(***************************************************************************)
(* A memory slab, kernel/mem_slab.c: blocks of one size and the list of    *)
(* the free ones.  held are the blocks that callers own, which the code    *)
(* does not record: only such a block is given back, and only once.        *)
(***************************************************************************)
EXTENDS Pend

VARIABLES
  free_list, num_used,   \* struct k_mem_slab, the head of the list first
  held
slabVars == <<free_list, num_used, held>>

(* create_free_list pushes the blocks of the buffer one by one.            *)
create_free_list(blocks) == free_list = blocks
k_mem_slab_init(blocks) == create_free_list(blocks) /\ num_used = 0 /\ held = {}

(* k_mem_slab_alloc: without blocking, and with a timeout when no block is *)
(* free.                                                                   *)
k_mem_slab_alloc ==
  /\ IF free_list # <<>>
     THEN /\ Reply(0, Head(free_list)) /\ free_list' = Tail(free_list)
          /\ num_used' = num_used + 1 /\ held' = held \cup {Head(free_list)}
     ELSE Reply(ENOMEM, NULL) /\ UNCHANGED slabVars
  /\ NobodyMoves /\ UNCHANGED firing

k_mem_slab_alloc_wait(t, timed) ==
  /\ Free(t) /\ free_list = <<>>
  /\ PendOn(t, "slab", "get", NULL, timed) /\ UNCHANGED slabVars

(* Mutant: a block handed over is no longer counted.                       *)
k_mem_slab_free_counts(mem) ==
  /\ mem \in held /\ held' = held \ {mem}
  /\ num_used' = num_used - 1
  /\ IF free_list = <<>> /\ waitq["slab"] # <<>>
     THEN WakeFirst("slab", 0, mem) /\ UNCHANGED free_list
     ELSE free_list' = <<mem>> \o free_list /\ NobodyMoves
  /\ Reply(0, NULL) /\ UNCHANGED firing

(* A waiter gets the block before the list does.                           *)
k_mem_slab_free(mem) ==
  /\ mem \in held /\ held' = held \ {mem}
  /\ IF free_list = <<>> /\ waitq["slab"] # <<>>
     THEN WakeFirst("slab", 0, mem) /\ UNCHANGED <<free_list, num_used>>
     ELSE /\ free_list' = <<mem>> \o free_list /\ num_used' = num_used - 1
          /\ NobodyMoves
  /\ Reply(0, NULL) /\ UNCHANGED firing

(* A waiter's k_mem_slab_alloc returns, with its block if it got one.      *)
AllocReturns(t) ==
  /\ Returns(t)
  /\ held' = held \cup ({thr[t].data} \ {NULL}) /\ UNCHANGED <<free_list, num_used>>

SlabNext ==
  \/ k_mem_slab_alloc \/ \E mem \in Items : k_mem_slab_free(mem)
  \/ \E t \in Threads : AllocReturns(t) \/ \E timed \in BOOLEAN : k_mem_slab_alloc_wait(t, timed)
  \/ PendNext /\ UNCHANGED slabVars

(* No block is lost or has two owners, whatever timeouts, hand-overs and   *)
(* frees do: each is on the free list, with a caller or on its way to a    *)
(* woken waiter, and num_used counts the last two.  k_mem_slab_free:       *)
(* handing a block over must leave the count alone.                        *)
BlocksAccounted ==
  LET given == {t \in Threads : thr[t].at = "done" /\ thr[t].q = "slab" /\ thr[t].data # NULL}
      way == {thr[t].data : t \in given}
  IN  /\ Distinct(free_list)
      /\ Cardinality(way) = Cardinality(given)
      /\ {Members(free_list) \cap held, held \cap way, way \cap Members(free_list)} = {{}}
      /\ Members(free_list) \cup held \cup way = Items
      /\ num_used = Cardinality(held) + Cardinality(given)
=============================================================================
