------------------------------ MODULE DeltaList ------------------------------
(***************************************************************************)
(* timeout_list of kernel/timeout.c: the pending timeouts in the order of  *)
(* their deadlines, each node with its distance dticks to the one before   *)
(* it.  A node is a record with the fields to and dticks (and others that  *)
(* the list does not look at), the list a sequence of nodes.               *)
(***************************************************************************)
EXTENDS Integers, Sequences

Larger(m, n) == IF m > n THEN m ELSE n

(* timeout_rem summed up to the i-th node: its distance to curr_tick.      *)
Ticks(list, i) ==
  LET sum[n \in 0 .. Len(list)] == IF n = 0 THEN 0 ELSE sum[n - 1] + list[n].dticks
  IN  sum[i]

Linked(list) == {list[i].to : i \in 1 .. Len(list)}
Index(list, to) == CHOOSE i \in 1 .. Len(list) : list[i].to = to
timeout_rem(list, to) == Ticks(list, Index(list, to))

(* Where the loop of z_add_timeout stops for a timeout dticks away.        *)
Place(list, dticks) ==
  IF \E i \in 1 .. Len(list) : Ticks(list, i) > dticks
  THEN CHOOSE i \in 1 .. Len(list) : /\ Ticks(list, i) > dticks
                                     /\ \A j \in 1 .. (i - 1) : Ticks(list, j) <= dticks
  ELSE Len(list) + 1

(* Mutant: the node behind the new one keeps its distance.                 *)
Insert_keeps_next(list, node) ==
  LET p == Place(list, node.dticks)
      rest == node.dticks - Ticks(list, p - 1)
  IN  [i \in 1 .. Len(list) + 1 |->
         CASE i < p -> list[i]
           [] i = p -> [node EXCEPT !.dticks = rest]
           [] OTHER -> list[i - 1]]

Insert(list, node) ==
  LET p == Place(list, node.dticks)
      rest == node.dticks - Ticks(list, p - 1)
  IN  [i \in 1 .. Len(list) + 1 |->
         CASE i < p -> list[i]
           [] i = p -> [node EXCEPT !.dticks = rest]
           [] i = p + 1 -> [list[p] EXCEPT !.dticks = @ - rest]
           [] OTHER -> list[i - 1]]

(* The node behind the removed one takes over its distance.                *)
remove_timeout(list, to) ==
  LET p == Index(list, to)
  IN  [i \in 1 .. Len(list) - 1 |->
         CASE i < p -> list[i]
           [] i = p -> [list[p + 1] EXCEPT !.dticks = @ + list[p].dticks]
           [] OTHER -> list[i + 1]]
=============================================================================
