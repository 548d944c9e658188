------------------------------- MODULE KStack -------------------------------
(***************************************************************************)
(* LIFO stacks of words, kernel/stack.c: the one that threads and          *)
(* interrupt handlers share, "stack", and async_msg_free of mailbox.c,     *)
(* "async".                                                                *)
(***************************************************************************)
EXTENDS Pend

CONSTANT num_entries   \* their sizes
Stacks == {"stack", "async"}
ASSUME KStackAssumption == num_entries \in [Stacks -> Nat \ {0}]

VARIABLE entries       \* the words from base up to next, the top last

k_stack_init(words) == entries = words

(* CHECKIF is a test in this build.  A full stack has no waiter.           *)
k_stack_push(s, x) ==
  /\ CASE Len(entries[s]) = num_entries[s] ->
            NobodyMoves /\ Reply(ENOMEM, NULL) /\ UNCHANGED entries
       [] Len(entries[s]) # num_entries[s] /\ waitq[s] # <<>> ->
            WakeFirst(s, 0, x) /\ Reply(0, NULL) /\ UNCHANGED entries
       [] OTHER ->
            /\ entries' = [entries EXCEPT ![s] = Append(@, x)]
            /\ NobodyMoves /\ Reply(0, NULL)
  /\ UNCHANGED firing

(* k_stack_pop: without blocking, and with a timeout on an empty stack.    *)
k_stack_pop(s) ==
  /\ IF entries[s] # <<>>
     THEN /\ Reply(0, entries[s][Len(entries[s])])
          /\ entries' = [entries EXCEPT ![s] = SubSeq(@, 1, Len(@) - 1)]
     ELSE Reply(EBUSY, NULL) /\ UNCHANGED entries
  /\ NobodyMoves /\ UNCHANGED firing

k_stack_pop_wait(t, s, timed) ==
  /\ Free(t) /\ entries[s] = <<>>
  /\ PendOn(t, s, "get", NULL, timed) /\ UNCHANGED entries

StackNext ==
  \/ \E x \in Items : k_stack_push("stack", x)
  \/ k_stack_pop("stack")
  \/ \E t \in Threads, timed \in BOOLEAN : k_stack_pop_wait(t, "stack", timed)
  \/ (PendNext \/ \E t \in Threads : Returns(t)) /\ UNCHANGED entries
=============================================================================
