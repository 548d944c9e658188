------------------------------ MODULE AbsBuffer -----------------------------
(***************************************************************************)
(* What message queues, stacks, slabs and queues promise: a store of       *)
(* items in the order in which they will come out, threads that want       *)
(* something of it, and what the calls of threads return.  No ring, no     *)
(* links, no wait queue, no timeout list.                                  *)
(***************************************************************************)
EXTENDS Integers, Sequences, FiniteSets

CONSTANTS Threads, Prio, Items, Capacity, NULL

VARIABLES
  kind,      \* which of the four
  content,
  wants,     \* of a blocked thread: "get", or the item it wants to put in
  outcome,   \* of a thread whose blocked call is over
  reply      \* of the last call that did not block
vars == <<kind, content, wants, outcome, reply>>

EAGAIN == -11
ENOMEM == -12
EBUSY == -16
ENOMSG == -35
Result(ret, data) == [ret |-> ret, data |-> data]
None == Result(1, NULL)
Get == Result(0, NULL)

PutError == IF kind = "msgq" THEN ENOMSG ELSE ENOMEM
GetError == CASE kind = "msgq" -> ENOMSG [] kind = "stack" -> EBUSY
              [] kind = "slab" -> ENOMEM [] OTHER -> 0

Getters == {t \in Threads : wants[t] = Get}
Putters == {t \in Threads : wants[t] # Get /\ wants[t] # None}
Best(set) == {t \in set : \A u \in set : Prio[t] <= Prio[u]}
Full == kind \in {"msgq", "stack"} /\ Len(content) = Capacity[kind]

(* Where an item goes in.                                                  *)
Places == CASE kind = "msgq" -> {Len(content)} [] kind = "queue" -> 0 .. Len(content)
            [] OTHER -> {0}
With(i, x) == SubSeq(content, 1, i) \o <<x>> \o SubSeq(content, i + 1, Len(content))

Init == /\ wants = [t \in Threads |-> None] /\ outcome = [t \in Threads |-> None]
        /\ reply = None
        /\ IF kind = "slab" THEN Len(content) = Cardinality(Items) ELSE content = <<>>

(* The calls of the threads in set are over.                               *)
Over(set, res) ==
  /\ wants' = [t \in Threads |-> IF t \in set THEN None ELSE wants[t]]
  /\ outcome' = [t \in Threads |-> IF t \in set THEN res[t] ELSE outcome[t]]
Nobody == UNCHANGED <<wants, outcome>>

(* One of the best getters has an item before the store has it.            *)
Put(x) ==
  /\ UNCHANGED kind
  /\ \/ /\ reply' = Result(0, NULL) /\ UNCHANGED content
        /\ \E t \in Best(Getters) : Over({t}, [u \in {t} |-> Result(0, x)])
     \/ /\ Getters = {} /\ ~Full /\ \E i \in Places : content' = With(i, x)
        /\ reply' = Result(0, NULL) /\ Nobody
     \/ /\ Getters = {} /\ (Full \/ kind = "queue")
        /\ reply' = Result(PutError, NULL) /\ Nobody /\ UNCHANGED content

(* The item of one of the best putters takes the room made.                *)
GetOne ==
  /\ content # <<>> /\ reply' = Result(0, Head(content)) /\ UNCHANGED kind
  /\ \/ \E t \in Best(Putters) : /\ content' = Append(Tail(content), wants[t].data)
                                 /\ Over({t}, [u \in {t} |-> Result(0, NULL)])
     \/ Putters = {} /\ content' = Tail(content) /\ Nobody

(* Calls that only look; a peek, at a place it names.                      *)
GetNone == content = <<>> /\ reply' = Result(GetError, NULL) /\ Nobody /\ UNCHANGED <<kind, content>>
Look(at, res) == [at |-> at, ret |-> res.ret, data |-> res.data]
Peek ==
  /\ \/ kind = "msgq" /\ \E idx \in 0 .. Capacity[kind] :
          reply' = Look(idx, IF idx < Len(content) THEN Result(0, content[idx + 1])
                             ELSE Result(GetError, NULL))
     \/ kind = "queue" /\ \E end \in {"head", "tail"} :
          reply' = Look(end, Result(0, CASE content = <<>> -> NULL
                                         [] content # <<>> /\ end = "head" -> content[1]
                                         [] OTHER -> content[Len(content)]))
  /\ Nobody /\ UNCHANGED <<kind, content>>

Blocks(t) ==
  /\ wants[t] = None /\ outcome[t] = None
  /\ \/ content = <<>> /\ wants' = [wants EXCEPT ![t] = Get]
     \/ kind = "msgq" /\ Full /\ \E x \in Items : wants' = [wants EXCEPT ![t] = Result(0, x)]
  /\ reply' = None /\ UNCHANGED <<kind, content, outcome>>

(* A wait ends by its timeout, at any time.                                *)
Expire(t) ==
  /\ wants[t] # None /\ Over({t}, [u \in {t} |-> Result(EAGAIN, NULL)])
  /\ reply' = None /\ UNCHANGED <<kind, content>>

(* k_queue_cancel_wait ends a wait without an item; k_msgq_purge empties   *)
(* the store and ends the waits of those who want to put something in,     *)
(* "blocked waiting to send a message", who "see an -ENOMSG error code"    *)
(* (kernel.h), and of no other thread.                                     *)
Cancel ==
  /\ kind = "queue" /\ \E t \in Best(Getters) : Over({t}, [u \in {t} |-> Result(0, NULL)])
  /\ reply' = None /\ UNCHANGED <<kind, content>>
Purge ==
  /\ kind = "msgq" /\ content' = <<>>
  /\ Over(Putters, [t \in Threads |-> Result(ENOMSG, NULL)])
  /\ reply' = None /\ UNCHANGED kind

(* A list goes in at once: the best getters have its first items, in their *)
(* order, and the store the rest.                                          *)
PutMany(xs) ==
  LET n == IF Cardinality(Getters) < Len(xs) THEN Cardinality(Getters) ELSE Len(xs)
  IN  /\ kind = "queue" /\ reply' = Result(0, NULL) /\ UNCHANGED kind
      /\ \E turn \in [1 .. n -> Getters] :
           /\ \A i \in 1 .. n : turn[i] \in Best(Getters \ {turn[j] : j \in 1 .. (i - 1)})
           /\ Over({turn[i] : i \in 1 .. n},
                   [t \in {turn[i] : i \in 1 .. n} |-> Result(0, xs[CHOOSE i \in 1 .. n : turn[i] = t])])
      /\ content' = content \o SubSeq(xs, n + 1, Len(xs))

Return(t) ==
  /\ outcome[t] # None /\ outcome' = [outcome EXCEPT ![t] = None]
  /\ reply' = None /\ UNCHANGED <<kind, content, wants>>

(* A step of which nobody sees anything.                                   *)
Quiet == reply' = None /\ UNCHANGED <<kind, content, wants, outcome>>

Next ==
  \/ \E x \in Items : Put(x)
  \/ \E xs \in UNION {[1 .. n -> Items] : n \in 1 .. 2} : PutMany(xs)
  \/ GetOne \/ GetNone \/ Peek \/ Cancel \/ Purge \/ Quiet
  \/ \E t \in Threads : Blocks(t) \/ Expire(t) \/ Return(t)

Spec == Init /\ [][Next]_vars
=============================================================================
