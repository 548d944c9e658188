---------------------------- MODULE ObjectsProofs ---------------------------
(***************************************************************************)
(* Proofs about the objects that hold data: ObjWaitInv, BlocksAccounted,   *)
(* MailInv, GettersKept and the refinement of AbsBuffer, for any      *)
(* threads, priorities, items, sizes and descriptors.                      *)
(***************************************************************************)
EXTENDS Objects, PriQProofs, FiniteSetTheorems, SequenceTheorems, TLAPS
-----------------------------------------------------------------------------
(* The inductive invariant.  Mail travels as the thread or the descriptor  *)
(* that stands for it.                                                     *)
Msgs == Threads \cup Descs
Data == Items \cup Msgs \cup {NULL, ANY}

(* The kind of object that a wait queue belongs to.                        *)
KindOf(q) == IF q \in {"tx", "rx", "async"} THEN "mbox" ELSE q

Thread == [at : {"idle", "pended", "done", "limbo", "matched"},
           op : {"none", "get", "put", "send"}, q : WaitQueues \cup {NULL},
           data : Data, ret : {0, EAGAIN, ENOMSG}, armed : BOOLEAN]

ThreadsTyped == thr \in [Threads -> Thread] /\ firing \in Threads \cup {NULL}

(* The wait queues, and what they say of the threads.                      *)
QueuesLinked ==
  /\ waitq \in [WaitQueues -> Seq(Msgs)]
  /\ \A q \in WaitQueues \ {"tx"} : waitq[q] \in Seq(Threads)
  /\ \A q \in WaitQueues : Distinct(waitq[q]) /\ Sorted(waitq[q], TxPrio)
  /\ \A q \in WaitQueues : waitq[q] # <<>> => used = KindOf(q)
  /\ \A t \in Threads, q \in WaitQueues :
       t \in Members(waitq[q]) <=> thr[t].at = "pended" /\ thr[t].q = q

(* What a thread carries, by where it is.                                  *)
Carries(t) ==
  /\ thr[t].armed => thr[t].at = "pended"
  /\ thr[t].at \in {"pended", "limbo"} => thr[t].ret = EAGAIN /\ thr[t].q \in WaitQueues
  /\ thr[t].at = "limbo" => used = "queue" /\ Surplus
  /\ thr[t].at = "matched" => used = "mbox"
  /\ used # "mbox" /\ thr[t].at # "idle" => thr[t].q \in WaitQueues /\ KindOf(thr[t].q) = used
  /\ used # "mbox" /\ thr[t].at = "done" => thr[t].data \in Items \cup {NULL}
  /\ used # "mbox" /\ thr[t].at = "pended" =>
       \/ thr[t].op = "get" /\ thr[t].data = NULL
       \/ used = "msgq" /\ thr[t].op = "put" /\ thr[t].data \in Items
AllCarry == /\ \A t \in Threads : Carries(t)
            /\ firing # NULL => ~thr[firing].armed

(* The objects: what they hold, and that nobody waits for it.              *)
RingInv ==
  /\ buffer \in [0 .. (max_msgs - 1) -> Items \cup {NULL}]
  /\ read_ptr \in 0 .. (max_msgs - 1) /\ write_ptr \in 0 .. (max_msgs - 1)
  /\ used_msgs \in 0 .. max_msgs
  /\ write_ptr = IF read_ptr + used_msgs < max_msgs
                 THEN read_ptr + used_msgs ELSE read_ptr + used_msgs - max_msgs
  /\ \A t \in Members(waitq["msgq"]) :
       used_msgs = IF thr[t].op = "get" THEN 0 ELSE max_msgs

StacksInv ==
  /\ entries \in [Stacks -> Seq(Data)]
  /\ \A s \in Stacks : waitq[s] # <<>> => entries[s] = <<>>

NodesInv ==
  /\ data_q \in Seq([data : Items, alloc : BOOLEAN])
  /\ waitq["queue"] # <<>> => data_q = <<>>

(* Blocks on their way to a waiter.                                        *)
Given == {t \in Threads : thr[t].at = "done" /\ thr[t].q = "slab" /\ thr[t].data # NULL}
SlabInv ==
  /\ free_list \in Seq(Items) /\ Distinct(free_list) /\ held \in SUBSET Items
  /\ waitq["slab"] # <<>> => free_list = <<>>
  /\ \A t \in Given : thr[t].data \in Items \ (held \cup Members(free_list))
  /\ \A t, u \in Given : thr[t].data = thr[u].data => t = u
  /\ held \cap Members(free_list) = {}
  /\ \A x \in Items \ (held \cup Members(free_list)) : \E t \in Given : thr[t].data = x
  /\ num_used = Cardinality(held) + Cardinality(Given)

(* The message that t has received, the descriptor that t is to fill.      *)
Has(t) == IF mail[t].step = "got" THEN mail[t].msg
          ELSE IF thr[t].at = "done" /\ thr[t].q = "rx" /\ thr[t].ret = 0 THEN thr[t].data
          ELSE NULL
Fills(t) == IF mail[t].step = "put" THEN mail[t].msg
            ELSE IF thr[t].at = "done" /\ thr[t].q = "async" THEN thr[t].data
            ELSE NULL
Givers == {t \in Threads : mail[t].step = "give"}
Signals == {d \in Descs : async_msg[d].signal /\ (d \in Members(waitq["tx"]) \/ \E t \in Threads : Has(t) = d)}

MailTyped ==
  /\ async_msg \in [Descs -> [source : Threads \cup {NULL}, target : Threads \cup {NULL, ANY},
                              prio : Int, signal : BOOLEAN]]
  /\ mail \in [Threads -> [step : {"none", "put", "got", "give"}, msg : Msgs \cup {NULL}]]
  /\ sem \in Nat /\ owed \in Nat /\ owed <= SemLimit
  /\ entries["async"] \in Seq(Descs) /\ Distinct(entries["async"])

(* A thread is in one place of the mailbox's code.                         *)
InMail(t) ==
  /\ mail[t].step = "none" => mail[t].msg = NULL
  /\ mail[t].step # "none" => thr[t].at = "idle" /\ used = "mbox"
  /\ mail[t].step = "put" => mail[t].msg \in Descs
  /\ mail[t].step = "got" => mail[t].msg \in Msgs
  /\ used = "mbox" /\ thr[t].at = "pended" =>
       \/ thr[t].op = "send" /\ thr[t].q = "tx"
       \/ thr[t].op = "get" /\ thr[t].q \in {"rx", "async"}
  /\ used = "mbox" /\ thr[t].at = "done" =>
       \/ thr[t].op = "send" /\ thr[t].data = NULL
       \/ thr[t].op = "get" /\ thr[t].q = "rx" /\ thr[t].ret = 0 /\ thr[t].data \in Msgs
       \/ thr[t].op = "get" /\ thr[t].q = "async" /\ thr[t].ret = 0 /\ thr[t].data \in Descs
       \/ thr[t].op = "get" /\ thr[t].ret # 0 /\ thr[t].data = NULL
  /\ thr[t].at = "matched" => thr[t].op = "send"

(* Every message is in one place.                                          *)
MailPlaced ==
  /\ \A t, u \in Threads : Has(t) = Has(u) /\ Has(t) # NULL => t = u
  /\ \A t, u \in Threads : Fills(t) = Fills(u) /\ Fills(t) # NULL => t = u
  /\ \A m \in Threads : (\E t \in Threads : Has(t) = m) <=> thr[m].at = "matched"
  /\ \A d \in Descs :
       /\ \/ d \in Members(entries["async"]) \/ d \in Members(waitq["tx"])
          \/ \E t \in Threads : Has(t) = d \/ Fills(t) = d
       /\ ~ (d \in Members(entries["async"]) /\ d \in Members(waitq["tx"]))
       /\ d \in Members(entries["async"]) \cup Members(waitq["tx"]) =>
            \A t \in Threads : Has(t) # d /\ Fills(t) # d
       /\ \A t, u \in Threads : ~ (Has(t) = d /\ Fills(u) = d)

NoneSuits ==
  \A m \in Members(waitq["tx"]), r \in Members(waitq["rx"]) :
    ~ mbox_message_match(Source(m), Target(m), r, thr[r].data)

SignalsDue == owed = sem + Cardinality(Givers) + Cardinality(Signals)

PendInv == ThreadsTyped /\ QueuesLinked /\ AllCarry
MboxInv == MailTyped /\ (\A t \in Threads : InMail(t)) /\ MailPlaced /\ NoneSuits /\ SignalsDue
IInv == PendInv /\ RingInv /\ StacksInv /\ SlabInv /\ NodesInv /\ MboxInv
-----------------------------------------------------------------------------
(* Facts about the constants, and about finite sets that gain or lose one  *)
(* element.                                                                *)
LEMMA Constants ==
  /\ Prio \in [Threads -> Int] /\ NULL \notin Threads /\ NULL \notin Items
  /\ NULL \notin Descs /\ NULL \notin Msgs /\ ANY \notin Msgs /\ ANY # NULL
  /\ Threads \cap Descs = {}
  /\ IsFiniteSet(Threads) /\ IsFiniteSet(Items) /\ IsFiniteSet(Descs)
  /\ max_msgs \in Nat /\ max_msgs >= 1 /\ SemLimit \in Nat /\ SemLimit >= 1
  /\ num_entries \in [Stacks -> Nat \ {0}] /\ num_entries["async"] = Cardinality(Descs)
BY PendAssumption, MsgQAssumption, KStackAssumption, MboxAssumption DEF Msgs

LEMMA FirstOf ==
  ASSUME NEW n \in Nat, NEW found \in SUBSET (1 .. n), found # {}
  PROVE  (CHOOSE i \in found : \A j \in found : i <= j) \in found
<1>1. found \subseteq Nat
  OBVIOUS
<1>2. \E i \in found : \A j \in found : i <= j
  BY <1>1, LeastNat
<1> QED
  BY <1>2

(* InSomeOrder: a finite set has a list, and each such list has all of it. *)
LEMMA Listed ==
  ASSUME NEW S, IsFiniteSet(S)
  PROVE  LET s == InSomeOrder(S)
         IN  s \in Seq(S) /\ Distinct(s) /\ Members(s) = S /\ Len(s) = Cardinality(S)
<1> DEFINE n == Cardinality(S)
<1>1. n \in Nat /\ ExistsBijection(1 .. n, S)
  BY FS_CardinalityType
<1>2. PICK f \in Bijection(1 .. n, S) : TRUE
  BY <1>1 DEF ExistsBijection
<1>3. ASSUME NEW s \in [1 .. n -> S] PROVE s \in Seq(S) /\ Len(s) = n
  BY <1>1, <1>3
<1>4. f \in [1 .. n -> S] /\ Distinct(f)
  <2>1. f \in [1 .. n -> S] /\ \A i, j \in 1 .. n : f[i] = f[j] => i = j
    BY <1>2 DEF Bijection, Injection, IsInjective
  <2> QED
    BY <1>3, <2>1 DEF Distinct
<1> DEFINE s == InSomeOrder(S)
<1>5. s \in [1 .. n -> S] /\ Distinct(s)
  BY <1>4 DEF InSomeOrder
<1>6. s \in Seq(S) /\ Len(s) = n
  BY <1>3, <1>5
<1>7. s \in Injection(1 .. n, S)
  BY <1>5, <1>6 DEF Distinct, Injection, IsInjective
<1>8. IsFiniteSet(1 .. n) /\ Cardinality(1 .. n) = n
  BY <1>1, FS_Interval
<1>9. s \in Surjection(1 .. n, S)
  BY <1>7, <1>8, FS_Injection
<1>10. Members(s) = S
  BY <1>5, <1>6, <1>9 DEF Surjection, Members
<1> QED
  BY <1>5, <1>6, <1>10
-----------------------------------------------------------------------------
(* The wait queues.  Every step keeps the threads it does not speak of     *)
(* where they are and the rank of everything that stands in a queue.       *)
Stays(u) == /\ thr'[u].at = "pended" <=> thr[u].at = "pended"
            /\ thr[u].at = "pended" => thr'[u].q = thr[u].q
RanksKept == /\ TxPrio \in [Msgs -> Int] /\ TxPrio' \in [Msgs -> Int]
             /\ \A q \in WaitQueues : \A x \in Members(waitq[q]) : TxPrio'[x] = TxPrio[x]

LEMMA TxPrioType == MailTyped => TxPrio \in [Msgs -> Int]
BY Constants DEF MailTyped, TxPrio, Msgs

LEMMA SameRanks ==
  ASSUME MailTyped, async_msg' = async_msg
  PROVE  RanksKept
<1>1. TxPrio' = TxPrio
  BY DEF TxPrio
<1> QED
  BY <1>1, TxPrioType DEF RanksKept

LEMMA SortedKept ==
  ASSUME NEW pq \in Seq(Msgs), RanksKept, \A x \in Members(pq) : TxPrio'[x] = TxPrio[x], Sorted(pq, TxPrio)
  PROVE  Sorted(pq, TxPrio')
BY DEF Sorted, Members

(* One more thread in the queue of a kind, or none: what the queue is for. *)
LEMMA StaySame ==
  ASSUME QueuesLinked, RanksKept, used' = used, waitq' = waitq, \A u \in Threads : Stays(u)
  PROVE  QueuesLinked'
<1>1. \A q \in WaitQueues : Sorted(waitq[q], TxPrio')
  BY SortedKept DEF QueuesLinked, RanksKept
<1> QED
  BY <1>1 DEF QueuesLinked, Stays

(* m leaves queue q.                                                       *)
LEMMA UnlinkOne ==
  ASSUME QueuesLinked, RanksKept, used' = used, NEW q \in WaitQueues, NEW m \in Msgs,
         waitq' = [waitq EXCEPT ![q] = z_priq_dumb_remove(@, m)],
         m \in Members(waitq[q]),
         m \in Threads => thr'[m].at # "pended",
         \A u \in Threads \ {m} : Stays(u)
  PROVE  /\ QueuesLinked'
         /\ Members(waitq'[q]) = Members(waitq[q]) \ {m}
         /\ \A p \in WaitQueues \ {q} : waitq'[p] = waitq[p]
<1> DEFINE old == waitq[q]
           new == z_priq_dumb_remove(old, m)
<1>1. /\ old \in Seq(Msgs) /\ Distinct(old) /\ Sorted(old, TxPrio)
      /\ waitq'[q] = new /\ \A p \in WaitQueues \ {q} : waitq'[p] = waitq[p]
  BY DEF QueuesLinked
<1>2. Sorted(old, TxPrio') /\ TxPrio' \in [Msgs -> Int]
  BY <1>1, SortedKept DEF RanksKept
<1>3. /\ new \in Seq(Msgs) /\ Distinct(new) /\ Sorted(new, TxPrio')
      /\ Members(new) = Members(old) \ {m}
  <2>1. \A prio \in [Msgs -> Int] : Sorted(old, prio) =>
          /\ new \in Seq(Msgs) /\ Distinct(new) /\ Sorted(new, prio)
          /\ Members(new) = Members(old) \ {m}
    BY <1>1, RemoveSpec
  <2> HIDE DEF new
  <2> QED
    BY <1>2, <2>1
<1>4. q # "tx" => new \in Seq(Threads)
  <2>1. SUFFICES ASSUME q # "tx" PROVE new \in Seq(Threads)
    OBVIOUS
  <2>2. old \in Seq(Threads)
    BY <2>1 DEF QueuesLinked
  <2>3. m \in Threads
    BY <2>2 DEF Members
  <2> QED
    BY <1>1, <2>2, <2>3, RemoveLinks
<1>5. \A p \in WaitQueues : /\ waitq'[p] \in Seq(Msgs) /\ Distinct(waitq'[p]) /\ Sorted(waitq'[p], TxPrio')
                            /\ p # "tx" => waitq'[p] \in Seq(Threads)
  <2> HIDE DEF new, old
  <2> TAKE p \in WaitQueues
  <2>1. CASE p = q
    BY <1>1, <1>3, <1>4, <2>1
  <2>2. CASE p # q
    BY <1>1, <2>2, SortedKept DEF QueuesLinked, RanksKept
  <2> QED
    BY <2>1, <2>2
<1>6. \A p \in WaitQueues : waitq'[p] # <<>> => used' = KindOf(p)
  <2>1. old # <<>>
    BY <1>1, MembersEmpty
  <2> QED
    BY <1>1, <2>1 DEF QueuesLinked
<1>7. \A t \in Threads, p \in WaitQueues :
        t \in Members(waitq'[p]) <=> thr'[t].at = "pended" /\ thr'[t].q = p
  <2> TAKE t \in Threads, p \in WaitQueues
  <2> HIDE DEF new
  <2>1. CASE t = m
    <3>1. p # q => ~(t \in Members(waitq[p]))
      BY <2>1 DEF QueuesLinked
    <3> QED
      BY <1>1, <1>3, <2>1, <3>1
  <2>2. CASE t # m
    <3>1. t \in Members(waitq'[p]) <=> t \in Members(waitq[p])
      BY <1>1, <1>3, <2>2
    <3> QED
      BY <2>2, <3>1 DEF QueuesLinked, Stays
  <2> QED
    BY <2>1, <2>2
<1>8. waitq' \in [WaitQueues -> Seq(Msgs)]
  BY <1>1, <1>3 DEF QueuesLinked
<1> QED
  BY <1>1, <1>3, <1>5, <1>6, <1>7, <1>8 DEF QueuesLinked

(* m, which stood in none, enters queue q.                                 *)
LEMMA LinkOne ==
  ASSUME QueuesLinked, RanksKept, used' = used, NEW q \in WaitQueues, NEW m \in Msgs, NEW prio,
         waitq' = [waitq EXCEPT ![q] = z_priq_dumb_add(@, m, prio)],
         m \notin Members(waitq[q]), used = KindOf(q),
         IF q = "tx" THEN prio = TxPrio' ELSE m \in Threads /\ prio = Prio,
         m \in Threads => thr[m].at # "pended" /\ thr'[m].at = "pended" /\ thr'[m].q = q,
         \A u \in Threads \ {m} : Stays(u)
  PROVE  /\ QueuesLinked'
         /\ Members(waitq'[q]) = Members(waitq[q]) \cup {m} /\ waitq'[q] # <<>>
         /\ \A p \in WaitQueues \ {q} : waitq'[p] = waitq[p]
<1> DEFINE old == waitq[q]
           new == z_priq_dumb_add(old, m, prio)
<1>1. /\ old \in Seq(Msgs) /\ Distinct(old) /\ Sorted(old, TxPrio)
      /\ waitq'[q] = new /\ \A p \in WaitQueues \ {q} : waitq'[p] = waitq[p]
  BY DEF QueuesLinked
<1>2. Sorted(old, TxPrio') /\ TxPrio' \in [Msgs -> Int]
  BY <1>1, SortedKept DEF RanksKept
<1>3. /\ new \in Seq(Msgs) /\ Distinct(new) /\ Sorted(new, TxPrio')
      /\ Members(new) = Members(old) \cup {m}
      /\ q # "tx" => new \in Seq(Threads)
  <2>1. CASE q = "tx"
    <3>1. \A p \in [Msgs -> Int] : Sorted(old, p) =>
            /\ z_priq_dumb_add(old, m, p) \in Seq(Msgs) /\ Distinct(z_priq_dumb_add(old, m, p))
            /\ Sorted(z_priq_dumb_add(old, m, p), p)
            /\ Members(z_priq_dumb_add(old, m, p)) = Members(old) \cup {m}
      BY <1>1, AddSpec
    <3> HIDE DEF old
    <3> QED
      BY <1>2, <2>1, <3>1
  <2>2. CASE q # "tx"
    <3>1. old \in Seq(Threads) /\ m \in Threads /\ prio = Prio /\ Prio \in [Threads -> Int]
      BY <2>2, Constants DEF QueuesLinked
    <3>2. \A x \in Threads : TxPrio'[x] = Prio[x]
      BY Constants DEF TxPrio
    <3>3. Sorted(old, Prio)
      <4>1. \A i \in 1 .. Len(old) : TxPrio'[old[i]] = Prio[old[i]]
        BY <3>1, <3>2, ElementOfSeq
      <4> HIDE DEF old
      <4> QED
        BY <1>2, <4>1 DEF Sorted
    <3>4. /\ new \in Seq(Threads) /\ Distinct(new) /\ Sorted(new, Prio)
          /\ Members(new) = Members(old) \cup {m}
      BY <1>1, <3>1, <3>3, AddSpec
    <3> HIDE DEF new, old
    <3>5. new \in Seq(Msgs)
      BY <3>4, SeqMonotonic DEF Msgs
    <3>6. Sorted(new, TxPrio')
      BY <3>2, <3>4 DEF Sorted
    <3> QED
      BY <3>4, <3>5, <3>6
  <2> QED
    BY <2>1, <2>2
<1>5. \A p \in WaitQueues : /\ waitq'[p] \in Seq(Msgs) /\ Distinct(waitq'[p]) /\ Sorted(waitq'[p], TxPrio')
                            /\ p # "tx" => waitq'[p] \in Seq(Threads)
  <2> HIDE DEF new, old
  <2> TAKE p \in WaitQueues
  <2>1. CASE p = q
    BY <1>1, <1>3, <2>1
  <2>2. CASE p # q
    BY <1>1, <2>2, SortedKept DEF QueuesLinked, RanksKept
  <2> QED
    BY <2>1, <2>2
<1>6. \A p \in WaitQueues : waitq'[p] # <<>> => used' = KindOf(p)
  BY <1>1 DEF QueuesLinked
<1>7. \A t \in Threads, p \in WaitQueues :
        t \in Members(waitq'[p]) <=> thr'[t].at = "pended" /\ thr'[t].q = p
  <2> TAKE t \in Threads, p \in WaitQueues
  <2> HIDE DEF new
  <2>1. CASE t = m
    <3>1. ~(t \in Members(waitq[p]))
      BY <2>1 DEF QueuesLinked
    <3> QED
      BY <1>1, <1>3, <2>1, <3>1
  <2>2. CASE t # m
    <3>1. t \in Members(waitq'[p]) <=> t \in Members(waitq[p])
      BY <1>1, <1>3, <2>2
    <3> QED
      BY <2>2, <3>1 DEF QueuesLinked, Stays
  <2> QED
    BY <2>1, <2>2
<1>8. waitq' \in [WaitQueues -> Seq(Msgs)]
  BY <1>1, <1>3 DEF QueuesLinked
<1>9. waitq'[q] # <<>>
  <2> HIDE DEF new
  <2>1. Members(new) # {} /\ new \in Seq(Msgs)
    BY <1>3
  <2> QED
    BY <1>1, <2>1, MembersEmpty
<1> QED
  BY <1>1, <1>3, <1>5, <1>6, <1>7, <1>8, <1>9 DEF QueuesLinked

(* The first k threads of queue q leave it.                                *)
LEMMA UnlinkSome ==
  ASSUME QueuesLinked, RanksKept, used' = used, NEW q \in WaitQueues \ {"tx"},
         NEW k \in 0 .. Len(waitq[q]),
         waitq' = [waitq EXCEPT ![q] = SubSeq(waitq[q], k + 1, Len(waitq[q]))],
         \A u \in Threads : IF u \in Members(SubSeq(waitq[q], 1, k)) THEN thr'[u].at # "pended" ELSE Stays(u)
  PROVE  /\ QueuesLinked'
         /\ Members(waitq'[q]) = Members(waitq[q]) \ Members(SubSeq(waitq[q], 1, k))
         /\ Members(SubSeq(waitq[q], 1, k)) \subseteq Members(waitq[q])
         /\ \A p \in WaitQueues \ {q} : waitq'[p] = waitq[p]
<1> DEFINE old == waitq[q]
           n == Len(old)
           new == SubSeq(old, k + 1, n)
           out == SubSeq(old, 1, k)
<1>1. /\ old \in Seq(Threads) /\ Distinct(old) /\ Sorted(old, TxPrio)
      /\ n \in Nat /\ n = Len(old) /\ k \in 0 .. n
      /\ waitq'[q] = new /\ \A p \in WaitQueues \ {q} : waitq'[p] = waitq[p]
  BY DEF QueuesLinked
<1>2. \A i \in 1 .. n : old[i] \in Threads
  BY <1>1, ElementOfSeq
<1>3. /\ new \in Seq(Threads) /\ Len(new) = n - k
      /\ \A i \in 1 .. n - k : new[i] = old[k + i]
  <2>1. \A i \in k + 1 .. n : old[i] \in Threads
    BY <1>2
  <2>2. /\ new \in Seq(Threads) /\ Len(new) = IF k + 1 <= n THEN n - (k + 1) + 1 ELSE 0
        /\ \A i \in 1 .. n - (k + 1) + 1 : new[i] = old[k + 1 + i - 1]
    <3> HIDE DEF old, n
    <3> QED
      BY <1>1, <2>1, SubSeqProperties
  <2> HIDE DEF new, n, old
  <2> QED
    BY <1>1, <2>2
<1>4. Len(out) = k /\ \A i \in 1 .. k : out[i] = old[i]
  <2>1. \A i \in 1 .. k : old[i] \in Threads
    BY <1>1, <1>2
  <2>2. /\ Len(out) = IF 1 <= k THEN k - 1 + 1 ELSE 0
        /\ \A i \in 1 .. k - 1 + 1 : out[i] = old[1 + i - 1]
    <3> HIDE DEF old, n
    <3> QED
      BY <1>1, <2>1, SubSeqProperties
  <2> HIDE DEF out, n, old
  <2> QED
    BY <1>1, <2>2
<1> HIDE DEF new, out, n, old
<1>5. /\ Members(new) = Members(old) \ Members(out) /\ Members(out) \subseteq Members(old)
  <2>1. ASSUME NEW x \in Members(new) PROVE x \in Members(old) /\ x \notin Members(out)
    <3>1. PICK i \in 1 .. n - k : x = old[k + i]
      BY <1>3, <2>1 DEF Members
    <3>2. k + i \in 1 .. n /\ n = Len(old)
      BY <1>1, <3>1
    <3>3. x \in Members(old)
      BY <3>1, <3>2 DEF Members
    <3>4. ASSUME NEW j \in 1 .. k PROVE out[j] # x
      <4>1. j \in 1 .. Len(old) /\ k + i \in 1 .. Len(old) /\ j # k + i /\ out[j] = old[j]
        BY <1>1, <1>4, <3>1, <3>2, <3>4
      <4> QED
        BY <1>1, <3>1, <4>1 DEF Distinct
    <3> QED
      BY <1>4, <3>3, <3>4 DEF Members
  <2>2. ASSUME NEW x \in Members(old), x \notin Members(out) PROVE x \in Members(new)
    <3>1. PICK i \in 1 .. n : x = old[i]
      BY <2>2 DEF Members, n
    <3>2. i > k
      <4>1. SUFFICES ASSUME ~ i > k PROVE FALSE
        OBVIOUS
      <4>2. i \in 1 .. Len(out) /\ out[i] = x
        BY <1>1, <1>4, <3>1, <4>1
      <4> QED
        BY <2>2, <4>2 DEF Members
    <3>3. i - k \in 1 .. n - k /\ new[i - k] = old[k + (i - k)] /\ k + (i - k) = i
      BY <1>1, <1>3, <3>1, <3>2
    <3>4. i - k \in 1 .. Len(new) /\ new[i - k] = x
      BY <1>1, <1>3, <3>1, <3>3
    <3> QED
      BY <3>4 DEF Members
  <2>3. Members(out) \subseteq Members(old)
    BY <1>1, <1>4 DEF Members, n
  <2> QED
    BY <2>1, <2>2, <2>3
<1>6. Distinct(new)
  <2> SUFFICES ASSUME NEW i \in 1 .. n - k, NEW j \in 1 .. n - k, new[i] = new[j] PROVE i = j
    BY <1>3 DEF Distinct
  <2>1. k + i \in 1 .. n /\ k + j \in 1 .. n /\ old[k + i] = old[k + j]
    BY <1>1, <1>3
  <2>2. k + i = k + j
    BY <1>1, <2>1 DEF Distinct
  <2> QED
    BY <1>1, <2>2
<1>7. new \in Seq(Msgs) /\ old \in Seq(Msgs)
  BY <1>1, <1>3, SeqMonotonic DEF Msgs
<1>8. Sorted(new, TxPrio')
  <2>1. Sorted(old, TxPrio')
    BY <1>1, <1>7, SortedKept DEF RanksKept, old
  <2> SUFFICES ASSUME NEW i \in 1 .. n - k, NEW j \in 1 .. n - k, i < j
               PROVE  TxPrio'[new[i]] <= TxPrio'[new[j]]
    BY <1>3 DEF Sorted
  <2>2. k + i \in 1 .. n /\ k + j \in 1 .. n /\ k + i < k + j
    BY <1>1
  <2>3. new[i] = old[k + i] /\ new[j] = old[k + j]
    BY <1>3
  <2> QED
    BY <1>1, <2>1, <2>2, <2>3 DEF Sorted
<1>9. \A p \in WaitQueues : /\ waitq'[p] \in Seq(Msgs) /\ Distinct(waitq'[p]) /\ Sorted(waitq'[p], TxPrio')
                            /\ p # "tx" => waitq'[p] \in Seq(Threads)
  <2> TAKE p \in WaitQueues
  <2>1. CASE p = q
    BY <1>1, <1>3, <1>6, <1>7, <1>8, <2>1
  <2>2. CASE p # q
    BY <1>1, <2>2, SortedKept DEF QueuesLinked, RanksKept
  <2> QED
    BY <2>1, <2>2
<1>10. \A p \in WaitQueues : waitq'[p] # <<>> => used' = KindOf(p)
  <2>1. new # <<>> => old # <<>>
    BY <1>3, <1>1, <1>5, <1>7, MembersEmpty
  <2> QED
    BY <1>1, <2>1 DEF QueuesLinked, old
<1>11. \A t \in Threads, p \in WaitQueues :
        t \in Members(waitq'[p]) <=> thr'[t].at = "pended" /\ thr'[t].q = p
  <2> TAKE t \in Threads, p \in WaitQueues
  <2>1. CASE t \in Members(out)
    <3>1. thr'[t].at # "pended"
      BY <2>1 DEF out, old
    <3>2. p # q => t \notin Members(waitq[p])
      BY <1>5, <2>1 DEF QueuesLinked, old
    <3> QED
      BY <1>1, <1>5, <2>1, <3>1, <3>2
  <2>2. CASE t \notin Members(out)
    <3>1. t \in Members(waitq'[p]) <=> t \in Members(waitq[p])
      BY <1>1, <1>5, <2>2 DEF old
    <3>2. Stays(t)
      BY <2>2 DEF out, old
    <3> QED
      BY <3>1, <3>2 DEF QueuesLinked, Stays
  <2> QED
    BY <2>1, <2>2
<1>12. waitq' \in [WaitQueues -> Seq(Msgs)]
  BY <1>1, <1>7 DEF QueuesLinked
<1> QED
  BY <1>1, <1>5, <1>9, <1>10, <1>11, <1>12 DEF QueuesLinked, out, old
-----------------------------------------------------------------------------
(* The steps of Pend keep PendInv.                                         *)
Calm == used' = used /\ RanksKept

(* A waiter's record once it is woken.                                     *)
LEMMA WokenFields ==
  ASSUME ThreadsTyped, NEW t \in Threads, NEW ret \in {0, EAGAIN, ENOMSG}, NEW data \in Data
  PROVE  LET w == Woken(t, ret, data)
         IN  /\ w \in Thread /\ w.at = "done" /\ w.ret = ret /\ w.data = data /\ ~w.armed
             /\ w.op = thr[t].op /\ w.q = thr[t].q
BY DEF Woken, ThreadsTyped, Thread

LEMMA CarryKept ==
  ASSUME NEW u, thr'[u] = thr[u], used' = used, Carries(u)
  PROVE  Carries(u)'
BY DEF Carries

LEMMA NobodyMovesSafe ==
  ASSUME PendInv, MailTyped, Calm, NobodyMoves, firing' = firing
  PROVE  PendInv'
<1>1. RanksKept /\ \A u \in Threads : Stays(u)
  BY DEF Calm, NobodyMoves, Stays
<1>2. QueuesLinked'
  BY <1>1, StaySame DEF PendInv, Calm, NobodyMoves
<1> QED
  BY <1>2 DEF PendInv, ThreadsTyped, AllCarry, Carries, Calm, NobodyMoves

(* z_pend_curr.                                                            *)
LEMMA PendSafe ==
  ASSUME PendInv, MailTyped, Calm, NEW t \in Threads, NEW q \in WaitQueues, NEW prio,
         NEW op \in {"get", "put", "send"}, NEW data \in Data, NEW timed \in BOOLEAN,
         Free(t), PendBy(prio, t, q, op, data, timed), used = KindOf(q),
         q # "tx" => prio = Prio, q = "tx" => prio = TxPrio',
         used # "mbox" => \/ op = "get" /\ data = NULL
                          \/ used = "msgq" /\ op = "put" /\ data \in Items
  PROVE  /\ PendInv'
         /\ thr'[t] = [at |-> "pended", op |-> op, q |-> q, data |-> data, ret |-> EAGAIN, armed |-> timed]
         /\ \A u \in Threads \ {t} : thr'[u] = thr[u]
         /\ Members(waitq'[q]) = Members(waitq[q]) \cup {t} /\ waitq'[q] # <<>>
         /\ \A p \in WaitQueues \ {q} : waitq'[p] = waitq[p]
<1> DEFINE rec == [at |-> "pended", op |-> op, q |-> q, data |-> data, ret |-> EAGAIN, armed |-> timed]
<1>1. thr' = [thr EXCEPT ![t] = rec] /\ waitq' = [waitq EXCEPT ![q] = z_priq_dumb_add(@, t, prio)]
      /\ firing' = firing
  BY DEF PendBy
<1>2. rec \in Thread
  BY DEF Thread
<1>3. thr'[t] = rec /\ \A u \in Threads \ {t} : thr'[u] = thr[u]
  BY <1>1 DEF PendInv, ThreadsTyped
<1>4. ThreadsTyped'
  BY <1>1, <1>2 DEF PendInv, ThreadsTyped
<1>5. thr[t].at = "idle" /\ t \in Msgs
  BY DEF Free, Msgs
<1>6. RanksKept
  BY DEF Calm
<1>7. /\ QueuesLinked'
      /\ Members(waitq'[q]) = Members(waitq[q]) \cup {t} /\ waitq'[q] # <<>>
      /\ \A p \in WaitQueues \ {q} : waitq'[p] = waitq[p]
  <2>1. QueuesLinked /\ used' = used
    BY DEF PendInv, Calm
  <2>2. t \notin Members(waitq[q])
    BY <1>5, <2>1 DEF QueuesLinked
  <2>3. \A u \in Threads \ {t} : Stays(u)
    BY <1>3 DEF Stays
  <2>4. IF q = "tx" THEN prio = TxPrio' ELSE t \in Threads /\ prio = Prio
    OBVIOUS
  <2>5. thr[t].at # "pended" /\ thr'[t].at = "pended" /\ thr'[t].q = q
    BY <1>3, <1>5
  <2> QED
    BY <1>1, <1>5, <1>6, <2>1, <2>2, <2>3, <2>4, <2>5, LinkOne
<1>8. AllCarry'
  <2>1. \A u \in Threads \ {t} : Carries(u)'
    BY <1>3, CarryKept DEF PendInv, AllCarry, Calm
  <2>2. Carries(t)'
    BY <1>3 DEF Carries, Calm
  <2> QED
    BY <1>1, <2>1, <2>2 DEF AllCarry, Free
<1> QED
  BY <1>3, <1>4, <1>7, <1>8 DEF PendInv

LEMMA PendOnSafe ==
  ASSUME PendInv, MailTyped, Calm, NEW t \in Threads, NEW q \in WaitQueues \ {"tx"},
         NEW op \in {"get", "put", "send"}, NEW data \in Data, NEW timed \in BOOLEAN,
         Free(t), PendOn(t, q, op, data, timed), used = KindOf(q),
         used # "mbox" => \/ op = "get" /\ data = NULL
                          \/ used = "msgq" /\ op = "put" /\ data \in Items
  PROVE  /\ PendInv'
         /\ thr'[t] = [at |-> "pended", op |-> op, q |-> q, data |-> data, ret |-> EAGAIN, armed |-> timed]
         /\ \A u \in Threads \ {t} : thr'[u] = thr[u]
         /\ Members(waitq'[q]) = Members(waitq[q]) \cup {t} /\ waitq'[q] # <<>>
         /\ \A p \in WaitQueues \ {q} : waitq'[p] = waitq[p]
<1>1. PendBy(Prio, t, q, op, data, timed) /\ q \in WaitQueues /\ q # "tx"
  BY DEF PendOn
<1> QED
  BY <1>1, PendSafe

(* z_unpend_first_thread and what follows it.                              *)
LEMMA WakeSafe ==
  ASSUME PendInv, MailTyped, Calm, firing' = firing, NEW q \in WaitQueues \ {"tx"},
         NEW ret \in {0, ENOMSG}, NEW data \in Data, waitq[q] # <<>>, WakeFirst(q, ret, data),
         used # "mbox" => data \in Items \cup {NULL}
  PROVE  LET t == Head(waitq[q])
         IN  /\ PendInv'
             /\ t \in Threads /\ t \in Members(waitq[q]) /\ thr[t].at = "pended" /\ thr[t].q = q
             /\ \A u \in Members(waitq[q]) : Prio[t] <= Prio[u]
             /\ thr'[t] = Woken(t, ret, data)
             /\ \A u \in Threads \ {t} : thr'[u] = thr[u]
             /\ Members(waitq'[q]) = Members(waitq[q]) \ {t}
             /\ \A p \in WaitQueues \ {q} : waitq'[p] = waitq[p]
<1>1. waitq[q] \in Seq(Threads) /\ waitq[q] \in Seq(Msgs) /\ Sorted(waitq[q], TxPrio)
  BY DEF PendInv, QueuesLinked
<1>2. PICK t \in Threads : t = Head(waitq[q]) /\ t \in Members(waitq[q])
  BY <1>1, HeadLinked
<1>0. /\ QueuesLinked /\ ThreadsTyped /\ used' = used
      /\ thr' = [thr EXCEPT ![t] = Woken(t, ret, data)]
      /\ waitq' = [waitq EXCEPT ![q] = z_priq_dumb_remove(@, t)]
  BY <1>2 DEF PendInv, Calm, WakeFirst
<1>3. \A u \in Members(waitq[q]) : u \in Threads /\ Prio[t] <= Prio[u]
  <2>1. \A u \in Members(waitq[q]) : TxPrio[t] <= TxPrio[u]
    BY <1>1, <1>2, HeadIsBest, TxPrioType
  <2>2. \A u \in Members(waitq[q]) : u \in Threads
    BY <1>1 DEF Members
  <2>3. \A u \in Threads : TxPrio[u] = Prio[u]
    BY Constants DEF TxPrio
  <2> QED
    BY <1>2, <2>1, <2>2, <2>3
<1>4. thr[t].at = "pended" /\ thr[t].q = q
  BY <1>0, <1>2 DEF QueuesLinked
<1>5. thr'[t] = Woken(t, ret, data) /\ \A u \in Threads \ {t} : thr'[u] = thr[u]
  BY <1>0, <1>2 DEF ThreadsTyped
<1>6. /\ thr'[t] \in Thread /\ thr'[t].at = "done" /\ thr'[t].ret = ret /\ thr'[t].data = data
      /\ ~thr'[t].armed /\ thr'[t].op = thr[t].op /\ thr'[t].q = q
  BY <1>0, <1>2, <1>4, <1>5, WokenFields
<1>7. ThreadsTyped'
  BY <1>0, <1>2, <1>5, <1>6 DEF ThreadsTyped
<1>8. RanksKept /\ \A u \in Threads \ {t} : Stays(u)
  BY <1>5 DEF Calm, Stays
<1>9. /\ QueuesLinked' /\ Members(waitq'[q]) = Members(waitq[q]) \ {t}
      /\ \A p \in WaitQueues \ {q} : waitq'[p] = waitq[p]
  BY <1>0, <1>2, <1>6, <1>8, UnlinkOne DEF Msgs
<1>10. AllCarry'
  <2>1. \A u \in Threads \ {t} : Carries(u)'
    BY <1>5, CarryKept DEF PendInv, AllCarry, Calm
  <2>2. Carries(t)'
    BY <1>0, <1>2, <1>4, <1>6 DEF PendInv, AllCarry, Carries
  <2>3. (firing # NULL => ~thr[firing].armed)'
    BY <1>0, <1>5, <1>6 DEF PendInv, AllCarry, ThreadsTyped
  <2> QED
    BY <2>1, <2>2, <2>3 DEF AllCarry
<1> QED
  BY <1>2, <1>3, <1>4, <1>5, <1>7, <1>9, <1>10 DEF PendInv

(* sys_clock_announce, z_thread_timeout and the end of a call.             *)
LEMMA AnnounceSafe ==
  ASSUME PendInv, MailTyped, Calm, NEW t \in Threads, Announce(t)
  PROVE  /\ PendInv' /\ waitq' = waitq
         /\ \A u \in Threads : /\ thr'[u].at = thr[u].at /\ thr'[u].op = thr[u].op /\ thr'[u].q = thr[u].q
                               /\ thr'[u].data = thr[u].data /\ thr'[u].ret = thr[u].ret
<1>1. thr' = [thr EXCEPT ![t].armed = FALSE] /\ firing' = t /\ waitq' = waitq /\ thr \in [Threads -> Thread]
  BY DEF Announce, PendInv, ThreadsTyped
<1>2. ASSUME NEW u \in Threads
      PROVE  /\ thr'[u].at = thr[u].at /\ thr'[u].op = thr[u].op /\ thr'[u].q = thr[u].q
             /\ thr'[u].data = thr[u].data /\ thr'[u].ret = thr[u].ret
             /\ thr'[u].armed => thr[u].armed /\ u # t
             /\ thr'[u] \in Thread
  BY <1>1 DEF Thread
<1>3. ThreadsTyped'
  BY <1>1, <1>2 DEF ThreadsTyped
<1>4. RanksKept /\ \A u \in Threads : Stays(u)
  BY <1>2 DEF Calm, Stays
<1>5. QueuesLinked'
  BY <1>1, <1>4, StaySame DEF PendInv, Calm
<1>6. AllCarry'
  BY <1>1, <1>2 DEF PendInv, AllCarry, Carries, Calm
<1> QED
  BY <1>1, <1>2, <1>3, <1>5, <1>6 DEF PendInv

LEMMA ReturnsSafe ==
  ASSUME PendInv, MailTyped, Calm, NEW t \in Threads, Returns(t)
  PROVE  /\ PendInv' /\ waitq' = waitq /\ thr[t].at = "done" /\ firing' = firing
         /\ thr'[t] = Idle /\ \A u \in Threads \ {t} : thr'[u] = thr[u]
<1>1. thr' = [thr EXCEPT ![t] = Idle] /\ waitq' = waitq /\ thr[t].at = "done" /\ firing' = firing
  BY DEF Returns
<1>2. thr'[t] = Idle /\ \A u \in Threads \ {t} : thr'[u] = thr[u]
  BY <1>1 DEF PendInv, ThreadsTyped
<1>3. Idle \in Thread /\ Idle.at = "idle" /\ ~Idle.armed
  BY DEF Idle, Thread, Data
<1>4. ThreadsTyped'
  BY <1>1, <1>3 DEF PendInv, ThreadsTyped
<1>5. RanksKept /\ \A u \in Threads : Stays(u)
  BY <1>1, <1>2, <1>3 DEF Calm, Stays
<1>6. QueuesLinked'
  BY <1>1, <1>5, StaySame DEF PendInv, Calm
<1>7. AllCarry'
  <2>1. \A u \in Threads \ {t} : Carries(u)'
    BY <1>2, CarryKept DEF PendInv, AllCarry, Calm
  <2>2. Carries(t)'
    BY <1>2, <1>3 DEF Carries, Calm
  <2>3. firing = NULL
    BY DEF Returns
  <2> QED
    BY <1>1, <2>1, <2>2, <2>3 DEF AllCarry
<1> QED
  BY <1>1, <1>2, <1>4, <1>6, <1>7 DEF PendInv

(* The thread whose timeout fires, if it still waits.                      *)
LEMMA TimeoutSafe ==
  ASSUME PendInv, MailTyped, Calm, z_thread_timeout
  PROVE  /\ PendInv'
         /\ \/ NobodyMoves
            \/ /\ firing \in Threads /\ thr[firing].at \in {"pended", "limbo"}
               /\ \A u \in Threads \ {firing} : thr'[u] = thr[u]
               /\ thr'[firing].at = "done" /\ thr'[firing].data = NULL
               /\ thr'[firing].ret = EAGAIN /\ thr'[firing].op = thr[firing].op
               /\ thr'[firing].q = thr[firing].q
               /\ \A p \in WaitQueues : Members(waitq'[p]) = Members(waitq[p]) \ {firing}
<1>0. QueuesLinked /\ ThreadsTyped /\ used' = used /\ RanksKept
  BY DEF PendInv, Calm
<1>1. CASE NobodyMoves
  <2>1. firing' = NULL
    BY DEF z_thread_timeout
  <2>2. RanksKept /\ \A u \in Threads : Stays(u)
    BY <1>0, <1>1 DEF NobodyMoves, Stays
  <2>3. QueuesLinked'
    BY <1>0, <1>1, <2>2, StaySame DEF NobodyMoves
  <2> QED
    BY <1>1, <2>1, <2>3 DEF PendInv, ThreadsTyped, AllCarry, Carries, Calm, NobodyMoves
<1>2. CASE ~NobodyMoves
  <2>0. PICK t \in Threads : t = firing
    BY <1>0, <1>2 DEF z_thread_timeout, ThreadsTyped
  <2>1. /\ t \in Threads /\ thr[t].at \in {"pended", "limbo"} /\ firing' = NULL
        /\ thr' = [thr EXCEPT ![t].at = "done", ![t].data = NULL]
        /\ waitq' = [waitq EXCEPT ![thr[t].q] = z_priq_dumb_remove(@, t)]
    BY <1>2, <2>0 DEF z_thread_timeout
  <2>2. thr[t].q \in WaitQueues /\ thr[t].ret = EAGAIN /\ thr[t].data \in Data
    BY <1>0, <2>1 DEF PendInv, AllCarry, Carries, ThreadsTyped, Thread
  <2>3. /\ thr'[t] \in Thread /\ thr'[t].at = "done" /\ thr'[t].data = NULL
        /\ thr'[t].ret = EAGAIN /\ thr'[t].op = thr[t].op /\ thr'[t].q = thr[t].q
        /\ thr'[t].armed = thr[t].armed
    BY <1>0, <2>1, <2>2 DEF ThreadsTyped, Thread, Data
  <2>4. \A u \in Threads \ {t} : thr'[u] = thr[u]
    BY <1>0, <2>1 DEF ThreadsTyped
  <2>5. ThreadsTyped'
    BY <1>0, <2>1, <2>3, <2>4 DEF ThreadsTyped
  <2>6. QueuesLinked' /\ \A p \in WaitQueues : Members(waitq'[p]) = Members(waitq[p]) \ {t}
    <3>1. CASE thr[t].at = "pended"
      <4>1. t \in Members(waitq[thr[t].q])
        BY <1>0, <2>1, <2>2, <3>1 DEF QueuesLinked
      <4>2. \A u \in Threads \ {t} : Stays(u)
        BY <2>4 DEF Stays
      <4>3. /\ QueuesLinked' /\ Members(waitq'[thr[t].q]) = Members(waitq[thr[t].q]) \ {t}
            /\ \A p \in WaitQueues \ {thr[t].q} : waitq'[p] = waitq[p]
        BY <1>0, <2>1, <2>2, <2>3, <4>1, <4>2, UnlinkOne DEF Msgs
      <4>4. \A p \in WaitQueues \ {thr[t].q} : t \notin Members(waitq[p])
        BY <1>0, <2>1 DEF QueuesLinked
      <4> QED
        BY <4>3, <4>4
    <3>2. CASE thr[t].at = "limbo"
      <4>1. \A p \in WaitQueues : t \notin Members(waitq[p])
        BY <1>0, <2>1, <3>2 DEF QueuesLinked
      <4>2. z_priq_dumb_remove(waitq[thr[t].q], t) = waitq[thr[t].q]
        BY <2>2, <4>1 DEF z_priq_dumb_remove
      <4>3. waitq' = waitq
        BY <1>0, <2>1, <2>2, <4>2 DEF QueuesLinked
      <4>4. \A u \in Threads : Stays(u)
        BY <2>3, <2>4, <3>2 DEF Stays
      <4>5. QueuesLinked'
        BY <1>0, <4>3, <4>4, StaySame
      <4> QED
        BY <4>1, <4>3, <4>5
    <3> QED
      BY <2>1, <3>1, <3>2
  <2>7. ~thr[t].armed
    BY <2>0, Constants DEF PendInv, AllCarry
  <2>8. AllCarry'
    <3>1. \A u \in Threads \ {t} : Carries(u)'
      BY <2>4, CarryKept DEF PendInv, AllCarry, Calm
    <3>2. Carries(t)'
      BY <1>0, <2>1, <2>2, <2>3, <2>7 DEF PendInv, AllCarry, Carries
    <3> QED
      BY <2>1, <3>1, <3>2 DEF AllCarry
  <2> QED
    BY <2>0, <2>1, <2>3, <2>4, <2>5, <2>6, <2>8 DEF PendInv
<1> QED
  BY <1>1, <1>2
-----------------------------------------------------------------------------
(* The objects that a behaviour does not use stay as they were.            *)
LEMMA NoMembers == Members(<<>>) = {}
BY DEF Members

LEMMA RingAsleep ==
  ASSUME PendInv', RingInv, used' # "msgq", UNCHANGED msgqVars
  PROVE  RingInv'
<1>1. Members(waitq'["msgq"]) = {}
  <2>1. waitq'["msgq"] = <<>>
    BY DEF PendInv, QueuesLinked, WaitQueues, KindOf
  <2> QED
    BY <2>1, NoMembers
<1> QED
  BY <1>1 DEF RingInv, msgqVars

LEMMA StacksAsleep ==
  ASSUME PendInv', StacksInv, used' \notin {"stack", "mbox"}, entries' = entries
  PROVE  StacksInv'
<1>1. \A s \in Stacks : waitq'[s] = <<>>
  BY DEF PendInv, QueuesLinked, WaitQueues, KindOf, Stacks
<1> QED
  BY <1>1 DEF StacksInv

LEMMA NodesAsleep ==
  ASSUME PendInv', NodesInv, used' # "queue", data_q' = data_q
  PROVE  NodesInv'
<1>1. waitq'["queue"] = <<>>
  BY DEF PendInv, QueuesLinked, WaitQueues, KindOf
<1> QED
  BY <1>1 DEF NodesInv

(* Nobody is on the way with a block when the slab is not in use.          *)
LEMMA NoneGiven ==
  ASSUME PendInv, \A t \in Threads : InMail(t), used # "slab"
  PROVE  Given = {}
<1> SUFFICES ASSUME NEW t \in Threads, thr[t].at = "done", thr[t].q = "slab", thr[t].data # NULL
             PROVE  FALSE
  BY DEF Given
<1>1. CASE used = "mbox"
  BY <1>1, Constants DEF InMail
<1>2. CASE used # "mbox"
  BY <1>2 DEF PendInv, AllCarry, Carries, KindOf
<1> QED
  BY <1>1, <1>2

LEMMA NoneGivenNext ==
  (PendInv /\ (\A t \in Threads : InMail(t)) /\ used # "slab" => Given = {})'
<1>1. PendInv /\ (\A t \in Threads : InMail(t)) /\ used # "slab" => Given = {}
  BY NoneGiven
<1> QED
  BY <1>1, PTL

LEMMA SlabAsleep ==
  ASSUME PendInv, PendInv', \A t \in Threads : InMail(t), (\A t \in Threads : InMail(t))',
         SlabInv, used # "slab", used' = used, UNCHANGED slabVars
  PROVE  SlabInv'
<1>1. Given = {} /\ Given' = {}
  BY NoneGiven, NoneGivenNext
<1>2. waitq'["slab"] = <<>>
  BY DEF PendInv, QueuesLinked, WaitQueues, KindOf
<1> QED
  BY <1>1, <1>2 DEF SlabInv, slabVars

(* No mail moves when the mailbox is not in use.                           *)
LEMMA NoMailMoves ==
  ASSUME PendInv, \A t \in Threads : InMail(t), used # "mbox"
  PROVE  /\ \A t \in Threads : mail[t].step = "none" /\ Has(t) = NULL /\ Fills(t) = NULL
         /\ \A t \in Threads : thr[t].at # "matched"
         /\ Members(waitq["tx"]) = {} /\ Members(waitq["rx"]) = {}
<1>1. \A t \in Threads : mail[t].step = "none"
  BY DEF InMail
<1>2. \A t \in Threads : Has(t) = NULL /\ Fills(t) = NULL
  BY <1>1 DEF PendInv, AllCarry, Carries, KindOf, Has, Fills
<1>3. waitq["tx"] = <<>> /\ waitq["rx"] = <<>>
  BY DEF PendInv, QueuesLinked, WaitQueues, KindOf
<1> QED
  BY <1>1, <1>2, <1>3, NoMembers DEF PendInv, AllCarry, Carries

LEMMA NoMailMovesNext ==
  (PendInv /\ (\A t \in Threads : InMail(t)) /\ used # "mbox" =>
     /\ \A t \in Threads : mail[t].step = "none" /\ Has(t) = NULL /\ Fills(t) = NULL
     /\ \A t \in Threads : thr[t].at # "matched"
     /\ Members(waitq["tx"]) = {} /\ Members(waitq["rx"]) = {})'
<1>1. PendInv /\ (\A t \in Threads : InMail(t)) /\ used # "mbox" =>
        /\ \A t \in Threads : mail[t].step = "none" /\ Has(t) = NULL /\ Fills(t) = NULL
        /\ \A t \in Threads : thr[t].at # "matched"
        /\ Members(waitq["tx"]) = {} /\ Members(waitq["rx"]) = {}
  BY NoMailMoves
<1> QED
  BY <1>1, PTL

LEMMA MboxAsleep ==
  ASSUME PendInv, PendInv', MboxInv, used # "mbox", used' = used,
         UNCHANGED mboxVars, entries'["async"] = entries["async"]
  PROVE  MboxInv'
<1>1. /\ \A t \in Threads : mail[t].step = "none" /\ Has(t) = NULL /\ Fills(t) = NULL
      /\ \A t \in Threads : thr[t].at # "matched"
      /\ Members(waitq["tx"]) = {} /\ Members(waitq["rx"]) = {}
  BY NoMailMoves DEF MboxInv
<1>2. UNCHANGED <<async_msg, mail, sem, owed>>
  BY DEF mboxVars
<1>3. \A t \in Threads : thr'[t].at # "matched"
  BY DEF PendInv, AllCarry, Carries
<1>4. (\A t \in Threads : InMail(t))'
  BY <1>1, <1>2, <1>3 DEF MboxInv, InMail
<1>5. /\ \A t \in Threads : Has(t)' = NULL /\ Fills(t)' = NULL
      /\ Members(waitq'["tx"]) = {} /\ Members(waitq'["rx"]) = {}
  BY <1>4, NoMailMovesNext
<1>6. MailTyped'
  BY <1>2 DEF MboxInv, MailTyped
<1>7. MailPlaced'
  BY <1>1, <1>3, <1>5, Constants DEF MboxInv, MailPlaced
<1>8. NoneSuits'
  BY <1>5 DEF NoneSuits
<1>9. SignalsDue'
  <2>1. Signals' = {} /\ Signals = {}
    BY <1>1, <1>5, Constants DEF Signals
  <2>2. Givers' = Givers
    BY <1>2 DEF Givers
  <2> QED
    BY <1>2, <2>1, <2>2 DEF MboxInv, SignalsDue
<1> QED
  BY <1>4, <1>6, <1>7, <1>8, <1>9 DEF MboxInv
-----------------------------------------------------------------------------
(* msg_q.c.                                                                *)
LEMMA DataTypes == Items \subseteq Data /\ NULL \in Data /\ ANY \in Data /\ Msgs \subseteq Data
BY DEF Data

(* Everybody in the queue is a waiting thread.                             *)
LEMMA Waiters ==
  ASSUME PendInv, NEW q \in WaitQueues \ {"tx"}, NEW u \in Members(waitq[q])
  PROVE  u \in Threads /\ thr[u].at = "pended" /\ thr[u].q = q /\ waitq[q] # <<>> /\ used = KindOf(q)
<1>1. waitq[q] \in Seq(Threads)
  BY DEF PendInv, QueuesLinked
<1>2. u \in Threads
  BY <1>1 DEF Members
<1> QED
  BY <1>1, <1>2, NoMembers DEF PendInv, QueuesLinked

(* All readers, or all writers.                                            *)
LEMMA MsgqWaiters ==
  ASSUME PendInv, RingInv, used = "msgq", NEW u \in Members(waitq["msgq"])
  PROVE  \/ thr[u].op = "get" /\ thr[u].data = NULL /\ used_msgs = 0
         \/ thr[u].op = "put" /\ thr[u].data \in Items /\ used_msgs = max_msgs
<1>1. u \in Threads /\ thr[u].at = "pended"
  BY Waiters DEF WaitQueues
<1>2. \/ thr[u].op = "get" /\ thr[u].data = NULL
      \/ thr[u].op = "put" /\ thr[u].data \in Items
  BY <1>1 DEF PendInv, AllCarry, Carries
<1> QED
  BY <1>2 DEF RingInv

(* The pointers stay one queue apart.                                      *)
Follows(w, r, n) == w = IF r + n < max_msgs THEN r + n ELSE r + n - max_msgs

LEMMA RingSteps ==
  ASSUME NEW r \in 0 .. (max_msgs - 1), NEW w \in 0 .. (max_msgs - 1), NEW n \in 0 .. max_msgs,
         Follows(w, r, n)
  PROVE  /\ Step(r) \in 0 .. (max_msgs - 1) /\ Step(w) \in 0 .. (max_msgs - 1)
         /\ n < max_msgs => Follows(Step(w), r, n + 1) /\ n + 1 \in 0 .. max_msgs
         /\ n > 0 => Follows(w, Step(r), n - 1) /\ n - 1 \in 0 .. max_msgs
         /\ n > 0 => Follows(Step(w), Step(r), n)
         /\ Follows(w, w, 0)
<1>1. max_msgs \in Nat /\ max_msgs >= 1 /\ n \in Nat /\ r \in Nat /\ w \in Nat
  BY Constants
<1>2. /\ Step(r) = IF r + 1 = max_msgs THEN 0 ELSE r + 1
      /\ Step(w) = IF w + 1 = max_msgs THEN 0 ELSE w + 1
      /\ r <= max_msgs - 1 /\ w <= max_msgs - 1 /\ n <= max_msgs
  BY <1>1 DEF Step
<1>3. CASE r + n < max_msgs
  BY <1>1, <1>2, <1>3 DEF Follows
<1>4. CASE r + n >= max_msgs
  BY <1>1, <1>2, <1>4 DEF Follows
<1> QED
  BY <1>1, <1>3, <1>4

(* What RingInv asks of the waiters, once the queue's readers and writers  *)
(* are known.                                                              *)
RingOk == /\ read_ptr \in 0 .. (max_msgs - 1) /\ write_ptr \in 0 .. (max_msgs - 1)
          /\ used_msgs \in 0 .. max_msgs /\ Follows(write_ptr, read_ptr, used_msgs)
          /\ buffer \in [0 .. (max_msgs - 1) -> Items \cup {NULL}]
WaitersOk == \A t \in Members(waitq["msgq"]) : used_msgs = IF thr[t].op = "get" THEN 0 ELSE max_msgs

LEMMA RingSplit == RingInv <=> RingOk /\ WaitersOk
BY DEF RingInv, RingOk, WaitersOk, Follows

LEMMA RingSplitNext == RingInv' <=> RingOk' /\ WaitersOk'
BY RingSplit, PTL

LEMMA WaitersKept ==
  ASSUME WaitersOk, used_msgs' = used_msgs,
         \A t \in Members(waitq'["msgq"]) : t \in Members(waitq["msgq"]) /\ thr'[t].op = thr[t].op
  PROVE  WaitersOk'
BY DEF WaitersOk

LEMMA PutStep ==
  ASSUME PendInv, MailTyped, RingInv, Calm, used = "msgq", NEW x \in Items, k_msgq_put(x)
  PROVE  PendInv' /\ RingInv'
<1>0. RingOk /\ WaitersOk /\ firing' = firing
  BY RingSplit DEF k_msgq_put
<1>1. CASE used_msgs < max_msgs /\ waitq["msgq"] # <<>>
  <2>1. WakeFirst("msgq", 0, x) /\ UNCHANGED msgqVars
    BY <1>1 DEF k_msgq_put
  <2>2. x \in Data /\ x \in Items \cup {NULL} /\ "msgq" \in WaitQueues \ {"tx"}
    BY DataTypes DEF WaitQueues
  <2>3. /\ PendInv' /\ \A u \in Threads \ {Head(waitq["msgq"])} : thr'[u] = thr[u]
        /\ Members(waitq'["msgq"]) = Members(waitq["msgq"]) \ {Head(waitq["msgq"])}
    BY <1>0, <1>1, <2>1, <2>2, WakeSafe
  <2>4. \A t \in Members(waitq'["msgq"]) : t \in Members(waitq["msgq"]) /\ thr'[t].op = thr[t].op
    BY <2>2, <2>3, Waiters
  <2> QED
    BY <1>0, <2>1, <2>3, <2>4, WaitersKept, RingSplitNext DEF RingOk, msgqVars
<1>2. CASE used_msgs < max_msgs /\ waitq["msgq"] = <<>>
  <2>1. /\ Store(x) /\ used_msgs' = used_msgs + 1 /\ NobodyMoves /\ read_ptr' = read_ptr
    BY <1>2 DEF k_msgq_put
  <2>2. PendInv'
    BY <1>0, <2>1, NobodyMovesSafe
  <2>3. RingOk'
    BY <1>0, <1>2, <2>1, RingSteps DEF RingOk, Store
  <2>4. WaitersOk'
    BY <1>2, <2>1, NoMembers DEF WaitersOk, NobodyMoves
  <2> QED
    BY <2>2, <2>3, <2>4, RingSplitNext
<1>3. CASE ~(used_msgs < max_msgs)
  <2>1. NobodyMoves /\ UNCHANGED msgqVars
    BY <1>3 DEF k_msgq_put
  <2> QED
    BY <1>0, <2>1, NobodyMovesSafe, RingSplitNext DEF RingOk, WaitersOk, msgqVars, NobodyMoves
<1> QED
  BY <1>1, <1>2, <1>3

LEMMA MsgqPendStep ==
  ASSUME PendInv, MailTyped, RingInv, Calm, used = "msgq", NEW t \in Threads, NEW timed \in BOOLEAN,
         k_msgq_get_wait(t, timed) \/ \E x \in Items : k_msgq_put_wait(t, x, timed)
  PROVE  PendInv' /\ RingInv'
<1>0. RingOk /\ WaitersOk /\ "msgq" \in WaitQueues \ {"tx"} /\ KindOf("msgq") = "msgq"
  BY RingSplit DEF WaitQueues, KindOf
<1>1. PICK op \in {"get", "put"}, data \in Items \cup {NULL} :
        /\ PendOn(t, "msgq", op, data, timed) /\ Free(t) /\ UNCHANGED msgqVars
        /\ \/ op = "get" /\ data = NULL /\ used_msgs = 0
           \/ op = "put" /\ data \in Items /\ used_msgs = max_msgs
  BY DEF k_msgq_get_wait, k_msgq_put_wait
<1>2. /\ op \in {"get", "put", "send"} /\ data \in Data
      /\ used = KindOf("msgq") /\ PendOn(t, "msgq", op, data, timed) /\ Free(t)
      /\ used # "mbox" => \/ op = "get" /\ data = NULL
                          \/ used = "msgq" /\ op = "put" /\ data \in Items
  BY <1>0, <1>1, DataTypes
<1>3. /\ PendInv' /\ thr'[t].op = op
      /\ \A u \in Threads \ {t} : thr'[u] = thr[u]
      /\ Members(waitq'["msgq"]) = Members(waitq["msgq"]) \cup {t}
  <2>1. /\ PendInv' 
        /\ thr'[t] = [at |-> "pended", op |-> op, q |-> "msgq", data |-> data, ret |-> EAGAIN, armed |-> timed]
        /\ \A u \in Threads \ {t} : thr'[u] = thr[u]
        /\ Members(waitq'["msgq"]) = Members(waitq["msgq"]) \cup {t}
    BY <1>0, <1>2, PendOnSafe
  <2> QED
    BY <2>1
<1>4. WaitersOk'
  <2> SUFFICES ASSUME NEW u \in Members(waitq'["msgq"])
               PROVE  used_msgs' = IF thr'[u].op = "get" THEN 0 ELSE max_msgs
    BY DEF WaitersOk
  <2>1. CASE u = t
    BY <1>1, <1>3, <2>1 DEF msgqVars
  <2>2. CASE u # t
    <3>1. u \in Members(waitq["msgq"])
      BY <1>3, <2>2
    <3>2. u \in Threads
      BY <1>0, <3>1, Waiters
    <3> QED
      BY <1>0, <1>1, <1>3, <2>2, <3>1, <3>2 DEF WaitersOk, msgqVars
  <2> QED
    BY <2>1, <2>2
<1> QED
  BY <1>0, <1>1, <1>3, <1>4, RingSplitNext DEF RingOk, msgqVars

LEMMA GetStep ==
  ASSUME PendInv, MailTyped, RingInv, Calm, used = "msgq", k_msgq_get
  PROVE  PendInv' /\ RingInv'
<1>0. RingOk /\ WaitersOk /\ firing' = firing /\ "msgq" \in WaitQueues \ {"tx"}
  BY RingSplit DEF k_msgq_get, WaitQueues
<1>1. CASE used_msgs > 0 /\ waitq["msgq"] # <<>>
  <2>1. /\ WakeFirst("msgq", 0, NULL) /\ Store(thr[Head(waitq["msgq"])].data)
        /\ used_msgs' = used_msgs /\ read_ptr' = Step(read_ptr)
    BY <1>1 DEF k_msgq_get
  <2>2. /\ PendInv' /\ \A u \in Threads \ {Head(waitq["msgq"])} : thr'[u] = thr[u]
        /\ Head(waitq["msgq"]) \in Members(waitq["msgq"])
        /\ Members(waitq'["msgq"]) = Members(waitq["msgq"]) \ {Head(waitq["msgq"])}
    BY <1>0, <1>1, <2>1, DataTypes, WakeSafe
  <2>3. \A t \in Members(waitq'["msgq"]) : t \in Members(waitq["msgq"]) /\ thr'[t].op = thr[t].op
    BY <1>0, <2>2, Waiters
  <2>4. thr[Head(waitq["msgq"])].data \in Items
    BY <1>1, <2>2, MsgqWaiters
  <2>5. RingOk'
    BY <1>0, <1>1, <2>1, <2>4, RingSteps DEF RingOk, Store
  <2> QED
    BY <1>0, <2>1, <2>2, <2>3, <2>5, WaitersKept, RingSplitNext
<1>2. CASE used_msgs > 0 /\ waitq["msgq"] = <<>>
  <2>1. /\ NobodyMoves /\ read_ptr' = Step(read_ptr)
        /\ used_msgs' = used_msgs - 1 /\ UNCHANGED <<buffer, write_ptr>>
    BY <1>2 DEF k_msgq_get
  <2>2. PendInv'
    BY <1>0, <2>1, NobodyMovesSafe
  <2>3. RingOk'
    BY <1>0, <1>2, <2>1, RingSteps DEF RingOk
  <2>4. WaitersOk'
    BY <1>2, <2>1, NoMembers DEF WaitersOk, NobodyMoves
  <2> QED
    BY <2>2, <2>3, <2>4, RingSplitNext
<1>3. CASE ~(used_msgs > 0)
  <2>1. NobodyMoves /\ UNCHANGED msgqVars
    BY <1>3 DEF k_msgq_get
  <2> QED
    BY <1>0, <2>1, NobodyMovesSafe, RingSplitNext DEF RingOk, WaitersOk, msgqVars, NobodyMoves
<1> QED
  BY <1>1, <1>2, <1>3

(* Everybody in queue q is woken.                                          *)
LEMMA WakeAllSafe ==
  ASSUME PendInv, MailTyped, Calm, firing' = firing, NEW q \in WaitQueues \ {"tx"}, WakeAll(q, ENOMSG)
  PROVE  /\ PendInv' /\ waitq'[q] = <<>>
         /\ \A u \in Threads : thr'[u] = IF u \in Members(waitq[q]) THEN Woken(u, ENOMSG, NULL) ELSE thr[u]
<1> DEFINE w == waitq[q]
           n == Len(w)
<1>1. /\ thr' = [t \in Threads |-> IF t \in Members(w) THEN Woken(t, ENOMSG, NULL) ELSE thr[t]]
      /\ waitq' = [waitq EXCEPT ![q] = <<>>]
  BY DEF WakeAll
<1>2. waitq \in [WaitQueues -> Seq(Msgs)] /\ w \in Seq(Threads) /\ n \in Nat /\ ThreadsTyped /\ QueuesLinked /\ used' = used
  BY DEF PendInv, QueuesLinked, Calm
<1>3. \A u \in Threads : thr'[u] = IF u \in Members(w) THEN Woken(u, ENOMSG, NULL) ELSE thr[u]
  BY <1>1
<1>4. \A u \in Members(w) : u \in Threads /\ thr[u].at = "pended" /\ thr[u].q = q
  BY Waiters
<1>5. \A u \in Members(w) : /\ thr'[u] \in Thread /\ thr'[u].at = "done" /\ thr'[u].ret = ENOMSG /\ thr'[u].data = NULL
                            /\ ~thr'[u].armed /\ thr'[u].q = q
  BY <1>2, <1>3, <1>4, WokenFields, DataTypes
<1>6. ThreadsTyped'
  <2>1. \A u \in Threads : thr'[u] \in Thread
    BY <1>2, <1>3, <1>5 DEF ThreadsTyped
  <2> QED
    BY <1>1, <1>2, <2>1 DEF ThreadsTyped
<1>7. SubSeq(w, 1, n) = w /\ SubSeq(w, n + 1, n) = <<>>
  BY <1>2, SubSeqFull, SubSeqEmpty
<1>8. RanksKept
  BY DEF Calm
<1>9. QueuesLinked'
  <2>1. n \in 0 .. Len(waitq[q])
    BY <1>2
  <2>2. waitq' = [waitq EXCEPT ![q] = SubSeq(waitq[q], n + 1, Len(waitq[q]))]
    BY <1>1, <1>7
  <2>3. \A u \in Threads : IF u \in Members(SubSeq(waitq[q], 1, n)) THEN thr'[u].at # "pended" ELSE Stays(u)
    BY <1>3, <1>5, <1>7 DEF Stays
  <2> QED
    BY <1>2, <1>8, <2>1, <2>2, <2>3, UnlinkSome
<1>10. AllCarry'
  <2>1. ASSUME NEW u \in Threads PROVE Carries(u)'
    <3>1. CASE u \notin Members(w)
      BY <1>2, <1>3, <3>1, CarryKept DEF PendInv, AllCarry
    <3>2. CASE u \in Members(w)
      <4>1. used = KindOf(q)
        BY <3>2, Waiters
      <4> QED
        BY <1>2, <1>5, <3>2, <4>1 DEF Carries
    <3> QED
      BY <3>1, <3>2
  <2>2. (firing # NULL => ~thr[firing].armed)'
    BY <1>2, <1>3, <1>5 DEF PendInv, AllCarry, ThreadsTyped
  <2> QED
    BY <2>1, <2>2 DEF AllCarry
<1> QED
  BY <1>1, <1>2, <1>3, <1>6, <1>9, <1>10 DEF PendInv

(* The steps of the timer interrupt, as the objects see them: threads      *)
(* leave queues, with nothing in hand.                                     *)
Expires(u) ==
  \/ /\ thr'[u].at = thr[u].at /\ thr'[u].op = thr[u].op /\ thr'[u].q = thr[u].q
     /\ thr'[u].data = thr[u].data /\ thr'[u].ret = thr[u].ret
  \/ /\ thr[u].at \in {"pended", "limbo"} /\ thr'[u].at = "done"
     /\ thr'[u].op = thr[u].op /\ thr'[u].q = thr[u].q
     /\ thr'[u].data = NULL /\ thr'[u].ret = EAGAIN

LEMMA PendNextSafe ==
  ASSUME PendInv, MailTyped, Calm, PendNext
  PROVE  /\ PendInv' /\ \A u \in Threads : Expires(u)
         /\ \A q \in WaitQueues : /\ Members(waitq'[q]) \subseteq Members(waitq[q])
                                  /\ waitq[q] = <<>> => waitq'[q] = <<>>
         /\ Members(waitq'["tx"]) \cap Descs = Members(waitq["tx"]) \cap Descs
<1>1. CASE z_thread_timeout
  <2>1. CASE NobodyMoves
    BY <1>1, <2>1, TimeoutSafe DEF NobodyMoves, Expires
  <2>2. CASE ~NobodyMoves
    <3>1. PICK f \in Threads : f = firing
      BY <1>1, <2>2, TimeoutSafe
    <3>2. /\ PendInv' /\ thr[f].at \in {"pended", "limbo"}
          /\ \A u \in Threads \ {f} : thr'[u] = thr[u]
          /\ thr'[f].at = "done" /\ thr'[f].data = NULL
          /\ thr'[f].ret = EAGAIN /\ thr'[f].op = thr[f].op /\ thr'[f].q = thr[f].q
          /\ \A p \in WaitQueues : Members(waitq'[p]) = Members(waitq[p]) \ {f}
      BY <1>1, <2>2, <3>1, TimeoutSafe
    <3>3. \A q \in WaitQueues : waitq[q] = <<>> => waitq'[q] = <<>>
      <4> SUFFICES ASSUME NEW q \in WaitQueues, waitq[q] = <<>> PROVE waitq'[q] = <<>>
        OBVIOUS
      <4>1. waitq'[q] \in Seq(Msgs) /\ Members(waitq'[q]) = {}
        BY <3>2, NoMembers DEF PendInv, QueuesLinked
      <4> QED
        BY <4>1, MembersEmpty
    <3>4. \A u \in Threads : Expires(u)
      BY <3>2 DEF Expires
    <3>5. "tx" \in WaitQueues /\ f \notin Descs
      BY Constants DEF WaitQueues
    <3> QED
      BY <3>2, <3>3, <3>4, <3>5
  <2> QED
    BY <2>1, <2>2
<1>2. CASE \E t \in Threads : Announce(t)
  BY <1>2, AnnounceSafe DEF Expires
<1> QED
  BY <1>1, <1>2 DEF PendNext

LEMMA RingStep ==
  ASSUME PendInv, MailTyped, RingInv, Calm, used = "msgq", MsgqNext
  PROVE  PendInv' /\ RingInv'
<1>0. RingOk /\ WaitersOk /\ "msgq" \in WaitQueues \ {"tx"}
  BY RingSplit DEF WaitQueues
<1>1. CASE \E x \in Items : k_msgq_put(x)
  BY <1>1, PutStep
<1>2. CASE \E t \in Threads, timed \in BOOLEAN : \/ k_msgq_get_wait(t, timed)
                                           \/ \E x \in Items : k_msgq_put_wait(t, x, timed)
  BY <1>2, MsgqPendStep
<1>3. CASE k_msgq_get
  BY <1>3, GetStep
<1>4. CASE k_msgq_purge
  <2>1. /\ firing' = firing /\ WakeAll("msgq", ENOMSG) /\ used_msgs' = 0 /\ read_ptr' = write_ptr
        /\ UNCHANGED <<buffer, write_ptr>>
    BY <1>4 DEF k_msgq_purge
  <2>2. PendInv' /\ waitq'["msgq"] = <<>>
    BY <1>0, <2>1, WakeAllSafe
  <2>3. RingOk'
    BY <1>0, <2>1, RingSteps, Constants DEF RingOk
  <2>4. WaitersOk'
    BY <2>2, NoMembers DEF WaitersOk
  <2> QED
    BY <2>2, <2>3, <2>4, RingSplitNext
<1>5. CASE \E idx \in 0 .. max_msgs : k_msgq_peek_at(idx)
  <2>1. NobodyMoves /\ UNCHANGED msgqVars /\ firing' = firing
    BY <1>5 DEF k_msgq_peek_at
  <2> QED
    BY <1>0, <2>1, NobodyMovesSafe, RingSplitNext DEF RingOk, WaitersOk, msgqVars, NobodyMoves
<1>6. CASE PendNext /\ UNCHANGED msgqVars
  <2>1. /\ PendInv' /\ \A u \in Threads : Expires(u)
        /\ \A q \in WaitQueues : Members(waitq'[q]) \subseteq Members(waitq[q])
    BY <1>6, PendNextSafe
  <2>2. \A t \in Members(waitq'["msgq"]) : t \in Members(waitq["msgq"]) /\ thr'[t].op = thr[t].op
    BY <1>0, <2>1, Waiters DEF Expires
  <2> QED
    BY <1>0, <1>6, <2>1, <2>2, WaitersKept, RingSplitNext DEF RingOk, msgqVars
<1>7. CASE (\E t \in Threads : Returns(t)) /\ UNCHANGED msgqVars
  <2>1. PICK t \in Threads : Returns(t)
    BY <1>7
  <2>2. /\ PendInv' /\ waitq' = waitq /\ thr[t].at = "done" /\ \A u \in Threads \ {t} : thr'[u] = thr[u]
    BY <2>1, ReturnsSafe
  <2>3. \A u \in Members(waitq'["msgq"]) : u \in Members(waitq["msgq"]) /\ thr'[u].op = thr[u].op
    BY <1>0, <2>2, Waiters
  <2> QED
    BY <1>0, <1>7, <2>2, <2>3, WaitersKept, RingSplitNext DEF RingOk, msgqVars
<1> QED
  BY <1>1, <1>2, <1>3, <1>4, <1>5, <1>6, <1>7 DEF MsgqNext
-----------------------------------------------------------------------------
(* stack.c.  A push that wakes somebody, one that stores, a pop and a wait. *)
LEMMA StacksKept ==
  ASSUME StacksInv, entries' = entries, \A s \in Stacks : waitq[s] = <<>> => waitq'[s] = <<>>
  PROVE  StacksInv'
BY DEF StacksInv

LEMMA StackQueues == Stacks \subseteq WaitQueues \ {"tx"}
BY DEF Stacks, WaitQueues

LEMMA PushStep ==
  ASSUME PendInv, MailTyped, StacksInv, Calm, NEW s \in Stacks, NEW x \in Data, k_stack_push(s, x),
         used # "mbox" => x \in Items
  PROVE  PendInv' /\ StacksInv' /\ \A r \in Stacks \ {s} : entries'[r] = entries[r]
<1>0. firing' = firing /\ s \in WaitQueues \ {"tx"}
  BY StackQueues DEF k_stack_push
<1>1. CASE Len(entries[s]) = num_entries[s]
  <2>1. NobodyMoves /\ entries' = entries
    BY <1>1 DEF k_stack_push
  <2> QED
    BY <1>0, <2>1, NobodyMovesSafe, StacksKept DEF NobodyMoves
<1>2. CASE Len(entries[s]) # num_entries[s] /\ waitq[s] # <<>>
  <2>1. WakeFirst(s, 0, x) /\ entries' = entries
    BY <1>2 DEF k_stack_push
  <2>2. PendInv' /\ \A p \in WaitQueues \ {s} : waitq'[p] = waitq[p]
    BY <1>0, <1>2, <2>1, WakeSafe
  <2> QED
    BY <1>2, <2>1, <2>2, StackQueues, StacksKept
<1>3. CASE Len(entries[s]) # num_entries[s] /\ waitq[s] = <<>>
  <2>1. NobodyMoves /\ entries' = [entries EXCEPT ![s] = Append(@, x)]
    BY <1>3 DEF k_stack_push
  <2>2. PendInv'
    BY <1>0, <2>1, NobodyMovesSafe
  <2>3. Append(entries[s], x) \in Seq(Data)
    BY DEF StacksInv
  <2> QED
    BY <1>3, <2>1, <2>2, <2>3 DEF StacksInv, NobodyMoves
<1> QED
  BY <1>1, <1>2, <1>3

LEMMA PopStep ==
  ASSUME PendInv, MailTyped, StacksInv, Calm, NEW s \in Stacks, k_stack_pop(s)
  PROVE  PendInv' /\ StacksInv' /\ \A r \in Stacks \ {s} : entries'[r] = entries[r]
<1>0. firing' = firing /\ NobodyMoves
  BY DEF k_stack_pop
<1>1. PendInv'
  BY <1>0, NobodyMovesSafe
<1>2. CASE entries[s] # <<>>
  <2>1. entries' = [entries EXCEPT ![s] = SubSeq(@, 1, Len(@) - 1)]
    BY <1>2 DEF k_stack_pop
  <2>2. entries[s] \in Seq(Data) /\ Len(entries[s]) \in Nat
    BY DEF StacksInv
  <2>3. SubSeq(entries[s], 1, Len(entries[s]) - 1) \in Seq(Data)
    <3>1. \A i \in 1 .. Len(entries[s]) - 1 : entries[s][i] \in Data
      BY <2>2, ElementOfSeq
    <3> QED
      BY <2>2, <3>1, SubSeqProperties
  <2> QED
    BY <1>0, <1>1, <1>2, <2>1, <2>3 DEF StacksInv, NobodyMoves
<1>3. CASE entries[s] = <<>>
  <2>1. entries' = entries
    BY <1>3 DEF k_stack_pop
  <2> QED
    BY <1>0, <1>1, <2>1, StacksKept DEF NobodyMoves
<1> QED
  BY <1>2, <1>3

LEMMA PopWaitStep ==
  ASSUME PendInv, MailTyped, StacksInv, Calm, NEW t \in Threads, NEW s \in Stacks, NEW timed \in BOOLEAN,
         k_stack_pop_wait(t, s, timed), used = KindOf(s)
  PROVE  /\ PendInv' /\ StacksInv' /\ entries' = entries /\ firing' = firing
         /\ thr'[t] = [at |-> "pended", op |-> "get", q |-> s, data |-> NULL, ret |-> EAGAIN, armed |-> timed]
         /\ \A u \in Threads \ {t} : thr'[u] = thr[u]
         /\ \A p \in WaitQueues \ {s} : waitq'[p] = waitq[p]
<1>1. /\ Free(t) /\ entries[s] = <<>> /\ entries' = entries /\ PendOn(t, s, "get", NULL, timed)
      /\ "get" \in {"get", "put", "send"} /\ NULL \in Data /\ s \in WaitQueues \ {"tx"}
      /\ used # "mbox" => \/ "get" = "get" /\ NULL = NULL
                          \/ used = "msgq" /\ "get" = "put" /\ NULL \in Items
  BY DataTypes, StackQueues DEF k_stack_pop_wait
<1>2. /\ PendInv'
      /\ thr'[t] = [at |-> "pended", op |-> "get", q |-> s, data |-> NULL, ret |-> EAGAIN, armed |-> timed]
      /\ \A u \in Threads \ {t} : thr'[u] = thr[u]
      /\ \A p \in WaitQueues \ {s} : waitq'[p] = waitq[p]
  BY <1>1, PendOnSafe
<1>3. StacksInv'
  BY <1>1, <1>2, StackQueues DEF StacksInv
<1>4. firing' = firing
  BY <1>1 DEF PendOn, PendBy
<1> QED
  BY <1>1, <1>2, <1>3, <1>4

LEMMA StackStep ==
  ASSUME PendInv, MailTyped, StacksInv, Calm, used = "stack", StackNext
  PROVE  PendInv' /\ StacksInv' /\ entries'["async"] = entries["async"]
<1>0. "stack" \in Stacks /\ "async" \in Stacks \ {"stack"} /\ KindOf("stack") = "stack"
  BY DEF Stacks, KindOf
<1>1. CASE \E x \in Items : k_stack_push("stack", x)
  BY <1>0, <1>1, PushStep, DataTypes
<1>2. CASE k_stack_pop("stack")
  BY <1>0, <1>2, PopStep
<1>3. CASE \E t \in Threads, timed \in BOOLEAN : k_stack_pop_wait(t, "stack", timed)
  BY <1>0, <1>3, PopWaitStep
<1>4. CASE PendNext /\ entries' = entries
  BY <1>4, PendNextSafe, StackQueues, StacksKept
<1>5. CASE (\E t \in Threads : Returns(t)) /\ entries' = entries
  BY <1>5, ReturnsSafe, StacksKept
<1> QED
  BY <1>1, <1>2, <1>3, <1>4, <1>5 DEF StackNext
-----------------------------------------------------------------------------
(* queue.c.  The list is inserted into, cut or left alone.                 *)
Nodes == [data : Items, alloc : BOOLEAN]

LEMMA NodesKept ==
  ASSUME NodesInv, data_q' = data_q, waitq["queue"] = <<>> => waitq'["queue"] = <<>>
  PROVE  NodesInv'
BY DEF NodesInv

LEMMA InsertStep ==
  ASSUME PendInv, MailTyped, NodesInv, Calm, used = "queue", NEW pos \in 0 .. Len(data_q),
         NEW x \in Items, NEW alloc \in BOOLEAN, queue_insert(pos, x, alloc)
  PROVE  PendInv' /\ NodesInv'
<1>0. firing' = firing /\ "queue" \in WaitQueues \ {"tx"} /\ x \in Data /\ x \in Items \cup {NULL}
  BY DataTypes DEF queue_insert, WaitQueues
<1>1. CASE waitq["queue"] # <<>> /\ WakeFirst("queue", 0, x) /\ data_q' = data_q
  BY <1>0, <1>1, WakeSafe, NodesKept
<1>2. CASE waitq["queue"] = <<>> /\ InsertBehind(pos, Node(x, alloc)) /\ NobodyMoves
  <2>1. data_q \in Seq(Nodes) /\ Node(x, alloc) \in Nodes /\ Len(data_q) \in Nat
    BY DEF NodesInv, Node, Nodes
  <2>2. \A i \in 1 .. Len(data_q) : data_q[i] \in Nodes
    BY <2>1, ElementOfSeq
  <2>3. SubSeq(data_q, 1, pos) \in Seq(Nodes) /\ SubSeq(data_q, pos + 1, Len(data_q)) \in Seq(Nodes)
    <3>1. \A i \in 1 .. pos : data_q[i] \in Nodes
      BY <2>1, <2>2
    <3>2. \A i \in pos + 1 .. Len(data_q) : data_q[i] \in Nodes
      BY <2>1, <2>2
    <3> QED
      BY <2>1, <3>1, <3>2, SubSeqProperties
  <2>4. <<Node(x, alloc)>> \in Seq(Nodes)
    BY <2>1
  <2>5. data_q' \in Seq(Nodes)
    <3> HIDE DEF Nodes
    <3>1. SubSeq(data_q, 1, pos) \o <<Node(x, alloc)>> \in Seq(Nodes)
      BY <2>3, <2>4, ConcatProperties
    <3>2. data_q' = (SubSeq(data_q, 1, pos) \o <<Node(x, alloc)>>) \o SubSeq(data_q, pos + 1, Len(data_q))
      BY <1>2 DEF InsertBehind
    <3> QED
      BY <2>3, <3>1, <3>2, ConcatProperties
  <2> QED
    BY <1>0, <1>2, <2>5, NobodyMovesSafe DEF NodesInv, Nodes, NobodyMoves
<1>3. CASE NobodyMoves /\ data_q' = data_q
  BY <1>0, <1>3, NobodyMovesSafe, NodesKept DEF NobodyMoves
<1> QED
  BY <1>1, <1>2, <1>3 DEF queue_insert

(* k_queue_append_list: the first n waiters are handed an item each, the   *)
(* first taken leave the queue.                                            *)
Lists == UNION {[1 .. n -> Items] : n \in 1 .. 2}
Handed(items) == IF Len(waitq["queue"]) < Len(items) THEN Len(waitq["queue"]) ELSE Len(items)
Taken(items) == IF Handed(items) = Len(items) /\ Handed(items) < Len(waitq["queue"])
                THEN Handed(items) + 1 ELSE Handed(items)

LEMMA SeqOf ==
  ASSUME NEW S, NEW k \in Nat, NEW f, f = [i \in 1 .. k |-> f[i]], \A i \in 1 .. k : f[i] \in S
  PROVE  f \in Seq(S) /\ Len(f) = k
<1>1. f \in [1 .. k -> S]
  OBVIOUS
<1> QED
  BY <1>1

LEMMA FirstMembers ==
  ASSUME NEW T, NEW w \in Seq(T), NEW n \in 0 .. Len(w)
  PROVE  Members(SubSeq(w, 1, n)) = {w[i] : i \in 1 .. n}
<1>1. \A i \in 1 .. n : w[i] \in T
  BY ElementOfSeq
<1>2. /\ Len(SubSeq(w, 1, n)) = IF 1 <= n THEN n - 1 + 1 ELSE 0
      /\ \A i \in 1 .. n - 1 + 1 : SubSeq(w, 1, n)[i] = w[1 + i - 1]
  BY <1>1, SubSeqProperties
<1>3. Len(SubSeq(w, 1, n)) = n /\ \A i \in 1 .. n : SubSeq(w, 1, n)[i] = w[i]
  BY <1>2
<1> QED
  BY <1>3 DEF Members

LEMMA AppendListShape ==
  ASSUME PendInv, NEW items \in Lists, k_queue_append_list(items)
  PROVE  LET w == waitq["queue"]
             n == Handed(items)
             taken == Taken(items)
         IN  /\ items \in Seq(Items) /\ Len(items) \in 1 .. 2
             /\ w \in Seq(Threads) /\ Distinct(w) /\ Len(w) \in Nat
             /\ n \in 0 .. Len(w) /\ taken \in n .. Len(w) /\ n <= Len(items)
             /\ taken < Len(w) => n = Len(items)
             /\ taken # n => Surplus
             /\ \A u \in Threads : u \notin {w[i] : i \in 1 .. taken} => thr'[u] = thr[u]
             /\ \A i \in 1 .. n : w[i] \in Threads /\ thr'[w[i]] = Woken(w[i], 0, items[i])
             /\ \A i \in 1 .. taken : i > n => thr'[w[i]] = [thr[w[i]] EXCEPT !.at = "limbo", !.armed = FALSE]
             /\ thr' = [u \in Threads |-> thr'[u]]
             /\ waitq' = [waitq EXCEPT !["queue"] = SubSeq(w, taken + 1, Len(w))]
             /\ data_q' = data_q \o [i \in 1 .. (Len(items) - n) |-> Node(items[n + i], FALSE)]
             /\ firing' = firing /\ Reply(0, NULL)
<1> DEFINE w == waitq["queue"]
           n == Handed(items)
           taken == Taken(items)
           Rank(t) == CHOOSE i \in 1 .. Len(w) : w[i] = t
<1>1. items \in Seq(Items) /\ Len(items) \in 1 .. 2
  <2>1. PICK k \in 1 .. 2 : items \in [1 .. k -> Items]
    BY DEF Lists
  <2> QED
    BY <2>1
<1>2. w \in Seq(Threads) /\ Distinct(w) /\ Len(w) \in Nat
  BY DEF PendInv, QueuesLinked, WaitQueues
<1>3. /\ n \in 0 .. Len(w) /\ taken \in n .. Len(w) /\ n <= Len(items)
      /\ taken < Len(w) => n = Len(items)
  BY <1>1, <1>2 DEF Handed, Taken
<1>4. /\ Surplus \/ taken = n
      /\ thr' = [t \in Threads |->
                   CASE t \notin Members(SubSeq(w, 1, taken)) -> thr[t]
                     [] t \in Members(SubSeq(w, 1, n)) -> Woken(t, 0, items[Rank(t)])
                     [] OTHER -> [thr[t] EXCEPT !.at = "limbo", !.armed = FALSE]]
      /\ waitq' = [waitq EXCEPT !["queue"] = SubSeq(w, taken + 1, Len(w))]
      /\ data_q' = data_q \o [i \in 1 .. (Len(items) - n) |-> Node(items[n + i], FALSE)]
      /\ firing' = firing /\ Reply(0, NULL)
  BY DEF k_queue_append_list, Handed, Taken
<1>5. /\ Members(SubSeq(w, 1, taken)) = {w[i] : i \in 1 .. taken}
      /\ Members(SubSeq(w, 1, n)) = {w[i] : i \in 1 .. n}
  BY <1>2, <1>3, FirstMembers
<1>6. \A i \in 1 .. Len(w) : w[i] \in Threads /\ Rank(w[i]) = i
  BY <1>2, ElementOfSeq DEF Distinct
<1> HIDE DEF w, n, taken, Rank
<1> DEFINE F(t) == CASE t \notin Members(SubSeq(w, 1, taken)) -> thr[t]
                     [] t \in Members(SubSeq(w, 1, n)) -> Woken(t, 0, items[Rank(t)])
                     [] OTHER -> [thr[t] EXCEPT !.at = "limbo", !.armed = FALSE]
<1>11. thr' = [t \in Threads |-> F(t)]
  BY <1>4
<1> HIDE DEF F
<1>7. \A u \in Threads : u \notin {w[i] : i \in 1 .. taken} => thr'[u] = thr[u]
  <2> SUFFICES ASSUME NEW u \in Threads, u \notin Members(SubSeq(w, 1, taken)) PROVE thr'[u] = thr[u]
    BY <1>5
  <2>2. u \notin Members(SubSeq(w, 1, n))
    BY <1>3, <1>5
  <2>1. F(u) = thr[u]
    BY <2>2 DEF F
  <2> QED
    BY <1>11, <2>1
<1>8. ASSUME NEW i \in 1 .. n PROVE w[i] \in Threads /\ thr'[w[i]] = Woken(w[i], 0, items[i])
  <2>1. i \in 1 .. Len(w) /\ i \in 1 .. taken
    BY <1>2, <1>3
  <2>2. w[i] \in Threads /\ Rank(w[i]) = i
    BY <1>6, <2>1
  <2>3. w[i] \in Members(SubSeq(w, 1, taken)) /\ w[i] \in Members(SubSeq(w, 1, n))
    BY <1>5, <2>1
  <2> QED
    BY <1>4, <2>2, <2>3
<1>9. ASSUME NEW i \in 1 .. taken, i > n
      PROVE  thr'[w[i]] = [thr[w[i]] EXCEPT !.at = "limbo", !.armed = FALSE]
  <2>1. i \in 1 .. Len(w)
    BY <1>2, <1>3
  <2>2. w[i] \in Threads
    BY <1>6, <2>1
  <2>3. w[i] \in Members(SubSeq(w, 1, taken))
    BY <1>5
  <2>4. w[i] \notin Members(SubSeq(w, 1, n))
    BY <1>2, <1>3, <1>5, <1>9, <2>1 DEF Distinct
  <2> QED
    BY <1>4, <2>2, <2>3, <2>4
<1>10. thr' = [u \in Threads |-> thr'[u]]
  BY <1>11
<1> QED
  BY <1>1, <1>2, <1>3, <1>4, <1>7, <1>8, <1>9, <1>10 DEF w, n, taken

LEMMA AppendListStep ==
  ASSUME PendInv, MailTyped, NodesInv, Calm, used = "queue", NEW items \in Lists, k_queue_append_list(items)
  PROVE  PendInv' /\ NodesInv'
<1> DEFINE w == waitq["queue"]
           n == Handed(items)
           taken == Taken(items)
<1>0. /\ items \in Seq(Items) /\ Len(items) \in 1 .. 2
      /\ w \in Seq(Threads) /\ Distinct(w) /\ Len(w) \in Nat
      /\ n \in 0 .. Len(w) /\ taken \in n .. Len(w) /\ n <= Len(items)
      /\ taken < Len(w) => n = Len(items)
      /\ taken # n => Surplus
      /\ firing' = firing
  BY AppendListShape
<1>1. /\ \A u \in Threads : u \notin {w[i] : i \in 1 .. taken} => thr'[u] = thr[u]
      /\ \A i \in 1 .. n : w[i] \in Threads /\ thr'[w[i]] = Woken(w[i], 0, items[i])
      /\ \A i \in 1 .. taken : i > n => thr'[w[i]] = [thr[w[i]] EXCEPT !.at = "limbo", !.armed = FALSE]
  BY AppendListShape
<1>11. thr' = [u \in Threads |-> thr'[u]]
  BY AppendListShape
<1>12. /\ waitq' = [waitq EXCEPT !["queue"] = SubSeq(w, taken + 1, Len(w))]
       /\ data_q' = data_q \o [i \in 1 .. (Len(items) - n) |-> Node(items[n + i], FALSE)]
  BY AppendListShape
<1>2. QueuesLinked /\ ThreadsTyped /\ used' = used /\ "queue" \in WaitQueues \ {"tx"} /\ KindOf("queue") = "queue"
  BY DEF PendInv, Calm, WaitQueues, KindOf
<1>3. \A i \in 1 .. Len(w) : w[i] \in Threads /\ thr[w[i]].at = "pended" /\ thr[w[i]].q = "queue"
  BY <1>2, Waiters DEF Members
<1>4. Members(SubSeq(w, 1, taken)) = {w[i] : i \in 1 .. taken}
  BY <1>0, FirstMembers
<1> HIDE DEF w, n, taken
<1>5. ASSUME NEW i \in 1 .. taken
      PROVE  /\ thr'[w[i]] \in Thread /\ ~thr'[w[i]].armed /\ thr'[w[i]].q = "queue"
             /\ \/ thr'[w[i]].at = "done" /\ thr'[w[i]].data \in Items
                \/ thr'[w[i]].at = "limbo" /\ thr'[w[i]].ret = EAGAIN /\ Surplus
  <2>1. i \in 1 .. Len(w) /\ w[i] \in Threads /\ thr[w[i]].at = "pended" /\ thr[w[i]].q = "queue"
    BY <1>0, <1>3
  <2>2. CASE i <= n
    <3>1. i \in 1 .. n /\ items[i] \in Items
      BY <1>0, <2>2
    <3>2. thr'[w[i]] = Woken(w[i], 0, items[i]) /\ items[i] \in Data
      BY <1>1, <3>1, DataTypes
    <3> QED
      BY <1>2, <2>1, <3>1, <3>2, WokenFields
  <2>3. CASE i > n
    <3>1. thr'[w[i]] = [thr[w[i]] EXCEPT !.at = "limbo", !.armed = FALSE]
      BY <1>1, <2>3
    <3>2. Surplus
      BY <1>0, <2>3
    <3>3. thr[w[i]] \in Thread /\ thr[w[i]].ret = EAGAIN
      BY <1>2, <2>1 DEF ThreadsTyped, PendInv, AllCarry, Carries
    <3> QED
      BY <2>1, <3>1, <3>2, <3>3 DEF Thread
  <2> QED
    BY <1>0, <2>2, <2>3
<1>6. ThreadsTyped'
  <2>1. ASSUME NEW u \in Threads PROVE thr'[u] \in Thread
    <3>1. CASE u \in {w[i] : i \in 1 .. taken}
      BY <1>5, <3>1
    <3>2. CASE u \notin {w[i] : i \in 1 .. taken}
      BY <1>1, <1>2, <3>2 DEF ThreadsTyped
    <3> QED
      BY <3>1, <3>2
  <2> QED
    BY <1>0, <1>2, <1>11, <2>1 DEF ThreadsTyped
<1>7. QueuesLinked'
  <2>1. RanksKept
    BY DEF Calm
  <2>2. taken \in 0 .. Len(waitq["queue"]) /\ waitq' = [waitq EXCEPT !["queue"] = SubSeq(waitq["queue"], taken + 1, Len(waitq["queue"]))]
    BY <1>0, <1>12 DEF w
  <2>3. \A u \in Threads : IF u \in Members(SubSeq(waitq["queue"], 1, taken)) THEN thr'[u].at # "pended" ELSE Stays(u)
    <3> TAKE u \in Threads
    <3>1. CASE u \in {w[i] : i \in 1 .. taken}
      BY <1>4, <1>5, <3>1 DEF w
    <3>2. CASE u \notin {w[i] : i \in 1 .. taken}
      BY <1>1, <1>4, <3>2 DEF w, Stays
    <3> QED
      BY <3>1, <3>2
  <2> QED
    BY <1>2, <2>1, <2>2, <2>3, UnlinkSome
<1>8. AllCarry'
  <2>1. ASSUME NEW u \in Threads PROVE Carries(u)'
    <3>1. CASE u \in {w[i] : i \in 1 .. taken}
      BY <1>2, <1>5, <3>1 DEF Carries
    <3>2. CASE u \notin {w[i] : i \in 1 .. taken}
      BY <1>1, <1>2, <3>2, CarryKept DEF PendInv, AllCarry
    <3> QED
      BY <3>1, <3>2
  <2>2. (firing # NULL => ~thr[firing].armed)'
    <3> SUFFICES ASSUME firing # NULL PROVE ~thr'[firing].armed
      BY <1>0
    <3>1. PICK f \in Threads : f = firing
      BY <1>2 DEF ThreadsTyped
    <3>2. ~thr[f].armed
      BY <3>1 DEF PendInv, AllCarry
    <3>3. CASE f \in {w[i] : i \in 1 .. taken}
      BY <1>5, <3>1, <3>3
    <3>4. CASE f \notin {w[i] : i \in 1 .. taken}
      BY <1>1, <3>1, <3>2, <3>4
    <3> QED
      BY <3>3, <3>4
  <2> QED
    BY <2>1, <2>2 DEF AllCarry
<1>9. NodesInv'
  <2> DEFINE rest == [i \in 1 .. (Len(items) - n) |-> Node(items[n + i], FALSE)]
  <2>1. rest \in Seq(Nodes) /\ Len(rest) = Len(items) - n
    <3>1. \A i \in 1 .. (Len(items) - n) : Node(items[n + i], FALSE) \in Nodes
      BY <1>0, ElementOfSeq DEF Node, Nodes
    <3>2. Len(items) - n \in Nat
      BY <1>0
    <3>3. rest = [i \in 1 .. (Len(items) - n) |-> rest[i]] /\ \A i \in 1 .. (Len(items) - n) : rest[i] \in Nodes
      BY <3>1
    <3> HIDE DEF rest
    <3> QED
      BY <3>2, <3>3, SeqOf
  <2> HIDE DEF rest
  <2>2. data_q \in Seq(Nodes) /\ data_q' = data_q \o rest
    BY <1>12 DEF NodesInv, Nodes, rest
  <2>3. data_q' \in Seq(Nodes)
    BY <2>1, <2>2, ConcatProperties
  <2>4. waitq'["queue"] # <<>> => data_q' = <<>>
    <3> SUFFICES ASSUME waitq'["queue"] # <<>> PROVE data_q' = <<>>
      OBVIOUS
    <3>1. waitq'["queue"] = SubSeq(w, taken + 1, Len(w))
      BY <1>2, <1>12 DEF QueuesLinked
    <3>2. taken < Len(w)
      BY <1>0, <3>1, SubSeqEmpty
    <3>3. waitq["queue"] # <<>>
      BY <1>0, <3>2 DEF w
    <3>4. data_q = <<>> /\ Len(rest) = 0
      BY <1>0, <2>1, <3>2, <3>3 DEF NodesInv
    <3>5. Len(data_q') = 0
      BY <2>1, <2>2, <3>4, ConcatProperties
    <3> QED
      BY <2>3, <3>5, EmptySeq
  <2> QED
    BY <2>3, <2>4 DEF NodesInv, Nodes
<1> QED
  BY <1>6, <1>7, <1>8, <1>9 DEF PendInv

LEMMA QueueStep ==
  ASSUME PendInv, MailTyped, NodesInv, Calm, used = "queue", QueueNext
  PROVE  PendInv' /\ NodesInv'
<1>0. /\ "queue" \in WaitQueues \ {"tx"} /\ KindOf("queue") = "queue" /\ data_q \in Seq(Nodes)
      /\ Len(data_q) \in 0 .. Len(data_q) /\ 0 \in 0 .. Len(data_q)
  BY DEF WaitQueues, KindOf, NodesInv, Nodes
<1>1. CASE \E x \in Items, pos \in 0 .. Len(data_q), alloc \in BOOLEAN : queue_insert(pos, x, alloc)
  BY <1>1, InsertStep
<1>4. CASE \E items \in Lists : k_queue_append_list(items)
  BY <1>4, AppendListStep
<1>5. CASE k_queue_get
  <2>1. NobodyMoves /\ firing' = firing
    BY <1>5 DEF k_queue_get
  <2>2. CASE data_q # <<>>
    <3>1. data_q' = Tail(data_q) /\ Tail(data_q) \in Seq(Nodes)
      BY <1>0, <1>5, <2>2 DEF k_queue_get
    <3> QED
      BY <2>1, <2>2, <3>1, NobodyMovesSafe DEF NodesInv, Nodes, NobodyMoves
  <2>3. CASE data_q = <<>>
    <3>1. data_q' = data_q
      BY <1>5, <2>3 DEF k_queue_get
    <3> QED
      BY <2>1, <3>1, NobodyMovesSafe, NodesKept DEF NobodyMoves
  <2> QED
    BY <2>2, <2>3
<1>6. CASE k_queue_cancel_wait
  <2>1. firing' = firing /\ data_q' = data_q
    BY <1>6 DEF k_queue_cancel_wait
  <2>2. CASE waitq["queue"] # <<>>
    <3>1. WakeFirst("queue", 0, NULL)
      BY <1>6, <2>2 DEF k_queue_cancel_wait
    <3> QED
      BY <1>0, <2>1, <2>2, <3>1, DataTypes, WakeSafe, NodesKept
  <2>3. CASE waitq["queue"] = <<>>
    <3>1. NobodyMoves
      BY <1>6, <2>3 DEF k_queue_cancel_wait
    <3> QED
      BY <2>1, <3>1, NobodyMovesSafe, NodesKept DEF NobodyMoves
  <2> QED
    BY <2>2, <2>3
<1>7. CASE \E end \in {"head", "tail"} : k_queue_peek(end)
  <2>1. NobodyMoves /\ UNCHANGED <<firing, data_q>>
    BY <1>7 DEF k_queue_peek
  <2> QED
    BY <2>1, NobodyMovesSafe, NodesKept DEF NobodyMoves
<1>8. CASE \E t \in Threads, timed \in BOOLEAN : k_queue_get_wait(t, timed)
  <2>1. PICK t \in Threads, timed \in BOOLEAN : k_queue_get_wait(t, timed)
    BY <1>8
  <2>2. /\ Free(t) /\ data_q = <<>> /\ data_q' = data_q /\ PendOn(t, "queue", "get", NULL, timed)
        /\ "get" \in {"get", "put", "send"} /\ NULL \in Data /\ used = KindOf("queue")
        /\ used # "mbox" => \/ "get" = "get" /\ NULL = NULL
                            \/ used = "msgq" /\ "get" = "put" /\ NULL \in Items
    BY <1>0, <2>1, DataTypes DEF k_queue_get_wait
  <2>3. PendInv'
    BY <1>0, <2>2, PendOnSafe
  <2> QED
    BY <1>0, <2>2, <2>3 DEF NodesInv, Nodes
<1>9. CASE PendNext /\ data_q' = data_q
  BY <1>0, <1>9, PendNextSafe, NodesKept
<1>10. CASE (\E t \in Threads : Returns(t)) /\ data_q' = data_q
  BY <1>10, ReturnsSafe, NodesKept
<1>11. (\E x \in Items : \/ \E pos \in 0 .. Len(data_q) : queue_insert(pos, x, FALSE)
                      \/ \E pos \in {0, Len(data_q)} : queue_insert(pos, x, TRUE))
       => \E x \in Items, pos \in 0 .. Len(data_q), alloc \in BOOLEAN : queue_insert(pos, x, alloc)
  BY <1>0
<1> QED
  BY <1>1, <1>4, <1>5, <1>6, <1>7, <1>8, <1>9, <1>10, <1>11 DEF QueueNext, Lists
-----------------------------------------------------------------------------
(* mem_slab.c.                                                             *)
LEMMA TailLinks ==
  ASSUME NEW T, NEW s \in Seq(T), s # <<>>, Distinct(s)
  PROVE  /\ Head(s) \in T /\ Head(s) \in Members(s) /\ Tail(s) \in Seq(T) /\ Distinct(Tail(s))
         /\ Members(Tail(s)) = Members(s) \ {Head(s)}
<1>1. /\ Len(s) \in Nat /\ Len(s) >= 1 /\ Tail(s) \in Seq(T) /\ Len(Tail(s)) = Len(s) - 1
      /\ \A i \in 1 .. Len(s) - 1 : Tail(s)[i] = s[i + 1]
      /\ Head(s) = s[1]
  OBVIOUS
<1>2. Head(s) \in T /\ Head(s) \in Members(s)
  BY HeadLinked
<1>3. Distinct(Tail(s))
  BY <1>1 DEF Distinct
<1>4. Members(Tail(s)) \subseteq Members(s) \ {Head(s)}
  BY <1>1 DEF Members, Distinct
<1>5. ASSUME NEW x \in Members(s), x # Head(s) PROVE x \in Members(Tail(s))
  <2>1. PICK i \in 1 .. Len(s) : x = s[i]
    BY <1>5 DEF Members
  <2>2. i # 1 /\ i - 1 \in 1 .. Len(Tail(s)) /\ Tail(s)[i - 1] = s[i - 1 + 1]
    BY <1>1, <1>5, <2>1
  <2>3. Tail(s)[i - 1] = x
    BY <1>1, <2>1, <2>2
  <2> QED
    BY <2>2, <2>3 DEF Members
<1> QED
  BY <1>1, <1>2, <1>3, <1>4, <1>5

LEMMA PushLinks ==
  ASSUME NEW T, NEW s \in Seq(T), NEW x \in T, Distinct(s), x \notin Members(s)
  PROVE  LET n == <<x>> \o s
         IN  n \in Seq(T) /\ Distinct(n) /\ Members(n) = Members(s) \cup {x} /\ n # <<>>
<1> DEFINE n == <<x>> \o s
<1>1. <<x>> \in Seq(T) /\ Len(<<x>>) = 1 /\ <<x>>[1] = x /\ Len(s) \in Nat
  OBVIOUS
<1>2. /\ n \in Seq(T) /\ Len(n) = 1 + Len(s)
      /\ \A i \in 1 .. 1 + Len(s) : n[i] = IF i <= 1 THEN <<x>>[i] ELSE s[i - 1]
  BY <1>1, ConcatProperties
<1> HIDE DEF n
<1>3. n[1] = x /\ \A i \in 1 .. Len(s) : n[i + 1] = s[i]
  BY <1>1, <1>2
<1>4. \A k \in 1 .. Len(n) : k = 1 \/ \E i \in 1 .. Len(s) : k = i + 1
  <2> TAKE k \in 1 .. Len(n)
  <2>1. k = 1 \/ (k - 1 \in 1 .. Len(s) /\ k = (k - 1) + 1)
    BY <1>1, <1>2
  <2> QED
    BY <2>1
<1>5. Members(n) = Members(s) \cup {x}
  <2>1. Members(n) \subseteq Members(s) \cup {x}
    BY <1>3, <1>4 DEF Members
  <2>2. x \in Members(n)
    BY <1>1, <1>2, <1>3 DEF Members
  <2>3. ASSUME NEW y \in Members(s) PROVE y \in Members(n)
    <3>1. PICK i \in 1 .. Len(s) : y = s[i]
      BY DEF Members
    <3>2. i + 1 \in 1 .. Len(n) /\ n[i + 1] = y
      BY <1>1, <1>2, <1>3, <3>1
    <3> QED
      BY <3>2 DEF Members
  <2> QED
    BY <2>1, <2>2, <2>3
<1>6. Distinct(n)
  <2> SUFFICES ASSUME NEW j \in 1 .. Len(n), NEW k \in 1 .. Len(n), n[j] = n[k] PROVE j = k
    BY DEF Distinct
  <2>1. CASE j = 1
    BY <1>3, <1>4, <2>1 DEF Members
  <2>2. CASE k = 1
    BY <1>3, <1>4, <2>2 DEF Members
  <2>3. CASE j # 1 /\ k # 1
    BY <1>3, <1>4, <2>3 DEF Distinct
  <2> QED
    BY <2>1, <2>2, <2>3
<1> QED
  BY <1>1, <1>2, <1>5, <1>6 DEF n

(* The blocks held and given, counted.                                     *)
LEMMA SlabCounts ==
  ASSUME SlabInv
  PROVE  /\ IsFiniteSet(held) /\ IsFiniteSet(Given)
         /\ Cardinality(held) \in Nat /\ Cardinality(Given) \in Nat
         /\ \A x : /\ Cardinality(held \cup {x}) = IF x \in held THEN Cardinality(held) ELSE Cardinality(held) + 1
                   /\ Cardinality(held \ {x}) = IF x \in held THEN Cardinality(held) - 1 ELSE Cardinality(held)
                   /\ Cardinality(Given \cup {x}) = IF x \in Given THEN Cardinality(Given) ELSE Cardinality(Given) + 1
                   /\ Cardinality(Given \ {x}) = IF x \in Given THEN Cardinality(Given) - 1 ELSE Cardinality(Given)
<1>1. held \in SUBSET Items /\ Given \in SUBSET Threads
  BY DEF SlabInv, Given
<1>2. IsFiniteSet(held) /\ IsFiniteSet(Given)
  BY <1>1, Constants, FS_Subset
<1> QED
  BY <1>2, FS_CardinalityType, FS_AddElement, FS_RemoveElement

LEMMA AllocStep ==
  ASSUME PendInv, MailTyped, SlabInv, Calm, used = "slab", k_mem_slab_alloc
  PROVE  PendInv' /\ SlabInv'
<1>1. NobodyMoves /\ firing' = firing
  BY DEF k_mem_slab_alloc
<1>2. PendInv' /\ Given' = Given
  BY <1>1, NobodyMovesSafe DEF Given, NobodyMoves
<1>3. CASE free_list # <<>>
  <2> DEFINE x == Head(free_list)
  <2>1. free_list' = Tail(free_list) /\ num_used' = num_used + 1 /\ held' = held \cup {x}
    BY <1>3 DEF k_mem_slab_alloc
  <2>2. /\ x \in Items /\ x \in Members(free_list) /\ Tail(free_list) \in Seq(Items) /\ Distinct(Tail(free_list))
        /\ Members(Tail(free_list)) = Members(free_list) \ {x}
    BY <1>3, TailLinks DEF SlabInv
  <2>3. waitq'["slab"] = <<>>
    BY <1>1, <1>3 DEF SlabInv, NobodyMoves
  <2> HIDE DEF x
  <2>4. num_used' = Cardinality(held') + Cardinality(Given')
    <3>1. x \notin held
      BY <2>2 DEF SlabInv
    <3>2. Cardinality(held') = Cardinality(held) + 1
      BY <2>1, <3>1, SlabCounts
    <3> QED
      BY <1>2, <2>1, <3>2, SlabCounts DEF SlabInv
  <2>5. held' \cup Members(free_list') = held \cup Members(free_list) /\ held' \cap Members(free_list') = {}
    BY <2>1, <2>2 DEF SlabInv
  <2> QED
    BY <1>1, <1>2, <2>1, <2>2, <2>3, <2>4, <2>5 DEF SlabInv, NobodyMoves
<1>4. CASE free_list = <<>>
  <2>1. UNCHANGED <<free_list, num_used, held>>
    BY <1>4 DEF k_mem_slab_alloc, slabVars
  <2> QED
    BY <1>1, <1>2, <2>1 DEF SlabInv, NobodyMoves
<1> QED
  BY <1>3, <1>4

LEMMA AllocWaitStep ==
  ASSUME PendInv, MailTyped, SlabInv, Calm, used = "slab", NEW t \in Threads, NEW timed \in BOOLEAN,
         k_mem_slab_alloc_wait(t, timed)
  PROVE  PendInv' /\ SlabInv'
<1>1. /\ Free(t) /\ free_list = <<>> /\ PendOn(t, "slab", "get", NULL, timed)
      /\ UNCHANGED <<free_list, num_used, held>>
      /\ "get" \in {"get", "put", "send"} /\ NULL \in Data /\ used = KindOf("slab") /\ "slab" \in WaitQueues \ {"tx"}
      /\ used # "mbox" => \/ "get" = "get" /\ NULL = NULL
                          \/ used = "msgq" /\ "get" = "put" /\ NULL \in Items
  BY DataTypes DEF k_mem_slab_alloc_wait, slabVars, KindOf, WaitQueues
<1>2. /\ PendInv'
      /\ thr'[t] = [at |-> "pended", op |-> "get", q |-> "slab", data |-> NULL, ret |-> EAGAIN, armed |-> timed]
      /\ \A u \in Threads \ {t} : thr'[u] = thr[u]
  BY <1>1, PendOnSafe
<1>3. Given' = Given /\ t \notin Given
  BY <1>1, <1>2 DEF Given, Free
<1>4. \A u \in Given : thr'[u].data = thr[u].data
  BY <1>2, <1>3 DEF Given
<1> QED
  BY <1>1, <1>2, <1>3, <1>4 DEF SlabInv

LEMMA FreeStep ==
  ASSUME PendInv, MailTyped, SlabInv, Calm, used = "slab", NEW mem \in Items, k_mem_slab_free(mem)
  PROVE  PendInv' /\ SlabInv'
<1>0. firing' = firing /\ mem \in held /\ held' = held \ {mem} /\ "slab" \in WaitQueues \ {"tx"}
  BY DEF k_mem_slab_free, WaitQueues
<1>1. CASE free_list = <<>> /\ waitq["slab"] # <<>>
  <2>1. WakeFirst("slab", 0, mem) /\ UNCHANGED <<free_list, num_used>>
    BY <1>1 DEF k_mem_slab_free
  <2>2. mem \in Data /\ mem \in Items \cup {NULL} /\ 0 \in {0, ENOMSG} /\ mem # NULL /\ Members(free_list) = {}
    BY <1>1, DataTypes, Constants, NoMembers
  <2>3. PICK t \in Threads : t = Head(waitq["slab"])
    BY <1>0, <1>1, <2>1, <2>2, WakeSafe
  <2>4. /\ PendInv' /\ thr[t].at = "pended" /\ thr[t].q = "slab"
        /\ thr'[t] = Woken(t, 0, mem)
        /\ \A u \in Threads \ {t} : thr'[u] = thr[u]
    BY <1>0, <1>1, <2>1, <2>2, <2>3, WakeSafe
  <2>5. thr'[t].at = "done" /\ thr'[t].data = mem /\ thr'[t].q = "slab"
    BY <2>2, <2>4, WokenFields DEF PendInv
  <2>6. Given' = Given \cup {t} /\ t \notin Given
    BY <2>2, <2>4, <2>5 DEF Given
  <2>7. \A u \in Given : thr'[u].data = thr[u].data
    BY <2>4, <2>6 DEF Given
  <2>8. num_used' = Cardinality(held') + Cardinality(Given')
    <3>1. Cardinality(held') = Cardinality(held) - 1 /\ Cardinality(Given') = Cardinality(Given) + 1
      BY <1>0, <2>6, SlabCounts
    <3> QED
      BY <2>1, <3>1, SlabCounts DEF SlabInv
  <2>9. /\ \A u \in Given' : thr'[u].data \in Items \ (held' \cup Members(free_list'))
        /\ \A u, v \in Given' : thr'[u].data = thr'[v].data => u = v
    BY <1>0, <2>1, <2>2, <2>5, <2>6, <2>7 DEF SlabInv
  <2>10. \A x \in Items \ (held' \cup Members(free_list')) : \E u \in Given' : thr'[u].data = x
    BY <1>0, <2>1, <2>5, <2>6, <2>7 DEF SlabInv
  <2> QED
    BY <1>0, <1>1, <2>1, <2>2, <2>4, <2>8, <2>9, <2>10 DEF SlabInv
<1>2. CASE ~(free_list = <<>> /\ waitq["slab"] # <<>>)
  <2>1. NobodyMoves /\ free_list' = <<mem>> \o free_list /\ num_used' = num_used - 1
    BY <1>2 DEF k_mem_slab_free
  <2>2. PendInv' /\ Given' = Given
    BY <1>0, <2>1, NobodyMovesSafe DEF Given, NobodyMoves
  <2>3. mem \notin Members(free_list)
    BY <1>0 DEF SlabInv
  <2>4. /\ free_list' \in Seq(Items) /\ Distinct(free_list') /\ Members(free_list') = Members(free_list) \cup {mem}
    BY <2>1, <2>3, PushLinks DEF SlabInv
  <2>5. num_used' = Cardinality(held') + Cardinality(Given')
    <3>1. Cardinality(held') = Cardinality(held) - 1
      BY <1>0, SlabCounts
    <3> QED
      BY <2>1, <2>2, <3>1, SlabCounts DEF SlabInv
  <2>6. waitq'["slab"] = <<>>
    BY <1>2, <2>1 DEF SlabInv, NobodyMoves
  <2>7. held' \cup Members(free_list') = held \cup Members(free_list) /\ held' \cap Members(free_list') = {}
    BY <1>0, <2>4 DEF SlabInv
  <2> QED
    BY <1>0, <2>1, <2>2, <2>4, <2>5, <2>6, <2>7 DEF SlabInv, NobodyMoves
<1> QED
  BY <1>1, <1>2

LEMMA AllocReturnsStep ==
  ASSUME PendInv, MailTyped, SlabInv, Calm, used = "slab", NEW t \in Threads, AllocReturns(t)
  PROVE  PendInv' /\ SlabInv'
<1>1. /\ Returns(t) /\ held' = held \cup ({thr[t].data} \ {NULL}) /\ UNCHANGED <<free_list, num_used>>
  BY DEF AllocReturns
<1>2. /\ PendInv' /\ waitq' = waitq /\ thr[t].at = "done"
      /\ thr'[t] = Idle /\ \A u \in Threads \ {t} : thr'[u] = thr[u]
  BY <1>1, ReturnsSafe
<1>3. thr[t].q = "slab"
  BY <1>2 DEF PendInv, AllCarry, Carries, KindOf
<1>4. Given' = Given \ {t}
  BY <1>2 DEF Given, Idle
<1>5. \A u \in Given' : thr'[u].data = thr[u].data
  BY <1>2, <1>4 DEF Given
<1>6. CASE t \in Given
  <2>1. PICK x \in Items : x = thr[t].data
    BY <1>6 DEF SlabInv
  <2>2. x # NULL /\ held' = held \cup {x} /\ x \notin held /\ x \notin Members(free_list)
    BY <1>1, <1>6, <2>1, Constants DEF SlabInv
  <2>3. num_used' = Cardinality(held') + Cardinality(Given')
    <3>1. Cardinality(held') = Cardinality(held) + 1 /\ Cardinality(Given') = Cardinality(Given) - 1
      BY <1>4, <1>6, <2>2, SlabCounts
    <3> QED
      BY <1>1, <3>1, SlabCounts DEF SlabInv
  <2>4. /\ \A u \in Given' : thr'[u].data \in Items \ (held' \cup Members(free_list'))
        /\ \A u, v \in Given' : thr'[u].data = thr'[v].data => u = v
    BY <1>1, <1>4, <1>5, <1>6, <2>1, <2>2 DEF SlabInv
  <2>5. \A y \in Items \ (held' \cup Members(free_list')) : \E u \in Given' : thr'[u].data = y
    BY <1>1, <1>4, <1>5, <2>1, <2>2 DEF SlabInv
  <2> QED
    BY <1>1, <1>2, <2>2, <2>3, <2>4, <2>5 DEF SlabInv
<1>7. CASE t \notin Given
  <2>1. thr[t].data = NULL /\ held' = held /\ Given' = Given
    BY <1>1, <1>2, <1>3, <1>4, <1>7 DEF Given
  <2>2. \A u \in Given' : thr'[u].data \in Items \ (held' \cup Members(free_list'))
    BY <1>1, <1>5, <2>1 DEF SlabInv
  <2>3. /\ \A u, v \in Given' : thr'[u].data = thr'[v].data => u = v
        /\ \A y \in Items \ (held' \cup Members(free_list')) : \E u \in Given' : thr'[u].data = y
    BY <1>1, <1>5, <2>1 DEF SlabInv
  <2>4. num_used' = Cardinality(held') + Cardinality(Given')
    BY <1>1, <2>1 DEF SlabInv
  <2> QED
    BY <1>1, <1>2, <2>1, <2>2, <2>3, <2>4 DEF SlabInv
<1> QED
  BY <1>6, <1>7

LEMMA SlabStep ==
  ASSUME PendInv, MailTyped, SlabInv, Calm, used = "slab", SlabNext
  PROVE  PendInv' /\ SlabInv'
<1>1. CASE k_mem_slab_alloc
  BY <1>1, AllocStep
<1>2. CASE \E mem \in Items : k_mem_slab_free(mem)
  BY <1>2, FreeStep
<1>3. CASE \E t \in Threads : AllocReturns(t) \/ \E timed \in BOOLEAN : k_mem_slab_alloc_wait(t, timed)
  BY <1>3, AllocReturnsStep, AllocWaitStep
<1>4. CASE PendNext /\ UNCHANGED slabVars
  <2>1. /\ PendInv' /\ \A u \in Threads : Expires(u)
        /\ waitq["slab"] = <<>> => waitq'["slab"] = <<>>
    BY <1>4, PendNextSafe DEF WaitQueues
  <2>2. Given' = Given /\ \A u \in Given : thr'[u].data = thr[u].data
    BY <2>1 DEF Given, Expires
  <2>3. UNCHANGED <<free_list, num_used, held>>
    BY <1>4 DEF slabVars
  <2> QED
    BY <2>1, <2>2, <2>3 DEF SlabInv
<1> QED
  BY <1>1, <1>2, <1>3, <1>4 DEF SlabNext
-----------------------------------------------------------------------------
(* mailbox.c.  What the searches of the two queues find.                   *)
LEMMA ReceiverFound ==
  ASSUME PendInv, NEW src, NEW target
  PROVE  LET r == Receiver(src, target)
         IN  /\ r # NULL => /\ r \in Members(waitq["rx"]) /\ r \in Threads
                            /\ mbox_message_match(src, target, r, thr[r].data)
             /\ r = NULL => \A x \in Members(waitq["rx"]) : ~mbox_message_match(src, target, x, thr[x].data)
<1> DEFINE queue == waitq["rx"]
           found == {i \in 1 .. Len(queue) : mbox_message_match(src, target, queue[i], thr[queue[i]].data)}
<1>0. queue \in Seq(Threads) /\ Len(queue) \in Nat
  BY DEF PendInv, QueuesLinked, WaitQueues
<1>1. Receiver(src, target) = IF found = {} THEN NULL ELSE queue[CHOOSE i \in found : \A j \in found : i <= j]
  BY DEF Receiver, FirstMatch
<1>2. CASE found = {}
  BY <1>1, <1>2 DEF Members
<1>3. CASE found # {}
  <2>1. (CHOOSE i \in found : \A j \in found : i <= j) \in found
    BY <1>0, <1>3, FirstOf
  <2>2. PICK i \in found : i = CHOOSE k \in found : \A j \in found : k <= j
    BY <2>1
  <2>3. i \in 1 .. Len(queue) /\ queue[i] \in Threads /\ queue[i] \in Members(queue)
        /\ mbox_message_match(src, target, queue[i], thr[queue[i]].data)
    BY <1>0, <2>2, ElementOfSeq DEF Members
  <2>4. queue[i] # NULL
    BY <2>3, Constants
  <2> HIDE DEF queue, found
  <2>5. Receiver(src, target) = queue[i]
    BY <1>1, <1>3, <2>2
  <2> QED
    BY <2>3, <2>4, <2>5 DEF queue
<1> QED
  BY <1>2, <1>3

LEMMA SenderFound ==
  ASSUME PendInv, NEW t, NEW want
  PROVE  LET m == Sender(t, want)
         IN  /\ m # NULL => /\ m \in Members(waitq["tx"]) /\ m \in Msgs
                            /\ mbox_message_match(Source(m), Target(m), t, want)
             /\ m = NULL => \A x \in Members(waitq["tx"]) : ~mbox_message_match(Source(x), Target(x), t, want)
<1> DEFINE queue == waitq["tx"]
           found == {i \in 1 .. Len(queue) : mbox_message_match(Source(queue[i]), Target(queue[i]), t, want)}
<1>0. queue \in Seq(Msgs) /\ Len(queue) \in Nat
  BY DEF PendInv, QueuesLinked, WaitQueues
<1>1. Sender(t, want) = IF found = {} THEN NULL ELSE queue[CHOOSE i \in found : \A j \in found : i <= j]
  BY DEF Sender, FirstMatch
<1>2. CASE found = {}
  BY <1>1, <1>2 DEF Members
<1>3. CASE found # {}
  <2>1. (CHOOSE i \in found : \A j \in found : i <= j) \in found
    BY <1>0, <1>3, FirstOf
  <2>2. PICK i \in found : i = CHOOSE k \in found : \A j \in found : k <= j
    BY <2>1
  <2>3. i \in 1 .. Len(queue) /\ queue[i] \in Msgs /\ queue[i] \in Members(queue)
        /\ mbox_message_match(Source(queue[i]), Target(queue[i]), t, want)
    BY <1>0, <2>2, ElementOfSeq DEF Members
  <2>4. queue[i] # NULL
    BY <2>3, Constants
  <2> HIDE DEF queue, found
  <2>5. Sender(t, want) = queue[i]
    BY <1>1, <1>3, <2>2
  <2> QED
    BY <2>3, <2>4, <2>5 DEF queue
<1> QED
  BY <1>2, <1>3

(* A thread in no call, and one that waits.                                *)
LEMMA NoMailYet ==
  ASSUME PendInv, \A u \in Threads : InMail(u), NEW t \in Threads
  PROVE  /\ Ready(t) => Has(t) = NULL /\ Fills(t) = NULL /\ mail[t].step = "none"
         /\ thr[t].at = "pended" => Has(t) = NULL /\ Fills(t) = NULL /\ mail[t].step = "none"
BY DEF Ready, NoMail, Free, InMail, Has, Fills

(* Nothing is handed over: the messages stay where they are.               *)
MailStays ==
  /\ async_msg' = async_msg
  /\ \A t \in Threads : /\ Has(t)' = Has(t) /\ Fills(t)' = Fills(t)
                        /\ thr'[t].at = "matched" <=> thr[t].at = "matched"
  /\ entries' = entries
  /\ Members(waitq'["tx"]) \cap Descs = Members(waitq["tx"]) \cap Descs
LEMMA MailKept ==
  ASSUME MailPlaced, MailStays
  PROVE  MailPlaced' /\ Signals' = Signals
<1>1. \A d \in Descs : d \in Members(waitq'["tx"]) <=> d \in Members(waitq["tx"])
  BY DEF MailStays
<1>2. MailPlaced'
  BY <1>1 DEF MailStays, MailPlaced
<1>3. Signals' = Signals
  BY <1>1 DEF MailStays, Signals
<1> QED
  BY <1>2, <1>3

(* Message x reaches receiver r, from the hands of a sender, from a thread *)
(* that filled it or from the tx queue.                                    *)
HandedTo(r, x) ==
  /\ Has(r) = NULL /\ Has(r)' = x
  /\ \A u \in Threads \ {r} : Has(u)' = Has(u)
  /\ \A u \in Threads : Has(u) # x
  /\ \A u \in Threads : Fills(u)' = IF Fills(u) = x THEN NULL ELSE Fills(u)
  /\ \A m \in Threads : thr'[m].at = "matched" <=> (m = x \/ thr[m].at = "matched")
  /\ entries' = entries /\ x \notin Members(entries["async"])
  /\ \A d \in Descs : d \in Members(waitq'["tx"]) <=> d \in Members(waitq["tx"]) /\ d # x
LEMMA HandOver ==
  ASSUME MailPlaced, NEW r \in Threads, NEW x \in Msgs, HandedTo(r, x)
  PROVE  MailPlaced'
<1>0. x # NULL /\ NULL \notin Descs /\ \A d \in Descs : d \notin Threads
  BY Constants
<1>1. \A t, u \in Threads : Has(t)' = Has(u)' /\ Has(t)' # NULL => t = u
  BY DEF HandedTo, MailPlaced
<1>2. \A t, u \in Threads : Fills(t)' = Fills(u)' /\ Fills(t)' # NULL => t = u
  BY DEF HandedTo, MailPlaced
<1>3. \A m \in Threads : (\E t \in Threads : Has(t)' = m) <=> thr'[m].at = "matched"
  <2> TAKE m \in Threads
  <2>1. (\E t \in Threads : Has(t)' = m) <=> (m = x \/ \E t \in Threads : Has(t) = m)
    BY Constants DEF HandedTo
  <2> QED
    BY <2>1 DEF HandedTo, MailPlaced
<1>4. ASSUME NEW d \in Descs
      PROVE  /\ \/ d \in Members(entries'["async"]) \/ d \in Members(waitq'["tx"])
                \/ \E t \in Threads : Has(t)' = d \/ Fills(t)' = d
             /\ ~ (d \in Members(entries'["async"]) /\ d \in Members(waitq'["tx"]))
             /\ d \in Members(entries'["async"]) \cup Members(waitq'["tx"]) =>
                  \A t \in Threads : Has(t)' # d /\ Fills(t)' # d
             /\ \A t, u \in Threads : ~ (Has(t)' = d /\ Fills(u)' = d)
  <2>1. CASE d = x
    <3>1. Has(r)' = d /\ \A u \in Threads : Fills(u)' # d
      BY <1>0, <2>1 DEF HandedTo
    <3>2. d \notin Members(entries'["async"]) /\ d \notin Members(waitq'["tx"])
      BY <2>1 DEF HandedTo
    <3> QED
      BY <3>1, <3>2
  <2>2. CASE d # x
    <3>1. \A u \in Threads : (Has(u)' = d <=> Has(u) = d) /\ (Fills(u)' = d <=> Fills(u) = d)
      BY <1>0, <2>2 DEF HandedTo
    <3>2. /\ d \in Members(entries'["async"]) <=> d \in Members(entries["async"])
          /\ d \in Members(waitq'["tx"]) <=> d \in Members(waitq["tx"])
      BY <2>2 DEF HandedTo
    <3> QED
      BY <3>1, <3>2 DEF MailPlaced
  <2> QED
    BY <2>1, <2>2
<1> QED
  BY <1>1, <1>2, <1>3, <1>4 DEF MailPlaced

(* Those who still wait ask for what they asked for.                       *)
LEMMA StillNoneSuits ==
  ASSUME NoneSuits,
         \A m \in Members(waitq'["tx"]) :
           m \in Members(waitq["tx"]) /\ Source(m)' = Source(m) /\ Target(m)' = Target(m),
         \A r \in Members(waitq'["rx"]) : r \in Members(waitq["rx"]) /\ thr'[r].data = thr[r].data
  PROVE  NoneSuits'
BY DEF NoneSuits, mbox_message_match

(* Finite sets of threads and descriptors, counted.                        *)
LEMMA MailCounts ==
  /\ IsFiniteSet(Givers) /\ IsFiniteSet(Signals)
  /\ Cardinality(Givers) \in Nat /\ Cardinality(Signals) \in Nat
  /\ \A x : /\ Cardinality(Givers \cup {x}) = IF x \in Givers THEN Cardinality(Givers) ELSE Cardinality(Givers) + 1
            /\ Cardinality(Givers \ {x}) = IF x \in Givers THEN Cardinality(Givers) - 1 ELSE Cardinality(Givers)
            /\ Cardinality(Signals \cup {x}) = IF x \in Signals THEN Cardinality(Signals) ELSE Cardinality(Signals) + 1
            /\ Cardinality(Signals \ {x}) = IF x \in Signals THEN Cardinality(Signals) - 1 ELSE Cardinality(Signals)
<1>1. Givers \in SUBSET Threads /\ Signals \in SUBSET Descs
  BY DEF Givers, Signals
<1>2. IsFiniteSet(Givers) /\ IsFiniteSet(Signals)
  BY <1>1, Constants, FS_Subset
<1> QED
  BY <1>2, FS_CardinalityType, FS_AddElement, FS_RemoveElement

LEMMA MailSame ==
  ASSUME NEW u, thr'[u] = thr[u], mail'[u] = mail[u], used' = used
  PROVE  Has(u)' = Has(u) /\ Fills(u)' = Fills(u) /\ (InMail(u) => InMail(u)')
BY DEF Has, Fills, InMail

(* A receiver that waits is unpended with a message.                       *)
LEMMA ReceiverWoken ==
  ASSUME PendInv, Calm, used = "mbox", firing' = firing, firing = NULL, \A u \in Threads : InMail(u),
         NEW r \in Members(waitq["rx"]), NEW x \in Msgs, Unpend("rx", r),
         thr' \in [Threads -> Thread], thr'[r] = Woken(r, 0, x), mail'[r] = mail[r],
         \A u \in Threads \ {r} : Stays(u) /\ Carries(u)'
  PROVE  /\ PendInv' /\ r \in Threads /\ thr[r].at = "pended"
         /\ Members(waitq'["rx"]) = Members(waitq["rx"]) \ {r}
         /\ \A p \in WaitQueues \ {"rx"} : waitq'[p] = waitq[p]
         /\ Has(r) = NULL /\ Fills(r) = NULL /\ Has(r)' = x /\ Fills(r)' = NULL
         /\ thr'[r].at = "done" /\ InMail(r)'
<1>0. "rx" \in WaitQueues \ {"tx"} /\ "rx" \in WaitQueues
  BY DEF WaitQueues
<1>1. r \in Threads /\ thr[r].at = "pended" /\ thr[r].q = "rx"
  BY <1>0, Waiters
<1>2. r \in Msgs /\ x \in Data /\ 0 \in {0, EAGAIN, ENOMSG} /\ ThreadsTyped
  BY <1>1, DataTypes DEF Msgs, PendInv
<1>3. /\ thr'[r].at = "done" /\ thr'[r].ret = 0 /\ thr'[r].data = x /\ ~thr'[r].armed
      /\ thr'[r].op = thr[r].op /\ thr'[r].q = "rx"
  BY <1>1, <1>2, WokenFields
<1>4. /\ QueuesLinked' /\ Members(waitq'["rx"]) = Members(waitq["rx"]) \ {r}
      /\ \A p \in WaitQueues \ {"rx"} : waitq'[p] = waitq[p]
  <2>1. /\ QueuesLinked /\ RanksKept /\ used' = used
        /\ waitq' = [waitq EXCEPT !["rx"] = z_priq_dumb_remove(@, r)]
    BY DEF PendInv, Calm, Unpend
  <2> QED
    BY <1>0, <1>1, <1>2, <1>3, <2>1, UnlinkOne
<1>5. Carries(r)'
  BY <1>3 DEF Carries, Calm
<1>6. PendInv'
  BY <1>4, <1>5 DEF PendInv, AllCarry, ThreadsTyped
<1>7. thr[r].op = "get" /\ mail[r].step = "none" /\ mail[r].msg = NULL
  BY <1>1 DEF InMail
<1>8. Has(r) = NULL /\ Fills(r) = NULL
  BY <1>1, NoMailYet
<1>9. Has(r)' = x /\ Fills(r)' = NULL
  BY <1>3, <1>7 DEF Has, Fills
<1>10. InMail(r)'
  BY <1>3, <1>7 DEF InMail, Calm
<1> QED
  BY <1>1, <1>3, <1>4, <1>6, <1>8, <1>9, <1>10

LEMMA MailPutStep ==
  ASSUME PendInv, StacksInv, MboxInv, used = "mbox", used' = used, NEW t \in Threads,
         NEW target \in Threads \cup {ANY}, NEW timeout \in {"no_wait", "some", "forever"},
         k_mbox_put(t, target, timeout)
  PROVE  PendInv' /\ StacksInv' /\ MboxInv'
<1>1. /\ Ready(t) /\ Free(t) /\ target # t /\ thr[t].at = "idle" /\ firing = NULL /\ t # NULL
      /\ UNCHANGED <<entries, async_msg, mail, sem, owed>>
      /\ MailTyped /\ MailPlaced /\ NoneSuits /\ SignalsDue /\ \A u \in Threads : InMail(u)
  BY Constants DEF k_mbox_put, Ready, Free, mboxVars, MboxInv
<1>2. Calm /\ TxPrio' = TxPrio
  BY <1>1, SameRanks DEF Calm, TxPrio
<1>3. Has(t) = NULL /\ Fills(t) = NULL /\ mail[t].step = "none"
  BY <1>1, NoMailYet
<1>4. MailTyped' /\ Givers' = Givers
  BY <1>1 DEF MailTyped, Givers
<1>5. \A m \in Descs : Source(m)' = Source(m) /\ Target(m)' = Target(m)
  BY <1>1 DEF Source, Target
<1>6. CASE Receiver(t, target) # NULL
  <2>2. PICK r \in Threads : r = Receiver(t, target) /\ r \in Members(waitq["rx"])
    BY <1>6, ReceiverFound
  <2>1. /\ Unpend("rx", r) /\ firing' = firing
        /\ thr' = [thr EXCEPT ![r] = Woken(r, 0, t), ![t] = [Idle EXCEPT !.at = "matched", !.op = "send"]]
    BY <1>6, <2>2 DEF k_mbox_put
  <2>3. thr[r].at = "pended" /\ r # t /\ t \in Msgs
    BY <1>1, <2>2, Waiters DEF WaitQueues, Msgs
  <2>4. /\ thr'[r] = Woken(r, 0, t) /\ thr'[t] = [Idle EXCEPT !.at = "matched", !.op = "send"]
        /\ \A u \in Threads \ {r, t} : thr'[u] = thr[u]
    BY <2>1, <2>2, <2>3 DEF PendInv, ThreadsTyped
  <2>5. Woken(r, 0, t) \in Thread /\ thr \in [Threads -> Thread]
    BY <2>2, <2>3, DataTypes, WokenFields DEF PendInv, ThreadsTyped
  <2>6. thr'[t].at = "matched" /\ thr'[t].op = "send" /\ ~thr'[t].armed /\ thr'[t] \in Thread
    BY <2>4 DEF Idle, Thread, Data
  <2>7. thr' \in [Threads -> Thread]
    BY <2>1, <2>4, <2>5, <2>6
  <2>8. \A u \in Threads \ {r} : Stays(u) /\ Carries(u)'
    <3>1. \A u \in Threads \ {r, t} : Stays(u) /\ Carries(u)'
      BY <2>4, CarryKept DEF Stays, PendInv, AllCarry
    <3>2. Stays(t) /\ Carries(t)'
      BY <1>1, <2>6 DEF Stays, Carries
    <3> QED
      BY <3>1, <3>2
  <2>9. /\ PendInv' /\ thr'[r].at = "done"
        /\ Members(waitq'["rx"]) = Members(waitq["rx"]) \ {r}
        /\ \A p \in WaitQueues \ {"rx"} : waitq'[p] = waitq[p]
        /\ Has(r) = NULL /\ Fills(r) = NULL /\ Has(r)' = t /\ Fills(r)' = NULL /\ InMail(r)'
    BY <1>1, <1>2, <2>1, <2>2, <2>3, <2>4, <2>7, <2>8, ReceiverWoken
  <2>10. /\ \A u \in Threads \ {r, t} : Has(u)' = Has(u) /\ Fills(u)' = Fills(u) /\ InMail(u)'
    BY <1>1, <2>4, MailSame
  <2>11. Has(t)' = NULL /\ Fills(t)' = NULL /\ InMail(t)'
    BY <1>1, <1>3, <2>6 DEF Has, Fills, InMail
  <2>12. waitq'["tx"] = waitq["tx"] /\ \A s \in Stacks : waitq'[s] = waitq[s]
    BY <2>9 DEF WaitQueues, Stacks
  <2>13. StacksInv'
    BY <1>1, <2>12, StacksKept
  <2>14. \A u \in Threads : Has(u) # t
    BY <1>1 DEF MailPlaced
  <2>15. t \notin Descs
    BY Constants
  <2>16. HandedTo(r, t)
    <3>1. \A u \in Threads : Fills(u) # t
      BY <1>1, <1>3, Constants DEF Fills, InMail
    <3>2. t \notin Members(entries["async"])
      BY <1>1, <2>15 DEF MailTyped, Members
    <3>3. \A m \in Threads : thr'[m].at = "matched" <=> (m = t \/ thr[m].at = "matched")
      BY <2>3, <2>4, <2>6, <2>9
    <3>4. \A u \in Threads : Fills(u)' = Fills(u)
      BY <1>3, <2>9, <2>10, <2>11
    <3>5. \A u \in Threads \ {r} : Has(u)' = Has(u)
      BY <1>3, <2>10, <2>11
    <3> QED
      BY <1>1, <2>9, <2>12, <2>14, <2>15, <3>1, <3>2, <3>3, <3>4, <3>5 DEF HandedTo
  <2>17. MailPlaced'
    BY <1>1, <2>2, <2>3, <2>16, HandOver
  <2>18. NoneSuits'
    <3>1. \A m \in Members(waitq["tx"]) : m \in Msgs /\ (m \in Threads => thr'[m] = thr[m])
      <4>1. \A m \in Members(waitq["tx"]) : m \in Msgs
        BY DEF PendInv, QueuesLinked, WaitQueues, Members
      <4>2. \A m \in Members(waitq["tx"]) : m \in Threads => thr[m].at = "pended" /\ thr[m].q = "tx"
        BY DEF PendInv, QueuesLinked, WaitQueues
      <4>3. thr[r].q = "rx"
        BY <2>2, Waiters DEF WaitQueues
      <4> QED
        BY <1>1, <2>4, <4>1, <4>2, <4>3
    <3>2. \A m \in Members(waitq["tx"]) : Source(m)' = Source(m) /\ Target(m)' = Target(m)
      BY <1>1, <3>1 DEF Source, Target, Msgs
    <3>3. \A x \in Members(waitq'["rx"]) : x \in Members(waitq["rx"]) /\ thr'[x].data = thr[x].data
      <4>1. \A x \in Members(waitq["rx"]) : x \in Threads /\ thr[x].at = "pended"
        BY Waiters DEF WaitQueues
      <4> QED
        BY <1>1, <2>4, <2>9, <4>1
    <3> QED
      BY <1>1, <2>12, <3>2, <3>3, StillNoneSuits
  <2>19. SignalsDue'
    <3>1. Signals' = Signals
      <4>1. \A d \in Descs : (\E u \in Threads : Has(u)' = d) <=> (\E u \in Threads : Has(u) = d)
        BY <1>3, <2>9, <2>10, <2>11, <2>15, Constants
      <4> QED
        BY <1>1, <2>12, <4>1 DEF Signals
    <3> QED
      BY <1>1, <1>4, <3>1 DEF SignalsDue
  <2>20. \A u \in Threads : InMail(u)'
    BY <2>9, <2>10, <2>11
  <2> QED
    BY <1>4, <2>9, <2>13, <2>17, <2>18, <2>19, <2>20 DEF MboxInv
<1>7. CASE Receiver(t, target) = NULL /\ timeout = "no_wait"
  <2>1. NobodyMoves /\ firing' = firing
    BY <1>7 DEF k_mbox_put
  <2>2. PendInv' /\ StacksInv'
    BY <1>1, <1>2, <2>1, NobodyMovesSafe, StacksKept DEF NobodyMoves
  <2>3. \A u \in Threads : Has(u)' = Has(u) /\ Fills(u)' = Fills(u) /\ InMail(u)'
    BY <1>1, <2>1, MailSame DEF NobodyMoves
  <2>4. MailStays
    BY <1>1, <2>1, <2>3 DEF MailStays, NobodyMoves
  <2>5. MailPlaced' /\ SignalsDue'
    BY <1>1, <1>4, <2>4, MailKept DEF SignalsDue
  <2>6. NoneSuits'
    BY <1>1, <2>1 DEF NoneSuits, NobodyMoves, Source, Target, mbox_message_match
  <2> QED
    BY <1>4, <2>2, <2>3, <2>5, <2>6 DEF MboxInv
<1>8. CASE Receiver(t, target) = NULL /\ timeout # "no_wait"
  <2>0. PICK timed \in BOOLEAN : timed = (timeout = "some")
    OBVIOUS
  <2>1. PendBy(TxPrio, t, "tx", "send", target, timed)
    BY <1>8, <2>0 DEF k_mbox_put
  <2>2. /\ "tx" \in WaitQueues /\ "send" \in {"get", "put", "send"} /\ target \in Data
        /\ used = KindOf("tx") /\ used = "mbox"
        /\ ("tx" # "tx" => TxPrio = Prio) /\ ("tx" = "tx" => TxPrio = TxPrio')
    BY <1>2, DataTypes DEF WaitQueues, KindOf, Msgs
  <2>3. /\ PendInv'
        /\ thr'[t] = [at |-> "pended", op |-> "send", q |-> "tx", data |-> target, ret |-> EAGAIN, armed |-> timed]
        /\ \A u \in Threads \ {t} : thr'[u] = thr[u]
        /\ Members(waitq'["tx"]) = Members(waitq["tx"]) \cup {t}
        /\ \A p \in WaitQueues \ {"tx"} : waitq'[p] = waitq[p]
    <3>1. used # "mbox" => \/ "send" = "get" /\ target = NULL
                           \/ used = "msgq" /\ "send" = "put" /\ target \in Items
      BY <2>2
    <3> QED
      BY <1>1, <1>2, <2>1, <2>2, <3>1, PendSafe
  <2>4. \A u \in Threads \ {t} : Has(u)' = Has(u) /\ Fills(u)' = Fills(u) /\ InMail(u)'
    BY <1>1, <2>3, MailSame
  <2>5. Has(t)' = NULL /\ Fills(t)' = NULL /\ InMail(t)' /\ thr'[t].at = "pended"
    BY <1>1, <1>3, <2>3 DEF Has, Fills, InMail
  <2>6. StacksInv'
    BY <1>1, <2>3, StacksKept DEF Stacks, WaitQueues
  <2>7. MailStays
    BY <1>1, <1>3, <2>3, <2>4, <2>5, Constants DEF MailStays
  <2>8. MailPlaced' /\ SignalsDue'
    BY <1>1, <1>4, <2>7, MailKept DEF SignalsDue
  <2>9. NoneSuits'
    <3>1. waitq'["rx"] = waitq["rx"]
      BY <2>3 DEF WaitQueues
    <3>2. \A x \in Members(waitq["rx"]) : x \in Threads /\ thr'[x].data = thr[x].data
      <4>1. \A x \in Members(waitq["rx"]) : x \in Threads /\ thr[x].at = "pended"
        BY Waiters DEF WaitQueues
      <4> QED
        BY <1>1, <2>3, <4>1
    <3>3. Source(t)' = t /\ Target(t)' = target
      BY <2>3, Constants DEF Source, Target
    <3>4. \A m \in Members(waitq["tx"]) : Source(m)' = Source(m) /\ Target(m)' = Target(m)
      <4>1. \A m \in Members(waitq["tx"]) : m \in Msgs
        BY DEF PendInv, QueuesLinked, WaitQueues, Members
      <4>2. \A m \in Members(waitq["tx"]) : m \in Threads => thr[m].at = "pended"
        BY DEF PendInv, QueuesLinked, WaitQueues
      <4> QED
        BY <1>1, <2>3, <4>1, <4>2 DEF Source, Target, Msgs
    <3>5. \A x \in Members(waitq["rx"]) : ~mbox_message_match(t, target, x, thr[x].data)
      BY <1>8, ReceiverFound
    <3> SUFFICES ASSUME NEW m \in Members(waitq'["tx"]), NEW x \in Members(waitq["rx"])
                 PROVE  ~mbox_message_match(Source(m)', Target(m)', x, thr'[x].data)
      BY <3>1 DEF NoneSuits, mbox_message_match
    <3>6. CASE m = t
      BY <3>2, <3>3, <3>5, <3>6 DEF mbox_message_match
    <3>7. CASE m # t
      <4>1. m \in Members(waitq["tx"])
        BY <2>3, <3>7
      <4>2. ~mbox_message_match(Source(m), Target(m), x, thr[x].data)
        BY <1>1, <4>1 DEF NoneSuits
      <4> QED
        BY <3>2, <3>4, <4>1, <4>2 DEF mbox_message_match
    <3> QED
      BY <3>6, <3>7
  <2> QED
    BY <1>4, <2>3, <2>4, <2>5, <2>6, <2>8, <2>9 DEF MboxInv
<1> QED
  BY <1>6, <1>7, <1>8

LEMMA MailGetStep ==
  ASSUME PendInv, StacksInv, MboxInv, used = "mbox", used' = used, NEW t \in Threads,
         NEW want \in Threads \cup {ANY}, NEW timeout \in {"no_wait", "some", "forever"},
         k_mbox_get(t, want, timeout)
  PROVE  PendInv' /\ StacksInv' /\ MboxInv'
<1>1. /\ Ready(t) /\ Free(t) /\ want # t /\ thr[t].at = "idle" /\ firing = NULL /\ t # NULL
      /\ UNCHANGED <<entries, async_msg, sem, owed>>
      /\ MailTyped /\ MailPlaced /\ NoneSuits /\ SignalsDue /\ \A u \in Threads : InMail(u)
  BY Constants DEF k_mbox_get, Ready, Free, MboxInv
<1>2. Calm
  BY <1>1, SameRanks DEF Calm
<1>3. Has(t) = NULL /\ Fills(t) = NULL /\ mail[t].step = "none"
  BY <1>1, NoMailYet
<1>4. /\ \A m \in Members(waitq["tx"]) : m \in Msgs
      /\ \A m \in Members(waitq["tx"]) : m \in Threads => thr[m].at = "pended" /\ thr[m].q = "tx"
      /\ \A r \in Members(waitq["rx"]) : r \in Threads /\ thr[r].at = "pended" /\ thr[r].q = "rx"
  <2>1. "tx" \in WaitQueues /\ "rx" \in WaitQueues \ {"tx"}
    BY DEF WaitQueues
  <2>2. \A m \in Members(waitq["tx"]) : m \in Msgs
    BY <2>1 DEF PendInv, QueuesLinked, Members
  <2> QED
    BY <2>1, <2>2, Waiters DEF PendInv, QueuesLinked
<1>5. CASE Sender(t, want) # NULL
  <2>1. PICK m \in Msgs : m = Sender(t, want) /\ m \in Members(waitq["tx"])
    BY <1>5, SenderFound
  <2>2. /\ Unpend("tx", m) /\ firing' = firing
        /\ thr' = [s \in Threads |->
                     IF s = m THEN [thr[s] EXCEPT !.at = "matched", !.armed = FALSE] ELSE thr[s]]
        /\ mail' = [mail EXCEPT ![t] = [step |-> "got", msg |-> m]]
    BY <1>5, <2>1 DEF k_mbox_get
  <2>3. m # t /\ m # NULL
    BY <1>1, <1>4, <2>1, Constants
  <2>4. \A u \in Threads \ {m} : thr'[u] = thr[u]
    BY <2>2
  <2>5. /\ mail'[t] = [step |-> "got", msg |-> m] /\ \A u \in Threads \ {t} : mail'[u] = mail[u]
        /\ mail' \in [Threads -> [step : {"none", "put", "got", "give"}, msg : Msgs \cup {NULL}]]
    BY <1>1, <2>2 DEF MailTyped
  <2>6. ASSUME m \in Threads
        PROVE  /\ thr'[m].at = "matched" /\ thr'[m].op = thr[m].op /\ thr'[m].q = thr[m].q
               /\ ~thr'[m].armed /\ thr'[m] \in Thread /\ thr[m].at = "pended" /\ thr[m].op = "send"
    <3>1. thr[m] \in Thread /\ thr'[m] = [thr[m] EXCEPT !.at = "matched", !.armed = FALSE]
      BY <2>2, <2>6 DEF PendInv, ThreadsTyped
    <3>2. thr[m].at = "pended" /\ thr[m].q = "tx"
      BY <1>4, <2>1, <2>6
    <3>3. thr[m].op = "send"
      BY <1>1, <2>6, <3>2 DEF InMail
    <3> QED
      BY <3>1, <3>2, <3>3 DEF Thread
  <2>7. ThreadsTyped'
    <3>1. \A u \in Threads : thr'[u] \in Thread
      BY <2>4, <2>6 DEF PendInv, ThreadsTyped
    <3>2. thr' = [u \in Threads |-> thr'[u]]
      BY <2>2
    <3> QED
      BY <1>1, <2>2, <3>1, <3>2 DEF ThreadsTyped
  <2>8. \A u \in Threads : Carries(u)'
    <3>1. \A u \in Threads \ {m} : Carries(u)'
      BY <2>4, CarryKept DEF PendInv, AllCarry
    <3>2. m \in Threads => Carries(m)'
      BY <2>6 DEF Carries
    <3> QED
      BY <3>1, <3>2
  <2>9. /\ QueuesLinked' /\ Members(waitq'["tx"]) = Members(waitq["tx"]) \ {m}
        /\ \A p \in WaitQueues \ {"tx"} : waitq'[p] = waitq[p]
    <3>1. /\ QueuesLinked /\ RanksKept /\ used' = used /\ "tx" \in WaitQueues
          /\ waitq' = [waitq EXCEPT !["tx"] = z_priq_dumb_remove(@, m)]
      BY <1>2, <2>2 DEF PendInv, Calm, Unpend, WaitQueues
    <3>2. \A u \in Threads \ {m} : Stays(u)
      BY <2>4 DEF Stays
    <3>3. m \in Threads => thr'[m].at # "pended"
      BY <2>6
    <3> QED
      BY <2>1, <3>1, <3>2, <3>3, UnlinkOne
  <2>10. PendInv'
    BY <1>1, <2>2, <2>7, <2>8, <2>9 DEF PendInv, AllCarry
  <2>11. \A u \in Threads \ {m, t} : Has(u)' = Has(u) /\ Fills(u)' = Fills(u) /\ InMail(u)'
    BY <1>1, <2>4, <2>5, MailSame
  <2>12. /\ Has(t)' = m /\ Fills(t)' = NULL /\ InMail(t)'
    BY <1>1, <2>3, <2>4, <2>5 DEF Has, Fills, InMail
  <2>13. m \in Threads => Has(m)' = NULL /\ Fills(m)' = NULL /\ InMail(m)' /\ Has(m) = NULL /\ Fills(m) = NULL
    <3> SUFFICES ASSUME m \in Threads PROVE Has(m)' = NULL /\ Fills(m)' = NULL /\ InMail(m)' /\ Has(m) = NULL /\ Fills(m) = NULL
      OBVIOUS
    <3>1. mail'[m] = mail[m] /\ mail[m].step = "none" /\ mail[m].msg = NULL /\ Has(m) = NULL /\ Fills(m) = NULL
      BY <1>1, <2>3, <2>5, <2>6, NoMailYet DEF InMail
    <3> QED
      BY <2>6, <3>1 DEF Has, Fills, InMail
  <2>14. \A u \in Threads \ {t} : Has(u)' = Has(u)
    BY <2>11, <2>13
  <2>15. \A u \in Threads : Fills(u)' = Fills(u) /\ InMail(u)'
    BY <1>3, <2>11, <2>12, <2>13
  <2>16. \A u \in Threads : Has(u) # m /\ Fills(u) # m
    <3>1. CASE m \in Threads
      <4>1. \A u \in Threads : Has(u) # m
        BY <1>1, <2>6, <3>1 DEF MailPlaced
      <4>2. \A u \in Threads : Fills(u) # m
        BY <1>1, <3>1, Constants DEF Fills, InMail
      <4> QED
        BY <4>1, <4>2
    <3>2. CASE m \in Descs
      BY <1>1, <2>1, <3>2 DEF MailPlaced
    <3> QED
      BY <3>1, <3>2 DEF Msgs
  <2>17. HandedTo(t, m)
    <3>1. m \notin Members(entries["async"])
      <4>1. CASE m \in Descs
        BY <1>1, <2>1, <4>1 DEF MailPlaced
      <4>2. CASE m \in Threads
        BY <1>1, <4>2, Constants DEF MailTyped, Members
      <4> QED
        BY <4>1, <4>2 DEF Msgs
    <3>2. \A u \in Threads : thr'[u].at = "matched" <=> (u = m \/ thr[u].at = "matched")
      BY <2>4, <2>6
    <3>3. \A d \in Descs : d \in Members(waitq'["tx"]) <=> d \in Members(waitq["tx"]) /\ d # m
      BY <2>9
    <3> QED
      BY <1>1, <1>3, <2>12, <2>14, <2>15, <2>16, <3>1, <3>2, <3>3 DEF HandedTo
  <2>18. MailPlaced'
    BY <1>1, <2>17, HandOver
  <2>19. MailTyped' /\ Givers' = Givers
    <3>1. Givers' = Givers
      BY <1>3, <2>5 DEF Givers
    <3>2. MailTyped'
      BY <1>1, <2>5 DEF MailTyped
    <3> QED
      BY <3>1, <3>2
  <2>20. SignalsDue'
    <3>1. \A d \in Descs : (d \in Members(waitq'["tx"]) \/ \E u \in Threads : Has(u)' = d)
                           <=> (d \in Members(waitq["tx"]) \/ \E u \in Threads : Has(u) = d)
      <4> TAKE d \in Descs
      <4>1. CASE d = m
        BY <2>1, <2>12, <4>1
      <4>2. CASE d # m
        <5>1. \A u \in Threads : Has(u)' = d <=> Has(u) = d
          BY <1>3, <2>12, <2>14, <4>2, Constants
        <5> QED
          BY <2>9, <4>2, <5>1
      <4> QED
        BY <4>1, <4>2
    <3>2. Signals' = Signals
      BY <1>1, <3>1 DEF Signals
    <3> QED
      BY <1>1, <2>19, <3>2 DEF SignalsDue
  <2>21. NoneSuits'
    <3>1. \A x \in Members(waitq'["tx"]) :
            x \in Members(waitq["tx"]) /\ Source(x)' = Source(x) /\ Target(x)' = Target(x)
      BY <1>1, <1>4, <2>4, <2>9 DEF Source, Target, Msgs
    <3>2. \A r \in Members(waitq'["rx"]) : r \in Members(waitq["rx"]) /\ thr'[r].data = thr[r].data
      <4>1. waitq'["rx"] = waitq["rx"]
        BY <2>9 DEF WaitQueues
      <4>2. \A r \in Members(waitq["rx"]) : r # m
        BY <1>4, <2>1
      <4> QED
        BY <1>4, <2>4, <4>1, <4>2
    <3> QED
      BY <1>1, <3>1, <3>2, StillNoneSuits
  <2>22. StacksInv'
    BY <1>1, <2>9, StacksKept DEF Stacks, WaitQueues
  <2> QED
    BY <2>10, <2>15, <2>18, <2>19, <2>20, <2>21, <2>22 DEF MboxInv
<1>6. CASE Sender(t, want) = NULL /\ timeout = "no_wait"
  <2>1. NobodyMoves /\ firing' = firing /\ mail' = mail
    BY <1>6 DEF k_mbox_get
  <2>2. PendInv' /\ StacksInv'
    BY <1>1, <1>2, <2>1, NobodyMovesSafe, StacksKept DEF NobodyMoves
  <2>3. \A u \in Threads : Has(u)' = Has(u) /\ Fills(u)' = Fills(u) /\ InMail(u)'
    BY <1>1, <2>1, MailSame DEF NobodyMoves
  <2>4. MailStays
    BY <1>1, <2>1, <2>3 DEF MailStays, NobodyMoves
  <2>5. MailTyped' /\ Givers' = Givers
    BY <1>1, <2>1 DEF MailTyped, Givers
  <2>6. MailPlaced' /\ SignalsDue'
    BY <1>1, <2>4, <2>5, MailKept DEF SignalsDue
  <2>7. NoneSuits'
    BY <1>1, <2>1 DEF NoneSuits, NobodyMoves, Source, Target, mbox_message_match
  <2> QED
    BY <2>2, <2>3, <2>5, <2>6, <2>7 DEF MboxInv
<1>7. CASE Sender(t, want) = NULL /\ timeout # "no_wait"
  <2>0. PICK timed \in BOOLEAN : timed = (timeout = "some")
    OBVIOUS
  <2>1. PendOn(t, "rx", "get", want, timed) /\ mail' = mail
    BY <1>7, <2>0 DEF k_mbox_get
  <2>2. /\ "rx" \in WaitQueues \ {"tx"} /\ "get" \in {"get", "put", "send"} /\ want \in Data
        /\ used = KindOf("rx") /\ used = "mbox"
        /\ used # "mbox" => \/ "get" = "get" /\ want = NULL
                            \/ used = "msgq" /\ "get" = "put" /\ want \in Items
    BY DataTypes DEF WaitQueues, KindOf, Msgs
  <2>3. /\ PendInv'
        /\ thr'[t] = [at |-> "pended", op |-> "get", q |-> "rx", data |-> want, ret |-> EAGAIN, armed |-> timed]
        /\ \A u \in Threads \ {t} : thr'[u] = thr[u]
        /\ Members(waitq'["rx"]) = Members(waitq["rx"]) \cup {t}
        /\ \A p \in WaitQueues \ {"rx"} : waitq'[p] = waitq[p]
    BY <1>1, <1>2, <2>1, <2>2, PendOnSafe
  <2>4. \A u \in Threads \ {t} : Has(u)' = Has(u) /\ Fills(u)' = Fills(u) /\ InMail(u)'
    BY <1>1, <2>1, <2>3, MailSame
  <2>5. Has(t)' = NULL /\ Fills(t)' = NULL /\ InMail(t)' /\ thr'[t].at = "pended"
    BY <1>1, <1>3, <2>1, <2>3 DEF Has, Fills, InMail
  <2>6. StacksInv' /\ waitq'["tx"] = waitq["tx"]
    BY <1>1, <2>3, StacksKept DEF Stacks, WaitQueues
  <2>7. MailStays
    BY <1>1, <1>3, <2>3, <2>4, <2>5, <2>6 DEF MailStays
  <2>8. MailTyped' /\ Givers' = Givers
    BY <1>1, <2>1 DEF MailTyped, Givers
  <2>9. MailPlaced' /\ SignalsDue'
    BY <1>1, <2>7, <2>8, MailKept DEF SignalsDue
  <2>10. NoneSuits'
    <3>1. \A m \in Members(waitq["tx"]) : Source(m)' = Source(m) /\ Target(m)' = Target(m)
      BY <1>1, <1>4, <2>3 DEF Source, Target, Msgs
    <3>2. \A m \in Members(waitq["tx"]) : ~mbox_message_match(Source(m), Target(m), t, want)
      BY <1>7, SenderFound
    <3> SUFFICES ASSUME NEW m \in Members(waitq["tx"]), NEW x \in Members(waitq'["rx"])
                 PROVE  ~mbox_message_match(Source(m)', Target(m)', x, thr'[x].data)
      BY <2>6 DEF NoneSuits, mbox_message_match
    <3>3. CASE x = t
      BY <2>3, <3>1, <3>2, <3>3 DEF mbox_message_match
    <3>4. CASE x # t
      <4>1. x \in Members(waitq["rx"]) /\ thr'[x] = thr[x]
        BY <1>4, <2>3, <3>4
      <4>2. ~mbox_message_match(Source(m), Target(m), x, thr[x].data)
        BY <1>1, <4>1 DEF NoneSuits
      <4> QED
        BY <3>1, <4>1, <4>2 DEF mbox_message_match
    <3> QED
      BY <3>3, <3>4
  <2> QED
    BY <2>3, <2>4, <2>5, <2>6, <2>8, <2>9, <2>10 DEF MboxInv
<1> QED
  BY <1>5, <1>6, <1>7

LEMMA FrontLinks ==
  ASSUME NEW T, NEW s \in Seq(T), s # <<>>, Distinct(s)
  PROVE  LET n == Len(s)
             f == SubSeq(s, 1, n - 1)
         IN  /\ s[n] \in T /\ s[n] \in Members(s) /\ f \in Seq(T) /\ Distinct(f)
             /\ Members(f) = Members(s) \ {s[n]}
<1> DEFINE n == Len(s)
           f == SubSeq(s, 1, n - 1)
<1>1. n \in Nat /\ n >= 1
  BY EmptySeq
<1>2. \A i \in 1 .. n : s[i] \in T
  BY ElementOfSeq
<1>3. /\ f \in Seq(T) /\ Len(f) = n - 1
      /\ \A i \in 1 .. n - 1 : f[i] = s[i]
  <2>1. \A i \in 1 .. n - 1 : s[i] \in T
    BY <1>1, <1>2
  <2>2. /\ f \in Seq(T) /\ Len(f) = IF 1 <= n - 1 THEN n - 1 - 1 + 1 ELSE 0
        /\ \A i \in 1 .. n - 1 - 1 + 1 : f[i] = s[1 + i - 1]
    BY <1>1, <2>1, SubSeqProperties
  <2> HIDE DEF n, f
  <2> QED
    BY <1>1, <2>2
<1>4. n \in 1 .. Len(s) /\ \A i \in 1 .. Len(s) : i = n \/ i \in 1 .. n - 1
  BY <1>1
<1>5. \A i \in 1 .. n - 1 : i \in 1 .. Len(s) /\ i # n
  BY <1>1
<1> HIDE DEF f, n
<1>6. Distinct(f)
  BY <1>3, <1>5 DEF Distinct
<1>7. Members(f) \subseteq Members(s) \ {s[n]}
  BY <1>3, <1>4, <1>5 DEF Members, Distinct
<1>8. Members(s) \ {s[n]} \subseteq Members(f)
  BY <1>3, <1>4 DEF Members
<1>9. s[n] \in T /\ s[n] \in Members(s)
  BY <1>2, <1>4 DEF Members, n
<1> QED
  BY <1>3, <1>6, <1>7, <1>8, <1>9 DEF f, n

LEMMA AllocDescStep ==
  ASSUME PendInv, StacksInv, MboxInv, used = "mbox", used' = used, NEW t \in Threads, mbox_async_alloc(t)
  PROVE  PendInv' /\ StacksInv' /\ MboxInv'
<1>1. /\ Ready(t) /\ Free(t) /\ thr[t].at = "idle" /\ firing = NULL /\ t # NULL
      /\ UNCHANGED <<async_msg, sem, owed>>
      /\ MailTyped /\ MailPlaced /\ NoneSuits /\ SignalsDue /\ \A u \in Threads : InMail(u)
  BY Constants DEF mbox_async_alloc, Ready, Free, MboxInv
<1>2. Calm /\ "async" \in Stacks /\ used = KindOf("async")
  BY <1>1, SameRanks DEF Calm, Stacks, KindOf
<1>3. Has(t) = NULL /\ Fills(t) = NULL /\ mail[t].step = "none"
  BY <1>1, NoMailYet
<1>4. CASE entries["async"] # <<>> /\ k_stack_pop("async")
           /\ mail' = [mail EXCEPT ![t] = [step |-> "put", msg |-> entries["async"][Len(entries["async"])]]]
  <2>1. PICK d : d = entries["async"][Len(entries["async"])]
    OBVIOUS
  <2>2. NobodyMoves /\ entries' = [entries EXCEPT !["async"] = SubSeq(@, 1, Len(@) - 1)]
    BY <1>4 DEF k_stack_pop
  <2>3. entries'["async"] = SubSeq(entries["async"], 1, Len(entries["async"]) - 1)
    BY <1>2, <2>2 DEF StacksInv
  <2>4. /\ d \in Descs /\ d \in Members(entries["async"])
        /\ entries'["async"] \in Seq(Descs) /\ Distinct(entries'["async"])
        /\ Members(entries'["async"]) = Members(entries["async"]) \ {d}
    <3>1. entries["async"] \in Seq(Descs) /\ Distinct(entries["async"])
      BY <1>1 DEF MailTyped
    <3> QED
      BY <1>4, <2>1, <2>3, <3>1, FrontLinks
  <2>5. PendInv' /\ StacksInv'
    BY <1>1, <1>2, <1>4, PopStep
  <2>6. /\ mail'[t] = [step |-> "put", msg |-> d] /\ \A u \in Threads \ {t} : mail'[u] = mail[u]
        /\ mail' \in [Threads -> [step : {"none", "put", "got", "give"}, msg : Msgs \cup {NULL}]]
    BY <1>1, <1>4, <2>1, <2>4 DEF MailTyped, Msgs
  <2>7. \A u \in Threads \ {t} : Has(u)' = Has(u) /\ Fills(u)' = Fills(u) /\ InMail(u)'
    BY <1>1, <2>2, <2>6, MailSame DEF NobodyMoves
  <2>8. Has(t)' = NULL /\ Fills(t)' = d /\ InMail(t)'
    BY <1>1, <2>2, <2>4, <2>6 DEF Has, Fills, InMail, NobodyMoves
  <2>9. MailTyped'
    BY <1>1, <2>4, <2>6 DEF MailTyped
  <2>10. MailPlaced'
    <3>1. \A u \in Threads : Has(u)' = Has(u)
      BY <1>3, <2>7, <2>8
    <3>2. \A u \in Threads : Fills(u) # d /\ Has(u) # d
      BY <1>1, <2>4 DEF MailPlaced
    <3>3. d \notin Members(waitq["tx"]) /\ d # NULL
      BY <1>1, <2>4, Constants DEF MailPlaced
    <3>4. \A x, y \in Threads : Fills(x)' = Fills(y)' /\ Fills(x)' # NULL => x = y
      BY <1>1, <2>7, <2>8, <3>2 DEF MailPlaced
    <3>5. waitq' = waitq /\ thr' = thr
      BY <2>2 DEF NobodyMoves
    <3>6. ASSUME NEW e \in Descs
          PROVE  /\ \/ e \in Members(entries'["async"]) \/ e \in Members(waitq'["tx"])
                    \/ \E x \in Threads : Has(x)' = e \/ Fills(x)' = e
                 /\ ~ (e \in Members(entries'["async"]) /\ e \in Members(waitq'["tx"]))
                 /\ e \in Members(entries'["async"]) \cup Members(waitq'["tx"]) =>
                      \A x \in Threads : Has(x)' # e /\ Fills(x)' # e
                 /\ \A x, u \in Threads : ~ (Has(x)' = e /\ Fills(u)' = e)
      <4>1. CASE e = d
        BY <2>4, <2>8, <3>1, <3>2, <3>3, <3>5, <4>1
      <4>2. CASE e # d
        <5>1. \A u \in Threads : Fills(u)' = e <=> Fills(u) = e
          BY <1>3, <2>7, <2>8, <4>2, Constants
        <5> QED
          BY <1>1, <2>4, <3>1, <3>5, <4>2, <5>1 DEF MailPlaced
      <4> QED
        BY <4>1, <4>2
    <3> QED
      BY <1>1, <3>1, <3>4, <3>5, <3>6 DEF MailPlaced
  <2>11. SignalsDue'
    <3>1. Givers' = Givers
      BY <1>3, <2>6 DEF Givers
    <3>2. \A u \in Threads : Has(u)' = Has(u)
      BY <1>3, <2>7, <2>8
    <3>3. Signals' = Signals
      BY <1>1, <2>2, <3>2 DEF Signals, NobodyMoves
    <3> QED
      BY <1>1, <3>1, <3>3 DEF SignalsDue
  <2>12. NoneSuits'
    BY <1>1, <2>2 DEF NoneSuits, NobodyMoves, Source, Target, mbox_message_match
  <2> QED
    BY <2>5, <2>7, <2>8, <2>9, <2>10, <2>11, <2>12 DEF MboxInv
<1>5. CASE k_stack_pop_wait(t, "async", FALSE) /\ mail' = mail
  <2>1. /\ PendInv' /\ StacksInv' /\ entries' = entries
        /\ thr'[t] = [at |-> "pended", op |-> "get", q |-> "async", data |-> NULL, ret |-> EAGAIN, armed |-> FALSE]
        /\ \A u \in Threads \ {t} : thr'[u] = thr[u]
        /\ \A p \in WaitQueues \ {"async"} : waitq'[p] = waitq[p]
    BY <1>1, <1>2, <1>5, PopWaitStep
  <2>2. waitq'["tx"] = waitq["tx"] /\ waitq'["rx"] = waitq["rx"]
    BY <2>1 DEF WaitQueues
  <2>3. \A u \in Threads \ {t} : Has(u)' = Has(u) /\ Fills(u)' = Fills(u) /\ InMail(u)'
    BY <1>1, <1>5, <2>1, MailSame
  <2>4. Has(t)' = NULL /\ Fills(t)' = NULL /\ InMail(t)' /\ thr'[t].at = "pended"
    BY <1>1, <1>3, <1>5, <2>1 DEF Has, Fills, InMail
  <2>5. MailStays
    BY <1>1, <1>3, <2>1, <2>2, <2>3, <2>4 DEF MailStays
  <2>6. MailTyped' /\ Givers' = Givers
    BY <1>1, <1>5, <2>1 DEF MailTyped, Givers
  <2>7. MailPlaced' /\ SignalsDue'
    BY <1>1, <2>5, <2>6, MailKept DEF SignalsDue
  <2>8. NoneSuits'
    <3>1. /\ \A m \in Members(waitq["tx"]) : m \in Msgs /\ m # t
          /\ \A r \in Members(waitq["rx"]) : r \in Threads /\ r # t
      <4>1. /\ \A m \in Members(waitq["tx"]) : m \in Msgs
            /\ \A r \in Members(waitq["rx"]) : r \in Threads
        BY DEF PendInv, QueuesLinked, WaitQueues, Members
      <4> QED
        BY <1>1, <4>1 DEF PendInv, QueuesLinked, WaitQueues
    <3>2. \A m \in Members(waitq'["tx"]) :
            m \in Members(waitq["tx"]) /\ Source(m)' = Source(m) /\ Target(m)' = Target(m)
      BY <1>1, <2>1, <2>2, <3>1 DEF Source, Target, Msgs
    <3>3. \A r \in Members(waitq'["rx"]) : r \in Members(waitq["rx"]) /\ thr'[r].data = thr[r].data
      BY <2>1, <2>2, <3>1
    <3> QED
      BY <1>1, <3>2, <3>3, StillNoneSuits
  <2> QED
    BY <2>1, <2>3, <2>4, <2>6, <2>7, <2>8 DEF MboxInv
<1> QED
  BY <1>4, <1>5 DEF mbox_async_alloc

(* A blocked call goes on with what its thread was given.                  *)
LEMMA ResumesStep ==
  ASSUME PendInv, StacksInv, MboxInv, used = "mbox", used' = used, NEW t \in Threads, Resumes(t)
  PROVE  PendInv' /\ StacksInv' /\ MboxInv'
<1>1. /\ Returns(t) /\ UNCHANGED <<entries, async_msg, sem, owed>>
      /\ MailTyped /\ MailPlaced /\ NoneSuits /\ SignalsDue /\ \A u \in Threads : InMail(u)
  BY DEF Resumes, MboxInv
<1>2. Calm
  BY <1>1, SameRanks DEF Calm
<1>3. /\ PendInv' /\ waitq' = waitq /\ thr[t].at = "done"
      /\ thr'[t] = Idle /\ \A u \in Threads \ {t} : thr'[u] = thr[u]
  BY <1>1, <1>2, ReturnsSafe
<1>4. StacksInv'
  BY <1>1, <1>3, StacksKept
<1>5. mail[t].step = "none" /\ mail[t].msg = NULL /\ thr'[t].at = "idle"
  BY <1>1, <1>3 DEF InMail, Idle
<1>6. /\ \A u \in Threads \ {t} : mail'[u] = mail[u]
      /\ \/ /\ thr[t].ret # 0 \/ thr[t].op = "send"
            /\ mail'[t] = NoMail
         \/ /\ thr[t].ret = 0 /\ thr[t].op # "send" /\ thr[t].q = "async"
            /\ mail'[t] = [step |-> "put", msg |-> thr[t].data]
         \/ /\ thr[t].ret = 0 /\ thr[t].op # "send" /\ thr[t].q # "async"
            /\ mail'[t] = [step |-> "got", msg |-> thr[t].data]
      /\ mail' = [u \in Threads |-> mail'[u]]
  <2>1. PICK x : mail' = [mail EXCEPT ![t] = x] /\ x = mail'[t]
    BY <1>1 DEF Resumes, MailTyped
  <2>2. mail' = [u \in Threads |-> mail'[u]] /\ \A u \in Threads \ {t} : mail'[u] = mail[u]
    BY <1>1, <2>1 DEF MailTyped
  <2>3. CASE thr[t].ret # 0 \/ thr[t].op = "send"
    BY <1>1, <2>2, <2>3 DEF Resumes, MailTyped
  <2>4. CASE thr[t].ret = 0 /\ thr[t].op # "send" /\ thr[t].q = "async"
    BY <1>1, <2>2, <2>4 DEF Resumes, MailTyped
  <2>5. CASE thr[t].ret = 0 /\ thr[t].op # "send" /\ thr[t].q # "async"
    BY <1>1, <2>2, <2>5 DEF Resumes, MailTyped
  <2> QED
    BY <2>3, <2>4, <2>5
<1>7. /\ Has(t)' = Has(t) /\ Fills(t)' = Fills(t) /\ InMail(t)'
      /\ mail'[t] \in [step : {"none", "put", "got"}, msg : Msgs \cup {NULL}]
  <2>1. \/ thr[t].op = "send" /\ thr[t].data = NULL
        \/ thr[t].op = "get" /\ thr[t].q = "rx" /\ thr[t].ret = 0 /\ thr[t].data \in Msgs
        \/ thr[t].op = "get" /\ thr[t].q = "async" /\ thr[t].ret = 0 /\ thr[t].data \in Descs
        \/ thr[t].op = "get" /\ thr[t].ret # 0 /\ thr[t].data = NULL
    BY <1>1, <1>3 DEF InMail
  <2>2. \/ mail'[t] = NoMail /\ thr[t].data = NULL
        \/ thr[t].q = "rx" /\ thr[t].ret = 0 /\ thr[t].data \in Msgs
           /\ mail'[t] = [step |-> "got", msg |-> thr[t].data]
        \/ thr[t].q = "async" /\ thr[t].ret = 0 /\ thr[t].data \in Descs
           /\ mail'[t] = [step |-> "put", msg |-> thr[t].data]
    BY <1>6, <2>1
  <2>3. Has(t) = (IF thr[t].q = "rx" /\ thr[t].ret = 0 THEN thr[t].data ELSE NULL)
        /\ Fills(t) = (IF thr[t].q = "async" THEN thr[t].data ELSE NULL)
    BY <1>3, <1>5 DEF Has, Fills
  <2>4. CASE mail'[t] = NoMail /\ thr[t].data = NULL
    BY <1>5, <2>3, <2>4 DEF Has, Fills, InMail, NoMail
  <2>5. CASE thr[t].q = "rx" /\ thr[t].ret = 0 /\ thr[t].data \in Msgs
             /\ mail'[t] = [step |-> "got", msg |-> thr[t].data]
    BY <1>5, <2>3, <2>5 DEF Has, Fills, InMail
  <2>6. CASE thr[t].q = "async" /\ thr[t].ret = 0 /\ thr[t].data \in Descs
             /\ mail'[t] = [step |-> "put", msg |-> thr[t].data]
    BY <1>5, <2>3, <2>6 DEF Has, Fills, InMail, Msgs
  <2> QED
    BY <2>2, <2>4, <2>5, <2>6
<1>8. \A u \in Threads \ {t} : Has(u)' = Has(u) /\ Fills(u)' = Fills(u) /\ InMail(u)'
  BY <1>1, <1>3, <1>6, MailSame
<1>9. MailStays
  BY <1>1, <1>3, <1>5, <1>7, <1>8 DEF MailStays
<1>10. Givers' = Givers
  BY <1>5, <1>6, <1>7 DEF Givers
<1>11. MailTyped'
  <2>1. \A u \in Threads : mail'[u] \in [step : {"none", "put", "got", "give"}, msg : Msgs \cup {NULL}]
    BY <1>1, <1>6, <1>7 DEF MailTyped
  <2> QED
    BY <1>1, <1>6, <2>1 DEF MailTyped
<1>12. MailPlaced' /\ SignalsDue'
  BY <1>1, <1>9, <1>10, MailKept DEF SignalsDue
<1>13. NoneSuits'
  <2>1. /\ \A m \in Members(waitq["tx"]) : m \in Msgs /\ m # t
        /\ \A r \in Members(waitq["rx"]) : r \in Threads /\ r # t
    <3>1. /\ \A m \in Members(waitq["tx"]) : m \in Msgs
          /\ \A r \in Members(waitq["rx"]) : r \in Threads
      BY DEF PendInv, QueuesLinked, WaitQueues, Members
    <3> QED
      BY <1>3, <3>1 DEF PendInv, QueuesLinked, WaitQueues
  <2>2. \A m \in Members(waitq'["tx"]) :
          m \in Members(waitq["tx"]) /\ Source(m)' = Source(m) /\ Target(m)' = Target(m)
    BY <1>1, <1>3, <2>1 DEF Source, Target, Msgs
  <2>3. \A r \in Members(waitq'["rx"]) : r \in Members(waitq["rx"]) /\ thr'[r].data = thr[r].data
    BY <1>3, <2>1
  <2> QED
    BY <1>1, <2>2, <2>3, StillNoneSuits
<1> QED
  BY <1>3, <1>4, <1>7, <1>8, <1>11, <1>12, <1>13 DEF MboxInv

LEMMA TxPrioTypeNext == (MailTyped => TxPrio \in [Msgs -> Int])'
<1>1. MailTyped => TxPrio \in [Msgs -> Int]
  BY TxPrioType
<1> QED
  BY <1>1, PTL

(* A descriptor that stands in no queue is written.                        *)
LEMMA MailRanks ==
  ASSUME PendInv, MailTyped, MailTyped', NEW d \in Descs, d \notin Members(waitq["tx"]),
         \A e \in Descs \ {d} : async_msg'[e] = async_msg[e]
  PROVE  RanksKept
<1>1. TxPrio \in [Msgs -> Int] /\ TxPrio' \in [Msgs -> Int]
  BY TxPrioType, TxPrioTypeNext
<1>2. \A q \in WaitQueues : \A x \in Members(waitq[q]) : x \in Msgs /\ x # d
  <2> TAKE q \in WaitQueues
  <2>1. CASE q = "tx"
    BY <2>1 DEF PendInv, QueuesLinked, Members
  <2>2. CASE q # "tx"
    BY <2>2, Constants DEF PendInv, QueuesLinked, Members, Msgs
  <2> QED
    BY <2>1, <2>2
<1>3. \A x \in Msgs : x # d => TxPrio'[x] = TxPrio[x]
  BY DEF TxPrio, Msgs
<1> QED
  BY <1>1, <1>2, <1>3 DEF RanksKept

LEMMA AsyncPutStep ==
  ASSUME PendInv, StacksInv, MboxInv, used = "mbox", used' = used, NEW t \in Threads,
         NEW target \in Threads \cup {ANY}, NEW signal \in BOOLEAN, k_mbox_async_put(t, target, signal)
  PROVE  PendInv' /\ StacksInv' /\ MboxInv'
<1>1. PICK d : d = mail[t].msg
  OBVIOUS
<1>2. /\ thr[t].at = "idle" /\ firing = NULL /\ firing' = firing /\ mail[t].step = "put" /\ target # t
      /\ signal => owed < SemLimit
      /\ owed' = (IF signal THEN owed + 1 ELSE owed)
      /\ async_msg' = [async_msg EXCEPT ![d] = [source |-> t, target |-> target, prio |-> Prio[t], signal |-> signal]]
      /\ mail' = [mail EXCEPT ![t] = NoMail] /\ UNCHANGED <<entries, sem>>
      /\ MailTyped /\ MailPlaced /\ NoneSuits /\ SignalsDue /\ \A u \in Threads : InMail(u)
  BY <1>1 DEF k_mbox_async_put, Free, MboxInv
<1>3. d \in Descs /\ d \in Msgs /\ d # NULL /\ d \notin Threads /\ Fills(t) = d /\ Has(t) = NULL
  BY <1>1, <1>2, Constants DEF InMail, Fills, Has, Msgs
<1>4. d \notin Members(waitq["tx"]) /\ d \notin Members(entries["async"]) /\ \A u \in Threads : Has(u) # d
  BY <1>2, <1>3 DEF MailPlaced
<1>5. /\ async_msg'[d] = [source |-> t, target |-> target, prio |-> Prio[t], signal |-> signal]
      /\ \A e \in Descs \ {d} : async_msg'[e] = async_msg[e]
      /\ mail'[t] = NoMail /\ \A u \in Threads \ {t} : mail'[u] = mail[u]
  BY <1>2, <1>3 DEF MailTyped
<1>6. MailTyped'
  <2>1. [source |-> t, target |-> target, prio |-> Prio[t], signal |-> signal]
          \in [source : Threads \cup {NULL}, target : Threads \cup {NULL, ANY}, prio : Int, signal : BOOLEAN]
    BY Constants
  <2>2. async_msg' \in [Descs -> [source : Threads \cup {NULL}, target : Threads \cup {NULL, ANY},
                                  prio : Int, signal : BOOLEAN]]
    BY <1>2, <1>3, <2>1 DEF MailTyped
  <2>3. mail' \in [Threads -> [step : {"none", "put", "got", "give"}, msg : Msgs \cup {NULL}]]
    BY <1>2 DEF MailTyped, NoMail
  <2>4. owed' \in Nat /\ owed' <= SemLimit
    BY <1>2, Constants DEF MailTyped
  <2> QED
    BY <1>2, <2>2, <2>3, <2>4 DEF MailTyped
<1>7. Calm
  BY <1>2, <1>3, <1>4, <1>5, <1>6, MailRanks DEF Calm
<1>8. Givers' = Givers
  BY <1>2, <1>5 DEF Givers, NoMail
<1>9. /\ \A m \in Members(waitq["tx"]) : m \in Msgs /\ m # d
      /\ \A m \in Members(waitq["tx"]) : m \in Threads => thr[m].at = "pended" /\ thr[m].q = "tx"
      /\ \A r \in Members(waitq["rx"]) : r \in Threads /\ thr[r].at = "pended" /\ thr[r].q = "rx"
  <2>1. "tx" \in WaitQueues /\ "rx" \in WaitQueues \ {"tx"}
    BY DEF WaitQueues
  <2>2. \A m \in Members(waitq["tx"]) : m \in Msgs
    BY <2>1 DEF PendInv, QueuesLinked, Members
  <2> QED
    BY <1>4, <2>1, <2>2, Waiters DEF PendInv, QueuesLinked
(* Either way the descriptor's signal is now due.                          *)
<1>10. ASSUME \A e \in Descs \ {d} : (e \in Members(waitq'["tx"]) \/ \E u \in Threads : Has(u)' = e)
                                     <=> (e \in Members(waitq["tx"]) \/ \E u \in Threads : Has(u) = e),
              d \in Members(waitq'["tx"]) \/ \E u \in Threads : Has(u)' = d
       PROVE  SignalsDue'
  <2>1. d \notin Signals
    BY <1>4 DEF Signals
  <2>2. \A e \in Descs \ {d} : e \in Signals' <=> e \in Signals
    BY <1>5, <1>10 DEF Signals
  <2>3. d \in Signals' <=> signal
    BY <1>3, <1>5, <1>10 DEF Signals
  <2>4. Signals \subseteq Descs /\ Signals' \subseteq Descs
    BY DEF Signals
  <2>5. Signals' = IF signal THEN Signals \cup {d} ELSE Signals
    BY <1>3, <2>1, <2>2, <2>3, <2>4
  <2>6. Cardinality(Signals') = IF signal THEN Cardinality(Signals) + 1 ELSE Cardinality(Signals)
    BY <2>1, <2>5, MailCounts
  <2> QED
    BY <1>2, <1>8, <2>6, MailCounts DEF SignalsDue, MailTyped
<1>11. CASE Receiver(t, target) # NULL
  <2>1. PICK r \in Threads : r = Receiver(t, target) /\ r \in Members(waitq["rx"])
    BY <1>11, ReceiverFound
  <2>2. Unpend("rx", r) /\ thr' = [thr EXCEPT ![r] = Woken(r, 0, d)] /\ r # t
    BY <1>1, <1>2, <1>9, <1>11, <2>1 DEF k_mbox_async_put
  <2>3. thr'[r] = Woken(r, 0, d) /\ \A u \in Threads \ {r} : thr'[u] = thr[u]
    BY <2>1, <2>2 DEF PendInv, ThreadsTyped
  <2>4. thr' \in [Threads -> Thread]
    <3>1. Woken(r, 0, d) \in Thread /\ thr \in [Threads -> Thread]
      BY <1>3, <2>1, DataTypes, WokenFields DEF PendInv, ThreadsTyped
    <3> QED
      BY <2>2, <3>1
  <2>5. \A u \in Threads \ {r} : Stays(u) /\ Carries(u)'
    BY <2>3, CarryKept DEF Stays, PendInv, AllCarry
  <2>6. mail'[r] = mail[r]
    BY <1>5, <2>2
  <2>7. /\ PendInv' /\ thr'[r].at = "done" /\ thr[r].at = "pended"
        /\ Members(waitq'["rx"]) = Members(waitq["rx"]) \ {r}
        /\ \A p \in WaitQueues \ {"rx"} : waitq'[p] = waitq[p]
        /\ Has(r) = NULL /\ Fills(r) = NULL /\ Has(r)' = d /\ Fills(r)' = NULL /\ InMail(r)'
    BY <1>2, <1>3, <1>7, <2>1, <2>2, <2>3, <2>4, <2>5, <2>6, ReceiverWoken
  <2>8. \A u \in Threads \ {r, t} : Has(u)' = Has(u) /\ Fills(u)' = Fills(u) /\ InMail(u)'
    BY <1>2, <1>5, <2>3, MailSame
  <2>9. Has(t)' = NULL /\ Fills(t)' = NULL /\ InMail(t)'
    BY <1>2, <1>5, <2>2, <2>3 DEF Has, Fills, InMail, NoMail
  <2>10. waitq'["tx"] = waitq["tx"] /\ \A s \in Stacks : waitq'[s] = waitq[s]
    BY <2>7 DEF WaitQueues, Stacks
  <2>11. StacksInv'
    BY <1>2, <2>10, StacksKept
  <2>12. \A u \in Threads \ {t} : Fills(u) # d
    BY <1>2, <1>3 DEF MailPlaced
  <2>13. HandedTo(r, d)
    <3>1. \A u \in Threads : Fills(u)' = IF Fills(u) = d THEN NULL ELSE Fills(u)
      BY <1>3, <2>2, <2>7, <2>8, <2>9, <2>12
    <3>2. \A u \in Threads \ {r} : Has(u)' = Has(u)
      BY <1>3, <2>8, <2>9
    <3>3. \A m \in Threads : thr'[m].at = "matched" <=> (m = d \/ thr[m].at = "matched")
      BY <1>3, <2>3, <2>7
    <3> QED
      BY <1>2, <1>4, <2>7, <2>10, <3>1, <3>2, <3>3 DEF HandedTo
  <2>14. MailPlaced'
    BY <1>2, <1>3, <2>1, <2>13, HandOver
  <2>15. SignalsDue'
    <3>1. \A e \in Descs \ {d} : \A u \in Threads : Has(u)' = e <=> Has(u) = e
      BY <1>3, <2>7, <2>8, <2>9, Constants
    <3> QED
      BY <1>10, <2>1, <2>7, <2>10, <3>1
  <2>16. NoneSuits'
    <3>1. \A m \in Members(waitq'["tx"]) :
            m \in Members(waitq["tx"]) /\ Source(m)' = Source(m) /\ Target(m)' = Target(m)
      <4>1. \A m \in Members(waitq["tx"]) : m \in Threads => thr'[m] = thr[m]
        BY <1>9, <2>1, <2>3
      <4> QED
        BY <1>5, <1>9, <2>10, <4>1 DEF Source, Target, Msgs
    <3>2. \A x \in Members(waitq'["rx"]) : x \in Members(waitq["rx"]) /\ thr'[x].data = thr[x].data
      BY <1>9, <2>3, <2>7
    <3> QED
      BY <1>2, <3>1, <3>2, StillNoneSuits
  <2> QED
    BY <1>6, <2>7, <2>8, <2>9, <2>11, <2>14, <2>15, <2>16 DEF MboxInv
<1>12. CASE Receiver(t, target) = NULL
  <2>1. /\ thr' = thr
        /\ waitq' = [waitq EXCEPT !["tx"] = z_priq_dumb_add(@, d, [TxPrio EXCEPT ![d] = Prio[t]])]
    BY <1>1, <1>12 DEF k_mbox_async_put
  <2>2. [TxPrio EXCEPT ![d] = Prio[t]] = TxPrio'
    <3>1. TxPrio \in [Msgs -> Int] /\ TxPrio' \in [Msgs -> Int]
      BY <1>2, <1>6, TxPrioType, TxPrioTypeNext
    <3>2. \A m \in Msgs : TxPrio'[m] = IF m = d THEN Prio[t] ELSE TxPrio[m]
      BY <1>3, <1>5 DEF TxPrio, Msgs
    <3> QED
      BY <1>3, <3>1, <3>2
  <2>3. PICK prio : prio = TxPrio'
    OBVIOUS
  <2>4. /\ QueuesLinked' /\ Members(waitq'["tx"]) = Members(waitq["tx"]) \cup {d}
        /\ \A p \in WaitQueues \ {"tx"} : waitq'[p] = waitq[p]
    <3>1. /\ QueuesLinked /\ RanksKept /\ used' = used /\ "tx" \in WaitQueues
          /\ used = KindOf("tx") /\ \A u \in Threads \ {d} : Stays(u)
      BY <1>7, <2>1 DEF PendInv, Calm, WaitQueues, KindOf, Stays
    <3>2. waitq' = [waitq EXCEPT !["tx"] = z_priq_dumb_add(@, d, prio)]
      BY <2>1, <2>2, <2>3
    <3>3. IF "tx" = "tx" THEN prio = TxPrio' ELSE d \in Threads /\ prio = Prio
      BY <2>3
    <3>4. d \in Threads => thr[d].at # "pended" /\ thr'[d].at = "pended" /\ thr'[d].q = "tx"
      BY <1>3
    <3> QED
      BY <1>3, <1>4, <3>1, <3>2, <3>3, <3>4, LinkOne
  <2>5. PendInv'
    <3>1. \A u \in Threads : Carries(u)'
      BY <2>1, CarryKept DEF PendInv, AllCarry
    <3> QED
      BY <1>2, <2>1, <2>4, <3>1 DEF PendInv, AllCarry, ThreadsTyped
  <2>6. waitq'["rx"] = waitq["rx"] /\ \A s \in Stacks : waitq'[s] = waitq[s]
    BY <2>4 DEF WaitQueues, Stacks
  <2>7. StacksInv'
    BY <1>2, <2>6, StacksKept
  <2>8. \A u \in Threads \ {t} : Has(u)' = Has(u) /\ Fills(u)' = Fills(u) /\ InMail(u)'
    BY <1>2, <1>5, <2>1, MailSame
  <2>9. Has(t)' = NULL /\ Fills(t)' = NULL /\ InMail(t)'
    BY <1>2, <1>5, <2>1 DEF Has, Fills, InMail, NoMail
  <2>10. \A u \in Threads : Has(u)' = Has(u)
    BY <1>3, <2>8, <2>9
  <2>11. MailPlaced'
    <3>1. \A u \in Threads \ {t} : Fills(u) # d
      BY <1>2, <1>3 DEF MailPlaced
    <3>2. \A x, y \in Threads : Fills(x)' = Fills(y)' /\ Fills(x)' # NULL => x = y
      BY <1>2, <2>8, <2>9 DEF MailPlaced
    <3>3. ASSUME NEW e \in Descs
          PROVE  /\ \/ e \in Members(entries'["async"]) \/ e \in Members(waitq'["tx"])
                    \/ \E x \in Threads : Has(x)' = e \/ Fills(x)' = e
                 /\ ~ (e \in Members(entries'["async"]) /\ e \in Members(waitq'["tx"]))
                 /\ e \in Members(entries'["async"]) \cup Members(waitq'["tx"]) =>
                      \A x \in Threads : Has(x)' # e /\ Fills(x)' # e
                 /\ \A x, u \in Threads : ~ (Has(x)' = e /\ Fills(u)' = e)
      <4>1. CASE e = d
        <5>1. \A x \in Threads : Has(x)' # e /\ Fills(x)' # e
          BY <1>3, <1>4, <2>8, <2>9, <2>10, <3>1, <4>1
        <5> QED
          BY <1>2, <1>4, <2>4, <4>1, <5>1
      <4>2. CASE e # d
        <5>1. \A u \in Threads : Fills(u)' = e <=> Fills(u) = e
          BY <1>3, <2>8, <2>9, <4>2, Constants
        <5> QED
          BY <1>2, <2>4, <2>10, <4>2, <5>1 DEF MailPlaced
      <4> QED
        BY <4>1, <4>2
    <3>4. \A m \in Threads : (\E x \in Threads : Has(x)' = m) <=> thr'[m].at = "matched"
      BY <1>2, <2>1, <2>10 DEF MailPlaced
    <3> QED
      BY <1>2, <2>10, <3>2, <3>3, <3>4 DEF MailPlaced
  <2>12. SignalsDue'
    BY <1>10, <2>4, <2>10
  <2>13. NoneSuits'
    <3>1. \A m \in Members(waitq["tx"]) : Source(m)' = Source(m) /\ Target(m)' = Target(m)
      BY <1>5, <1>9, <2>1 DEF Source, Target, Msgs
    <3>2. Source(d)' = t /\ Target(d)' = target
      BY <1>3, <1>5 DEF Source, Target
    <3>3. \A x \in Members(waitq["rx"]) : ~mbox_message_match(t, target, x, thr[x].data)
      BY <1>12, ReceiverFound
    <3> SUFFICES ASSUME NEW m \in Members(waitq'["tx"]), NEW x \in Members(waitq["rx"])
                 PROVE  ~mbox_message_match(Source(m)', Target(m)', x, thr[x].data)
      BY <2>1, <2>6 DEF NoneSuits, mbox_message_match
    <3>4. CASE m = d
      BY <3>2, <3>3, <3>4
    <3>5. CASE m # d
      <4>1. m \in Members(waitq["tx"])
        BY <2>4, <3>5
      <4> QED
        BY <1>2, <3>1, <4>1 DEF NoneSuits
    <3> QED
      BY <3>4, <3>5
  <2> QED
    BY <1>6, <2>5, <2>7, <2>8, <2>9, <2>11, <2>12, <2>13 DEF MboxInv
<1> QED
  BY <1>11, <1>12

(* The free descriptors fit on their stack, one of them being in use.      *)
LEMMA StackNotFull ==
  ASSUME MailTyped, NEW m \in Descs, m \notin Members(entries["async"])
  PROVE  Len(entries["async"]) # num_entries["async"]
<1> DEFINE s == entries["async"]
           n == Len(s)
<1>1. s \in Seq(Descs) /\ Distinct(s) /\ n \in Nat
  BY DEF MailTyped
<1>2. s \in [1 .. n -> Descs \ {m}]
  BY <1>1, ElementOfSeq DEF Members
<1>3. s \in Injection(1 .. n, Descs \ {m})
  BY <1>1, <1>2 DEF Distinct, Injection, IsInjective
<1>4. IsFiniteSet(Descs \ {m}) /\ Cardinality(Descs \ {m}) = Cardinality(Descs) - 1 /\ Cardinality(Descs) \in Nat
  BY Constants, FS_RemoveElement, FS_CardinalityType
<1>5. Cardinality(1 .. n) = n
  BY <1>1, FS_Interval
<1>6. Cardinality(1 .. n) <= Cardinality(Descs \ {m})
  BY <1>3, <1>4, FS_Injection
<1> QED
  BY <1>1, <1>4, <1>5, <1>6, Constants

LEMMA AppendLinks ==
  ASSUME NEW T, NEW s \in Seq(T), NEW x \in T, Distinct(s), x \notin Members(s)
  PROVE  /\ Append(s, x) \in Seq(T) /\ Distinct(Append(s, x))
         /\ Members(Append(s, x)) = Members(s) \cup {x}
<1> DEFINE a == Append(s, x)
<1>1. /\ a \in Seq(T) /\ Len(a) = Len(s) + 1 /\ Len(s) \in Nat
      /\ \A i \in 1 .. Len(s) : a[i] = s[i]
      /\ a[Len(s) + 1] = x
  BY AppendProperties
<1>2. \A i \in 1 .. Len(a) : i \in 1 .. Len(s) \/ i = Len(s) + 1
  BY <1>1
<1>3. Len(s) + 1 \in 1 .. Len(a) /\ \A i \in 1 .. Len(s) : i \in 1 .. Len(a)
  BY <1>1
<1> HIDE DEF a
<1>4. Members(a) = Members(s) \cup {x}
  BY <1>1, <1>2, <1>3 DEF Members
<1>5. Distinct(a)
  BY <1>1, <1>2 DEF Distinct, Members
<1> QED
  BY <1>1, <1>4, <1>5 DEF a

LEMMA DisposeStep ==
  ASSUME PendInv, StacksInv, MboxInv, used = "mbox", used' = used, NEW t \in Threads, mbox_message_dispose(t)
  PROVE  PendInv' /\ StacksInv' /\ MboxInv'
<1>1. PICK m : m = mail[t].msg
  OBVIOUS
<1>2. /\ thr[t].at = "idle" /\ firing = NULL /\ mail[t].step = "got" /\ UNCHANGED <<sem, owed>>
      /\ mail' = [mail EXCEPT ![t] = IF m \in Descs /\ async_msg[m].signal
                                     THEN [step |-> "give", msg |-> NULL] ELSE NoMail]
      /\ MailTyped /\ MailPlaced /\ NoneSuits /\ SignalsDue /\ \A u \in Threads : InMail(u)
  BY <1>1 DEF mbox_message_dispose, Free, MboxInv
<1>3. m \in Msgs /\ m # NULL /\ Has(t) = m /\ Fills(t) = NULL
  BY <1>1, <1>2, Constants DEF InMail, Has, Fills
<1>4. \A u \in Threads \ {t} : Has(u) # m
  BY <1>2, <1>3 DEF MailPlaced
<1>5. /\ mail'[t] = (IF m \in Descs /\ async_msg[m].signal THEN [step |-> "give", msg |-> NULL] ELSE NoMail)
      /\ \A u \in Threads \ {t} : mail'[u] = mail[u]
      /\ mail' \in [Threads -> [step : {"none", "put", "got", "give"}, msg : Msgs \cup {NULL}]]
  BY <1>2 DEF MailTyped, NoMail
<1>6. /\ mail'[t].step = (IF m \in Descs /\ async_msg[m].signal THEN "give" ELSE "none") /\ mail'[t].msg = NULL
  BY <1>5 DEF NoMail
<1>7. /\ \A x \in Members(waitq["tx"]) : x \in Msgs
      /\ \A x \in Members(waitq["tx"]) : x \in Threads => thr[x].at = "pended" /\ thr[x].q = "tx"
      /\ \A r \in Members(waitq["rx"]) : r \in Threads /\ thr[r].at = "pended" /\ thr[r].q = "rx"
  <2>1. "tx" \in WaitQueues /\ "rx" \in WaitQueues \ {"tx"}
    BY DEF WaitQueues
  <2>2. \A x \in Members(waitq["tx"]) : x \in Msgs
    BY <2>1 DEF PendInv, QueuesLinked, Members
  <2> QED
    BY <2>1, <2>2, Waiters DEF PendInv, QueuesLinked
<1>8. CASE m \in Descs
  <2>1. k_stack_push("async", m) /\ async_msg' = [async_msg EXCEPT ![m] = NoDesc]
    BY <1>1, <1>8, Constants DEF mbox_message_dispose
  <2>2. async_msg'[m] = NoDesc /\ \A e \in Descs \ {m} : async_msg'[e] = async_msg[e]
    BY <1>2, <1>8, <2>1 DEF MailTyped
  <2>3. /\ async_msg' \in [Descs -> [source : Threads \cup {NULL}, target : Threads \cup {NULL, ANY},
                                     prio : Int, signal : BOOLEAN]]
    BY <1>2, <1>8, <2>1 DEF MailTyped, NoDesc
  <2>4. m \notin Members(waitq["tx"]) /\ m \notin Members(entries["async"]) /\ \A u \in Threads : Fills(u) # m
    BY <1>2, <1>3, <1>8 DEF MailPlaced
  <2>5. Len(entries["async"]) # num_entries["async"]
    BY <1>2, <1>8, <2>4, StackNotFull
  <2>6. firing' = firing /\ "async" \in WaitQueues \ {"tx"} /\ "async" \in Stacks /\ m \in Data /\ "async" \in Stacks
    BY <1>3, <2>1, DataTypes DEF k_stack_push, WaitQueues, Stacks
  (* Signals and Givers: the signal is no longer due but being given.      *)
  <2>7. ASSUME \A e \in Descs \ {m} : (e \in Members(waitq'["tx"]) \/ \E u \in Threads : Has(u)' = e)
                                      <=> (e \in Members(waitq["tx"]) \/ \E u \in Threads : Has(u) = e)
        PROVE  SignalsDue'
    <3>1. m \in Signals <=> async_msg[m].signal
      BY <1>3, <1>8 DEF Signals
    <3>2. m \notin Signals'
      BY <2>2 DEF Signals, NoDesc
    <3>3. \A e \in Descs \ {m} : e \in Signals' <=> e \in Signals
      BY <2>2, <2>7 DEF Signals
    <3>4. Signals \subseteq Descs /\ Signals' \subseteq Descs
      BY DEF Signals
    <3>5. Signals' = Signals \ {m}
      BY <3>2, <3>3, <3>4
    <3>6. t \notin Givers /\ Givers' = IF async_msg[m].signal THEN Givers \cup {t} ELSE Givers
      <4>1. t \in Givers' <=> async_msg[m].signal
        BY <1>6, <1>8 DEF Givers
      <4>2. \A u \in Threads \ {t} : u \in Givers' <=> u \in Givers
        BY <1>5 DEF Givers
      <4>3. t \notin Givers /\ Givers \subseteq Threads /\ Givers' \subseteq Threads
        BY <1>2 DEF Givers
      <4> QED
        BY <4>1, <4>2, <4>3
    <3>7. Cardinality(Signals') = IF async_msg[m].signal THEN Cardinality(Signals) - 1 ELSE Cardinality(Signals)
      BY <3>1, <3>5, MailCounts
    <3>8. Cardinality(Givers') = IF async_msg[m].signal THEN Cardinality(Givers) + 1 ELSE Cardinality(Givers)
      BY <3>6, MailCounts
    <3> QED
      BY <1>2, <3>7, <3>8, MailCounts DEF SignalsDue, MailTyped
  (* The places of the messages, whoever gets the descriptor.              *)
  <2>8. ASSUME \A u \in Threads \ {t} : Has(u)' = Has(u), Has(t)' = NULL,
               waitq'["tx"] = waitq["tx"],
               \A u \in Threads : thr'[u].at = "matched" <=> thr[u].at = "matched",
               \/ /\ Members(entries'["async"]) = Members(entries["async"]) \cup {m}
                  /\ \A u \in Threads : Fills(u)' = Fills(u)
               \/ /\ entries' = entries
                  /\ \E w \in Threads : /\ Fills(w) = NULL /\ Fills(w)' = m
                                        /\ \A u \in Threads \ {w} : Fills(u)' = Fills(u)
        PROVE  MailPlaced' /\ SignalsDue'
    <3>1. \A e \in Msgs \ {m} : \A u \in Threads : Has(u)' = e <=> Has(u) = e
      BY <1>3, <2>8, Constants
    <3>2. \A u \in Threads : Has(u)' # m
      BY <1>3, <1>4, <2>8
    <3>3. SignalsDue'
      BY <2>7, <2>8, <3>1 DEF Msgs
    <3>4. \A x, y \in Threads : Has(x)' = Has(y)' /\ Has(x)' # NULL => x = y
      BY <1>2, <2>8 DEF MailPlaced
    <3>5. \A x \in Threads : (\E u \in Threads : Has(u)' = x) <=> thr'[x].at = "matched"
      BY <1>2, <1>8, <2>8, <3>1, Constants DEF MailPlaced, Msgs
    <3>6. \A x, y \in Threads : Fills(x)' = Fills(y)' /\ Fills(x)' # NULL => x = y
      <4>1. CASE \A u \in Threads : Fills(u)' = Fills(u)
        BY <1>2, <4>1 DEF MailPlaced
      <4>2. CASE \E w \in Threads : /\ Fills(w) = NULL /\ Fills(w)' = m
                                    /\ \A u \in Threads \ {w} : Fills(u)' = Fills(u)
        BY <1>2, <2>4, <4>2 DEF MailPlaced
      <4> QED
        BY <2>8, <4>1, <4>2
    <3>7. ASSUME NEW e \in Descs
          PROVE  /\ \/ e \in Members(entries'["async"]) \/ e \in Members(waitq'["tx"])
                    \/ \E x \in Threads : Has(x)' = e \/ Fills(x)' = e
                 /\ ~ (e \in Members(entries'["async"]) /\ e \in Members(waitq'["tx"]))
                 /\ e \in Members(entries'["async"]) \cup Members(waitq'["tx"]) =>
                      \A x \in Threads : Has(x)' # e /\ Fills(x)' # e
                 /\ \A x, u \in Threads : ~ (Has(x)' = e /\ Fills(u)' = e)
      <4>1. CASE e = m
        <5>1. CASE Members(entries'["async"]) = Members(entries["async"]) \cup {m}
                   /\ \A u \in Threads : Fills(u)' = Fills(u)
          BY <2>4, <2>8, <3>2, <4>1, <5>1
        <5>2. CASE entries' = entries /\ \E w \in Threads : Fills(w)' = m
          BY <2>4, <2>8, <3>2, <4>1, <5>2
        <5> QED
          BY <2>8, <5>1, <5>2
      <4>2. CASE e # m
        <5>1. e \in Members(entries'["async"]) <=> e \in Members(entries["async"])
          BY <2>8, <4>2
        <5>2. \A u \in Threads : Fills(u)' = e <=> Fills(u) = e
          BY <2>8, <4>2, Constants
        <5>3. \A u \in Threads : Has(u)' = e <=> Has(u) = e
          BY <3>1, <4>2 DEF Msgs
        <5>4. e \in Members(waitq'["tx"]) <=> e \in Members(waitq["tx"])
          BY <2>8
        <5> QED
          BY <1>2, <5>1, <5>2, <5>3, <5>4 DEF MailPlaced
      <4> QED
        BY <4>1, <4>2
    <3> QED
      BY <3>3, <3>4, <3>5, <3>6, <3>7 DEF MailPlaced
  <2>9. CASE waitq["async"] # <<>>
    <3>1. WakeFirst("async", 0, m) /\ entries' = entries
      BY <2>1, <2>5, <2>9 DEF k_stack_push
    <3>2. MailTyped'
      BY <1>2, <1>5, <2>3, <3>1 DEF MailTyped
    <3>3. Calm
      BY <1>2, <1>8, <2>2, <2>4, <3>2, MailRanks DEF Calm
    <3>4. PICK w \in Threads : w = Head(waitq["async"])
      BY <1>2, <2>6, <2>9, <3>1, <3>3, WakeSafe
    <3>5. /\ PendInv' /\ thr[w].at = "pended" /\ thr[w].q = "async"
          /\ thr'[w] = Woken(w, 0, m)
          /\ \A u \in Threads \ {w} : thr'[u] = thr[u]
          /\ \A p \in WaitQueues \ {"async"} : waitq'[p] = waitq[p]
      BY <1>2, <2>6, <2>9, <3>1, <3>3, <3>4, WakeSafe
    <3>6. /\ thr'[w].at = "done" /\ thr'[w].ret = 0 /\ thr'[w].data = m /\ thr'[w].op = thr[w].op /\ thr'[w].q = "async"
      BY <2>6, <3>5, WokenFields DEF PendInv
    <3>7. /\ w # t /\ mail[w].step = "none" /\ mail[w].msg = NULL /\ mail'[w] = mail[w] /\ thr[w].op = "get"
      BY <1>2, <1>5, <3>5 DEF InMail
    <3>8. Has(w) = NULL /\ Fills(w) = NULL /\ Has(w)' = NULL /\ Fills(w)' = m /\ InMail(w)'
      BY <1>2, <1>8, <3>5, <3>6, <3>7, NoMailYet DEF Has, Fills, InMail
    <3>9. \A u \in Threads \ {w, t} : Has(u)' = Has(u) /\ Fills(u)' = Fills(u) /\ InMail(u)'
      BY <1>2, <1>5, <3>5, MailSame
    <3>10. Has(t)' = NULL /\ Fills(t)' = NULL /\ InMail(t)'
      BY <1>2, <1>6, <3>5, <3>7 DEF Has, Fills, InMail
    <3>11. waitq'["tx"] = waitq["tx"] /\ waitq'["rx"] = waitq["rx"]
      BY <3>5 DEF WaitQueues
    <3>12. MailPlaced' /\ SignalsDue'
      <4>1. \A u \in Threads : thr'[u].at = "matched" <=> thr[u].at = "matched"
        BY <3>5, <3>6
      <4>2. \A u \in Threads \ {w} : Fills(u)' = Fills(u)
        BY <1>3, <3>9, <3>10
      <4>3. \A u \in Threads \ {t} : Has(u)' = Has(u)
        BY <3>8, <3>9
      <4> QED
        BY <2>8, <3>1, <3>8, <3>10, <3>11, <4>1, <4>2, <4>3
    <3>13. NoneSuits'
      <4>1. \A x \in Members(waitq'["tx"]) :
              x \in Members(waitq["tx"]) /\ Source(x)' = Source(x) /\ Target(x)' = Target(x)
        <5>1. \A x \in Members(waitq["tx"]) : x # m /\ (x \in Threads => thr'[x] = thr[x])
          BY <1>7, <2>4, <3>5
        <5> QED
          BY <1>7, <2>2, <3>11, <5>1 DEF Source, Target, Msgs
      <4>2. \A r \in Members(waitq'["rx"]) : r \in Members(waitq["rx"]) /\ thr'[r].data = thr[r].data
        BY <1>7, <3>5, <3>11
      <4> QED
        BY <1>2, <4>1, <4>2, StillNoneSuits
    <3>14. StacksInv'
      BY <2>9, <3>1, <3>5, StackQueues, StacksKept
    <3> QED
      BY <3>2, <3>5, <3>8, <3>9, <3>10, <3>12, <3>13, <3>14 DEF MboxInv
  <2>10. CASE waitq["async"] = <<>>
    <3>1. NobodyMoves /\ entries' = [entries EXCEPT !["async"] = Append(@, m)]
      BY <2>1, <2>5, <2>10 DEF k_stack_push
    <3>2. entries'["async"] = Append(entries["async"], m)
      BY <2>6, <3>1 DEF StacksInv
    <3>3. /\ entries'["async"] \in Seq(Descs) /\ Distinct(entries'["async"])
          /\ Members(entries'["async"]) = Members(entries["async"]) \cup {m}
      <4>1. entries["async"] \in Seq(Descs) /\ Distinct(entries["async"])
        BY <1>2 DEF MailTyped
      <4> QED
        BY <1>8, <2>4, <3>2, <4>1, AppendLinks
    <3>4. MailTyped'
      BY <1>2, <1>5, <2>3, <3>3 DEF MailTyped
    <3>5. Calm
      BY <1>2, <1>8, <2>2, <2>4, <3>4, MailRanks DEF Calm
    <3>6. PendInv' /\ StacksInv'
      BY <1>2, <2>1, <2>6, <3>5, PushStep
    <3>7. thr' = thr /\ waitq' = waitq
      BY <3>1 DEF NobodyMoves
    <3>8. \A u \in Threads \ {t} : Has(u)' = Has(u) /\ Fills(u)' = Fills(u) /\ InMail(u)'
      BY <1>2, <1>5, <3>7, MailSame
    <3>9. Has(t)' = NULL /\ Fills(t)' = NULL /\ InMail(t)'
      BY <1>2, <1>6, <3>7 DEF Has, Fills, InMail
    <3>10. MailPlaced' /\ SignalsDue'
      <4>1. \A u \in Threads : Fills(u)' = Fills(u)
        BY <1>3, <3>8, <3>9
      <4> QED
        BY <2>8, <3>3, <3>7, <3>8, <3>9, <4>1
    <3>11. NoneSuits'
      <4>1. \A x \in Members(waitq'["tx"]) :
              x \in Members(waitq["tx"]) /\ Source(x)' = Source(x) /\ Target(x)' = Target(x)
        BY <1>7, <2>2, <2>4, <3>7 DEF Source, Target, Msgs
      <4> QED
        BY <1>2, <3>7, <4>1, StillNoneSuits
    <3> QED
      BY <3>4, <3>6, <3>8, <3>9, <3>10, <3>11 DEF MboxInv
  <2> QED
    BY <2>9, <2>10
<1>9. CASE m \in Threads
  <2>0. m \notin Descs /\ m # t
    <3>1. thr[m].at = "matched"
      BY <1>2, <1>3, <1>9 DEF MailPlaced
    <3> QED
      BY <1>2, <1>9, <3>1, Constants
  <2>1. /\ thr' = [thr EXCEPT ![m] = Woken(m, 0, NULL)] /\ UNCHANGED <<waitq, firing, entries, async_msg>>
    BY <1>1, <2>0 DEF mbox_message_dispose
  <2>2. thr[m].at = "matched" /\ thr[m].op = "send" /\ mail[m].step = "none" /\ mail[m].msg = NULL
    <3>1. thr[m].at = "matched"
      BY <1>2, <1>3, <1>9 DEF MailPlaced
    <3> QED
      BY <1>2, <1>9, <3>1 DEF InMail
  <2>3. thr'[m] = Woken(m, 0, NULL) /\ \A u \in Threads \ {m} : thr'[u] = thr[u]
    BY <1>9, <2>1 DEF PendInv, ThreadsTyped
  <2>4. /\ thr'[m] \in Thread /\ thr'[m].at = "done" /\ thr'[m].data = NULL /\ thr'[m].op = "send" /\ ~thr'[m].armed
    BY <1>9, <2>2, <2>3, DataTypes, WokenFields DEF PendInv
  <2>5. MailTyped' /\ Calm
    <3>1. MailTyped'
      BY <1>2, <1>5, <2>1 DEF MailTyped
    <3> QED
      BY <1>2, <2>1, <3>1, SameRanks DEF Calm
  <2>6. PendInv'
    <3>1. ThreadsTyped'
      BY <2>1, <2>3, <2>4 DEF PendInv, ThreadsTyped
    <3>2. \A u \in Threads : Stays(u)
      BY <2>2, <2>3, <2>4 DEF Stays
    <3>3. QueuesLinked'
      BY <2>1, <2>5, <3>2, StaySame DEF PendInv, Calm
    <3>4. \A u \in Threads \ {m} : Carries(u)'
      BY <2>3, CarryKept DEF PendInv, AllCarry
    <3>5. Carries(m)'
      BY <2>4 DEF Carries
    <3> QED
      BY <1>2, <2>1, <3>1, <3>3, <3>4, <3>5 DEF PendInv, AllCarry
  <2>7. StacksInv'
    BY <2>1, StacksKept
  <2>8. \A u \in Threads \ {m, t} : Has(u)' = Has(u) /\ Fills(u)' = Fills(u) /\ InMail(u)'
    BY <1>2, <1>5, <2>3, MailSame
  <2>9. Has(t)' = NULL /\ Fills(t)' = NULL /\ InMail(t)'
    BY <1>2, <1>6, <2>0, <2>3 DEF Has, Fills, InMail
  <2>10. Has(m)' = NULL /\ Fills(m)' = NULL /\ InMail(m)' /\ Has(m) = NULL /\ Fills(m) = NULL
    BY <1>5, <1>9, <2>0, <2>2, <2>4 DEF Has, Fills, InMail
  <2>11. \A e \in Msgs \ {m} : \A u \in Threads : Has(u)' = e <=> Has(u) = e
    BY <1>3, <2>8, <2>9, <2>10, Constants
  <2>12. \A u \in Threads : Has(u)' # m /\ Fills(u)' = Fills(u) /\ InMail(u)'
    BY <1>3, <1>4, <2>8, <2>9, <2>10
  <2>13. MailPlaced'
    <3>1. \A x, y \in Threads : Has(x)' = Has(y)' /\ Has(x)' # NULL => x = y
      BY <1>2, <2>8, <2>9, <2>10 DEF MailPlaced
    <3>2. \A x \in Threads : (\E u \in Threads : Has(u)' = x) <=> thr'[x].at = "matched"
      <4> TAKE x \in Threads
      <4>1. CASE x = m
        BY <2>4, <2>12, <4>1
      <4>2. CASE x # m
        BY <1>2, <2>3, <2>11, <4>2 DEF MailPlaced, Msgs
      <4> QED
        BY <4>1, <4>2
    <3>3. \A e \in Descs : \A u \in Threads : (Has(u)' = e <=> Has(u) = e) /\ Fills(u)' = Fills(u)
      BY <2>0, <2>11, <2>12 DEF Msgs
    <3> QED
      BY <1>2, <2>1, <2>12, <3>1, <3>2, <3>3 DEF MailPlaced
  <2>14. SignalsDue'
    <3>1. \A e \in Descs : (\E u \in Threads : Has(u)' = e) <=> (\E u \in Threads : Has(u) = e)
      BY <2>0, <2>11 DEF Msgs
    <3>2. Signals' = Signals
      BY <2>1, <3>1 DEF Signals
    <3>3. Givers' = Givers
      BY <1>2, <1>5, <1>6, <2>0 DEF Givers
    <3> QED
      BY <1>2, <3>2, <3>3 DEF SignalsDue
  <2>15. NoneSuits'
    <3>1. \A x \in Members(waitq'["tx"]) :
            x \in Members(waitq["tx"]) /\ Source(x)' = Source(x) /\ Target(x)' = Target(x)
      BY <1>7, <2>1, <2>2, <2>3 DEF Source, Target, Msgs
    <3>2. \A r \in Members(waitq'["rx"]) : r \in Members(waitq["rx"]) /\ thr'[r].data = thr[r].data
      BY <1>7, <2>1, <2>2, <2>3
    <3> QED
      BY <1>2, <3>1, <3>2, StillNoneSuits
  <2> QED
    BY <2>5, <2>6, <2>7, <2>12, <2>13, <2>14, <2>15 DEF MboxInv
<1> QED
  BY <1>3, <1>8, <1>9 DEF Msgs

(* Steps that move no thread in or out of the mailbox's queues.            *)
LEMMA SemStep ==
  ASSUME PendInv, StacksInv, MboxInv, used = "mbox", used' = used,
         TakeSem \/ \E t \in Threads : GiveSem(t)
  PROVE  PendInv' /\ StacksInv' /\ MboxInv'
<1>1. /\ NobodyMoves /\ UNCHANGED <<firing, entries, async_msg>>
      /\ MailTyped /\ MailPlaced /\ NoneSuits /\ SignalsDue /\ \A u \in Threads : InMail(u)
  BY DEF TakeSem, GiveSem, MboxInv
<1>2. Calm
  BY <1>1, SameRanks DEF Calm
<1>3. PendInv' /\ StacksInv'
  BY <1>1, <1>2, NobodyMovesSafe, StacksKept DEF NobodyMoves
<1>4. NoneSuits'
  BY <1>1 DEF NoneSuits, NobodyMoves, Source, Target, mbox_message_match
<1>5. CASE TakeSem
  <2>1. sem > 0 /\ sem' = sem - 1 /\ owed' = owed - 1 /\ mail' = mail
    BY <1>5 DEF TakeSem
  <2>2. \A u \in Threads : Has(u)' = Has(u) /\ Fills(u)' = Fills(u) /\ InMail(u)'
    BY <1>1, <2>1, MailSame DEF NobodyMoves
  <2>3. MailStays
    BY <1>1, <2>2 DEF MailStays, NobodyMoves
  <2>4. MailPlaced' /\ Signals' = Signals
    BY <1>1, <2>3, MailKept
  <2>5. Givers' = Givers
    BY <2>1 DEF Givers
  <2>6. owed' \in Nat /\ owed' <= SemLimit /\ sem' \in Nat /\ SignalsDue'
    BY <1>1, <2>1, <2>4, <2>5, MailCounts, Constants DEF SignalsDue, MailTyped
  <2>7. MailTyped'
    BY <1>1, <2>1, <2>6 DEF MailTyped
  <2> QED
    BY <1>3, <1>4, <2>2, <2>4, <2>6, <2>7 DEF MboxInv
<1>6. ASSUME NEW t \in Threads, GiveSem(t) PROVE MboxInv'
  <2>1. /\ thr[t].at = "idle" /\ mail[t].step = "give" /\ owed' = owed
        /\ mail' = [mail EXCEPT ![t] = NoMail]
        /\ sem' = IF sem < SemLimit THEN sem + 1 ELSE sem
    BY <1>6 DEF GiveSem, Free
  <2>2. /\ mail'[t] = NoMail /\ \A u \in Threads \ {t} : mail'[u] = mail[u]
        /\ mail' \in [Threads -> [step : {"none", "put", "got", "give"}, msg : Msgs \cup {NULL}]]
    BY <1>1, <2>1 DEF MailTyped, NoMail
  <2>3. \A u \in Threads \ {t} : Has(u)' = Has(u) /\ Fills(u)' = Fills(u) /\ InMail(u)'
    BY <1>1, <2>2, MailSame DEF NobodyMoves
  <2>4. Has(t)' = Has(t) /\ Fills(t)' = Fills(t) /\ InMail(t)'
    BY <1>1, <2>1, <2>2 DEF NobodyMoves, NoMail, Has, Fills, InMail
  <2>5. MailStays
    BY <1>1, <2>3, <2>4 DEF MailStays, NobodyMoves
  <2>6. MailPlaced' /\ Signals' = Signals
    BY <1>1, <2>5, MailKept
  <2>7. t \in Givers /\ Givers' = Givers \ {t}
    BY <2>1, <2>2 DEF Givers, NoMail
  <2>8. Cardinality(Givers') = Cardinality(Givers) - 1 /\ Cardinality(Givers') \in Nat
    <3>1. IsFiniteSet(Givers')
      BY <2>7, MailCounts, FS_Subset
    <3> QED
      BY <2>7, <3>1, MailCounts, FS_CardinalityType
  <2>9. sem < SemLimit
    BY <1>1, <2>8, MailCounts, Constants DEF SignalsDue, MailTyped
  <2>10. sem' \in Nat /\ SignalsDue'
    BY <1>1, <2>1, <2>6, <2>8, <2>9, MailCounts DEF SignalsDue, MailTyped
  <2>11. MailTyped'
    BY <1>1, <2>1, <2>2, <2>10 DEF MailTyped
  <2> QED
    BY <1>4, <2>3, <2>4, <2>6, <2>10, <2>11 DEF MboxInv
<1> QED
  BY <1>3, <1>5, <1>6

LEMMA MailTimeoutStep ==
  ASSUME PendInv, StacksInv, MboxInv, used = "mbox", used' = used, PendNext, UNCHANGED <<entries, mboxVars>>
  PROVE  PendInv' /\ StacksInv' /\ MboxInv'
<1>1. /\ UNCHANGED <<entries, async_msg, mail, sem, owed>>
      /\ MailTyped /\ MailPlaced /\ NoneSuits /\ SignalsDue /\ \A u \in Threads : InMail(u)
  BY DEF mboxVars, MboxInv
<1>2. Calm
  BY <1>1, SameRanks DEF Calm
<1>3. /\ PendInv' /\ \A u \in Threads : Expires(u)
      /\ \A q \in WaitQueues : /\ Members(waitq'[q]) \subseteq Members(waitq[q])
                               /\ waitq[q] = <<>> => waitq'[q] = <<>>
      /\ Members(waitq'["tx"]) \cap Descs = Members(waitq["tx"]) \cap Descs
  BY <1>1, <1>2, PendNextSafe
<1>4. StacksInv'
  BY <1>1, <1>3, StackQueues, StacksKept
<1>5. \A u \in Threads : thr[u].at # "limbo"
  BY DEF PendInv, AllCarry, Carries
<1>6. ASSUME NEW u \in Threads
      PROVE  /\ Has(u)' = Has(u) /\ Fills(u)' = Fills(u) /\ InMail(u)'
             /\ thr'[u].at = "matched" <=> thr[u].at = "matched"
  <2>1. CASE /\ thr'[u].at = thr[u].at /\ thr'[u].op = thr[u].op /\ thr'[u].q = thr[u].q
             /\ thr'[u].data = thr[u].data /\ thr'[u].ret = thr[u].ret
    <3>1. InMail(u)
      BY <1>1
    <3> QED
      BY <1>1, <2>1, <3>1 DEF Has, Fills, InMail
  <2>2. CASE /\ thr[u].at \in {"pended", "limbo"} /\ thr'[u].at = "done"
             /\ thr'[u].op = thr[u].op /\ thr'[u].q = thr[u].q
             /\ thr'[u].data = NULL /\ thr'[u].ret = EAGAIN
    <3>1. thr[u].at = "pended" /\ mail[u].step = "none" /\ mail[u].msg = NULL /\ mail'[u] = mail[u]
          /\ thr[u].op \in {"send", "get"} /\ EAGAIN # 0
      BY <1>1, <1>5, <2>2 DEF InMail, EAGAIN
    <3>2. Has(u) = NULL /\ Fills(u) = NULL
      BY <3>1 DEF Has, Fills
    <3>3. Has(u)' = NULL /\ Fills(u)' = NULL /\ InMail(u)'
      BY <2>2, <3>1 DEF Has, Fills, InMail
    <3> QED
      BY <2>2, <3>1, <3>2, <3>3
  <2> QED
    BY <1>3, <2>1, <2>2 DEF Expires
<1>7. MailStays
  BY <1>1, <1>3, <1>6 DEF MailStays
<1>8. MailTyped' /\ Givers' = Givers
  BY <1>1 DEF MailTyped, Givers
<1>9. MailPlaced' /\ SignalsDue'
  BY <1>1, <1>7, <1>8, MailKept DEF SignalsDue
<1>10. NoneSuits'
  <2>1. \A q \in WaitQueues, u \in Threads : u \in Members(waitq'[q]) => thr'[u].data = thr[u].data
    BY <1>3 DEF PendInv, QueuesLinked, Expires
  <2>2. /\ \A m \in Members(waitq'["tx"]) : m \in Msgs
        /\ \A r \in Members(waitq'["rx"]) : r \in Threads
    <3>1. waitq'["tx"] \in Seq(Msgs) /\ waitq'["rx"] \in Seq(Threads)
      BY <1>3 DEF PendInv, QueuesLinked, WaitQueues
    <3> QED
      BY <3>1 DEF Members
  <2>3. \A m \in Members(waitq'["tx"]) :
          m \in Members(waitq["tx"]) /\ Source(m)' = Source(m) /\ Target(m)' = Target(m)
    BY <1>1, <1>3, <2>1, <2>2 DEF Source, Target, Msgs, WaitQueues
  <2>4. \A r \in Members(waitq'["rx"]) : r \in Members(waitq["rx"]) /\ thr'[r].data = thr[r].data
    BY <1>3, <2>1, <2>2 DEF WaitQueues
  <2> QED
    BY <1>1, <2>3, <2>4, StillNoneSuits
<1> QED
  BY <1>3, <1>4, <1>6, <1>8, <1>9, <1>10 DEF MboxInv

LEMMA MboxStep ==
  ASSUME PendInv, StacksInv, MboxInv, used = "mbox", used' = used, MboxNext
  PROVE  PendInv' /\ StacksInv' /\ MboxInv'
<1>1. CASE TakeSem
  BY <1>1, SemStep
<1>2. CASE PendNext /\ UNCHANGED <<entries, mboxVars>>
  BY <1>2, MailTimeoutStep
<1>3. ASSUME NEW t \in Threads,
             \/ mbox_async_alloc(t) \/ mbox_message_dispose(t) \/ GiveSem(t) \/ Resumes(t)
             \/ \E other \in Threads \cup {ANY} :
                  \/ \E signal \in BOOLEAN : k_mbox_async_put(t, other, signal)
                  \/ \E timeout \in {"no_wait", "some", "forever"} :
                       k_mbox_put(t, other, timeout) \/ k_mbox_get(t, other, timeout)
      PROVE  PendInv' /\ StacksInv' /\ MboxInv'
  BY <1>3, AllocDescStep, DisposeStep, SemStep, ResumesStep, AsyncPutStep, MailPutStep, MailGetStep
<1> QED
  BY <1>1, <1>2, <1>3 DEF MboxNext
-----------------------------------------------------------------------------
(* The inductive invariant holds.                                          *)
LEMMA IInvInit == Init => IInv
<1> SUFFICES ASSUME Init PROVE IInv
  OBVIOUS
<1>1. /\ thr = [t \in Threads |-> Idle] /\ waitq = [q \in WaitQueues |-> <<>>] /\ firing = NULL
      /\ k_msgq_init /\ k_queue_init /\ k_mbox_init
      /\ free_list = InSomeOrder(Items) /\ num_used = 0 /\ held = {}
      /\ entries = [s \in Stacks |-> IF s = "async" THEN InSomeOrder(Descs) ELSE <<>>]
  BY DEF Init, PendInit, k_mem_slab_init, create_free_list, k_stack_init
<1>2. \A t \in Threads : /\ thr[t] = Idle /\ thr[t].at = "idle" /\ ~thr[t].armed
                         /\ thr[t].q = NULL /\ thr[t].data = NULL
  BY <1>1 DEF Idle
<1>3. \A q \in WaitQueues : waitq[q] = <<>> /\ Members(waitq[q]) = {}
  BY <1>1, NoMembers
<1>4. PendInv
  <2>1. ThreadsTyped
    BY <1>1 DEF ThreadsTyped, Thread, Idle, Data
  <2>2. QueuesLinked
    <3>1. waitq \in [WaitQueues -> Seq(Msgs)]
      BY <1>1
    <3>2. \A q \in WaitQueues : waitq[q] \in Seq(Threads) /\ Distinct(waitq[q]) /\ Sorted(waitq[q], TxPrio)
      <4>1. <<>> \in Seq(Threads) /\ Len(<<>>) = 0 /\ \A i \in 1 .. 0 : FALSE
        OBVIOUS
      <4>2. Distinct(<<>>) /\ Sorted(<<>>, TxPrio)
        BY <4>1 DEF Distinct, Sorted
      <4> QED
        BY <1>3, <4>1, <4>2
    <3> QED
      BY <1>2, <1>3, <3>1, <3>2 DEF QueuesLinked
  <2>3. AllCarry
    BY <1>1, <1>2 DEF AllCarry, Carries
  <2> QED
    BY <2>1, <2>2, <2>3 DEF PendInv
<1>5. RingInv
  BY <1>1, <1>3, Constants DEF RingInv, k_msgq_init, WaitQueues
<1>6. /\ InSomeOrder(Items) \in Seq(Items) /\ Distinct(InSomeOrder(Items)) /\ Members(InSomeOrder(Items)) = Items
      /\ InSomeOrder(Descs) \in Seq(Descs) /\ Distinct(InSomeOrder(Descs)) /\ Members(InSomeOrder(Descs)) = Descs
  BY Listed, Constants
<1>7. StacksInv /\ entries["async"] = InSomeOrder(Descs)
  <2>1. InSomeOrder(Descs) \in Seq(Data)
    BY <1>6, SeqMonotonic DEF Data, Msgs
  <2>2. \A s \in Stacks : waitq[s] = <<>>
    BY <1>3, StackQueues
  <2> QED
    BY <1>1, <2>1, <2>2 DEF StacksInv, Stacks
<1>8. SlabInv
  <2>1. Given = {}
    BY <1>2 DEF Given
  <2>2. Cardinality({}) = 0
    BY FS_EmptySet
  <2> QED
    BY <1>1, <1>3, <1>6, <2>1, <2>2 DEF SlabInv, WaitQueues
<1>9. NodesInv
  BY <1>1, <1>3 DEF NodesInv, k_queue_init, WaitQueues
<1>10. \A t \in Threads : mail[t].step = "none" /\ mail[t].msg = NULL /\ Has(t) = NULL /\ Fills(t) = NULL /\ InMail(t)
  BY <1>1, <1>2 DEF k_mbox_init, NoMail, Has, Fills, InMail
<1>11. MailTyped
  BY <1>1, <1>6, <1>7, Constants DEF MailTyped, k_mbox_init, NoMail, NoDesc
<1>12. MailPlaced
  <2>1. Members(waitq["tx"]) = {} /\ Members(entries["async"]) = Descs
    BY <1>3, <1>6, <1>7 DEF WaitQueues
  <2> QED
    BY <1>2, <1>10, <2>1, Constants DEF MailPlaced
<1>13. NoneSuits
  BY <1>3 DEF NoneSuits, WaitQueues
<1>14. SignalsDue
  <2>1. Givers = {} /\ Signals = {}
    BY <1>3, <1>10, Constants DEF Givers, Signals, WaitQueues
  <2>2. Cardinality({}) = 0
    BY FS_EmptySet
  <2> QED
    BY <1>1, <2>1, <2>2 DEF SignalsDue, k_mbox_init
<1> QED
  BY <1>4, <1>5, <1>7, <1>8, <1>9, <1>10, <1>11, <1>12, <1>13, <1>14 DEF IInv, MboxInv

LEMMA IInvNext == IInv /\ [Next]_vars => IInv'
<1> SUFFICES ASSUME IInv, [Next]_vars PROVE IInv'
  OBVIOUS
<1>0. /\ PendInv /\ RingInv /\ StacksInv /\ SlabInv /\ NodesInv /\ MboxInv /\ MailTyped
      /\ \A t \in Threads : InMail(t)
  BY DEF IInv, MboxInv
(* Every object but the one in use is left alone.                          *)
<1>1. ASSUME PendInv', (\A t \in Threads : InMail(t))', used # "slab", used' = used, UNCHANGED slabVars PROVE SlabInv'
  BY <1>0, <1>1, SlabAsleep
<1>2. ASSUME async_msg' = async_msg, used' = used PROVE Calm
  BY <1>0, <1>2, SameRanks DEF Calm
<1>3. ASSUME PendInv', used # "mbox", used' = used, UNCHANGED mboxVars, entries'["async"] = entries["async"]
      PROVE  MboxInv' /\ (\A t \in Threads : InMail(t))'
  BY <1>0, <1>3, MboxAsleep DEF MboxInv
<1>4. CASE used' = used /\ used = "msgq" /\ MsgqNext /\ UNCHANGED <<entries, slabVars, data_q, mboxVars>>
  <2>1. Calm /\ UNCHANGED mboxVars /\ UNCHANGED slabVars /\ entries' = entries /\ data_q' = data_q
    BY <1>2, <1>4 DEF mboxVars
  <2>2. PendInv' /\ RingInv'
    BY <1>0, <1>4, <2>1, RingStep
  <2>3. MboxInv' /\ (\A t \in Threads : InMail(t))'
    BY <1>3, <1>4, <2>1, <2>2
  <2>4. StacksInv' /\ NodesInv'
    BY <1>0, <1>4, <2>1, <2>2, StacksAsleep, NodesAsleep
  <2>5. SlabInv'
    BY <1>1, <1>4, <2>1, <2>2, <2>3
  <2> QED
    BY <2>2, <2>3, <2>4, <2>5 DEF IInv
<1>5. CASE used' = used /\ used = "stack" /\ StackNext /\ UNCHANGED <<msgqVars, slabVars, data_q, mboxVars>>
  <2>1. Calm /\ UNCHANGED mboxVars /\ UNCHANGED slabVars /\ UNCHANGED msgqVars /\ data_q' = data_q
    BY <1>2, <1>5 DEF mboxVars
  <2>2. PendInv' /\ StacksInv' /\ entries'["async"] = entries["async"]
    BY <1>0, <1>5, <2>1, StackStep
  <2>3. MboxInv' /\ (\A t \in Threads : InMail(t))'
    BY <1>3, <1>5, <2>1, <2>2
  <2>4. RingInv' /\ NodesInv'
    BY <1>0, <1>5, <2>1, <2>2, RingAsleep, NodesAsleep
  <2>5. SlabInv'
    BY <1>1, <1>5, <2>1, <2>2, <2>3
  <2> QED
    BY <2>2, <2>3, <2>4, <2>5 DEF IInv
<1>6. CASE used' = used /\ used = "slab" /\ SlabNext /\ UNCHANGED <<msgqVars, entries, data_q, mboxVars>>
  <2>1. Calm /\ UNCHANGED mboxVars /\ UNCHANGED msgqVars /\ entries' = entries /\ data_q' = data_q
    BY <1>2, <1>6 DEF mboxVars
  <2>2. PendInv' /\ SlabInv'
    BY <1>0, <1>6, <2>1, SlabStep
  <2>3. MboxInv'
    BY <1>3, <1>6, <2>1, <2>2
  <2>4. RingInv' /\ StacksInv' /\ NodesInv'
    BY <1>0, <1>6, <2>1, <2>2, RingAsleep, StacksAsleep, NodesAsleep
  <2> QED
    BY <2>2, <2>3, <2>4 DEF IInv
<1>7. CASE used' = used /\ used = "queue" /\ QueueNext /\ UNCHANGED <<msgqVars, entries, slabVars, mboxVars>>
  <2>1. Calm /\ UNCHANGED mboxVars /\ UNCHANGED slabVars /\ UNCHANGED msgqVars /\ entries' = entries
    BY <1>2, <1>7 DEF mboxVars
  <2>2. PendInv' /\ NodesInv'
    BY <1>0, <1>7, <2>1, QueueStep
  <2>3. MboxInv' /\ (\A t \in Threads : InMail(t))'
    BY <1>3, <1>7, <2>1, <2>2
  <2>4. RingInv' /\ StacksInv'
    BY <1>0, <1>7, <2>1, <2>2, RingAsleep, StacksAsleep
  <2>5. SlabInv'
    BY <1>1, <1>7, <2>1, <2>2, <2>3
  <2> QED
    BY <2>2, <2>3, <2>4, <2>5 DEF IInv
<1>8. CASE used' = used /\ used = "mbox" /\ MboxNext /\ UNCHANGED <<msgqVars, slabVars, data_q>>
  <2>1. PendInv' /\ StacksInv' /\ MboxInv'
    BY <1>0, <1>8, MboxStep
  <2>2. RingInv' /\ NodesInv'
    BY <1>0, <1>8, <2>1, RingAsleep, NodesAsleep
  <2>3. SlabInv'
    BY <1>1, <1>8, <2>1 DEF MboxInv
  <2> QED
    BY <2>1, <2>2, <2>3 DEF IInv
<1>9. CASE UNCHANGED vars
  <2>1. /\ UNCHANGED <<used, thr, waitq, firing, entries, data_q>>
        /\ UNCHANGED <<buffer, read_ptr, write_ptr, used_msgs>>
        /\ UNCHANGED <<free_list, num_used, held>>
        /\ UNCHANGED <<async_msg, mail, sem, owed>>
    BY <1>9 DEF vars, msgqVars, slabVars, mboxVars
  <2>2. Calm /\ NobodyMoves
    BY <1>2, <2>1 DEF NobodyMoves
  <2>3. PendInv'
    BY <1>0, <2>1, <2>2, NobodyMovesSafe
  <2>4. RingInv' /\ StacksInv' /\ NodesInv'
    BY <1>0, <2>1 DEF RingInv, StacksInv, NodesInv
  <2>5. SlabInv'
    <3>1. Given' = Given
      BY <2>1 DEF Given
    <3> QED
      BY <1>0, <2>1, <3>1 DEF SlabInv
  <2>6. \A u \in Threads : Has(u)' = Has(u) /\ Fills(u)' = Fills(u) /\ InMail(u)'
    BY <1>0, <2>1, MailSame
  <2>7. MailStays
    BY <2>1, <2>6 DEF MailStays
  <2>8. MailPlaced' /\ Signals' = Signals
    BY <1>0, <2>7, MailKept DEF MboxInv
  <2>9. Givers' = Givers /\ MailTyped'
    BY <1>0, <2>1 DEF Givers, MailTyped
  <2>10. NoneSuits' /\ SignalsDue'
    BY <1>0, <2>1, <2>8, <2>9 DEF MboxInv, NoneSuits, SignalsDue, Source, Target, mbox_message_match
  <2> QED
    BY <2>3, <2>4, <2>5, <2>6, <2>8, <2>9, <2>10 DEF IInv, MboxInv
<1> QED
  BY <1>4, <1>5, <1>6, <1>7, <1>8, <1>9 DEF Next

LEMMA IInvAlways == Spec => []IInv
BY IInvInit, IInvNext, PTL DEF Spec

(* ObjWaitInv: whatever the object and the number of threads, a blocked    *)
(* thread stands once, and sorted, in the queue of what it waits for, has  *)
(* the only running timeouts, and waits for nothing that is there.         *)
THEOREM ObjWaitsInvariant == Spec => []ObjWaitInv
<1>1. IInv => ObjWaitInv
  <2> SUFFICES ASSUME IInv PROVE ObjWaitInv
    OBVIOUS
  <2>1. PendInv /\ RingInv /\ StacksInv /\ SlabInv /\ NodesInv
    BY DEF IInv
  <2>2. \A t \in Threads : thr[t].armed => thr[t].at = "pended"
    BY <2>1 DEF PendInv, AllCarry, Carries
  <2>3. Waiting("msgq", "get") => used_msgs = 0
    BY <2>1 DEF RingInv, Waiting
  <2>4. Waiting("msgq", "put") => used_msgs = max_msgs
    BY <2>1 DEF RingInv, Waiting
  <2> QED
    BY <2>1, <2>2, <2>3, <2>4 DEF ObjWaitInv, PendInv, QueuesLinked, StacksInv, SlabInv, NodesInv
<1> QED
  BY <1>1, IInvAlways, PTL

(* BlocksAccounted: however many blocks and threads, each block is on the  *)
(* free list, with a caller or on its way to one waiter, and num_used      *)
(* counts the last two.                                                    *)
THEOREM SlabBlocksAccounted == Spec => []BlocksAccounted
<1>1. SlabInv => BlocksAccounted
  <2> SUFFICES ASSUME SlabInv PROVE BlocksAccounted
    OBVIOUS
  <2> DEFINE way == {thr[t].data : t \in Given}
             f == [t \in Given |-> thr[t].data]
  <2>1. Cardinality(way) = Cardinality(Given)
    <3>1. f \in Bijection(Given, way)
      <4>1. f \in [Given -> way]
        OBVIOUS
      <4>2. \A t, u \in Given : f[t] = f[u] => t = u
        BY DEF SlabInv
      <4>3. \A x \in way : \E t \in Given : f[t] = x
        OBVIOUS
      <4> QED
        BY <4>1, <4>2, <4>3 DEF Bijection, Injection, IsInjective, Surjection
    <3>2. ExistsBijection(Given, way)
      BY <3>1 DEF ExistsBijection
    <3> QED
      BY <3>2, SlabCounts, FS_Bijection
  <2>2. /\ \A x \in way : x \in Items /\ x \notin held /\ x \notin Members(free_list)
        /\ \A x \in Items : x \in held \/ x \in Members(free_list) \/ x \in way
    BY DEF SlabInv
  <2>3. Members(free_list) \subseteq Items /\ held \subseteq Items /\ Distinct(free_list)
        /\ held \cap Members(free_list) = {} /\ num_used = Cardinality(held) + Cardinality(Given)
    BY DEF SlabInv, Members
  <2>4. Members(free_list) \cap held = {} /\ held \cap way = {} /\ way \cap Members(free_list) = {}
    BY <2>2, <2>3
  <2>5. Members(free_list) \cup held \cup way = Items
    BY <2>2, <2>3
  <2>6. {Members(free_list) \cap held, held \cap way, way \cap Members(free_list)} = {{}}
    BY <2>4
  <2> QED
    BY <2>1, <2>3, <2>5, <2>6 DEF BlocksAccounted, Given
<1>2. IInv => BlocksAccounted
  BY <1>1 DEF IInv
<1> QED
  BY <1>2, IInvAlways, PTL

(* The number of places of x in a list without repetition, and of threads  *)
(* of which at most one is counted.                                        *)
LEMMA CountOne ==
  ASSUME NEW S, \A x, y \in S : x = y
  PROVE  Count(S) = IF S = {} THEN 0 ELSE 1
<1>1. CASE S = {}
  BY <1>1, FS_EmptySet DEF Count
<1>2. CASE S # {}
  <2>1. PICK x : S = {x}
    BY <1>2
  <2> QED
    BY <1>2, <2>1, FS_Singleton DEF Count
<1> QED
  BY <1>1, <1>2

LEMMA CountPlaces ==
  ASSUME NEW T, NEW s \in Seq(T), Distinct(s), NEW x
  PROVE  Count({i \in 1 .. Len(s) : s[i] = x}) = IF x \in Members(s) THEN 1 ELSE 0
<1> DEFINE S == {i \in 1 .. Len(s) : s[i] = x}
<1>1. \A i, j \in S : i = j
  BY DEF Distinct
<1>2. S # {} <=> x \in Members(s)
  BY DEF Members
<1> QED
  BY <1>1, <1>2, CountOne

(* MailInv: however many threads and descriptors, a sender and a receiver  *)
(* that suit each other never both wait, a message is in one place, and    *)
(* every signal asked for is still owed by someone.                        *)
THEOREM MailNeverLost == Spec => []MailInv
<1>1. IInv => MailInv
  <2> SUFFICES ASSUME IInv PROVE MailInv
    OBVIOUS
  <2>1. /\ PendInv /\ MailTyped /\ MailPlaced /\ NoneSuits /\ SignalsDue /\ \A t \in Threads : InMail(t)
    BY DEF IInv, MboxInv
  <2>2. \A m \in Msgs : Holders(m) = {t \in Threads : Has(t) = m}
    <3>1. ASSUME NEW m \in Msgs, NEW t \in Threads
          PROVE  Has(t) = m <=> \/ mail[t] = [step |-> "got", msg |-> m]
                                \/ thr[t].at = "done" /\ thr[t].q = "rx" /\ thr[t].ret = 0 /\ thr[t].data = m
      <4>1. mail[t] = [step |-> mail[t].step, msg |-> mail[t].msg]
        BY <2>1 DEF MailTyped
      <4>2. mail[t].step # "none" => thr[t].at = "idle"
        BY <2>1 DEF InMail
      <4>3. m # NULL
        BY Constants
      <4>4. mail[t] = [step |-> "got", msg |-> m] <=> mail[t].step = "got" /\ mail[t].msg = m
        BY <4>1
      <4> QED
        BY <4>2, <4>3, <4>4 DEF Has
    <3> QED
      BY <3>1 DEF Holders
  <2>3. \A d \in Descs : Putters(d) = {t \in Threads : Fills(t) = d}
    <3>1. ASSUME NEW d \in Descs, NEW t \in Threads
          PROVE  Fills(t) = d <=> \/ mail[t] = [step |-> "put", msg |-> d]
                                  \/ thr[t].at = "done" /\ thr[t].q = "async" /\ thr[t].data = d
      <4>1. mail[t] = [step |-> mail[t].step, msg |-> mail[t].msg]
        BY <2>1 DEF MailTyped
      <4>2. mail[t].step # "none" => thr[t].at = "idle"
        BY <2>1 DEF InMail
      <4>3. d # NULL
        BY Constants
      <4>4. mail[t] = [step |-> "put", msg |-> d] <=> mail[t].step = "put" /\ mail[t].msg = d
        BY <4>1
      <4> QED
        BY <4>2, <4>3, <4>4 DEF Fills
    <3> QED
      BY <3>1 DEF Putters
  <2>4. \A m \in Msgs : Count(Holders(m)) = IF \E t \in Threads : Has(t) = m THEN 1 ELSE 0
    <3> TAKE m \in Msgs
    <3>1. \A x, y \in Holders(m) : x = y
      BY <2>1, <2>2, Constants DEF MailPlaced
    <3>2. Holders(m) = {} <=> ~ \E t \in Threads : Has(t) = m
      BY <2>2
    <3> QED
      BY <3>1, <3>2, CountOne
  <2>5. \A d \in Descs : Count(Putters(d)) = IF \E t \in Threads : Fills(t) = d THEN 1 ELSE 0
    <3> TAKE d \in Descs
    <3>1. \A x, y \in Putters(d) : x = y
      BY <2>1, <2>3, Constants DEF MailPlaced
    <3>2. Putters(d) = {} <=> ~ \E t \in Threads : Fills(t) = d
      BY <2>3
    <3> QED
      BY <3>1, <3>2, CountOne
  <2>6. \A t \in Threads : Count(Holders(t)) = IF thr[t].at = "matched" THEN 1 ELSE 0
    BY <2>1, <2>4 DEF MailPlaced, Msgs
  <2>7. ASSUME NEW d \in Descs
        PROVE  Count({i \in 1 .. Len(entries["async"]) : entries["async"][i] = d})
                 + Count({i \in 1 .. Len(waitq["tx"]) : waitq["tx"][i] = d})
                 + Count(Holders(d)) + Count(Putters(d)) = 1
    <3>1. Count({i \in 1 .. Len(entries["async"]) : entries["async"][i] = d})
            = IF d \in Members(entries["async"]) THEN 1 ELSE 0
      BY <2>1, CountPlaces DEF MailTyped
    <3>2. Count({i \in 1 .. Len(waitq["tx"]) : waitq["tx"][i] = d})
            = IF d \in Members(waitq["tx"]) THEN 1 ELSE 0
      <4>1. waitq["tx"] \in Seq(Msgs) /\ Distinct(waitq["tx"])
        BY <2>1 DEF PendInv, QueuesLinked, WaitQueues
      <4> QED
        BY <4>1, CountPlaces
    <3>3. d \in Msgs
      BY DEF Msgs
    <3>4. \/ /\ d \in Members(entries["async"]) /\ d \notin Members(waitq["tx"])
             /\ \A t \in Threads : Has(t) # d /\ Fills(t) # d
          \/ /\ d \notin Members(entries["async"]) /\ d \in Members(waitq["tx"])
             /\ \A t \in Threads : Has(t) # d /\ Fills(t) # d
          \/ /\ d \notin Members(entries["async"]) /\ d \notin Members(waitq["tx"])
             /\ (\E t \in Threads : Has(t) = d) /\ \A t \in Threads : Fills(t) # d
          \/ /\ d \notin Members(entries["async"]) /\ d \notin Members(waitq["tx"])
             /\ (\E t \in Threads : Fills(t) = d) /\ \A t \in Threads : Has(t) # d
      BY <2>1 DEF MailPlaced
    <3> QED
      BY <2>4, <2>5, <3>1, <3>2, <3>3, <3>4
  <2>8. owed = sem + Count({t \in Threads : mail[t].step = "give"})
                + Count({d \in Descs : async_msg[d].signal /\ (Holders(d) # {} \/ d \in Members(waitq["tx"]))})
    <3>1. \A d \in Descs : Holders(d) # {} <=> \E t \in Threads : Has(t) = d
      BY <2>2 DEF Msgs
    <3>2. {d \in Descs : async_msg[d].signal /\ (Holders(d) # {} \/ d \in Members(waitq["tx"]))} = Signals
      BY <3>1 DEF Signals
    <3> QED
      BY <2>1, <3>2 DEF SignalsDue, Givers, Count
  <2> QED
    BY <2>1, <2>6, <2>7, <2>8 DEF MailInv, NoneSuits
<1> QED
  BY <1>1, IInvAlways, PTL
-----------------------------------------------------------------------------
(* The abstract store behind the objects: who wants what, and what the     *)
(* calls of others returned.                                               *)
Want(u) == IF thr[u].at = "pended" THEN [ret |-> 0, data |-> thr[u].data] ELSE NoReply
Ended(u) == IF thr[u].at = "done" THEN [ret |-> thr[u].ret, data |-> thr[u].data] ELSE NoReply
Stored == used # "mbox" /\ used' = used
Orderly == (Surplus => used # "queue") /\ (PurgesReaders => used # "msgq")

LEMMA ViewGetters ==
  ASSUME used # "mbox"
  PROVE  /\ Buffer!Getters = {t \in Threads : thr[t].at = "pended" /\ thr[t].data = NULL}
         /\ Buffer!Putters = {t \in Threads : thr[t].at = "pended" /\ thr[t].data # NULL}
BY DEF Buffer!Getters, Buffer!Putters, Buffer!Get, Buffer!None, Buffer!Result, NoReply

LEMMA ViewNobody ==
  ASSUME Stored, NobodyMoves
  PROVE  Buffer!Nobody
BY DEF Stored, NobodyMoves, Buffer!Nobody

LEMMA ViewReply ==
  ASSUME Stored, NEW ret, NEW data
  PROVE  /\ Reply(ret, data) <=> (IF used = "mbox" THEN NoReply ELSE reply)' = Buffer!Result(ret, data)
         /\ Silent <=> (IF used = "mbox" THEN NoReply ELSE reply)' = Buffer!None
BY DEF Stored, Reply, Silent, NoReply, Buffer!Result, Buffer!None

LEMMA ViewOver ==
  ASSUME Stored, NEW S \in SUBSET Threads, NEW res,
         \A u \in Threads \ S : Want(u)' = Want(u) /\ Ended(u)' = Ended(u),
         \A u \in S : Want(u)' = NoReply /\ Ended(u)' = res[u]
  PROVE  Buffer!Over(S, res)
BY DEF Stored, Want, Ended, NoReply, Buffer!Over, Buffer!None, Buffer!Result

LEMMA ViewWoken ==
  ASSUME Stored, ThreadsTyped, NEW t \in Threads, NEW ret \in {0, EAGAIN, ENOMSG}, NEW data \in Data,
         thr'[t] = Woken(t, ret, data), \A u \in Threads \ {t} : thr'[u] = thr[u]
  PROVE  Buffer!Over({t}, [u \in {t} |-> Buffer!Result(ret, data)])
<1>1. thr'[t].at = "done" /\ thr'[t].ret = ret /\ thr'[t].data = data
  BY WokenFields
<1>2. Want(t)' = NoReply /\ Ended(t)' = [ret |-> ret, data |-> data]
  BY <1>1 DEF Want, Ended
<1>3. \A u \in Threads \ {t} : Want(u)' = Want(u) /\ Ended(u)' = Ended(u)
  BY DEF Want, Ended
<1>4. [u \in {t} |-> Buffer!Result(ret, data)][t] = [ret |-> ret, data |-> data]
  BY DEF Buffer!Result
<1> QED
  BY <1>2, <1>3, <1>4, ViewOver

(* Everybody who waits waits in the queue of the object in use.            *)
LEMMA ViewWaiters ==
  ASSUME PendInv, used # "mbox", used \in WaitQueues, NEW t \in Threads
  PROVE  thr[t].at = "pended" <=> t \in Members(waitq[used])
<1>1. thr[t].at = "pended" => thr[t].q = used
  BY DEF PendInv, AllCarry, Carries, KindOf, WaitQueues
<1> QED
  BY <1>1 DEF PendInv, QueuesLinked

(* The head of the queue is one of the best.                               *)
LEMMA ViewBest ==
  ASSUME PendInv, used \in WaitQueues, used # "mbox", NEW t \in Threads, thr[t].at = "pended",
         \A u \in Members(waitq[used]) : Prio[t] <= Prio[u]
  PROVE  /\ thr[t].data = NULL => t \in Buffer!Best(Buffer!Getters)
         /\ thr[t].data # NULL => t \in Buffer!Best(Buffer!Putters)
<1>1. \A u \in Threads : thr[u].at = "pended" => Prio[t] <= Prio[u]
  BY ViewWaiters
<1> QED
  BY <1>1, ViewGetters DEF Buffer!Best

LEMMA ViewContent ==
  /\ used = "msgq" => Content = Messages
  /\ used = "stack" => Content = [i \in 1 .. Len(entries["stack"]) |->
                                    entries["stack"][Len(entries["stack"]) + 1 - i]]
  /\ used = "slab" => Content = free_list
  /\ used = "queue" => Content = [i \in 1 .. Len(data_q) |-> data_q[i].data]
  /\ used \notin {"msgq", "stack", "slab", "queue"} => Content = <<>>
<1>1. used = "msgq" => Content = Messages
  BY DEF Content
<1>2. used = "stack" => Content = [i \in 1 .. Len(entries["stack"]) |->
                                    entries["stack"][Len(entries["stack"]) + 1 - i]]
  BY DEF Content
<1>3. used = "slab" => Content = free_list
  BY DEF Content
<1>4. used = "queue" => Content = [i \in 1 .. Len(data_q) |-> data_q[i].data]
  BY DEF Content
<1>5. used \notin {"msgq", "stack", "slab", "queue"} => Content = <<>>
  BY DEF Content
<1> QED
  BY <1>1, <1>2, <1>3, <1>4, <1>5
LEMMA ViewContentNext ==
  (/\ used = "msgq" => Content = Messages
   /\ used = "stack" => Content = [i \in 1 .. Len(entries["stack"]) |->
                                     entries["stack"][Len(entries["stack"]) + 1 - i]]
   /\ used = "slab" => Content = free_list
   /\ used = "queue" => Content = [i \in 1 .. Len(data_q) |-> data_q[i].data]
   /\ used \notin {"msgq", "stack", "slab", "queue"} => Content = <<>>)'
BY ViewContent, PTL

(* Steps that all the objects share.                                       *)
LEMMA RefineWake ==
  ASSUME PendInv, MailTyped, Calm, Stored, firing' = firing, NEW q \in WaitQueues \ {"tx"}, used = q,
         NEW data \in Items \cup {NULL}, waitq[q] # <<>>, WakeFirst(q, 0, data)
  PROVE  \E t \in Threads :
           /\ t = Head(waitq[q]) /\ t \in Members(waitq[q]) /\ thr[t].at = "pended"
           /\ thr[t].data = NULL => t \in Buffer!Best(Buffer!Getters)
           /\ thr[t].data # NULL => t \in Buffer!Best(Buffer!Putters)
           /\ Buffer!Over({t}, [u \in {t} |-> Buffer!Result(0, data)])
<1>1. data \in Data /\ 0 \in {0, ENOMSG} /\ 0 \in {0, EAGAIN, ENOMSG} /\ used # "mbox"
  BY DataTypes DEF Stored
<1>2. PICK t \in Threads : t = Head(waitq[q])
  BY <1>1, WakeSafe
<1>3. /\ t \in Members(waitq[q]) /\ thr[t].at = "pended"
      /\ \A u \in Members(waitq[q]) : Prio[t] <= Prio[u]
      /\ thr'[t] = Woken(t, 0, data) /\ \A u \in Threads \ {t} : thr'[u] = thr[u]
  BY <1>1, <1>2, WakeSafe
<1>4. /\ thr[t].data = NULL => t \in Buffer!Best(Buffer!Getters)
      /\ thr[t].data # NULL => t \in Buffer!Best(Buffer!Putters)
  BY <1>1, <1>3, ViewBest
<1>5. ThreadsTyped
  BY DEF PendInv
<1>6. Buffer!Over({t}, [u \in {t} |-> Buffer!Result(0, data)])
  BY <1>1, <1>3, <1>5, ViewWoken
<1> QED
  BY <1>2, <1>3, <1>4, <1>6

LEMMA RefineBlocks ==
  ASSUME PendInv, MailTyped, Calm, Stored, Content' = Content, NEW t \in Threads,
         NEW q \in WaitQueues \ {"tx"}, used = q, NEW op \in {"get", "put", "send"}, NEW data, NEW timed \in BOOLEAN,
         Free(t), PendOn(t, q, op, data, timed),
         \/ op = "get" /\ data = NULL /\ Content = <<>>
         \/ op = "put" /\ data \in Items /\ used = "msgq" /\ Buffer!Full
  PROVE  Buffer!Next
<1>1. /\ thr' = [thr EXCEPT ![t] = [at |-> "pended", op |-> op, q |-> q, data |-> data,
                                    ret |-> EAGAIN, armed |-> timed]]
      /\ Silent
  BY DEF PendOn, PendBy
<1>2. /\ thr'[t].at = "pended" /\ thr'[t].data = data /\ thr[t].at = "idle"
      /\ \A u \in Threads \ {t} : thr'[u] = thr[u]
  BY <1>1 DEF PendInv, ThreadsTyped, Free
<1> DEFINE W == [u \in Threads |-> IF thr[u].at = "pended" /\ used # "mbox"
                                   THEN [ret |-> 0, data |-> thr[u].data] ELSE NoReply]
           E == [u \in Threads |-> IF thr[u].at = "done" /\ used # "mbox"
                                   THEN [ret |-> thr[u].ret, data |-> thr[u].data] ELSE NoReply]
<1>3. /\ W[t] = Buffer!None /\ E[t] = Buffer!None /\ E' = E
      /\ W' = [W EXCEPT ![t] = Buffer!Result(0, data)]
  BY <1>2 DEF Stored, NoReply, Buffer!None, Buffer!Result
<1>4. Buffer!Result(0, NULL) = Buffer!Get
  BY DEF Buffer!Get
<1>5. (IF used = "mbox" THEN NoReply ELSE reply)' = Buffer!None /\ used' = used
  BY <1>1, ViewReply DEF Stored
<1>6. Buffer!Blocks(t)
  BY <1>3, <1>4, <1>5 DEF Buffer!Blocks
<1> QED
  BY <1>6 DEF Buffer!Next

LEMMA RefineReturns ==
  ASSUME PendInv, MailTyped, Calm, Stored, Content' = Content, NEW t \in Threads, Returns(t)
  PROVE  Buffer!Next
<1>1. /\ thr[t].at = "done" /\ thr'[t] = Idle /\ \A u \in Threads \ {t} : thr'[u] = thr[u]
  BY ReturnsSafe
<1>2. Silent /\ thr'[t].at = "idle" /\ thr[t].ret \in {0, EAGAIN, ENOMSG}
  BY <1>1 DEF Returns, Idle, PendInv, ThreadsTyped, Thread
<1>3. thr[t].ret # 1
  BY <1>2 DEF EAGAIN, ENOMSG
<1> DEFINE W == [u \in Threads |-> IF thr[u].at = "pended" /\ used # "mbox"
                                   THEN [ret |-> 0, data |-> thr[u].data] ELSE NoReply]
           E == [u \in Threads |-> IF thr[u].at = "done" /\ used # "mbox"
                                   THEN [ret |-> thr[u].ret, data |-> thr[u].data] ELSE NoReply]
<1>4. W' = W /\ E[t] # Buffer!None /\ E' = [E EXCEPT ![t] = Buffer!None]
  BY <1>1, <1>2, <1>3 DEF Stored, NoReply, Buffer!None, Buffer!Result
<1>5. (IF used = "mbox" THEN NoReply ELSE reply)' = Buffer!None /\ used' = used
  BY <1>2, ViewReply DEF Stored
<1>6. Buffer!Return(t)
  BY <1>4, <1>5 DEF Buffer!Return
<1> QED
  BY <1>6 DEF Buffer!Next

(* The two steps of a timeout: the first shows nothing, the second ends    *)
(* the wait if a hand-over has not ended it before.                        *)
LEMMA RefinePend ==
  ASSUME PendInv, MailTyped, Calm, Stored, Content' = Content, Orderly, PendNext
  PROVE  Buffer!Next
<1>0. Silent /\ used # "mbox" /\ used' = used
  BY DEF PendNext, z_thread_timeout, Announce, Stored
<1>1. (IF used = "mbox" THEN NoReply ELSE reply)' = Buffer!None
  BY <1>0, ViewReply
<1>2. ASSUME \A u \in Threads : Want(u)' = Want(u) /\ Ended(u)' = Ended(u) PROVE Buffer!Next
  <2>1. Buffer!Quiet
    BY <1>0, <1>1, <1>2 DEF Buffer!Quiet, Want, Ended
  <2> QED
    BY <2>1 DEF Buffer!Next
<1>3. CASE \E t \in Threads : Announce(t)
  <2>1. \A u \in Threads : Want(u)' = Want(u) /\ Ended(u)' = Ended(u)
    BY <1>3, AnnounceSafe DEF Want, Ended
  <2> QED
    BY <1>2, <2>1
<1>4. CASE z_thread_timeout /\ NobodyMoves
  BY <1>2, <1>4 DEF NobodyMoves, Want, Ended
<1>5. CASE z_thread_timeout /\ ~NobodyMoves
  <2>1. PICK t \in Threads : t = firing
    BY <1>5, TimeoutSafe
  <2>2. /\ thr[t].at = "pended" /\ \A u \in Threads \ {t} : thr'[u] = thr[u]
        /\ thr'[t].at = "done" /\ thr'[t].data = NULL /\ thr'[t].ret = EAGAIN
    BY <1>5, <2>1, TimeoutSafe DEF PendInv, AllCarry, Carries, Orderly
  <2>3. EAGAIN = Buffer!EAGAIN
    BY DEF EAGAIN, Buffer!EAGAIN
  <2>4. Buffer!Over({t}, [u \in {t} |-> Buffer!Result(Buffer!EAGAIN, NULL)])
    <3>1. Want(t)' = NoReply /\ Ended(t)' = [ret |-> EAGAIN, data |-> NULL]
      BY <2>2 DEF Want, Ended
    <3>2. \A u \in Threads \ {t} : Want(u)' = Want(u) /\ Ended(u)' = Ended(u)
      BY <2>2 DEF Want, Ended
    <3>3. [u \in {t} |-> Buffer!Result(Buffer!EAGAIN, NULL)][t] = [ret |-> EAGAIN, data |-> NULL]
      BY <2>3 DEF Buffer!Result
    <3> QED
      BY <3>1, <3>2, <3>3, ViewOver
  <2>5. Buffer!Expire(t)
    BY <1>0, <1>1, <2>2, <2>4 DEF Buffer!Expire, Buffer!None, Buffer!Result
  <2> QED
    BY <2>5 DEF Buffer!Next
<1> QED
  BY <1>3, <1>4, <1>5 DEF PendNext

(* What the calls of the objects have in common: an item that a waiter     *)
(* has, one that the store has, a store that is full, an item taken out,   *)
(* and a call that changes nothing.                                        *)
LEMMA RefineHand ==
  ASSUME PendInv, MailTyped, Calm, Stored, firing' = firing, NEW q \in WaitQueues \ {"tx"}, used = q,
         NEW x \in Items, waitq[q] # <<>>, WakeFirst(q, 0, x), Content' = Content, Reply(0, NULL),
         \A t \in Members(waitq[q]) : thr[t].data = NULL
  PROVE  Buffer!Next
<1>1. PICK t \in Threads :
           /\ t \in Members(waitq[q])
           /\ thr[t].data = NULL => t \in Buffer!Best(Buffer!Getters)
           /\ Buffer!Over({t}, [u \in {t} |-> Buffer!Result(0, x)])
  BY RefineWake
<1>2. t \in Buffer!Best(Buffer!Getters)
  BY <1>1
<1>3. (IF used = "mbox" THEN NoReply ELSE reply)' = Buffer!Result(0, NULL) /\ used' = used
  BY ViewReply DEF Stored
<1>4. Buffer!Put(x)
  BY <1>1, <1>2, <1>3 DEF Buffer!Put
<1> QED
  BY <1>4 DEF Buffer!Next

LEMMA RefineStore ==
  ASSUME Stored, NobodyMoves, Buffer!Getters = {}, ~Buffer!Full, NEW x \in Items,
         NEW i \in Buffer!Places, Content' = Buffer!With(i, x), Reply(0, NULL)
  PROVE  Buffer!Next
<1>1. (IF used = "mbox" THEN NoReply ELSE reply)' = Buffer!Result(0, NULL) /\ used' = used
  BY ViewReply DEF Stored
<1>2. Buffer!Put(x)
  BY <1>1, ViewNobody DEF Buffer!Put
<1> QED
  BY <1>2 DEF Buffer!Next

LEMMA RefineFull ==
  ASSUME Stored, NobodyMoves, Buffer!Getters = {}, Buffer!Full \/ used = "queue", NEW x \in Items,
         Content' = Content, Reply(Buffer!PutError, NULL)
  PROVE  Buffer!Next
<1>1. (IF used = "mbox" THEN NoReply ELSE reply)' = Buffer!Result(Buffer!PutError, NULL) /\ used' = used
  BY ViewReply DEF Stored
<1>2. Buffer!Put(x)
  BY <1>1, ViewNobody DEF Buffer!Put
<1> QED
  BY <1>2 DEF Buffer!Next

LEMMA RefineTake ==
  ASSUME Stored, NobodyMoves, Buffer!Putters = {}, Content # <<>>,
         Content' = Tail(Content), Reply(0, Head(Content))
  PROVE  Buffer!Next
<1>1. (IF used = "mbox" THEN NoReply ELSE reply)' = Buffer!Result(0, Head(Content)) /\ used' = used
  BY ViewReply DEF Stored
<1>2. Buffer!GetOne
  BY <1>1, ViewNobody DEF Buffer!GetOne
<1> QED
  BY <1>2 DEF Buffer!Next

LEMMA RefineNone ==
  ASSUME Stored, NobodyMoves, Content' = Content, Content = <<>>, Reply(Buffer!GetError, NULL)
  PROVE  Buffer!Next
<1>1. (IF used = "mbox" THEN NoReply ELSE reply)' = Buffer!Result(Buffer!GetError, NULL) /\ used' = used
  BY ViewReply DEF Stored
<1>2. Buffer!GetNone
  BY <1>1, ViewNobody DEF Buffer!GetNone
<1> QED
  BY <1>2 DEF Buffer!Next

LEMMA RefineLook ==
  ASSUME Stored, NobodyMoves, Content' = Content,
         \/ used = "msgq" /\ \E idx \in 0 .. max_msgs :
              IF idx < Len(Content) THEN Looked(idx, 0, Content[idx + 1])
              ELSE Looked(idx, Buffer!GetError, NULL)
         \/ used = "queue" /\ \E end \in {"head", "tail"} :
              Looked(end, 0, CASE Content = <<>> -> NULL
                               [] Content # <<>> /\ end = "head" -> Content[1]
                               [] OTHER -> Content[Len(Content)])
  PROVE  Buffer!Next
<1>1. used' = used /\ Buffer!Nobody /\ used # "mbox"
  BY ViewNobody DEF Stored
<1>2. \A at, ret, data : Looked(at, ret, data)
        => (IF used = "mbox" THEN NoReply ELSE reply)' = Buffer!Look(at, Buffer!Result(ret, data))
  BY <1>1 DEF Looked, Buffer!Look, Buffer!Result
<1>3. CASE used = "msgq"
  <2>1. PICK idx \in 0 .. max_msgs : IF idx < Len(Content) THEN Looked(idx, 0, Content[idx + 1])
                                     ELSE Looked(idx, Buffer!GetError, NULL)
    BY <1>3
  <2>2. (IF used = "mbox" THEN NoReply ELSE reply)'
          = Buffer!Look(idx, IF idx < Len(Content) THEN Buffer!Result(0, Content[idx + 1])
                             ELSE Buffer!Result(Buffer!GetError, NULL))
    BY <1>2, <2>1
  <2>3. idx \in 0 .. [msgq |-> max_msgs, stack |-> num_entries["stack"]][used]
    BY <1>3
  <2>4. Buffer!Peek
    BY <1>1, <1>3, <2>2, <2>3 DEF Buffer!Peek
  <2> QED
    BY <2>4 DEF Buffer!Next
<1>4. CASE used = "queue"
  <2>1. PICK end \in {"head", "tail"} :
          Looked(end, 0, CASE Content = <<>> -> NULL
                           [] Content # <<>> /\ end = "head" -> Content[1]
                           [] OTHER -> Content[Len(Content)])
    BY <1>4
  <2>2. (IF used = "mbox" THEN NoReply ELSE reply)'
          = Buffer!Look(end, Buffer!Result(0, CASE Content = <<>> -> NULL
                                                [] Content # <<>> /\ end = "head" -> Content[1]
                                                [] OTHER -> Content[Len(Content)]))
    BY <1>2, <2>1
  <2>3. Buffer!Peek
    BY <1>1, <1>4, <2>2 DEF Buffer!Peek
  <2> QED
    BY <2>3 DEF Buffer!Next
<1> QED
  BY <1>3, <1>4

(* Nobody has to wait for room but at a message queue, and nobody waits at *)
(* an object whose wait queue is empty.                                    *)
LEMMA ViewNoPutters ==
  ASSUME PendInv, used \notin {"mbox", "msgq"}
  PROVE  Buffer!Putters = {} /\ \A t \in Threads : thr[t].at = "pended" => thr[t].data = NULL
<1>1. \A t \in Threads : thr[t].at = "pended" => thr[t].data = NULL
  BY DEF PendInv, AllCarry, Carries
<1> QED
  BY <1>1, ViewGetters

LEMMA ViewNoWaiters ==
  ASSUME PendInv, used # "mbox", used \in WaitQueues, waitq[used] = <<>>
  PROVE  Buffer!Getters = {} /\ Buffer!Putters = {}
<1>1. \A t \in Threads : thr[t].at # "pended"
  BY ViewWaiters, NoMembers
<1> QED
  BY <1>1, ViewGetters

LEMMA ViewErrors ==
  /\ Buffer!PutError = IF used = "msgq" THEN ENOMSG ELSE ENOMEM
  /\ used = "msgq" => Buffer!GetError = ENOMSG
  /\ used = "stack" => Buffer!GetError = EBUSY
  /\ used = "slab" => Buffer!GetError = ENOMEM
  /\ used = "queue" => Buffer!GetError = 0
<1>1. ENOMSG = Buffer!ENOMSG /\ ENOMEM = Buffer!ENOMEM /\ EBUSY = Buffer!EBUSY
  BY DEF ENOMSG, ENOMEM, EBUSY, Buffer!ENOMSG, Buffer!ENOMEM, Buffer!EBUSY
<1>2. used = "msgq" => Buffer!GetError = ENOMSG
  BY <1>1 DEF Buffer!GetError
<1>3. used = "stack" => Buffer!GetError = EBUSY
  BY <1>1 DEF Buffer!GetError
<1>4. used = "slab" => Buffer!GetError = ENOMEM
  BY <1>1 DEF Buffer!GetError
<1>5. used = "queue" => Buffer!GetError = 0
  BY <1>1 DEF Buffer!GetError
<1> QED
  BY <1>1, <1>2, <1>3, <1>4, <1>5 DEF Buffer!PutError
-----------------------------------------------------------------------------
(* A slab is a LIFO of its free blocks.                                    *)
LEMMA RefineSlab ==
  ASSUME PendInv, MailTyped, SlabInv, Calm, used = "slab", Orderly, SlabNext
  PROVE  Buffer!Next
<1>0. /\ Stored /\ used \in WaitQueues \ {"tx"} /\ used \notin {"mbox", "msgq"}
      /\ Content = free_list /\ Content' = free_list'
  <2>1. used' = "slab"
    BY DEF Calm
  <2> QED
    BY <2>1, ViewContent, ViewContentNext DEF Stored, Calm, WaitQueues
<1>1. CASE k_mem_slab_alloc
  <2>1. NobodyMoves
    BY <1>1 DEF k_mem_slab_alloc
  <2>2. CASE free_list # <<>>
    <3>1. Content' = Tail(Content) /\ Reply(0, Head(Content)) /\ Content # <<>>
      BY <1>0, <1>1, <2>2 DEF k_mem_slab_alloc
    <3>2. Buffer!Putters = {}
      BY <1>0, ViewNoPutters
    <3> QED
      BY <1>0, <2>1, <3>1, <3>2, RefineTake
  <2>3. CASE free_list = <<>>
    <3>1. Content' = Content /\ Content = <<>> /\ Reply(Buffer!GetError, NULL)
      BY <1>0, <1>1, <2>3, ViewErrors DEF k_mem_slab_alloc, slabVars
    <3> QED
      BY <1>0, <2>1, <3>1, RefineNone
  <2> QED
    BY <2>2, <2>3
<1>2. ASSUME NEW mem \in Items, k_mem_slab_free(mem) PROVE Buffer!Next
  <2>1. Reply(0, NULL) /\ firing' = firing
    BY <1>2 DEF k_mem_slab_free
  <2>2. CASE free_list = <<>> /\ waitq["slab"] # <<>>
    <3>1. WakeFirst("slab", 0, mem) /\ Content' = Content
      BY <1>0, <1>2, <2>2 DEF k_mem_slab_free
    <3>2. \A t \in Members(waitq["slab"]) : thr[t].data = NULL
      <4>1. waitq["slab"] \in Seq(Threads)
        BY <1>0 DEF PendInv, QueuesLinked
      <4>2. Members(waitq["slab"]) \subseteq Threads
        BY <4>1 DEF Members
      <4> QED
        BY <1>0, <4>2, ViewWaiters, ViewNoPutters
    <3>3. "slab" \in WaitQueues \ {"tx"} /\ waitq["slab"] # <<>>
      BY <1>0, <2>2
    <3> QED
      BY <1>0, <2>1, <3>1, <3>2, <3>3, RefineHand
  <2>3. CASE ~(free_list = <<>> /\ waitq["slab"] # <<>>)
    <3>1. NobodyMoves /\ free_list' = <<mem>> \o free_list
      BY <1>2, <2>3 DEF k_mem_slab_free
    <3>2. waitq[used] = <<>>
      BY <2>3 DEF SlabInv
    <3>3. Buffer!Getters = {}
      BY <1>0, <3>2, ViewNoWaiters
    <3>4. ~Buffer!Full /\ 0 \in Buffer!Places
      BY <1>0 DEF Buffer!Full, Buffer!Places
    <3>5. Content' = Buffer!With(0, mem)
      <4>1. free_list \in Seq(Items)
        BY DEF SlabInv
      <4>2. SubSeq(free_list, 1, 0) = <<>> /\ SubSeq(free_list, 1, Len(free_list)) = free_list
        BY <4>1
      <4>3. <<>> \o <<mem>> = <<mem>>
        OBVIOUS
      <4> QED
        BY <1>0, <3>1, <4>2, <4>3 DEF Buffer!With
    <3> QED
      BY <1>0, <2>1, <3>1, <3>3, <3>4, <3>5, RefineStore
  <2> QED
    BY <2>2, <2>3
<1>3. ASSUME NEW t \in Threads, AllocReturns(t) PROVE Buffer!Next
  <2>1. Returns(t) /\ Content' = Content
    BY <1>0, <1>3 DEF AllocReturns
  <2> QED
    BY <1>0, <2>1, RefineReturns
<1>4. ASSUME NEW t \in Threads, NEW timed \in BOOLEAN, k_mem_slab_alloc_wait(t, timed) PROVE Buffer!Next
  <2>1. /\ Free(t) /\ PendOn(t, "slab", "get", NULL, timed) /\ Content' = Content /\ Content = <<>>
        /\ "slab" \in WaitQueues \ {"tx"} /\ "get" \in {"get", "put", "send"}
    BY <1>0, <1>4 DEF k_mem_slab_alloc_wait, slabVars
  <2> QED
    BY <1>0, <2>1, RefineBlocks
<1>5. CASE PendNext /\ UNCHANGED slabVars
  <2>1. Content' = Content /\ PendNext
    BY <1>0, <1>5 DEF slabVars
  <2> QED
    BY <1>0, <2>1, RefinePend
<1> QED
  BY <1>1, <1>2, <1>3, <1>4, <1>5 DEF SlabNext

(* Lists read from the other end.                                          *)
Backwards(s) == [i \in 1 .. Len(s) |-> s[Len(s) + 1 - i]]

LEMMA BackwardsPush ==
  ASSUME NEW S, NEW s \in Seq(S), NEW x \in S
  PROVE  Backwards(Append(s, x)) = <<x>> \o Backwards(s)
<1>1. Append(s, x) \in Seq(S) /\ Len(Append(s, x)) = Len(s) + 1 /\ Len(s) \in Nat
  OBVIOUS
<1>2. Backwards(s) \in Seq(S) /\ Len(Backwards(s)) = Len(s)
  BY <1>1 DEF Backwards
<1>3. <<x>> \o Backwards(s) \in Seq(S) /\ Len(<<x>> \o Backwards(s)) = Len(s) + 1
  BY <1>2
<1>4. Backwards(Append(s, x)) \in Seq(S) /\ Len(Backwards(Append(s, x))) = Len(s) + 1
  BY <1>1 DEF Backwards
<1>5. \A i \in 1 .. (Len(s) + 1) : Backwards(Append(s, x))[i] = (<<x>> \o Backwards(s))[i]
  <2> TAKE i \in 1 .. (Len(s) + 1)
  <2>1. Backwards(Append(s, x))[i] = Append(s, x)[Len(s) + 2 - i]
    BY <1>1 DEF Backwards
  <2>2. CASE i = 1
    BY <1>1, <1>2, <2>1, <2>2
  <2>3. CASE i # 1
    <3>1. (<<x>> \o Backwards(s))[i] = Backwards(s)[i - 1]
      BY <1>1, <1>2, <2>3
    <3>2. Backwards(s)[i - 1] = s[Len(s) + 2 - i]
      BY <1>1, <2>3 DEF Backwards
    <3>3. Append(s, x)[Len(s) + 2 - i] = s[Len(s) + 2 - i]
      BY <1>1, <2>3
    <3> QED
      BY <2>1, <3>1, <3>2, <3>3
  <2> QED
    BY <2>2, <2>3
<1> HIDE DEF Backwards
<1> QED
  BY <1>3, <1>4, <1>5

LEMMA BackwardsPop ==
  ASSUME NEW S, NEW s \in Seq(S), s # <<>>
  PROVE  /\ Backwards(SubSeq(s, 1, Len(s) - 1)) = Tail(Backwards(s))
         /\ Head(Backwards(s)) = s[Len(s)] /\ Backwards(s) # <<>>
<1>1. Len(s) \in Nat /\ Len(s) >= 1
  OBVIOUS
<1> DEFINE p == SubSeq(s, 1, Len(s) - 1)
<1>2. p \in Seq(S) /\ Len(p) = Len(s) - 1 /\ \A i \in 1 .. Len(p) : p[i] = s[i]
  BY <1>1
<1>3. /\ Backwards(s) \in Seq(S) /\ Len(Backwards(s)) = Len(s)
      /\ \A i \in 1 .. Len(s) : Backwards(s)[i] = s[Len(s) + 1 - i]
  BY <1>1 DEF Backwards
<1> HIDE DEF p
<1>4. /\ Backwards(p) \in Seq(S) /\ Len(Backwards(p)) = Len(s) - 1
      /\ \A i \in 1 .. (Len(s) - 1) : Backwards(p)[i] = s[Len(s) - i]
  <2>1. \A i \in 1 .. Len(p) : Len(p) + 1 - i \in 1 .. Len(p) /\ p[Len(p) + 1 - i] \in S
    BY <1>1, <1>2
  <2>2. Backwards(p) \in Seq(S) /\ Len(Backwards(p)) = Len(p)
    BY <1>2, <2>1 DEF Backwards
  <2> QED
    BY <1>1, <1>2, <2>2 DEF Backwards
<1>5. /\ Tail(Backwards(s)) \in Seq(S) /\ Len(Tail(Backwards(s))) = Len(s) - 1
      /\ \A i \in 1 .. (Len(s) - 1) : Tail(Backwards(s))[i] = s[Len(s) - i]
  <2>1. Backwards(s) # <<>>
    BY <1>1, <1>3
  <2>2. /\ Tail(Backwards(s)) \in Seq(S) /\ Len(Tail(Backwards(s))) = Len(s) - 1
        /\ \A i \in 1 .. (Len(s) - 1) : Tail(Backwards(s))[i] = Backwards(s)[i + 1]
    BY <1>1, <1>3, <2>1
  <2> QED
    BY <1>1, <1>3, <2>2
<1>6. Backwards(p) = Tail(Backwards(s))
  <2> DEFINE a == Backwards(p)
             b == Tail(Backwards(s))
  <2>1. a \in Seq(S) /\ b \in Seq(S) /\ Len(a) = Len(b) /\ \A i \in 1 .. Len(a) : a[i] = b[i]
    BY <1>4, <1>5
  <2> HIDE DEF a, b
  <2>2. a = b
    BY <2>1, SeqEqual
  <2> QED
    BY <2>2 DEF a, b
<1> QED
  BY <1>1, <1>3, <1>6 DEF p

(* A stack is a LIFO of words.                                             *)
LEMMA RefineStack ==
  ASSUME PendInv, MailTyped, StacksInv, Calm, used = "stack", Orderly, StackNext
  PROVE  Buffer!Next
<1> DEFINE s == entries["stack"]
<1>0. /\ Stored /\ used \in WaitQueues \ {"tx"} /\ used \notin {"mbox", "msgq"}
      /\ Content = Backwards(s) /\ Content' = Backwards(entries'["stack"])
  <2>1. used' = "stack"
    BY DEF Calm
  <2> QED
    BY <2>1, ViewContent, ViewContentNext DEF Stored, Calm, WaitQueues, Backwards
<1>1. s \in Seq(Data) /\ DOMAIN entries = Stacks /\ "stack" \in Stacks /\ Len(s) \in Nat
  BY DEF StacksInv, Stacks
<1>2. /\ Content = <<>> <=> s = <<>>
      /\ Content \in Seq(Data) /\ Len(Content) = Len(s)
  BY <1>0, <1>1 DEF Backwards
<1>3. Buffer!Full <=> Len(s) = num_entries["stack"]
  BY <1>0, <1>2 DEF Buffer!Full
<1>4. ASSUME NEW x \in Items, k_stack_push("stack", x) PROVE Buffer!Next
  <2>0. firing' = firing
    BY <1>4 DEF k_stack_push
  <2>1. CASE Len(s) = num_entries["stack"]
    <3>1. NobodyMoves /\ Reply(ENOMEM, NULL) /\ entries' = entries
      BY <1>4, <2>1 DEF k_stack_push
    <3>2. s # <<>>
      BY <1>1, <2>1, Constants
    <3>3. waitq[used] = <<>>
      BY <1>1, <3>2 DEF StacksInv
    <3>4. Buffer!Getters = {} /\ Buffer!Full /\ Content' = Content /\ Reply(Buffer!PutError, NULL)
      BY <1>0, <1>3, <2>1, <3>1, <3>3, ViewNoWaiters, ViewErrors
    <3> QED
      BY <1>0, <3>1, <3>4, RefineFull
  <2>2. CASE Len(s) # num_entries["stack"] /\ waitq["stack"] # <<>>
    <3>1. WakeFirst("stack", 0, x) /\ Content' = Content /\ Reply(0, NULL)
      BY <1>0, <1>4, <2>2 DEF k_stack_push
    <3>2. \A t \in Members(waitq["stack"]) : thr[t].data = NULL
      <4>1. waitq["stack"] \in Seq(Threads)
        BY <1>0 DEF PendInv, QueuesLinked
      <4>2. Members(waitq["stack"]) \subseteq Threads
        BY <4>1 DEF Members
      <4> QED
        BY <1>0, <4>2, ViewWaiters, ViewNoPutters
    <3>3. "stack" \in WaitQueues \ {"tx"} /\ waitq["stack"] # <<>>
      BY <1>0, <2>2
    <3> QED
      BY <1>0, <2>0, <3>1, <3>2, <3>3, RefineHand
  <2>3. CASE Len(s) # num_entries["stack"] /\ waitq["stack"] = <<>>
    <3>1. /\ NobodyMoves /\ Reply(0, NULL)
          /\ entries' = [entries EXCEPT !["stack"] = Append(@, x)]
      BY <1>4, <2>3 DEF k_stack_push
    <3>2. Buffer!Getters = {} /\ ~Buffer!Full /\ 0 \in Buffer!Places
      BY <1>0, <1>3, <2>3, ViewNoWaiters DEF Buffer!Places
    <3>3. Content' = Buffer!With(0, x)
      <4>1. Content' = <<x>> \o Content
        BY <1>0, <1>1, <3>1, BackwardsPush, DataTypes
      <4>2. SubSeq(Content, 1, 0) = <<>> /\ SubSeq(Content, 1, Len(Content)) = Content
        BY <1>2
      <4>3. <<>> \o <<x>> = <<x>>
        OBVIOUS
      <4> QED
        BY <4>1, <4>2, <4>3 DEF Buffer!With
    <3> QED
      BY <1>0, <3>1, <3>2, <3>3, RefineStore
  <2> QED
    BY <2>1, <2>2, <2>3
<1>5. CASE k_stack_pop("stack")
  <2>1. NobodyMoves
    BY <1>5 DEF k_stack_pop
  <2>2. CASE s # <<>>
    <3>1. /\ Reply(0, s[Len(s)])
          /\ entries' = [entries EXCEPT !["stack"] = SubSeq(@, 1, Len(@) - 1)]
      BY <1>5, <2>2 DEF k_stack_pop
    <3>2. entries'["stack"] = SubSeq(s, 1, Len(s) - 1)
      BY <1>1, <3>1
    <3>3. Content' = Tail(Content) /\ Reply(0, Head(Content)) /\ Content # <<>>
      BY <1>0, <1>1, <2>2, <3>1, <3>2, BackwardsPop
    <3>4. Buffer!Putters = {}
      BY <1>0, ViewNoPutters
    <3> QED
      BY <1>0, <2>1, <3>3, <3>4, RefineTake
  <2>3. CASE s = <<>>
    <3>1. Content' = Content /\ Content = <<>> /\ Reply(Buffer!GetError, NULL)
      BY <1>0, <1>2, <1>5, <2>3, ViewErrors DEF k_stack_pop
    <3> QED
      BY <1>0, <2>1, <3>1, RefineNone
  <2> QED
    BY <2>2, <2>3
<1>6. ASSUME NEW t \in Threads, NEW timed \in BOOLEAN, k_stack_pop_wait(t, "stack", timed) PROVE Buffer!Next
  <2>1. /\ Free(t) /\ PendOn(t, "stack", "get", NULL, timed) /\ Content' = Content /\ Content = <<>>
        /\ "stack" \in WaitQueues \ {"tx"} /\ "get" \in {"get", "put", "send"}
    BY <1>0, <1>2, <1>6 DEF k_stack_pop_wait
  <2> QED
    BY <1>0, <2>1, RefineBlocks
<1>7. CASE (PendNext \/ \E t \in Threads : Returns(t)) /\ UNCHANGED entries
  <2>1. Content' = Content
    BY <1>0, <1>7
  <2> QED
    BY <1>0, <1>7, <2>1, RefinePend, RefineReturns
<1> QED
  BY <1>4, <1>5, <1>6, <1>7 DEF StackNext

(* The ring as a sequence.                                                 *)
Cell(r, i) == IF r + i - 1 < max_msgs THEN r + i - 1 ELSE r + i - 1 - max_msgs
Words == Items \cup {NULL}

LEMMA Cells ==
  ASSUME NEW r \in 0 .. (max_msgs - 1), NEW i \in 1 .. max_msgs
  PROVE  (r + i - 1) % max_msgs = Cell(r, i) /\ Cell(r, i) \in 0 .. (max_msgs - 1)
<1>1. max_msgs \in Nat /\ max_msgs >= 1
  BY Constants
<1>2. ASSUME NEW n \in Nat, n >= 1, NEW k \in Nat, k < n + n
      PROVE  k % n = IF k < n THEN k ELSE k - n
  BY <1>2
<1>3. r + i - 1 \in Nat /\ r + i - 1 < max_msgs + max_msgs
  BY <1>1
<1>4. (r + i - 1) % max_msgs = IF r + i - 1 < max_msgs THEN r + i - 1 ELSE (r + i - 1) - max_msgs
  BY <1>1, <1>2, <1>3
<1>5. Cell(r, i) \in 0 .. (max_msgs - 1)
  BY <1>1 DEF Cell
<1>6. Cell(r, i) = IF r + i - 1 < max_msgs THEN r + i - 1 ELSE (r + i - 1) - max_msgs
  BY <1>1 DEF Cell
<1> QED
  BY <1>4, <1>5, <1>6

LEMMA CellSteps ==
  ASSUME NEW r \in 0 .. (max_msgs - 1), NEW w \in 0 .. (max_msgs - 1), NEW n \in 0 .. max_msgs,
         Follows(w, r, n)
  PROVE  /\ Cell(r, 1) = r
         /\ n < max_msgs => Cell(r, n + 1) = w /\ \A i \in 1 .. n : Cell(r, i) # w
         /\ \A i \in 1 .. (max_msgs - 1) : Cell(Step(r), i) = Cell(r, i + 1)
         /\ n = max_msgs => /\ Cell(Step(r), n) = w
                            /\ \A i \in 1 .. (n - 1) : Cell(Step(r), i) # w
<1>1. max_msgs \in Nat /\ max_msgs >= 1 /\ n \in Nat /\ r \in Nat /\ w \in Nat /\ r < max_msgs
  BY Constants
<1>2. Cell(r, 1) = r
  BY <1>1 DEF Cell
<1>3. n < max_msgs => Cell(r, n + 1) = w /\ \A i \in 1 .. n : Cell(r, i) # w
  BY <1>1 DEF Cell, Follows
<1>4. \A i \in 1 .. (max_msgs - 1) : Cell(Step(r), i) = Cell(r, i + 1)
  BY <1>1 DEF Cell, Step
<1>5. n = max_msgs => w = r
  BY <1>1 DEF Follows
<1>6. n = max_msgs => /\ Cell(Step(r), n) = w
                      /\ \A i \in 1 .. (n - 1) : Cell(Step(r), i) # w
  BY <1>1, <1>5 DEF Cell, Step
<1> QED
  BY <1>2, <1>3, <1>4, <1>6

LEMMA RingView ==
  RingOk => /\ Messages \in Seq(Words) /\ Len(Messages) = used_msgs
            /\ \A i \in 1 .. used_msgs : Messages[i] = buffer[Cell(read_ptr, i)]
<1> SUFFICES ASSUME RingOk
             PROVE  /\ Messages \in Seq(Words) /\ Len(Messages) = used_msgs
                    /\ \A i \in 1 .. used_msgs : Messages[i] = buffer[Cell(read_ptr, i)]
  OBVIOUS
<1>1. max_msgs \in Nat /\ used_msgs \in Nat /\ used_msgs <= max_msgs
  BY Constants DEF RingOk
<1>2. \A i \in 1 .. used_msgs : /\ (read_ptr + i - 1) % max_msgs = Cell(read_ptr, i)
                                /\ buffer[Cell(read_ptr, i)] \in Words
  <2> TAKE i \in 1 .. used_msgs
  <2>1. i \in 1 .. max_msgs
    BY <1>1
  <2> QED
    BY <2>1, Cells DEF RingOk, Words
<1>3. \A i \in 1 .. used_msgs : Messages[i] = buffer[Cell(read_ptr, i)]
  BY <1>2 DEF Messages
<1>4. Messages \in [1 .. used_msgs -> Words]
  BY <1>2 DEF Messages
<1> QED
  BY <1>1, <1>3, <1>4

LEMMA RingViewNext ==
  RingOk' => /\ Messages' \in Seq(Words) /\ Len(Messages') = used_msgs'
             /\ \A i \in 1 .. used_msgs' : Messages'[i] = buffer'[Cell(read_ptr', i)]
<1>1. (RingOk => /\ Messages \in Seq(Words) /\ Len(Messages) = used_msgs
            /\ \A i \in 1 .. used_msgs : Messages[i] = buffer[Cell(read_ptr, i)])'
  BY RingView, PTL
<1> QED
  BY <1>1 DEF Cell, Words

LEMMA MessagesPut ==
  ASSUME RingOk, RingOk', used_msgs < max_msgs, NEW x \in Items, Store(x),
         used_msgs' = used_msgs + 1, read_ptr' = read_ptr
  PROVE  Messages' = Append(Messages, x)
<1> DEFINE m == Messages
           m2 == Messages'
<1>1. m \in Seq(Words) /\ Len(m) = used_msgs /\ \A i \in 1 .. used_msgs : m[i] = buffer[Cell(read_ptr, i)]
  BY RingView
<1>2. /\ m2 \in Seq(Words) /\ Len(m2) = used_msgs + 1
      /\ \A i \in 1 .. (used_msgs + 1) : m2[i] = buffer'[Cell(read_ptr, i)]
  BY RingViewNext
<1>3. /\ Cell(read_ptr, used_msgs + 1) = write_ptr /\ \A i \in 1 .. used_msgs : Cell(read_ptr, i) # write_ptr
      /\ used_msgs \in Nat /\ write_ptr \in DOMAIN buffer
      /\ \A i \in 1 .. used_msgs : Cell(read_ptr, i) \in DOMAIN buffer
  <2>1. \A i \in 1 .. used_msgs : i \in 1 .. max_msgs
    BY Constants DEF RingOk
  <2>2. \A i \in 1 .. used_msgs : Cell(read_ptr, i) \in DOMAIN buffer
    BY <2>1, Cells DEF RingOk
  <2>3. /\ Cell(read_ptr, used_msgs + 1) = write_ptr
        /\ \A i \in 1 .. used_msgs : Cell(read_ptr, i) # write_ptr
    BY CellSteps DEF RingOk
  <2>4. used_msgs \in Nat /\ write_ptr \in DOMAIN buffer
    BY Constants DEF RingOk
  <2> QED
    BY <2>2, <2>3, <2>4
<1>4. m2[used_msgs + 1] = x /\ \A i \in 1 .. used_msgs : m2[i] = m[i]
  BY <1>1, <1>2, <1>3 DEF Store
<1>5. x \in Words
  BY DEF Words
<1> DEFINE a == Append(m, x)
<1>6. /\ a \in Seq(Words) /\ Len(a) = Len(m2) /\ \A i \in 1 .. Len(m2) : m2[i] = a[i]
  <2> HIDE DEF m, m2
  <2> QED
    BY <1>1, <1>2, <1>3, <1>4, <1>5
<1> HIDE DEF m, m2, a
<1>7. m2 = a
  BY <1>2, <1>6, SeqEqual
<1> QED
  BY <1>7 DEF m, m2, a

LEMMA MessagesTake ==
  ASSUME RingOk, RingOk', used_msgs > 0, buffer' = buffer,
         used_msgs' = used_msgs - 1, read_ptr' = Step(read_ptr)
  PROVE  Messages' = Tail(Messages)
<1> DEFINE m == Messages
           m2 == Messages'
<1>1. m \in Seq(Words) /\ Len(m) = used_msgs /\ \A i \in 1 .. used_msgs : m[i] = buffer[Cell(read_ptr, i)]
  BY RingView
<1>2. /\ m2 \in Seq(Words) /\ Len(m2) = used_msgs - 1
      /\ \A i \in 1 .. (used_msgs - 1) : m2[i] = buffer[Cell(Step(read_ptr), i)]
  BY RingViewNext
<1>3. used_msgs \in Nat /\ \A i \in 1 .. (used_msgs - 1) : Cell(Step(read_ptr), i) = Cell(read_ptr, i + 1)
  <2>1. \A i \in 1 .. (used_msgs - 1) : i \in 1 .. (max_msgs - 1)
    BY Constants DEF RingOk
  <2> QED
    BY <2>1, CellSteps, Constants DEF RingOk
<1>4. \A i \in 1 .. (used_msgs - 1) : m2[i] = m[i + 1]
  BY <1>1, <1>2, <1>3
<1> DEFINE a == Tail(m)
<1>5. /\ a \in Seq(Words) /\ Len(a) = Len(m2) /\ \A i \in 1 .. Len(m2) : m2[i] = a[i]
  <2> HIDE DEF m, m2
  <2> QED
    BY <1>1, <1>2, <1>3, <1>4
<1> HIDE DEF m, m2, a
<1>6. m2 = a
  BY <1>2, <1>5, SeqEqual
<1> QED
  BY <1>6 DEF m, m2, a

LEMMA MessagesSwap ==
  ASSUME RingOk, RingOk', used_msgs = max_msgs, NEW x \in Items, Store(x),
         used_msgs' = used_msgs, read_ptr' = Step(read_ptr)
  PROVE  Messages' = Append(Tail(Messages), x)
<1> DEFINE m == Messages
           m2 == Messages'
           n == max_msgs
<1>1. m \in Seq(Words) /\ Len(m) = n /\ \A i \in 1 .. n : m[i] = buffer[Cell(read_ptr, i)]
  BY RingView
<1>2. /\ m2 \in Seq(Words) /\ Len(m2) = n
      /\ \A i \in 1 .. n : m2[i] = buffer'[Cell(Step(read_ptr), i)]
  BY RingViewNext
<1>3. n \in Nat /\ n >= 1 /\ write_ptr \in DOMAIN buffer
  BY Constants DEF RingOk
<1>4. /\ Cell(Step(read_ptr), n) = write_ptr
      /\ \A i \in 1 .. (n - 1) : Cell(Step(read_ptr), i) # write_ptr
      /\ \A i \in 1 .. (n - 1) : Cell(Step(read_ptr), i) = Cell(read_ptr, i + 1)
  BY CellSteps DEF RingOk
<1>5. \A i \in 1 .. (n - 1) : Cell(read_ptr, i + 1) \in DOMAIN buffer
  <2>1. \A i \in 1 .. (n - 1) : i + 1 \in 1 .. max_msgs
    BY <1>3
  <2> QED
    BY <2>1, Cells DEF RingOk
<1>6. m2[n] = x /\ \A i \in 1 .. (n - 1) : m2[i] = m[i + 1]
  BY <1>1, <1>2, <1>3, <1>4, <1>5 DEF Store
<1>7. x \in Words
  BY DEF Words
<1> HIDE DEF m, m2, n
<1> DEFINE p == Tail(m)
           a == Append(p, x)
<1>8. p \in Seq(Words) /\ Len(p) = n - 1 /\ \A i \in 1 .. (n - 1) : p[i] = m[i + 1]
  BY <1>1, <1>3
<1> HIDE DEF p
<1>9. /\ a \in Seq(Words) /\ Len(a) = Len(m2) /\ \A i \in 1 .. Len(m2) : m2[i] = a[i]
  BY <1>2, <1>3, <1>6, <1>7, <1>8
<1> HIDE DEF a
<1>10. m2 = a
  BY <1>2, <1>9, SeqEqual
<1> QED
  BY <1>10 DEF m, m2, n, a, p

(* A message queue is a FIFO, whose readers and writers wait their turn.   *)
LEMMA RefineGetOne ==
  ASSUME PendInv, MailTyped, RingInv, RingInv', Calm, Stored, used = "msgq", used_msgs > 0,
         waitq["msgq"] # <<>>, Content = Messages, Content' = Messages', k_msgq_get
  PROVE  Buffer!Next
<1>0. RingOk /\ RingOk' /\ "msgq" \in WaitQueues \ {"tx"} /\ firing' = firing
  BY RingSplit, RingSplitNext DEF WaitQueues, k_msgq_get
<1>1. /\ WakeFirst("msgq", 0, NULL) /\ Store(thr[Head(waitq["msgq"])].data)
      /\ used_msgs' = used_msgs /\ read_ptr' = Step(read_ptr) /\ Reply(0, buffer[read_ptr])
  BY DEF k_msgq_get
<1>2. PICK t \in Threads :
           /\ t = Head(waitq["msgq"]) /\ t \in Members(waitq["msgq"]) /\ thr[t].at = "pended"
           /\ thr[t].data # NULL => t \in Buffer!Best(Buffer!Putters)
           /\ Buffer!Over({t}, [u \in {t} |-> Buffer!Result(0, NULL)])
  BY <1>0, <1>1, RefineWake
<1>3. thr[t].data \in Items /\ used_msgs = max_msgs /\ NULL \notin Items
  BY <1>2, MsgqWaiters, Constants
<1>4. Messages' = Append(Tail(Messages), thr[t].data)
  BY <1>0, <1>1, <1>2, <1>3, MessagesSwap
<1>5. Messages # <<>> /\ Head(Messages) = buffer[read_ptr]
  <2>1. Len(Messages) = used_msgs /\ \A i \in 1 .. used_msgs : Messages[i] = buffer[Cell(read_ptr, i)]
    BY <1>0, RingView
  <2>2. Cell(read_ptr, 1) = read_ptr /\ used_msgs \in Nat
    BY <1>0, CellSteps, Constants DEF RingOk
  <2>3. Messages \in Seq(Words)
    BY <1>0, RingView
  <2> HIDE DEF Messages
  <2> QED
    BY <2>1, <2>2, <2>3
<1>6. (IF used = "mbox" THEN NoReply ELSE reply)' = Buffer!Result(0, Head(Content)) /\ used' = used
  BY <1>1, <1>5, ViewReply DEF Stored
<1> DEFINE W == [u \in Threads |-> IF thr[u].at = "pended" /\ used # "mbox"
                                   THEN [ret |-> 0, data |-> thr[u].data] ELSE NoReply]
<1>7. W[t].data = thr[t].data
  BY <1>2
<1>8. t \in Buffer!Best(Buffer!Putters)
  BY <1>2, <1>3
<1>9. Content' = Append(Tail(Content), W[t].data) /\ Content # <<>>
  BY <1>4, <1>5, <1>7
<1>10. Buffer!GetOne
  BY <1>2, <1>6, <1>8, <1>9 DEF Buffer!GetOne
<1> QED
  BY <1>10 DEF Buffer!Next

LEMMA RefinePurge ==
  ASSUME PendInv, MailTyped, RingInv, Calm, Stored, used = "msgq", Orderly, Content' = Messages',
         k_msgq_purge
  PROVE  Buffer!Next
<1>0. "msgq" \in WaitQueues \ {"tx"} /\ used \in WaitQueues /\ used # "mbox" /\ used' = used
  BY DEF WaitQueues, Stored
<1>1. /\ firing' = firing /\ WakeAll("msgq", ENOMSG) /\ used_msgs' = 0 /\ Silent
  BY DEF k_msgq_purge
<1>2. Content' = <<>>
  BY <1>1 DEF Messages
<1>3. \A u \in Threads : thr'[u] = IF u \in Members(waitq["msgq"]) THEN Woken(u, ENOMSG, NULL) ELSE thr[u]
  BY <1>0, <1>1, WakeAllSafe
<1> DEFINE S == Buffer!Putters
           res == [t \in Threads |-> Buffer!Result(ENOMSG, NULL)]
<1>4. S \in SUBSET Threads /\ \A u \in Threads : u \in S <=> u \in Members(waitq["msgq"])
  <2>1. \A u \in Members(waitq["msgq"]) : thr[u].op # "get"
    BY DEF k_msgq_purge, Orderly
  <2>2. \A u \in Threads : u \in Members(waitq["msgq"]) => thr[u].data # NULL
    BY <1>0, <2>1, ViewWaiters, Constants DEF PendInv, AllCarry, Carries
  <2> QED
    BY <1>0, <2>2, ViewGetters, ViewWaiters
<1>5. \A u \in Threads \ S : Want(u)' = Want(u) /\ Ended(u)' = Ended(u)
  BY <1>3, <1>4 DEF Want, Ended
<1>6. ASSUME NEW u \in S PROVE Want(u)' = NoReply /\ Ended(u)' = res[u]
  <2>1. u \in Threads /\ thr'[u] = Woken(u, ENOMSG, NULL)
    BY <1>3, <1>4
  <2>2. thr'[u].at = "done" /\ thr'[u].ret = ENOMSG /\ thr'[u].data = NULL
    BY <2>1, WokenFields, DataTypes DEF PendInv
  <2> QED
    BY <2>1, <2>2 DEF Want, Ended, Buffer!Result
<1> HIDE DEF S, res
<1>7. Buffer!Over(S, res)
  BY <1>4, <1>5, <1>6, ViewOver
<1>8. ENOMSG = Buffer!ENOMSG
  BY DEF ENOMSG, Buffer!ENOMSG
<1>9. Buffer!Over(Buffer!Putters, [t \in Threads |-> Buffer!Result(Buffer!ENOMSG, NULL)])
  BY <1>7, <1>8 DEF S, res
<1>10. (IF used = "mbox" THEN NoReply ELSE reply)' = Buffer!None
  BY <1>1, ViewReply
<1>11. Buffer!Purge
  BY <1>0, <1>2, <1>9, <1>10 DEF Buffer!Purge
<1> QED
  BY <1>11 DEF Buffer!Next

LEMMA RefineMsgq ==
  ASSUME PendInv, MailTyped, RingInv, RingInv', Calm, used = "msgq", Orderly, MsgqNext
  PROVE  Buffer!Next
<1>0. /\ Stored /\ used \in WaitQueues \ {"tx"} /\ used # "mbox" /\ "msgq" \in WaitQueues \ {"tx"}
      /\ Content = Messages /\ Content' = Messages'
  <2>1. used' = "msgq"
    BY DEF Calm
  <2> QED
    BY <2>1, ViewContent, ViewContentNext DEF Stored, Calm, WaitQueues
<1>1. /\ RingOk /\ RingOk' /\ used_msgs \in Nat /\ max_msgs \in Nat /\ max_msgs >= 1 /\ used_msgs <= max_msgs
      /\ UNCHANGED msgqVars => Content' = Content
  <2>1. UNCHANGED msgqVars => Content' = Content
    BY <1>0 DEF msgqVars, Messages
  <2> QED
    BY <2>1, RingSplit, RingSplitNext, Constants DEF RingOk
<1>2. Messages \in Seq(Words) /\ Len(Messages) = used_msgs
  BY <1>1, RingView
<1>3. Buffer!Full <=> used_msgs = max_msgs
  BY <1>0, <1>2 DEF Buffer!Full
<1>4. Content = <<>> <=> used_msgs = 0
  BY <1>0, <1>2
<1>5. ASSUME NEW x \in Items, k_msgq_put(x) PROVE Buffer!Next
  <2>0. firing' = firing
    BY <1>5 DEF k_msgq_put
  <2>1. CASE used_msgs < max_msgs /\ waitq["msgq"] # <<>>
    <3>1. WakeFirst("msgq", 0, x) /\ Reply(0, NULL) /\ UNCHANGED msgqVars
      BY <1>5, <2>1 DEF k_msgq_put
    <3>2. \A t \in Members(waitq["msgq"]) : thr[t].data = NULL
      BY <1>1, <2>1, MsgqWaiters
    <3> QED
      BY <1>0, <1>1, <2>0, <2>1, <3>1, <3>2, RefineHand
  <2>2. CASE used_msgs < max_msgs /\ waitq["msgq"] = <<>>
    <3>1. Store(x) /\ used_msgs' = used_msgs + 1 /\ NobodyMoves /\ Reply(0, NULL) /\ read_ptr' = read_ptr
      BY <1>5, <2>2 DEF k_msgq_put
    <3>2. Buffer!Getters = {} /\ ~Buffer!Full
      BY <1>0, <1>1, <1>3, <2>2, ViewNoWaiters
    <3>3. Messages' = Append(Messages, x)
      BY <1>1, <2>2, <3>1, MessagesPut
    <3>4. Len(Content) \in Buffer!Places
      BY <1>0 DEF Buffer!Places
    <3>5. Content' = Buffer!With(Len(Content), x)
      <4> DEFINE m == Messages
      <4>1. m \in Seq(Words) /\ x \in Words
        BY <1>2 DEF Words
      <4> HIDE DEF m
      <4>2. SubSeq(m, 1, Len(m)) = m /\ SubSeq(m, Len(m) + 1, Len(m)) = <<>>
        BY <4>1, SubSeqFull, SubSeqEmpty
      <4>3. m \o <<x>> = Append(m, x) /\ Append(m, x) \o <<>> = Append(m, x)
        BY <4>1
      <4>4. SubSeq(m, 1, Len(m)) \o <<x>> \o SubSeq(m, Len(m) + 1, Len(m)) = Append(m, x)
        BY <4>2, <4>3
      <4> QED
        BY <1>0, <3>3, <4>4 DEF Buffer!With, m
    <3> QED
      BY <1>0, <3>1, <3>2, <3>4, <3>5, RefineStore
  <2>3. CASE ~(used_msgs < max_msgs)
    <3>1. NobodyMoves /\ Reply(ENOMSG, NULL) /\ UNCHANGED msgqVars
      BY <1>5, <2>3 DEF k_msgq_put
    <3>2. Buffer!Full
      BY <1>1, <1>3, <2>3
    <3>3. Buffer!Getters = {}
      <4>1. \A t \in Threads : thr[t].at = "pended" => thr[t].data # NULL
        BY <1>0, <1>1, <2>3, ViewWaiters, MsgqWaiters, Constants
      <4> QED
        BY <1>0, <4>1, ViewGetters
    <3>4. Content' = Content /\ Reply(Buffer!PutError, NULL)
      BY <1>1, <3>1, ViewErrors
    <3> QED
      BY <1>0, <3>1, <3>2, <3>3, <3>4, RefineFull
  <2> QED
    BY <2>1, <2>2, <2>3
<1>6. CASE k_msgq_get
  <2>1. CASE used_msgs > 0 /\ waitq["msgq"] # <<>>
    BY <1>0, <1>6, <2>1, RefineGetOne
  <2>2. CASE used_msgs > 0 /\ waitq["msgq"] = <<>>
    <3>1. /\ NobodyMoves /\ read_ptr' = Step(read_ptr) /\ Reply(0, buffer[read_ptr])
          /\ used_msgs' = used_msgs - 1 /\ buffer' = buffer
      BY <1>6, <2>2 DEF k_msgq_get
    <3>2. Messages' = Tail(Messages)
      BY <1>1, <2>2, <3>1, MessagesTake
    <3>3. Head(Messages) = buffer[read_ptr]
      <4>1. \A i \in 1 .. used_msgs : Messages[i] = buffer[Cell(read_ptr, i)]
        BY <1>1, RingView
      <4>2. Cell(read_ptr, 1) = read_ptr
        BY <1>1, CellSteps DEF RingOk
      <4> HIDE DEF Messages
      <4> QED
        BY <1>1, <1>2, <2>2, <4>1, <4>2
    <3>4. Buffer!Putters = {} /\ Content # <<>>
      BY <1>0, <1>1, <1>4, <2>2, ViewNoWaiters
    <3> QED
      BY <1>0, <3>1, <3>2, <3>3, <3>4, RefineTake
  <2>3. CASE ~(used_msgs > 0)
    <3>1. NobodyMoves /\ Reply(ENOMSG, NULL) /\ UNCHANGED msgqVars
      BY <1>6, <2>3 DEF k_msgq_get
    <3>2. Content' = Content /\ Content = <<>> /\ Reply(Buffer!GetError, NULL)
      BY <1>1, <1>4, <2>3, <3>1, ViewErrors
    <3> QED
      BY <1>0, <3>1, <3>2, RefineNone
  <2> QED
    BY <2>1, <2>2, <2>3
<1>7. CASE k_msgq_purge
  BY <1>0, <1>7, RefinePurge
<1>8. ASSUME NEW idx \in 0 .. max_msgs, k_msgq_peek_at(idx) PROVE Buffer!Next
  <2>1. NobodyMoves /\ UNCHANGED msgqVars /\ Content' = Content
    BY <1>1, <1>8 DEF k_msgq_peek_at
  <2>2. CASE used_msgs > idx
    <3> DEFINE place == IF max_msgs - read_ptr <= idx THEN idx - (max_msgs - read_ptr) ELSE read_ptr + idx
    <3>1. Looked(idx, 0, buffer[place])
      BY <1>8, <2>2 DEF k_msgq_peek_at
    <3>2. place = Cell(read_ptr, idx + 1) /\ idx + 1 \in 1 .. used_msgs
      BY <1>1, <2>2 DEF Cell, RingOk
    <3>3. Messages[idx + 1] = buffer[place]
      BY <1>1, <3>2, RingView
    <3>4. idx < Len(Content) /\ Looked(idx, 0, Content[idx + 1])
      BY <1>0, <1>2, <2>2, <3>1, <3>2, <3>3
    <3> QED
      BY <1>0, <2>1, <3>4, RefineLook
  <2>3. CASE ~(used_msgs > idx)
    <3>1. ~(idx < Len(Content)) /\ Looked(idx, Buffer!GetError, NULL)
      BY <1>0, <1>2, <1>8, <2>3, ViewErrors DEF k_msgq_peek_at
    <3> QED
      BY <1>0, <2>1, <3>1, RefineLook
  <2> QED
    BY <2>2, <2>3
<1>9. ASSUME NEW t \in Threads, NEW timed \in BOOLEAN, k_msgq_get_wait(t, timed) PROVE Buffer!Next
  <2>1. /\ Free(t) /\ PendOn(t, "msgq", "get", NULL, timed) /\ Content' = Content /\ Content = <<>>
        /\ "get" \in {"get", "put", "send"}
    BY <1>1, <1>4, <1>9 DEF k_msgq_get_wait
  <2> QED
    BY <1>0, <2>1, RefineBlocks
<1>10. ASSUME NEW t \in Threads, NEW timed \in BOOLEAN, NEW x \in Items, k_msgq_put_wait(t, x, timed) PROVE Buffer!Next
  <2>1. /\ Free(t) /\ PendOn(t, "msgq", "put", x, timed) /\ Content' = Content /\ Buffer!Full
        /\ "put" \in {"get", "put", "send"}
    BY <1>1, <1>3, <1>10 DEF k_msgq_put_wait
  <2> QED
    BY <1>0, <2>1, RefineBlocks
<1>11. CASE (PendNext \/ \E t \in Threads : Returns(t)) /\ UNCHANGED msgqVars
  <2>1. Content' = Content
    BY <1>1, <1>11
  <2> QED
    BY <1>0, <1>11, <2>1, RefinePend, RefineReturns
<1> QED
  BY <1>5, <1>6, <1>7, <1>8, <1>9, <1>10, <1>11 DEF MsgqNext

(* The items of a list of nodes.                                           *)
DataOf(s) == [i \in 1 .. Len(s) |-> s[i].data]

LEMMA DataOfType ==
  ASSUME NEW s \in Seq(Nodes)
  PROVE  /\ DataOf(s) \in Seq(Items) /\ Len(DataOf(s)) = Len(s) /\ Len(s) \in Nat
         /\ \A i \in 1 .. Len(s) : DataOf(s)[i] = s[i].data /\ s[i].data \in Items /\ s[i] \in Nodes
         /\ DataOf(s) = <<>> <=> s = <<>>
<1>1. \A i \in 1 .. Len(s) : s[i] \in Nodes
  BY ElementOfSeq
<1>2. \A i \in 1 .. Len(s) : s[i].data \in Items
  BY <1>1 DEF Nodes
<1>3. DataOf(s) \in [1 .. Len(s) -> Items] /\ Len(s) \in Nat
  BY <1>2 DEF DataOf
<1>4. DataOf(s) \in Seq(Items) /\ Len(DataOf(s)) = Len(s)
  BY <1>3
<1>5. DataOf(s) = <<>> <=> s = <<>>
  BY <1>4
<1> QED
  BY <1>1, <1>2, <1>3, <1>4, <1>5 DEF DataOf

LEMMA DataOfTail ==
  ASSUME NEW s \in Seq(Nodes), s # <<>>
  PROVE  DataOf(Tail(s)) = Tail(DataOf(s)) /\ Head(DataOf(s)) = Head(s).data
<1> DEFINE d == DataOf(s)
           p == Tail(s)
           a == DataOf(p)
           b == Tail(d)
<1>1. /\ d \in Seq(Items) /\ Len(d) = Len(s) /\ Len(s) \in Nat /\ d # <<>>
      /\ \A i \in 1 .. Len(s) : d[i] = s[i].data
  BY DataOfType
<1>2. p \in Seq(Nodes) /\ Len(p) = Len(s) - 1 /\ \A i \in 1 .. Len(p) : p[i] = s[i + 1]
  BY HeadTailProperties
<1> HIDE DEF p
<1>3. a \in Seq(Items) /\ Len(a) = Len(s) - 1 /\ \A i \in 1 .. (Len(s) - 1) : a[i] = s[i + 1].data
  <2>1. a \in Seq(Items) /\ Len(a) = Len(p) /\ \A i \in 1 .. Len(p) : a[i] = p[i].data
    BY <1>2, DataOfType
  <2> HIDE DEF a
  <2> QED
    BY <1>2, <2>1
<1> HIDE DEF d, a
<1>4. b \in Seq(Items) /\ Len(b) = Len(s) - 1 /\ \A i \in 1 .. (Len(s) - 1) : b[i] = d[i + 1]
  BY <1>1, HeadTailProperties
<1> HIDE DEF b
<1>5. \A i \in 1 .. (Len(s) - 1) : a[i] = b[i]
  BY <1>1, <1>3, <1>4
<1>6. a = b
  BY <1>3, <1>4, <1>5, SeqEqual
<1>7. Head(d) = Head(s).data
  BY <1>1
<1> QED
  BY <1>6, <1>7 DEF a, b, d, p

LEMMA DataOfConcat ==
  ASSUME NEW s \in Seq(Nodes), NEW t \in Seq(Nodes)
  PROVE  DataOf(s \o t) = DataOf(s) \o DataOf(t)
<1> DEFINE p == s \o t
           a == DataOf(p)
           c == DataOf(s)
           d == DataOf(t)
           b == c \o d
<1>1. /\ p \in Seq(Nodes) /\ Len(p) = Len(s) + Len(t)
      /\ \A i \in 1 .. Len(s) + Len(t) : p[i] = IF i <= Len(s) THEN s[i] ELSE t[i - Len(s)]
  BY ConcatProperties
<1> HIDE DEF p
<1>2. /\ a \in Seq(Items) /\ Len(a) = Len(s) + Len(t)
      /\ \A i \in 1 .. Len(s) + Len(t) : a[i] = (IF i <= Len(s) THEN s[i] ELSE t[i - Len(s)]).data
  <2>1. a \in Seq(Items) /\ Len(a) = Len(p) /\ \A i \in 1 .. Len(p) : a[i] = p[i].data
    BY <1>1, DataOfType
  <2> HIDE DEF a
  <2> QED
    BY <1>1, <2>1
<1>3. /\ c \in Seq(Items) /\ Len(c) = Len(s) /\ Len(s) \in Nat /\ \A i \in 1 .. Len(s) : c[i] = s[i].data
      /\ d \in Seq(Items) /\ Len(d) = Len(t) /\ Len(t) \in Nat /\ \A i \in 1 .. Len(t) : d[i] = t[i].data
  BY DataOfType
<1> HIDE DEF a, c, d
<1>4. /\ b \in Seq(Items) /\ Len(b) = Len(s) + Len(t)
      /\ \A i \in 1 .. Len(s) + Len(t) : b[i] = IF i <= Len(s) THEN c[i] ELSE d[i - Len(s)]
  <2>0. c \in Seq(Items) /\ d \in Seq(Items)
    BY <1>3
  <2>1. /\ b \in Seq(Items) /\ Len(b) = Len(c) + Len(d)
        /\ \A i \in 1 .. Len(c) + Len(d) : b[i] = IF i <= Len(c) THEN c[i] ELSE d[i - Len(c)]
    BY <2>0, ConcatProperties
  <2> HIDE DEF b
  <2> QED
    BY <1>3, <2>1
<1> HIDE DEF b
<1>5. \A i \in 1 .. Len(a) : a[i] = b[i]
  <2> TAKE i \in 1 .. Len(a)
  <2>1. i \in 1 .. Len(s) + Len(t)
    BY <1>2
  <2>2. CASE i <= Len(s)
    <3>1. i \in 1 .. Len(s)
      BY <1>3, <2>1, <2>2
    <3> QED
      BY <1>2, <1>3, <1>4, <2>1, <2>2, <3>1
  <2>3. CASE ~(i <= Len(s))
    <3>1. i - Len(s) \in 1 .. Len(t)
      BY <1>3, <2>1, <2>3
    <3> QED
      BY <1>2, <1>3, <1>4, <2>1, <2>3, <3>1
  <2> QED
    BY <2>2, <2>3
<1>6. a = b
  BY <1>2, <1>4, <1>5, SeqEqual
<1> QED
  BY <1>6 DEF a, b, c, d, p

LEMMA DataOfSub ==
  ASSUME NEW s \in Seq(Nodes), NEW m \in 1 .. (Len(s) + 1), NEW n \in 0 .. Len(s)
  PROVE  SubSeq(s, m, n) \in Seq(Nodes) /\ DataOf(SubSeq(s, m, n)) = SubSeq(DataOf(s), m, n)
<1> DEFINE d == DataOf(s)
           k == IF m <= n THEN n - m + 1 ELSE 0
           p == SubSeq(s, m, n)
           a == DataOf(p)
           b == SubSeq(d, m, n)
<1>1. /\ d \in Seq(Items) /\ Len(d) = Len(s) /\ Len(s) \in Nat
      /\ \A i \in 1 .. Len(s) : d[i] = s[i].data /\ s[i] \in Nodes /\ s[i].data \in Items
  BY DataOfType
<1>2. m \in Int /\ n \in Int /\ k \in Nat
  BY <1>1
<1>3. \A i \in m .. n : i \in 1 .. Len(s) /\ s[i] \in Nodes
  BY <1>1
<1> HIDE DEF d
<1>4. \A i \in m .. n : d[i] \in Items
  BY <1>1, <1>3
<1>5. p \in Seq(Nodes) /\ Len(p) = k /\ \A i \in 1 .. n - m + 1 : p[i] = s[m + i - 1]
  BY <1>2, <1>3, SubSeqProperties
<1>6. b \in Seq(Items) /\ Len(b) = k /\ \A i \in 1 .. n - m + 1 : b[i] = d[m + i - 1]
  BY <1>2, <1>4, SubSeqProperties
<1> HIDE DEF p
<1>7. a \in Seq(Items) /\ Len(a) = k /\ \A i \in 1 .. k : a[i] = p[i].data
  BY <1>5, DataOfType
<1> HIDE DEF a, b
<1>8. \A i \in 1 .. Len(a) : a[i] = b[i]
  <2> TAKE i \in 1 .. Len(a)
  <2>1. i \in 1 .. k /\ i \in 1 .. n - m + 1 /\ m + i - 1 \in 1 .. Len(s)
    BY <1>1, <1>2, <1>7
  <2> HIDE DEF k
  <2> QED
    BY <1>1, <1>5, <1>6, <1>7, <2>1
<1>9. a = b
  BY <1>6, <1>7, <1>8, SeqEqual
<1> QED
  BY <1>5, <1>9 DEF a, b, p, d

LEMMA ViewInsert ==
  ASSUME NEW s \in Seq(Nodes), Content = DataOf(s), NEW pos \in 0 .. Len(s), NEW x \in Items,
         NEW alloc \in BOOLEAN
  PROVE  DataOf(SubSeq(s, 1, pos) \o <<Node(x, alloc)>> \o SubSeq(s, pos + 1, Len(s))) = Buffer!With(pos, x)
<1> DEFINE p == SubSeq(s, 1, pos)
           r == SubSeq(s, pos + 1, Len(s))
           o == <<Node(x, alloc)>>
<1>1. Len(s) \in Nat /\ Len(DataOf(s)) = Len(s)
  BY DataOfType
<1>2. /\ p \in Seq(Nodes) /\ DataOf(p) = SubSeq(Content, 1, pos)
      /\ r \in Seq(Nodes) /\ DataOf(r) = SubSeq(Content, pos + 1, Len(Content))
  <2>1. /\ 1 \in 1 .. (Len(s) + 1) /\ pos \in 0 .. Len(s)
        /\ pos + 1 \in 1 .. (Len(s) + 1) /\ Len(s) \in 0 .. Len(s)
    BY <1>1
  <2> QED
    BY <1>1, <2>1, DataOfSub
<1>3. o \in Seq(Nodes) /\ DataOf(o) = <<x>>
  <2>1. o \in Seq(Nodes) /\ Len(o) = 1 /\ o[1].data = x
    BY DEF Node, Nodes
  <2>2. DataOf(o) \in Seq(Items) /\ Len(DataOf(o)) = 1 /\ DataOf(o)[1] = x
    <3> HIDE DEF o
    <3>1. 1 \in 1 .. Len(o)
      BY <2>1
    <3> QED
      BY <2>1, <3>1, DataOfType
  <2> HIDE DEF o
  <2>3. <<x>> \in Seq(Items) /\ Len(<<x>>) = 1 /\ <<x>>[1] = x
    OBVIOUS
  <2>4. \A i \in 1 .. 1 : DataOf(o)[i] = <<x>>[i]
    BY <2>2, <2>3
  <2> QED
    BY <2>1, <2>2, <2>3, <2>4, SeqEqual
<1> HIDE DEF p, r, o
<1>4. p \o o \in Seq(Nodes) /\ DataOf(p \o o) = DataOf(p) \o DataOf(o)
  BY <1>2, <1>3, ConcatProperties, DataOfConcat
<1>5. DataOf((p \o o) \o r) = (DataOf(p) \o DataOf(o)) \o DataOf(r)
  BY <1>2, <1>4, DataOfConcat
<1> QED
  BY <1>2, <1>3, <1>5 DEF p, r, o, Buffer!With

LEMMA RefineInsert ==
  ASSUME PendInv, MailTyped, NodesInv, Calm, Stored, used = "queue", Content = DataOf(data_q),
         Content' = DataOf(data_q'), NEW pos \in 0 .. Len(data_q), NEW x \in Items,
         NEW alloc \in BOOLEAN, queue_insert(pos, x, alloc)
  PROVE  Buffer!Next
<1>0. /\ firing' = firing /\ used \in WaitQueues \ {"tx"} /\ "queue" \in WaitQueues \ {"tx"}
      /\ used \notin {"mbox", "msgq"} /\ data_q \in Seq(Nodes)
  BY DEF queue_insert, WaitQueues, NodesInv, Nodes
<1>1. CASE waitq["queue"] # <<>> /\ WakeFirst("queue", 0, x) /\ Reply(0, NULL) /\ UNCHANGED data_q
  <2>1. \A t \in Members(waitq["queue"]) : thr[t].data = NULL
    BY <1>0, Waiters, ViewNoPutters
  <2>2. Content' = Content
    BY <1>1
  <2> QED
    BY <1>0, <1>1, <2>1, <2>2, RefineHand
<1>2. CASE waitq["queue"] = <<>> /\ InsertBehind(pos, Node(x, alloc)) /\ NobodyMoves /\ Reply(0, NULL)
  <2>1. Buffer!Getters = {}
    BY <1>0, <1>2, ViewNoWaiters
  <2>2. ~Buffer!Full
    BY DEF Buffer!Full
  <2>3. pos \in Buffer!Places
    <3>1. Len(Content) = Len(data_q)
      BY <1>0, DataOfType
    <3> QED
      BY <3>1 DEF Buffer!Places
  <2>4. Content' = Buffer!With(pos, x)
    BY <1>0, <1>2, ViewInsert DEF InsertBehind
  <2> QED
    BY <1>2, <2>1, <2>2, <2>3, <2>4, RefineStore
<1>3. CASE waitq["queue"] = <<>> /\ NobodyMoves /\ Reply(ENOMEM, NULL) /\ UNCHANGED data_q
  <2>1. Buffer!Getters = {} /\ Content' = Content
    BY <1>0, <1>3, ViewNoWaiters
  <2>2. Reply(Buffer!PutError, NULL)
    BY <1>3, ViewErrors
  <2> QED
    BY <1>3, <2>1, <2>2, RefineFull
<1> QED
  BY <1>1, <1>2, <1>3 DEF queue_insert

LEMMA CountMembers ==
  ASSUME NEW S, NEW s \in Seq(S), Distinct(s)
  PROVE  Cardinality(Members(s)) = Len(s)
<1> DEFINE n == Len(s)
<1>1. n \in Nat /\ s \in [1 .. n -> Members(s)]
  BY ElementOfSeq DEF Members
<1>2. s \in Injection(1 .. n, Members(s)) /\ s \in Surjection(1 .. n, Members(s))
  BY <1>1 DEF Distinct, Members, Injection, IsInjective, Surjection
<1>3. IsFiniteSet(1 .. n) /\ Cardinality(1 .. n) = n
  BY <1>1, FS_Interval
<1> QED
  BY <1>2, <1>3, FS_Surjection

LEMMA RefineAppendList ==
  ASSUME PendInv, MailTyped, NodesInv, Calm, Stored, used = "queue", Orderly, Content = DataOf(data_q),
         Content' = DataOf(data_q'), NEW items \in Lists, k_queue_append_list(items)
  PROVE  Buffer!Next
<1> DEFINE w == waitq["queue"]
           n == IF Buffer!Cardinality(Buffer!Getters) < Len(items) THEN Buffer!Cardinality(Buffer!Getters) ELSE Len(items)
<1>0. /\ used \in WaitQueues \ {"tx"} /\ "queue" \in WaitQueues \ {"tx"}
      /\ used \notin {"mbox", "msgq"} /\ data_q \in Seq(Nodes)
  BY DEF WaitQueues, NodesInv, Nodes
<1>1. /\ items \in Seq(Items) /\ Len(items) \in 1 .. 2 /\ Reply(0, NULL)
      /\ w \in Seq(Threads) /\ Distinct(w) /\ Len(w) \in Nat
      /\ Handed(items) \in 0 .. Len(w) /\ Handed(items) <= Len(items) /\ Taken(items) = Handed(items)
      /\ data_q' = data_q \o [i \in 1 .. (Len(items) - Handed(items)) |-> Node(items[Handed(items) + i], FALSE)]
  BY AppendListShape DEF Orderly
<1>2. /\ \A u \in Threads : u \notin {w[i] : i \in 1 .. Taken(items)} => thr'[u] = thr[u]
      /\ \A i \in 1 .. Handed(items) : w[i] \in Threads /\ thr'[w[i]] = Woken(w[i], 0, items[i])
  BY AppendListShape
<1>3. Buffer!Getters = Members(w)
  <2>1. \A u \in Members(w) : u \in Threads
    BY <1>0, Waiters
  <2> QED
    BY <1>0, <2>1, ViewGetters, ViewWaiters, ViewNoPutters
<1>4. n = Handed(items)
  <2>1. Cardinality(Members(w)) = Len(w)
    BY <1>1, CountMembers
  <2>2. Buffer!Cardinality(Members(w)) = Cardinality(Members(w))
    BY DEF Buffer!Cardinality, Cardinality
  <2> QED
    BY <1>3, <2>1, <2>2 DEF Handed
<1>5. n \in 0 .. Len(w) /\ n <= Len(items) /\ n \in Nat
  BY <1>1, <1>4
<1> HIDE DEF n
<1>20. PICK turn : turn = [i \in 1 .. n |-> w[i]]
  OBVIOUS
<1> DEFINE S == {turn[i] : i \in 1 .. n}
           res == [t \in S |-> Buffer!Result(0, items[CHOOSE i \in 1 .. n : turn[i] = t])]
<1>6. \A i \in 1 .. Len(w) : w[i] \in Members(w) /\ w[i] \in Threads
  BY <1>1, ElementOfSeq DEF Members
<1>7. turn \in [1 .. n -> Buffer!Getters] /\ \A i \in 1 .. n : turn[i] = w[i] /\ i \in 1 .. Len(w)
  BY <1>1, <1>3, <1>5, <1>6, <1>20
<1>8. ASSUME NEW i \in 1 .. n PROVE turn[i] \in Buffer!Best(Buffer!Getters \ {turn[j] : j \in 1 .. (i - 1)})
  <2> DEFINE rest == Buffer!Getters \ {turn[j] : j \in 1 .. (i - 1)}
  <2>1. turn[i] \in rest
    <3>1. turn[i] \in Buffer!Getters
      BY <1>7
    <3>2. ASSUME NEW j \in 1 .. (i - 1) PROVE turn[j] # turn[i]
      <4>1. j \in 1 .. n /\ j # i
        BY <1>5, <3>2
      <4> QED
        BY <1>1, <1>7, <4>1 DEF Distinct
    <3> QED
      BY <3>1, <3>2
  <2>2. ASSUME NEW u \in rest PROVE Prio[turn[i]] <= Prio[u]
    <3>1. PICK k \in 1 .. Len(w) : u = w[k]
      BY <1>3 DEF Members
    <3>2. ~(k < i)
      <4> SUFFICES ASSUME k < i PROVE FALSE
        OBVIOUS
      <4>1. k \in 1 .. n /\ k \in 1 .. (i - 1)
        BY <1>5
      <4> QED
        BY <1>7, <3>1, <4>1
    <3>3. Sorted(w, TxPrio) /\ TxPrio \in [Msgs -> Int]
      BY <1>0, TxPrioType DEF PendInv, QueuesLinked
    <3>4. \A t \in Threads : TxPrio[t] = Prio[t] /\ Prio[t] \in Int
      BY Constants DEF TxPrio
    <3>5. i \in 1 .. Len(w) /\ turn[i] = w[i] /\ w[i] \in Threads /\ w[k] \in Threads
      BY <1>6, <1>7
    <3>6. k = i \/ TxPrio[w[i]] <= TxPrio[w[k]]
      <4>1. k = i \/ i < k
        BY <1>1, <3>2, <3>5
      <4> HIDE DEF w
      <4> QED
        BY <3>3, <3>5, <4>1 DEF Sorted
    <3> QED
      BY <3>1, <3>4, <3>5, <3>6
  <2> HIDE DEF rest
  <2>3. turn[i] \in Buffer!Best(rest)
    BY <2>1, <2>2 DEF Buffer!Best
  <2> QED
    BY <2>3 DEF rest
<1>9. /\ S \in SUBSET Threads
      /\ \A u \in Threads : u \in {w[i] : i \in 1 .. Taken(items)} => u \in S
  <2>1. Taken(items) = n /\ \A i \in 1 .. n : turn[i] = w[i] /\ w[i] \in Threads
    BY <1>1, <1>4, <1>6, <1>7
  <2> QED
    BY <2>1
<1>10. \A u \in Threads \ S : Want(u)' = Want(u) /\ Ended(u)' = Ended(u)
  <2>1. \A u \in Threads \ S : thr'[u] = thr[u]
    BY <1>2, <1>9
  <2> QED
    BY <2>1 DEF Want, Ended
<1>11. ASSUME NEW u \in S PROVE Want(u)' = NoReply /\ Ended(u)' = res[u]
  <2>1. PICK i \in 1 .. n : u = turn[i]
    OBVIOUS
  <2>2. (CHOOSE j \in 1 .. n : turn[j] = u) = i
    BY <1>1, <1>7, <2>1 DEF Distinct
  <2>3. res[u] = Buffer!Result(0, items[i])
    BY <2>2
  <2>4. i \in 1 .. Len(items) /\ items[i] \in Items
    BY <1>1, <1>5, ElementOfSeq
  <2>5. u \in Threads /\ thr'[u] = Woken(u, 0, items[i])
    BY <1>2, <1>4, <1>7, <2>1
  <2>6. thr'[u].at = "done" /\ thr'[u].ret = 0 /\ thr'[u].data = items[i]
    <3>1. items[i] \in Data /\ ThreadsTyped
      BY <2>4, DataTypes DEF PendInv
    <3> QED
      BY <2>5, <3>1, WokenFields
  <2> HIDE DEF res
  <2> QED
    BY <2>3, <2>6 DEF Want, Ended, Buffer!Result
<1>12. Buffer!Over(S, res)
  <2>1. PICK set \in SUBSET Threads : set = S
    BY <1>9
  <2>2. PICK f : f = res
    OBVIOUS
  <2>3. \A u \in Threads \ set : Want(u)' = Want(u) /\ Ended(u)' = Ended(u)
    BY <1>10, <2>1
  <2>4. \A u \in set : Want(u)' = NoReply /\ Ended(u)' = f[u]
    BY <1>11, <2>1, <2>2
  <2>5. Buffer!Over(set, f)
    BY <2>3, <2>4, ViewOver
  <2> QED
    BY <2>1, <2>2, <2>5 DEF Buffer!Over
<1>13. Content' = Content \o SubSeq(items, n + 1, Len(items))
  <2> DEFINE k == Len(items) - n
             new == [i \in 1 .. k |-> Node(items[n + i], FALSE)]
             r == SubSeq(items, n + 1, Len(items))
             a == DataOf(new)
  <2>1. k \in Nat /\ \A i \in 1 .. k : n + i \in 1 .. Len(items) /\ items[n + i] \in Items
    BY <1>1, <1>5, ElementOfSeq
  <2>2. new \in Seq(Nodes) /\ Len(new) = k /\ \A i \in 1 .. k : new[i].data = items[n + i]
    <3>1. \A i \in 1 .. k : Node(items[n + i], FALSE) \in Nodes
      BY <2>1 DEF Node, Nodes
    <3>2. new \in [1 .. k -> Nodes]
      BY <3>1
    <3>3. new \in Seq(Nodes) /\ Len(new) = k
      <4> HIDE DEF new, k
      <4> QED
        BY <2>1, <3>2
    <3> QED
      BY <3>3 DEF Node
  <2>3. data_q' = data_q \o new
    BY <1>1, <1>4
  <2> HIDE DEF new, k
  <2>4. a \in Seq(Items) /\ Len(a) = k /\ \A i \in 1 .. k : a[i] = items[n + i]
    BY <2>2, DataOfType
  <2>5. r \in Seq(Items) /\ Len(r) = k /\ \A i \in 1 .. k : r[i] = items[n + i]
    <3>1. n + 1 \in Int /\ Len(items) \in Int /\ \A i \in n + 1 .. Len(items) : items[i] \in Items
      BY <1>1, <1>5, ElementOfSeq
    <3>2. /\ r \in Seq(Items) /\ Len(r) = IF n + 1 <= Len(items) THEN Len(items) - (n + 1) + 1 ELSE 0
          /\ \A i \in 1 .. Len(items) - (n + 1) + 1 : r[i] = items[(n + 1) + i - 1]
      BY <3>1, SubSeqProperties
    <3> HIDE DEF r
    <3> QED
      BY <1>1, <1>5, <3>2 DEF k
  <2> HIDE DEF a, r
  <2>6. a = r
    BY <2>4, <2>5, SeqEqual
  <2>7. DataOf(data_q \o new) = DataOf(data_q) \o a
    BY <1>0, <2>2, DataOfConcat DEF a
  <2> QED
    BY <2>3, <2>6, <2>7 DEF r
<1>14. (IF used = "mbox" THEN NoReply ELSE reply)' = Buffer!Result(0, NULL) /\ used' = used
  BY <1>1, ViewReply DEF Stored
<1>15. Buffer!PutMany(items)
  <2>1. turn \in [1 .. n -> Buffer!Getters]
    BY <1>7
  <2>2. \E f \in [1 .. n -> Buffer!Getters] :
          /\ \A i \in 1 .. n : f[i] \in Buffer!Best(Buffer!Getters \ {f[j] : j \in 1 .. (i - 1)})
          /\ Buffer!Over({f[i] : i \in 1 .. n},
                   [t \in {f[i] : i \in 1 .. n} |-> Buffer!Result(0, items[CHOOSE i \in 1 .. n : f[i] = t])])
    BY <1>8, <1>12, <2>1 DEF Buffer!Over
  <2> QED
    BY <1>13, <1>14, <2>2 DEF Buffer!PutMany, n, Buffer!Over
<1> QED
  BY <1>15 DEF Buffer!Next, Lists

LEMMA RefineCancel ==
  ASSUME PendInv, MailTyped, Calm, Stored, used = "queue", Content' = Content, k_queue_cancel_wait
  PROVE  Buffer!Next
<1>0. /\ firing' = firing /\ used \in WaitQueues \ {"tx"} /\ "queue" \in WaitQueues \ {"tx"}
      /\ used \notin {"mbox", "msgq"} /\ used' = used /\ Silent
  BY DEF k_queue_cancel_wait, WaitQueues, Stored
<1>1. (IF used = "mbox" THEN NoReply ELSE reply)' = Buffer!None
  BY <1>0, ViewReply
<1>2. CASE waitq["queue"] # <<>>
  <2>1. WakeFirst("queue", 0, NULL)
    BY <1>2 DEF k_queue_cancel_wait
  <2>2. PICK t \in Threads :
           /\ t \in Members(waitq["queue"]) /\ thr[t].at = "pended"
           /\ thr[t].data = NULL => t \in Buffer!Best(Buffer!Getters)
           /\ Buffer!Over({t}, [u \in {t} |-> Buffer!Result(0, NULL)])
    BY <1>0, <1>2, <2>1, RefineWake
  <2>3. t \in Buffer!Best(Buffer!Getters)
    BY <1>0, <2>2, ViewNoPutters
  <2>4. Buffer!Cancel
    BY <1>0, <1>1, <2>2, <2>3 DEF Buffer!Cancel
  <2> QED
    BY <2>4 DEF Buffer!Next
<1>3. CASE waitq["queue"] = <<>>
  <2>1. NobodyMoves
    BY <1>3 DEF k_queue_cancel_wait
  <2>2. Buffer!Quiet
    BY <1>0, <1>1, <2>1 DEF Buffer!Quiet, NobodyMoves
  <2> QED
    BY <2>2 DEF Buffer!Next
<1> QED
  BY <1>2, <1>3

(* A queue is a store that items enter anywhere and leave in order.        *)
LEMMA RefineQueue ==
  ASSUME PendInv, MailTyped, NodesInv, NodesInv', Calm, used = "queue", Orderly, QueueNext
  PROVE  Buffer!Next
<1>0. /\ Stored /\ used \in WaitQueues \ {"tx"} /\ "queue" \in WaitQueues \ {"tx"} /\ used \notin {"mbox", "msgq"}
      /\ Content = DataOf(data_q) /\ Content' = DataOf(data_q') /\ used \in {"msgq", "queue"}
  <2>1. used' = "queue"
    BY DEF Calm
  <2> QED
    BY <2>1, ViewContent, ViewContentNext DEF Stored, Calm, WaitQueues, DataOf
<1>1. /\ data_q \in Seq(Nodes) /\ Len(data_q) \in Nat /\ Len(Content) = Len(data_q)
      /\ \A i \in 1 .. Len(data_q) : Content[i] = data_q[i].data
      /\ Content = <<>> <=> data_q = <<>>
      /\ data_q' = data_q => Content' = Content
  <2>1. data_q \in Seq(Nodes)
    BY DEF NodesInv, Nodes
  <2> QED
    BY <1>0, <2>1, DataOfType
<1>13. Len(data_q) \in 0 .. Len(data_q) /\ 0 \in 0 .. Len(data_q)
  BY <1>1
<1>2. Buffer!GetError = 0 /\ Buffer!Putters = {}
  BY <1>0, ViewErrors, ViewNoPutters
<1>3. ASSUME NEW x \in Items, NEW pos \in 0 .. Len(data_q), NEW alloc \in BOOLEAN, queue_insert(pos, x, alloc)
      PROVE  Buffer!Next
  BY <1>0, <1>3, RefineInsert
<1>6. ASSUME NEW items \in Lists, k_queue_append_list(items) PROVE Buffer!Next
  BY <1>0, <1>6, RefineAppendList
<1>7. CASE k_queue_get
  <2>1. NobodyMoves
    BY <1>7 DEF k_queue_get
  <2>2. CASE data_q # <<>>
    <3>1. Reply(0, Head(data_q).data) /\ data_q' = Tail(data_q)
      BY <1>7, <2>2 DEF k_queue_get
    <3>2. DataOf(Tail(data_q)) = Tail(DataOf(data_q)) /\ Head(DataOf(data_q)) = Head(data_q).data
      BY <1>1, <2>2, DataOfTail
    <3>3. Content' = Tail(Content) /\ Reply(0, Head(Content)) /\ Content # <<>>
      BY <1>0, <1>1, <2>2, <3>1, <3>2
    <3> QED
      BY <1>0, <1>2, <2>1, <3>3, RefineTake
  <2>3. CASE data_q = <<>>
    <3>1. Content' = Content /\ Content = <<>> /\ Reply(Buffer!GetError, NULL)
      BY <1>1, <1>2, <1>7, <2>3 DEF k_queue_get
    <3> QED
      BY <1>0, <2>1, <3>1, RefineNone
  <2> QED
    BY <2>2, <2>3
<1>8. CASE k_queue_cancel_wait
  <2>1. Content' = Content
    BY <1>1, <1>8 DEF k_queue_cancel_wait
  <2> QED
    BY <1>0, <1>8, <2>1, RefineCancel
<1>9. ASSUME NEW end \in {"head", "tail"}, k_queue_peek(end) PROVE Buffer!Next
  <2>1. NobodyMoves /\ Content' = Content
    BY <1>1, <1>9 DEF k_queue_peek
  <2>2. Looked(end, 0, IF data_q = <<>> THEN NULL
                       ELSE data_q[IF end = "head" THEN 1 ELSE Len(data_q)].data)
    BY <1>9 DEF k_queue_peek
  <2>3. data_q # <<>> => 1 \in 1 .. Len(data_q) /\ Len(data_q) \in 1 .. Len(data_q)
    BY <1>1
  <2>4. (IF data_q = <<>> THEN NULL ELSE data_q[IF end = "head" THEN 1 ELSE Len(data_q)].data)
          = CASE Content = <<>> -> NULL
              [] Content # <<>> /\ end = "head" -> Content[1]
              [] OTHER -> Content[Len(Content)]
    BY <1>1, <2>3
  <2> QED
    BY <1>0, <2>1, <2>2, <2>4, RefineLook
<1>10. ASSUME NEW t \in Threads, NEW timed \in BOOLEAN, k_queue_get_wait(t, timed) PROVE Buffer!Next
  <2>1. /\ Free(t) /\ PendOn(t, "queue", "get", NULL, timed) /\ Content' = Content /\ Content = <<>>
        /\ "get" \in {"get", "put", "send"}
    BY <1>1, <1>10 DEF k_queue_get_wait
  <2> QED
    BY <1>0, <2>1, RefineBlocks
<1>11. CASE (PendNext \/ \E t \in Threads : Returns(t)) /\ UNCHANGED data_q
  <2>1. Content' = Content
    BY <1>1, <1>11
  <2> QED
    BY <1>0, <1>11, <2>1, RefinePend, RefineReturns
<1>12. (\E x \in Items : \/ \E pos \in 0 .. Len(data_q) : queue_insert(pos, x, FALSE)
                      \/ \E pos \in {0, Len(data_q)} : queue_insert(pos, x, TRUE))
       => \E x \in Items, pos \in 0 .. Len(data_q), alloc \in BOOLEAN : queue_insert(pos, x, alloc)
  BY <1>13
<1> QED
  BY <1>3, <1>6, <1>7, <1>8, <1>9, <1>10, <1>11, <1>12 DEF QueueNext, Lists
-----------------------------------------------------------------------------
(* The store behind the object in use, from the start and in every step.   *)
LEMMA RefineInit == Init => Buffer!Init
<1> SUFFICES ASSUME Init PROVE Buffer!Init
  OBVIOUS
<1>1. /\ thr = [t \in Threads |-> Idle] /\ reply = NoReply /\ used_msgs = 0 /\ data_q = <<>>
      /\ free_list = InSomeOrder(Items) /\ entries["stack"] = <<>>
  BY DEF Init, PendInit, k_mem_slab_init, create_free_list, k_stack_init, Stacks,
         k_msgq_init, k_queue_init
<1>2. \A t \in Threads : thr[t].at = "idle"
  BY <1>1 DEF Idle
<1>3. IF used = "slab" THEN Len(Content) = Buffer!Cardinality(Items) ELSE Content = <<>>
  <2>1. CASE used = "slab"
    <3>1. Len(InSomeOrder(Items)) = Cardinality(Items)
      BY Listed, Constants
    <3>2. Buffer!Cardinality(Items) = Cardinality(Items)
      BY DEF Buffer!Cardinality, Cardinality
    <3>3. Content = InSomeOrder(Items)
      BY <1>1, <2>1, ViewContent
    <3> QED
      BY <2>1, <3>1, <3>2, <3>3
  <2>2. CASE used = "msgq"
    BY <1>1, <2>2, ViewContent DEF Messages
  <2>3. CASE used = "stack"
    BY <1>1, <2>3, ViewContent
  <2>4. CASE used = "queue"
    BY <1>1, <2>4, ViewContent
  <2>5. CASE used \notin {"slab", "msgq", "stack", "queue"}
    BY <2>5, ViewContent
  <2> QED
    BY <2>1, <2>2, <2>3, <2>4, <2>5
<1>4. NoReply = Buffer!None
  BY DEF NoReply, Buffer!None, Buffer!Result
<1> QED
  BY <1>1, <1>2, <1>3, <1>4 DEF Buffer!Init

LEMMA RefineMbox ==
  ASSUME used = "mbox", used' = used
  PROVE  UNCHANGED Buffer!vars
<1>1. Content = <<>> /\ Content' = <<>>
  BY ViewContent, ViewContentNext
<1> QED
  BY <1>1 DEF Buffer!vars, NoReply

LEMMA RefineNext ==
  IInv /\ IInv' /\ Orderly /\ [Next]_vars => [Buffer!Next]_Buffer!vars
<1> SUFFICES ASSUME IInv, IInv', Orderly, [Next]_vars PROVE Buffer!Next \/ UNCHANGED Buffer!vars
  OBVIOUS
<1>0. /\ PendInv /\ RingInv /\ StacksInv /\ SlabInv /\ NodesInv /\ MailTyped /\ RingInv' /\ NodesInv'
  BY DEF IInv, MboxInv
<1>2. ASSUME async_msg' = async_msg, used' = used PROVE Calm
  BY <1>0, <1>2, SameRanks DEF Calm
<1>4. CASE used' = used /\ used = "msgq" /\ MsgqNext /\ UNCHANGED <<entries, slabVars, data_q, mboxVars>>
  BY <1>0, <1>2, <1>4, RefineMsgq DEF mboxVars
<1>5. CASE used' = used /\ used = "stack" /\ StackNext /\ UNCHANGED <<msgqVars, slabVars, data_q, mboxVars>>
  BY <1>0, <1>2, <1>5, RefineStack DEF mboxVars
<1>6. CASE used' = used /\ used = "slab" /\ SlabNext /\ UNCHANGED <<msgqVars, entries, data_q, mboxVars>>
  BY <1>0, <1>2, <1>6, RefineSlab DEF mboxVars
<1>7. CASE used' = used /\ used = "queue" /\ QueueNext /\ UNCHANGED <<msgqVars, entries, slabVars, mboxVars>>
  BY <1>0, <1>2, <1>7, RefineQueue DEF mboxVars
<1>8. CASE used' = used /\ used = "mbox" /\ MboxNext
  BY <1>8, RefineMbox
<1>9. CASE UNCHANGED vars
  <2>1. UNCHANGED <<used, thr, reply, entries, data_q, buffer, read_ptr, used_msgs, free_list>>
    BY <1>9 DEF vars, msgqVars, slabVars, mboxVars
  <2>2. Content' = Content
    BY <2>1 DEF Content, Messages
  <2> QED
    BY <2>1, <2>2 DEF Buffer!vars, NoReply
<1> QED
  BY <1>4, <1>5, <1>6, <1>7, <1>8, <1>9 DEF Next

(* The object in use stays the same.                                       *)
LEMMA OrderlyAlways == Spec /\ Orderly => []Orderly
<1>1. Orderly /\ [Next]_vars => Orderly'
  BY DEF Orderly, Next, vars
<1> QED
  BY <1>1, PTL DEF Spec

(* ImplementsAbsBuffer: stacks and slabs of any size, with any threads,    *)
(* are the stores that they promise to be; so are message queues that are  *)
(* not purged while readers wait, for k_msgq_purge ends their waits too,   *)
(* and so are queues under the calls that take their lock, when no list    *)
(* with fewer items than waiters is appended, for k_queue_append_list then *)
(* unpends one waiter too many.                                            *)
THEOREM ObjectsAreBuffers == Spec /\ Orderly => ImplementsAbsBuffer
BY RefineInit, RefineNext, OrderlyAlways, IInvAlways, PTL DEF Spec, ImplementsAbsBuffer, Buffer!Spec

(* No getter has been told that there is no message: whoever is woken has  *)
(* what it waited for or its timeout, and a purge finds writers only.  A   *)
(* thread that is in no call gets nothing.                                 *)
Unpurged == \A t \in Threads : thr[t].op = "get" => thr[t].ret # ENOMSG /\ thr[t].at # "idle"

LEMMA AppendListUnpurged ==
  ASSUME PendInv, Unpurged, NEW items \in Lists, k_queue_append_list(items)
  PROVE  Unpurged'
<1> DEFINE w == waitq["queue"]
           n == Handed(items)
           taken == Taken(items)
<1>0. Len(w) \in Nat /\ n \in 0 .. Len(w) /\ taken \in n .. Len(w)
  BY AppendListShape
<1>1. /\ \A u \in Threads : u \notin {w[i] : i \in 1 .. taken} => thr'[u] = thr[u]
      /\ \A i \in 1 .. n : w[i] \in Threads /\ thr'[w[i]] = Woken(w[i], 0, items[i])
      /\ \A i \in 1 .. taken : i > n => thr'[w[i]] = [thr[w[i]] EXCEPT !.at = "limbo", !.armed = FALSE]
  BY AppendListShape
<1> HIDE DEF w, n, taken
<1> SUFFICES ASSUME NEW t \in Threads
             PROVE  thr'[t].op = "get" => thr'[t].ret # ENOMSG /\ thr'[t].at # "idle"
  BY DEF Unpurged
<1>2. thr[t] \in Thread
  BY DEF PendInv, ThreadsTyped
<1>3. CASE t \notin {w[i] : i \in 1 .. taken}
  BY <1>1, <1>3 DEF Unpurged
<1>4. ASSUME NEW i \in 1 .. taken, t = w[i]
      PROVE  thr'[t].op = "get" => thr'[t].ret # ENOMSG /\ thr'[t].at # "idle"
  <2>1. CASE i <= n
    <3>1. i \in 1 .. n
      BY <1>0, <2>1
    <3>2. thr'[t] = Woken(t, 0, items[i])
      BY <1>1, <1>4, <3>1
    <3> QED
      BY <1>2, <3>2 DEF Woken, Thread, ENOMSG
  <2>2. CASE i > n
    <3>1. thr'[t] = [thr[t] EXCEPT !.at = "limbo", !.armed = FALSE]
      BY <1>1, <1>4, <2>2
    <3> QED
      BY <1>2, <3>1 DEF Unpurged, Thread
  <2> QED
    BY <1>0, <2>1, <2>2
<1> QED
  BY <1>3, <1>4

LEMMA UnpurgedNext ==
  ASSUME PendInv, Orderly, used # "mbox", Unpurged, [Next]_vars
  PROVE  Unpurged'
<1> USE DEF ENOMSG, EAGAIN
<1>0. thr \in [Threads -> Thread]
  BY DEF PendInv, ThreadsTyped
<1>1. ASSUME NEW t \in Threads, NEW q, NEW op, NEW x, NEW timed, PendOn(t, q, op, x, timed)
      PROVE  Unpurged'
  BY <1>0, <1>1 DEF PendOn, PendBy, Unpurged, Thread
<1>2. ASSUME NEW q, NEW x, WakeFirst(q, 0, x) PROVE Unpurged'
  BY <1>0, <1>2 DEF WakeFirst, Woken, Unpurged, Thread
<1>3. ASSUME NobodyMoves PROVE Unpurged'
  BY <1>3 DEF NobodyMoves, Unpurged
<1>4. ASSUME PendNext PROVE Unpurged'
  <2>1. ASSUME NEW t \in Threads, Announce(t) PROVE Unpurged'
    BY <1>0, <2>1 DEF Announce, Unpurged, Thread
  <2>2. ASSUME z_thread_timeout PROVE Unpurged'
    BY <1>0, <1>3, <2>2 DEF z_thread_timeout, Unpurged, Thread
  <2> QED
    BY <1>4, <2>1, <2>2 DEF PendNext
<1>5. ASSUME NEW t \in Threads, Returns(t) PROVE Unpurged'
  BY <1>0, <1>5 DEF Returns, Idle, Unpurged, Thread
<1>6. ASSUME MsgqNext, used = "msgq" PROVE Unpurged'
  <2>1. ASSUME k_msgq_purge PROVE Unpurged'
    BY <1>0, <1>6, <2>1 DEF k_msgq_purge, WakeAll, Woken, Orderly, Unpurged, Thread
  <2>2. ASSUME NEW x \in Items, k_msgq_put(x) PROVE Unpurged'
    BY <1>2, <1>3, <2>2 DEF k_msgq_put
  <2>3. ASSUME k_msgq_get PROVE Unpurged'
    BY <1>2, <1>3, <2>3 DEF k_msgq_get
  <2> QED
    BY <1>1, <1>3, <1>4, <1>5, <1>6, <2>1, <2>2, <2>3
       DEF MsgqNext, k_msgq_put_wait, k_msgq_get_wait, k_msgq_peek_at
<1>7. ASSUME StackNext PROVE Unpurged'
  <2>1. ASSUME NEW x \in Items, k_stack_push("stack", x) PROVE Unpurged'
    BY <1>2, <1>3, <2>1 DEF k_stack_push
  <2> QED
    BY <1>1, <1>3, <1>4, <1>5, <1>7, <2>1 DEF StackNext, k_stack_pop, k_stack_pop_wait
<1>8. ASSUME SlabNext PROVE Unpurged'
  <2>1. ASSUME NEW mem \in Items, k_mem_slab_free(mem) PROVE Unpurged'
    BY <1>2, <1>3, <2>1 DEF k_mem_slab_free
  <2> QED
    BY <1>1, <1>3, <1>4, <1>5, <1>8, <2>1
       DEF SlabNext, k_mem_slab_alloc, k_mem_slab_alloc_wait, AllocReturns
<1>9. ASSUME QueueNext PROVE Unpurged'
  <2>1. ASSUME NEW pos, NEW x, NEW alloc, queue_insert(pos, x, alloc) PROVE Unpurged'
    BY <1>2, <1>3, <2>1 DEF queue_insert
  <2>2. ASSUME NEW items \in Lists, k_queue_append_list(items) PROVE Unpurged'
    BY <2>2, AppendListUnpurged
  <2>3. ASSUME k_queue_cancel_wait PROVE Unpurged'
    BY <1>2, <1>3, <2>3 DEF k_queue_cancel_wait
  <2> QED
    BY <1>1, <1>3, <1>4, <1>5, <1>9, <2>1, <2>2, <2>3
       DEF QueueNext, Lists, k_queue_get, k_queue_get_wait, k_queue_peek
<1>10. ASSUME UNCHANGED vars PROVE Unpurged'
  BY <1>10 DEF vars, Unpurged
<1> QED
  BY <1>6, <1>7, <1>8, <1>9, <1>10 DEF Next

(* GettersKept: under the same condition whoever waits for a message, a    *)
(* word, a block or a node stands in the wait queue until an item, the     *)
(* timeout or k_queue_cancel_wait ends the wait (k_msgq_purge,             *)
(* k_queue_append_list).                                                   *)
THEOREM GettersAreKept == Spec /\ Orderly => [](used # "mbox" => GettersKept)
<1>1. Init => (used # "mbox" => Unpurged)
  BY DEF Init, PendInit, Idle, Unpurged
<1>2. IInv /\ Orderly /\ (used # "mbox" => Unpurged) /\ [Next]_vars => (used # "mbox" => Unpurged)'
  <2>1. [Next]_vars => used' = used
    BY DEF Next, vars
  <2> QED
    BY <2>1, UnpurgedNext DEF IInv
<1>3. IInv /\ Orderly /\ (used # "mbox" => Unpurged) => (used # "mbox" => GettersKept)
  <2> SUFFICES ASSUME IInv, Orderly, Unpurged, used # "mbox", NEW t \in Threads, thr[t].op = "get"
               PROVE  \/ t \in Members(waitq[thr[t].q])
                      \/ thr[t].at = "done" /\ thr[t].ret # ENOMSG
    BY DEF GettersKept
  <2>1. PendInv
    BY DEF IInv
  <2>2. thr[t] \in Thread /\ Carries(t)
    BY <2>1 DEF PendInv, ThreadsTyped, AllCarry
  <2>3. thr[t].at # "idle"
    BY DEF Unpurged
  <2>4. CASE thr[t].at = "pended"
    BY <2>1, <2>2, <2>4 DEF PendInv, QueuesLinked, Carries
  <2>5. CASE thr[t].at = "done"
    BY <2>5 DEF Unpurged
  <2> QED
    BY <2>2, <2>3, <2>4, <2>5 DEF Thread, Carries, Orderly
<1> QED
  BY <1>1, <1>2, <1>3, IInvAlways, OrderlyAlways, PTL DEF Spec
=============================================================================
