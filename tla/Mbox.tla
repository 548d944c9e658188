-------------------------------- MODULE Mbox --------------------------------
(***************************************************************************)
(* A mailbox, kernel/mailbox.c.  A sender and a receiver meet in either    *)
(* queue; the sender is let go when the receiver has disposed of the       *)
(* message.  An asynchronous sender leaves a dummy thread behind, part of  *)
(* a descriptor from the stack async_msg_free.  A message is known by its  *)
(* _syncing_thread: the sender, or the descriptor.                         *)
(***************************************************************************)
EXTENDS KStack

CONSTANTS
  Descs,      \* the asynchronous message descriptors
  ANY,        \* K_ANY
  SemLimit    \* bounds the asynchronous sends that ask for a signal
ASSUME MboxAssumption ==
  /\ IsFiniteSet(Descs) /\ Cardinality(Descs) = num_entries["async"] /\ SemLimit \in Nat \ {0}
  /\ (Threads \cup {NULL, ANY}) \cap Descs = {} /\ ANY \notin Threads \cup {NULL}

VARIABLES
  async_msg,   \* the descriptors: tx_msg, and thread.prio
  mail,        \* what a thread that is not blocked does in a mailbox call
  sem,         \* the count of the semaphore that is the senders' _async_sem
  owed         \* signals asked for and not yet taken; the code has no such count
mboxVars == <<async_msg, mail, sem, owed>>

NoMail == [step |-> "none", msg |-> NULL]
NoDesc == [source |-> NULL, target |-> NULL, prio |-> 0, signal |-> FALSE]

k_mbox_init ==
  /\ async_msg = [d \in Descs |-> NoDesc] /\ mail = [t \in Threads |-> NoMail]
  /\ sem = 0 /\ owed = 0

(* t executes and is in no call.                                           *)
Ready(t) == Free(t) /\ mail[t] = NoMail

(* rx_source_thread and tx_target_thread of a message in the tx queue.     *)
Source(m) == IF m \in Descs THEN async_msg[m].source ELSE m
Target(m) == IF m \in Descs THEN async_msg[m].target ELSE thr[m].data
TxPrio == [m \in Threads \cup Descs |-> IF m \in Descs THEN async_msg[m].prio ELSE Prio[m]]

(* Message from src to target, receiver r that wants one from want.        *)
mbox_message_match(src, target, r, want) == target \in {ANY, r} /\ want \in {ANY, src}

(* The first in the queue, by _WAIT_Q_FOR_EACH, for which Match holds.     *)
FirstMatch(queue, Match(_)) ==
  LET found == {i \in 1 .. Len(queue) : Match(queue[i])}
  IN  IF found = {} THEN NULL
      ELSE queue[CHOOSE i \in found : \A j \in found : i <= j]

Receiver(src, target) ==
  FirstMatch(waitq["rx"], LAMBDA r : mbox_message_match(src, target, r, thr[r].data))

Sender(t, want) ==
  FirstMatch(waitq["tx"], LAMBDA m : mbox_message_match(Source(m), Target(m), t, want))

(* A matched receiver is unpended and made ready.                          *)
Unpend(q, x) == waitq' = [waitq EXCEPT ![q] = z_priq_dumb_remove(@, x)]

(* k_mbox_put.  A sender that finds a receiver pends on no queue, until    *)
(* the message is disposed of, whatever its timeout.                       *)
k_mbox_put(t, target, timeout) ==
  LET r == Receiver(t, target)
  IN  /\ Ready(t) /\ target # t
      /\ \/ /\ r # NULL /\ Unpend("rx", r)
            /\ thr' = [thr EXCEPT ![r] = Woken(r, 0, t),
                                  ![t] = [Idle EXCEPT !.at = "matched", !.op = "send"]]
            /\ Silent /\ UNCHANGED firing
         \/ r = NULL /\ timeout = "no_wait" /\ Reply(ENOMSG, NULL) /\ NobodyMoves /\ UNCHANGED firing
         \/ r = NULL /\ timeout # "no_wait" /\ PendBy(TxPrio, t, "tx", "send", target, timeout = "some")
      /\ UNCHANGED <<entries, mboxVars>>

(* mbox_async_alloc, the first call of k_mbox_async_put, for a message to  *)
(* target that is to be signalled or not ...                               *)
mbox_async_alloc(t) ==
  /\ Ready(t)
  /\ \/ /\ entries["async"] # <<>> /\ k_stack_pop("async")
        /\ mail' = [mail EXCEPT ![t] = [step |-> "put", msg |-> entries["async"][Len(entries["async"])]]]
     \/ k_stack_pop_wait(t, "async", FALSE) /\ UNCHANGED mail
  /\ UNCHANGED <<async_msg, sem, owed>>

(* ... and the rest of it, with a descriptor.  The dummy thread waits in   *)
(* the tx queue, with the priority of the sender, or in the hands of a     *)
(* receiver.                                                               *)
k_mbox_async_put(t, target, signal) ==
  LET d == mail[t].msg
      desc == [source |-> t, target |-> target, prio |-> Prio[t], signal |-> signal]
      r == Receiver(t, target)
  IN  /\ Free(t) /\ mail[t].step = "put" /\ target # t
      /\ signal => owed < SemLimit
      /\ owed' = IF signal THEN owed + 1 ELSE owed
      /\ async_msg' = [async_msg EXCEPT ![d] = desc]
      /\ mail' = [mail EXCEPT ![t] = NoMail]
      /\ IF r # NULL
         THEN Unpend("rx", r) /\ thr' = [thr EXCEPT ![r] = Woken(r, 0, d)]
         ELSE /\ waitq' = [waitq EXCEPT !["tx"] =
                             z_priq_dumb_add(@, d, [TxPrio EXCEPT ![d] = Prio[t]])]
              /\ UNCHANGED thr
      /\ Silent /\ UNCHANGED <<firing, entries, sem>>

(* k_mbox_get.  The sender found is unpended, not made ready: it stays     *)
(* where it is until its message is disposed of.                           *)
k_mbox_get(t, want, timeout) ==
  LET m == Sender(t, want)
  IN  /\ Ready(t) /\ want # t
      /\ \/ /\ m # NULL /\ Unpend("tx", m)
            /\ thr' = [s \in Threads |->
                         IF s = m THEN [thr[s] EXCEPT !.at = "matched", !.armed = FALSE] ELSE thr[s]]
            /\ mail' = [mail EXCEPT ![t] = [step |-> "got", msg |-> m]]
            /\ Silent /\ UNCHANGED firing
         \/ /\ m = NULL /\ timeout = "no_wait" /\ Reply(ENOMSG, NULL)
            /\ NobodyMoves /\ UNCHANGED <<firing, mail>>
         \/ m = NULL /\ timeout # "no_wait" /\ PendOn(t, "rx", "get", want, timeout = "some") /\ UNCHANGED mail
      /\ UNCHANGED <<entries, async_msg, sem, owed>>

(* A blocked call goes on: a receiver with its message, a sender that has  *)
(* waited for a descriptor with that.                                      *)
Resumes(t) ==
  LET step == IF thr[t].ret # 0 \/ thr[t].op = "send" THEN "none"
              ELSE IF thr[t].q = "async" THEN "put" ELSE "got"
  IN  /\ Returns(t)
      /\ mail' = [mail EXCEPT ![t] = IF step = "none" THEN NoMail
                                     ELSE [step |-> step, msg |-> thr[t].data]]
      /\ UNCHANGED <<entries, async_msg, sem, owed>>

(* Mutant: the semaphore is given, the descriptor forgotten.               *)
mbox_message_dispose_leaks(t) ==
  LET m == mail[t].msg
  IN  /\ Free(t) /\ mail[t].step = "got"
      /\ mail' = [mail EXCEPT ![t] = IF m \in Descs /\ async_msg[m].signal
                                     THEN [step |-> "give", msg |-> NULL] ELSE NoMail]
      /\ IF m \in Descs THEN NobodyMoves ELSE thr' = [thr EXCEPT ![m] = Woken(m, 0, NULL)] /\ UNCHANGED waitq
      /\ Silent /\ UNCHANGED <<firing, entries, async_msg, sem, owed>>

(* mbox_message_dispose, from k_mbox_get itself if the receiver gave it a  *)
(* buffer or the message is empty, from k_mbox_data_get at any later time  *)
(* otherwise.  A synchronous sender is made ready.  A descriptor goes back *)
(* to the stack, perhaps to a sender that waits for one; its semaphore,    *)
(* read before, is given after.  What the code leaves in a free descriptor *)
(* nobody reads.                                                           *)
mbox_message_dispose(t) ==
  LET m == mail[t].msg
  IN  /\ Free(t) /\ mail[t].step = "got"
      /\ mail' = [mail EXCEPT ![t] = IF m \in Descs /\ async_msg[m].signal
                                     THEN [step |-> "give", msg |-> NULL] ELSE NoMail]
      /\ \/ /\ m \in Descs /\ k_stack_push("async", m)
            /\ async_msg' = [async_msg EXCEPT ![m] = NoDesc]
         \/ /\ m \in Threads
            /\ thr' = [thr EXCEPT ![m] = Woken(m, 0, NULL)]
            /\ Silent /\ UNCHANGED <<waitq, firing, entries, async_msg>>
      /\ UNCHANGED <<sem, owed>>

GiveSem(t) ==
  /\ Free(t) /\ mail[t].step = "give"
  /\ mail' = [mail EXCEPT ![t] = NoMail]
  /\ sem' = IF sem < SemLimit THEN sem + 1 ELSE sem
  /\ Silent /\ NobodyMoves /\ UNCHANGED <<firing, entries, async_msg, owed>>

(* A sender takes a signal.                                                *)
TakeSem ==
  /\ sem > 0 /\ sem' = sem - 1 /\ owed' = owed - 1
  /\ Silent /\ NobodyMoves /\ UNCHANGED <<firing, entries, async_msg, mail>>

MboxNext ==
  \/ \E t \in Threads :
       \/ mbox_async_alloc(t) \/ mbox_message_dispose(t) \/ GiveSem(t) \/ Resumes(t)
       \/ \E other \in Threads \cup {ANY} :
            \/ \E signal \in BOOLEAN : k_mbox_async_put(t, other, signal)
            \/ \E timeout \in {"no_wait", "some", "forever"} :
                 k_mbox_put(t, other, timeout) \/ k_mbox_get(t, other, timeout)
  \/ TakeSem
  \/ PendNext /\ UNCHANGED <<entries, mboxVars>>

(* The receivers that have message m.                                      *)
Holders(m) ==
  {t \in Threads : \/ mail[t] = [step |-> "got", msg |-> m]
                   \/ thr[t].at = "done" /\ thr[t].q = "rx" /\ thr[t].ret = 0 /\ thr[t].data = m}
Putters(d) ==
  {t \in Threads : \/ mail[t] = [step |-> "put", msg |-> d]
                   \/ thr[t].at = "done" /\ thr[t].q = "async" /\ thr[t].data = d}
Count(set) == Cardinality(set)

(* Mail is neither lost nor delivered twice.  mbox_message_put and         *)
(* k_mbox_get: a sender and a receiver who suit each other do not both     *)
(* wait; a synchronous sender is kept blocked off the queue exactly while  *)
(* one receiver has its message; a descriptor is free, being filled,       *)
(* queued or with one receiver, never two of these; and for every signal   *)
(* asked for one is given, once its message is disposed of.                *)
MailInv ==
  /\ \A m \in Members(waitq["tx"]), r \in Members(waitq["rx"]) :
       ~ mbox_message_match(Source(m), Target(m), r, thr[r].data)
  /\ \A t \in Threads : Count(Holders(t)) = IF thr[t].at = "matched" THEN 1 ELSE 0
  /\ \A d \in Descs :
       Count({i \in 1 .. Len(entries["async"]) : entries["async"][i] = d})
         + Count({i \in 1 .. Len(waitq["tx"]) : waitq["tx"][i] = d})
         + Count(Holders(d)) + Count(Putters(d)) = 1
  /\ owed = sem + Count({t \in Threads : mail[t].step = "give"})
              + Count({d \in Descs : async_msg[d].signal /\ (Holders(d) # {} \/ d \in Members(waitq["tx"]))})
=============================================================================
