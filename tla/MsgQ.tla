-------------------------------- MODULE MsgQ --------------------------------
(***************************************************************************)
(* A message queue, kernel/msg_q.c: a ring buffer and one wait queue on    *)
(* which readers wait when it is empty and writers when it is full.        *)
(***************************************************************************)
EXTENDS Pend

CONSTANTS
  max_msgs,
  PurgesReaders   \* may k_msgq_purge be called while readers wait?
ASSUME MsgQAssumption == max_msgs \in Nat \ {0} /\ PurgesReaders \in BOOLEAN

VARIABLES buffer, read_ptr, write_ptr, used_msgs   \* struct k_msgq
msgqVars == <<buffer, read_ptr, write_ptr, used_msgs>>

k_msgq_init ==
  /\ buffer = [i \in 0 .. (max_msgs - 1) |-> NULL]
  /\ read_ptr = 0 /\ write_ptr = 0 /\ used_msgs = 0

(* A pointer moved on by one message.                                      *)
Step(ptr) == IF ptr + 1 = max_msgs THEN 0 ELSE ptr + 1

(* memcpy to write_ptr, which moves on.                                    *)
Store(x) == buffer' = [buffer EXCEPT ![write_ptr] = x] /\ write_ptr' = Step(write_ptr)

(* k_msgq_put: what it does without blocking ...                           *)
k_msgq_put(x) ==
  /\ CASE used_msgs < max_msgs /\ waitq["msgq"] # <<>> ->
            WakeFirst("msgq", 0, x) /\ Reply(0, NULL) /\ UNCHANGED msgqVars
       [] used_msgs < max_msgs /\ waitq["msgq"] = <<>> ->
            /\ Store(x) /\ used_msgs' = used_msgs + 1
            /\ NobodyMoves /\ Reply(0, NULL) /\ UNCHANGED read_ptr
       [] OTHER -> NobodyMoves /\ Reply(ENOMSG, NULL) /\ UNCHANGED msgqVars
  /\ UNCHANGED firing

(* ... and with a timeout when the queue is full.                          *)
k_msgq_put_wait(t, x, timed) ==
  /\ Free(t) /\ used_msgs = max_msgs
  /\ PendOn(t, "msgq", "put", x, timed) /\ UNCHANGED msgqVars

(* Mutant: the first writer is let in without its message.                 *)
k_msgq_get_forgets ==
  /\ IF used_msgs > 0
     THEN /\ read_ptr' = Step(read_ptr) /\ Reply(0, buffer[read_ptr])
          /\ IF waitq["msgq"] # <<>>
             THEN WakeFirst("msgq", 0, NULL) ELSE NobodyMoves
          /\ used_msgs' = used_msgs - 1 /\ UNCHANGED <<buffer, write_ptr>>
     ELSE NobodyMoves /\ Reply(ENOMSG, NULL) /\ UNCHANGED msgqVars
  /\ UNCHANGED firing

(* k_msgq_get without blocking: the first writer's message takes the place *)
(* of the one read ...                                                     *)
k_msgq_get ==
  /\ IF used_msgs > 0
     THEN /\ read_ptr' = Step(read_ptr) /\ Reply(0, buffer[read_ptr])
          /\ IF waitq["msgq"] # <<>>
             THEN /\ Store(thr[Head(waitq["msgq"])].data)
                  /\ WakeFirst("msgq", 0, NULL) /\ UNCHANGED used_msgs
             ELSE /\ NobodyMoves
                  /\ used_msgs' = used_msgs - 1 /\ UNCHANGED <<buffer, write_ptr>>
     ELSE NobodyMoves /\ Reply(ENOMSG, NULL) /\ UNCHANGED msgqVars
  /\ UNCHANGED firing

(* ... and with a timeout when the queue is empty.                         *)
k_msgq_get_wait(t, timed) ==
  /\ Free(t) /\ used_msgs = 0
  /\ PendOn(t, "msgq", "get", NULL, timed) /\ UNCHANGED msgqVars

(* k_msgq_peek is k_msgq_peek_at(0).                                       *)
k_msgq_peek_at(idx) ==
  /\ LET to_end == max_msgs - read_ptr
         place == IF to_end <= idx THEN idx - to_end ELSE read_ptr + idx
     IN  IF used_msgs > idx THEN Looked(idx, 0, buffer[place]) ELSE Looked(idx, ENOMSG, NULL)
  /\ NobodyMoves /\ UNCHANGED <<firing, msgqVars>>

(* k_msgq_purge ends every wait, a reader's too.                           *)
k_msgq_purge ==
  /\ firing = NULL
  /\ PurgesReaders \/ \A t \in Members(waitq["msgq"]) : thr[t].op # "get"
  /\ WakeAll("msgq", ENOMSG)
  /\ used_msgs' = 0 /\ read_ptr' = write_ptr
  /\ Silent /\ UNCHANGED <<firing, buffer, write_ptr>>

MsgqNext ==
  \/ \E x \in Items : k_msgq_put(x)
  \/ \E t \in Threads, timed \in BOOLEAN : \/ k_msgq_get_wait(t, timed)
                                           \/ \E x \in Items : k_msgq_put_wait(t, x, timed)
  \/ k_msgq_get \/ k_msgq_purge \/ \E idx \in 0 .. max_msgs : k_msgq_peek_at(idx)
  \/ (PendNext \/ \E t \in Threads : Returns(t)) /\ UNCHANGED msgqVars

(* The messages of the ring, oldest first.                                 *)
Messages == [i \in 1 .. used_msgs |-> buffer[(read_ptr + i - 1) % max_msgs]]
=============================================================================
