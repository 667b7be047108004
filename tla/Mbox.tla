-------------------------------- MODULE Mbox --------------------------------
(***************************************************************************)
(* mbox.c: one mailbox, a circular byte buffer guarded by the monitor of   *)
(* thread.c. The mailbox operations are the client code of Monitor: what   *)
(* they do while holding the lock is part of the call that follows it,     *)
(* since nothing else touches the mailbox until the lock is given up.      *)
(***************************************************************************)
EXTENDS Monitor, Integers, FiniteSets

CONSTANTS
  moreSpace, moreData,  \* the two conditions of mbox_t
  BufferSize,           \* BUFFER_SIZE
  HeaderSize,           \* MSG_T_HEADER_SIZE, bytes of the size field
  Radix,                \* number of values of a byte
  Messages,             \* the message bodies senders choose from
  Senders, Receivers    \* the threads that call mbox_send, mbox_recv

(* What is left of a size when k of its bytes are taken off.               *)
Rest(size) ==
  LET rest[k \in 0..HeaderSize] == IF k = 0 THEN size ELSE rest[k-1] \div Radix IN rest

(* MSG_SIZE *)
MsgSize(m) == HeaderSize + Len(m)

ASSUME MboxAssumption ==
  /\ Conds = {moreSpace, moreData}
  /\ moreSpace # moreData
  /\ BufferSize \in Nat \ {0}
  /\ HeaderSize \in Nat \ {0}
  /\ Radix \in Nat \ {0, 1}
  /\ \A m \in Messages :
       /\ m \in Seq(0..Radix-1)
       /\ Rest(Len(m))[HeaderSize] = 0  \* the size field is wide enough
  /\ Senders \cup Receivers = Threads
  /\ IsFiniteSet(Threads)

VARIABLES
  used, count, head, tail, buffer,  \* the fields of mbox_t
  op,       \* the mailbox operation each thread is in
  msg,      \* the message each thread is sending
  got,      \* the message each thread received last
  pending   \* history: the messages sent and not yet received

mboxvars == <<used, count, head, tail, buffer, op, msg, got, pending>>
allvars == <<vars, mboxvars>>

----------------------------------------------------------------------------

(* Mutant: a full mailbox looks like an empty one. *)
SpaceNoCount ==
  IF tail > head THEN tail - head ELSE tail + BufferSize - head

(* space_available *)
Space ==
  CASE tail = head /\ count # 0 -> 0
    [] tail > head              -> tail - head
    [] OTHER                    -> tail + BufferSize - head

(* The header holds the size of the body, least significant byte first. *)
Header(size) == [k \in 1..HeaderSize |-> Rest(size)[k-1] % Radix]

(* The size a header says, most significant byte first. *)
SizeField(h) ==
  LET value[k \in 0..HeaderSize] ==
        IF k = 0 THEN 0 ELSE h[HeaderSize + 1 - k] + Radix * value[k-1]
  IN  value[HeaderSize]

Image(m) == Header(Len(m)) \o m

(* what mbox_send and putchar test *)
HasRoom(m) == Space >= MsgSize(m)

(* buffer_to_msg *)
Load(start, bytes) == [i \in 1..bytes |-> buffer[(start + i - 1) % BufferSize]]

(* Mutant: bytes past the end of the buffer are dropped. *)
StoreNoWrap(start, s) ==
  [b \in DOMAIN buffer |->
     LET i == b - start + 1 IN IF i \in DOMAIN s THEN s[i] ELSE buffer[b]]

(* msg_to_buffer *)
Store(start, s) ==
  [b \in DOMAIN buffer |->
     LET i == ((b - start) % BufferSize) + 1 IN IF i \in DOMAIN s THEN s[i] ELSE buffer[b]]

(* mbox_recv's two copies: the header, then as many bytes as it says. *)
Received ==
  LET size == SizeField(Load(tail, HeaderSize))
  IN  Load((tail + HeaderSize) % BufferSize, size)

----------------------------------------------------------------------------
(* mbox_init; the buffer is in zeroed static memory *)
MboxInit ==
  /\ Init
  /\ used = 0 /\ count = 0 /\ head = 0 /\ tail = 0
  /\ buffer = [b \in 0..BufferSize-1 |-> 0]
  /\ op = [t \in Threads |-> "closed"]
  /\ msg = [t \in Threads |-> << >>]
  /\ got = [t \in Threads |-> << >>]
  /\ pending = << >>

Become(t, o) == op' = [op EXCEPT ![t] = o]

InOp(t, o) == At(t, "in") /\ op[t] = o

(* t calls a mailbox operation, which starts with lock_acquire. *)
Start(t, from, o) ==
  /\ op[t] = from
  /\ CallAcquire(t)
  /\ Become(t, o)
  /\ UNCHANGED <<used, count, head, tail, buffer, got, pending>>

StartOpen(t)  == Start(t, "closed", "opening") /\ UNCHANGED msg
StartClose(t) == Start(t, "idle", "closing") /\ UNCHANGED msg
StartStat(t)  == Start(t, "idle", "stat") /\ UNCHANGED msg
StartRecv(t)  == t \in Receivers /\ Start(t, "idle", "recv") /\ UNCHANGED msg
StartSend(t, m) ==
  /\ t \in Senders
  /\ Start(t, "idle", "send")
  /\ msg' = [msg EXCEPT ![t] = m]

(* mbox_open *)
Open(t) ==
  /\ InOp(t, "opening")
  /\ IF used = 0
       THEN head' = 0 /\ tail' = 0 /\ count' = 0 /\ pending' = << >>
       ELSE UNCHANGED <<head, tail, count, pending>>
  /\ used' = used + 1
  /\ CallRelease(t)
  /\ Become(t, "idle")
  /\ UNCHANGED <<buffer, msg, got>>

(* mbox_close *)
Close(t) ==
  /\ InOp(t, "closing")
  /\ used' = used - 1
  /\ CallRelease(t)
  /\ Become(t, "closed")
  /\ UNCHANGED <<count, head, tail, buffer, msg, got, pending>>

(* mbox_stat *)
Stat(t) ==
  /\ InOp(t, "stat")
  /\ CallRelease(t)
  /\ Become(t, "idle")
  /\ UNCHANGED <<used, count, head, tail, buffer, msg, got, pending>>

(* mbox_recv: wait for a message, ... *)
RecvWait(t) ==
  /\ InOp(t, "recv")
  /\ count = 0
  /\ CallWait(t, moreData)
  /\ UNCHANGED mboxvars

(* Mutant: signal instead of broadcast. *)
RecvCopySignal(t) ==
  /\ InOp(t, "recv")
  /\ count # 0
  /\ got' = [got EXCEPT ![t] = Received]
  /\ tail' = (tail + MsgSize(Received)) % BufferSize
  /\ pending' = Tail(pending)
  /\ CallSignal(t, moreSpace)
  /\ Become(t, "recvd")
  /\ UNCHANGED <<used, count, head, buffer, msg>>

(* ... copy it out, advance the tail, tell the senders, ... *)
RecvCopy(t) ==
  /\ InOp(t, "recv")
  /\ count # 0
  /\ got' = [got EXCEPT ![t] = Received]
  /\ tail' = (tail + MsgSize(Received)) % BufferSize
  /\ pending' = Tail(pending)
  /\ CallBroadcast(t, moreSpace)
  /\ Become(t, "recvd")
  /\ UNCHANGED <<used, count, head, buffer, msg>>

(* ... count it and leave. *)
RecvDone(t) ==
  /\ InOp(t, "recvd")
  /\ count' = count - 1
  /\ CallRelease(t)
  /\ Become(t, "idle")
  /\ UNCHANGED <<used, head, tail, buffer, msg, got, pending>>

(* mbox_send: wait for room, ... *)
SendWait(t) ==
  /\ InOp(t, "send")
  /\ ~HasRoom(msg[t])
  /\ CallWait(t, moreSpace)
  /\ UNCHANGED mboxvars

(* Mutant: signal only if the mailbox was empty. *)
SendCopyIfEmpty(t) ==
  /\ InOp(t, "send")
  /\ HasRoom(msg[t])
  /\ buffer' = Store(head, Image(msg[t]))
  /\ head' = (head + MsgSize(msg[t])) % BufferSize
  /\ pending' = Append(pending, msg[t])
  /\ IF count = 0 THEN CallSignal(t, moreData) ELSE UNCHANGED vars
  /\ Become(t, "sent")
  /\ UNCHANGED <<used, count, tail, msg, got>>

(* ... copy the message in, advance the head, tell one receiver, ... *)
SendCopy(t) ==
  /\ InOp(t, "send")
  /\ HasRoom(msg[t])
  /\ buffer' = Store(head, Image(msg[t]))
  /\ head' = (head + MsgSize(msg[t])) % BufferSize
  /\ pending' = Append(pending, msg[t])
  /\ CallSignal(t, moreData)
  /\ Become(t, "sent")
  /\ UNCHANGED <<used, count, tail, msg, got>>

(* ... count it and leave. *)
SendDone(t) ==
  /\ InOp(t, "sent")
  /\ count' = count + 1
  /\ CallRelease(t)
  /\ Become(t, "idle")
  /\ msg' = [msg EXCEPT ![t] = << >>]  \* the caller's memory again
  /\ UNCHANGED <<used, head, tail, buffer, got, pending>>

Request(t) ==
  \/ StartOpen(t) \/ StartClose(t) \/ StartStat(t) \/ StartRecv(t)
  \/ \E m \in Messages : StartSend(t, m)

Work(t) ==
  \/ Open(t) \/ Close(t) \/ Stat(t)
  \/ RecvWait(t) \/ RecvCopy(t) \/ RecvDone(t)
  \/ SendWait(t) \/ SendCopy(t) \/ SendDone(t)
  \/ Step(t) /\ UNCHANGED mboxvars

MboxNext == \E t \in Threads : Request(t) \/ Work(t)

MboxSpec == MboxInit /\ [][MboxNext]_allvars

----------------------------------------------------------------------------
HasOpen(t) == op[t] \notin {"closed", "opening"}

Users == {t \in Threads : HasOpen(t)}

(* The mailbox is a bounded FIFO queue of whole messages. *)
Queue == INSTANCE MessageQueue WITH
  Capacity <- BufferSize,
  queue    <- pending,
  users    <- Users

QueueSpec == Queue!Spec

PendingBytes == Queue!Bytes(pending)

Unlocked == lstatus = "UNLOCKED"

(* Whenever the lock is free the fields agree with what the mailbox holds: *)
(* count counts the messages, the space is what they leave over (head =    *)
(* tail is told apart by count), used is the number of threads with the    *)
(* mailbox open.                                                           *)
AccountingExact ==
  Unlocked =>
    /\ count = Len(pending)
    /\ Space = BufferSize - PendingBytes
    /\ used = Cardinality(Users)

(* No sender sleeps while there is room for its message: freeing space     *)
(* "can satisfy more than one" sender, so all of them must look again.     *)
SleepingSendersHaveNoRoom ==
  Unlocked => \A t \in Threads :
    Queued(t, moreSpace) => ~HasRoom(msg[t])

Arriving(t) == op[t] = "recv" /\ ~Queued(t, moreData)

(* No receiver sleeps while there is a message that no receiver on its way *)
(* to the lock will take: one signal per message is enough.                *)
SleepingReceiversHaveNoMessage ==
  Unlocked /\ waiting[moreData] # << >> =>
    count <= Cardinality({t \in Threads : Arriving(t)})

=============================================================================
