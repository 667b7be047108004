---------------------------- MODULE MessageQueue ----------------------------
(***************************************************************************)
(* What a mailbox promises: a bounded queue of messages, first in first    *)
(* out, each one delivered whole and once, emptied only by the first of a  *)
(* new set of users.                                                       *)
(***************************************************************************)
EXTENDS Integers, Sequences

CONSTANTS
  Threads,
  Messages,    \* the message bodies
  HeaderSize,  \* bytes a message takes besides its body
  Capacity     \* bytes the queue has room for

VARIABLES
  queue,  \* the messages sent and not received, oldest first
  users,  \* the threads that have the mailbox open
  got     \* the message each thread received last

qvars == <<queue, users, got>>

BytesOf(m) == HeaderSize + Len(m)

Bytes(q) ==
  LET sum[i \in 0..Len(q)] == IF i = 0 THEN 0 ELSE sum[i-1] + BytesOf(q[i]) IN sum[Len(q)]

Init == queue = << >> /\ users = {} /\ got = [t \in Threads |-> << >>]

Open(t) ==
  /\ t \notin users
  /\ users' = users \cup {t}
  /\ queue' = IF users = {} THEN << >> ELSE queue
  /\ UNCHANGED got

Close(t) == t \in users /\ users' = users \ {t} /\ UNCHANGED <<queue, got>>

Put(t, m) ==
  /\ t \in users
  /\ Bytes(queue) + BytesOf(m) <= Capacity
  /\ queue' = Append(queue, m)
  /\ UNCHANGED <<users, got>>

Get(t) ==
  /\ t \in users
  /\ queue # << >>
  /\ got' = [got EXCEPT ![t] = Head(queue)]
  /\ queue' = Tail(queue)
  /\ UNCHANGED users

Next == \E t \in Threads :
  Open(t) \/ Close(t) \/ Get(t) \/ \E m \in Messages : Put(t, m)

Spec == Init /\ [][Next]_qvars
=============================================================================
