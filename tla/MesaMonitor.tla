---------------------------- MODULE MesaMonitor ----------------------------
(***************************************************************************)
(* What thread.c promises its callers: a lock that is handed over in the   *)
(* order the callers queued for it, and conditions on which waiting is     *)
(* atomic with giving up the lock and waking is first come, first served.  *)
(***************************************************************************)
EXTENDS Naturals, Sequences

CONSTANTS
  Threads,
  Conds

VARIABLES
  inside,   \* the threads that own the lock
  wants,    \* the threads that have asked for it and have not queued yet
  entry,    \* the threads queued for it
  sleeping  \* for each condition, the threads waiting for it

mvars == <<inside, wants, entry, sleeping>>

Init ==
  /\ inside = {}
  /\ wants = {}
  /\ entry = << >>
  /\ sleeping = [c \in Conds |-> << >>]

Present(t) ==
  \/ t \in inside \cup wants
  \/ \E i \in DOMAIN entry : entry[i] = t
  \/ \E c \in Conds : \E i \in DOMAIN sleeping[c] : sleeping[c][i] = t

Ask(t) ==
  /\ ~Present(t)
  /\ wants' = wants \cup {t}
  /\ UNCHANGED <<inside, entry, sleeping>>

Enter(t) ==
  /\ t \in wants
  /\ wants' = wants \ {t}
  /\ IF inside = {}
       THEN inside' = {t} /\ UNCHANGED entry
       ELSE entry' = Append(entry, t) /\ UNCHANGED inside
  /\ UNCHANGED sleeping

(* The lock goes to the head of the queue, or is free. *)
PassOn(t) ==
  /\ inside = {t}
  /\ IF entry = << >>
       THEN inside' = {} /\ UNCHANGED entry
       ELSE inside' = {Head(entry)} /\ entry' = Tail(entry)
  /\ UNCHANGED wants

Leave(t) == PassOn(t) /\ UNCHANGED sleeping

Wait(t, c) == PassOn(t) /\ sleeping' = [sleeping EXCEPT ![c] = Append(@, t)]

Wake(t, c) ==
  /\ t \in inside
  /\ sleeping[c] # << >>
  /\ wants' = wants \cup {Head(sleeping[c])}
  /\ sleeping' = [sleeping EXCEPT ![c] = Tail(@)]
  /\ UNCHANGED <<inside, entry>>

Next == \E t \in Threads :
  \/ Ask(t) \/ Enter(t) \/ Leave(t)
  \/ \E c \in Conds : Wait(t, c) \/ Wake(t, c)

Spec == Init /\ [][Next]_mvars
=============================================================================
