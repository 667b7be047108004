------------------------------ MODULE Keyboard ------------------------------
(***************************************************************************)
(* keyboard.c on top of mbox.c: getchar() is called by processes, putchar  *)
(* by the keyboard interrupt of whichever thread has the CPU. Both work on *)
(* the keyboard mailbox inside enter_critical/leave_critical, so this      *)
(* module says who has the CPU and when it can be taken away. irq1 is      *)
(* masked only for the thread that serves it (the mask is per pcb), so a   *)
(* second thread can enter the handler while the first is preempted in it. *)
(***************************************************************************)
EXTENDS Mbox

VARIABLES
  cpu,          \* current_running
  critical,     \* disable_count # 0, per thread
  ctx,          \* what the thread does with the keyboard
  room,         \* mbox_stat reported room for one more character
  key_release,  \* the flag keyboard_interrupt shares with its handlers
  scan          \* the scan code each handler works on

kvars == <<cpu, critical, ctx, room, key_release, scan>>
kallvars == <<allvars, kvars>>

NoScan == [char |-> << >>, release |-> FALSE]
ScanCodes == [char : Messages, release : BOOLEAN]

(* keyboard_init has opened the mailbox for everybody. *)
KInit ==
  /\ Init
  /\ used = 1 /\ count = 0 /\ head = 0 /\ tail = 0
  /\ buffer = [b \in 0..BufferSize-1 |-> 0]
  /\ op = [t \in Threads |-> "idle"]
  /\ msg = [t \in Threads |-> << >>] /\ got = msg
  /\ pending = << >>
  /\ cpu \in Threads
  /\ critical = [t \in Threads |-> FALSE]
  /\ ctx = [t \in Threads |-> "user"]
  /\ room = [t \in Threads |-> FALSE]
  /\ key_release = FALSE
  /\ scan = [t \in Threads |-> NoScan]

Enter(t, c) == ctx' = [ctx EXCEPT ![t] = c]

EnterCritical(t) == critical' = [critical EXCEPT ![t] = TRUE]
LeaveCritical(t) == critical' = [critical EXCEPT ![t] = FALSE]

(* the mailbox call t made has returned *)
Returned(t) == op[t] = "idle" /\ pc[t] = "out"

(* The CPU goes to another thread when the timer interrupt gets through,   *)
(* when the thread on it has blocked, or when it yields for a spinlock.    *)
Dispatch(u) ==
  /\ u # cpu /\ status[u] = "RUNNING"
  /\ ~critical[cpu] \/ ~CanStep(cpu)
  /\ cpu' = u
  /\ UNCHANGED <<allvars, critical, ctx, room, key_release, scan>>

(* getchar *)
Getchar(t) ==
  /\ ctx[t] = "user"
  /\ EnterCritical(t)
  /\ StartRecv(t)
  /\ Enter(t, "getchar")
  /\ UNCHANGED <<cpu, room, key_release, scan>>

GetcharReturn(t) ==
  /\ ctx[t] = "getchar" /\ Returned(t)
  /\ LeaveCritical(t)
  /\ Enter(t, "user")
  /\ UNCHANGED <<allvars, cpu, room, key_release, scan>>

(* irq1_entry and keyboard_interrupt up to the call of the key's handler,  *)
(* which runs with interrupts on *)
KeyInterrupt(t, s) ==
  /\ ctx[t] = "user" /\ ~critical[t]
  /\ key_release' = s.release
  /\ scan' = [scan EXCEPT ![t] = s]
  /\ Enter(t, "irq1")
  /\ UNCHANGED <<allvars, cpu, critical, room>>

(* normal_handler: nothing to do for a released key, else putchar *)
IgnoreRelease(t) ==
  /\ ctx[t] = "irq1" /\ key_release
  /\ scan' = [scan EXCEPT ![t] = NoScan]
  /\ Enter(t, "user")
  /\ UNCHANGED <<allvars, cpu, critical, room, key_release>>

Putchar(t) ==
  /\ ctx[t] = "irq1" /\ ~key_release
  /\ EnterCritical(t)
  /\ StartStat(t)
  /\ Enter(t, "stat")
  /\ UNCHANGED <<cpu, room, key_release, scan>>

(* mbox_stat: is there room for a character? *)
PutcharStat(t) ==
  /\ ctx[t] = "stat"
  /\ Stat(t)
  /\ room' = [room EXCEPT ![t] = HasRoom(scan[t].char)]
  /\ UNCHANGED <<cpu, critical, ctx, key_release, scan>>

(* Mutant: the character is sent whether or not there is room. *)
PutcharSendAlways(t) ==
  /\ ctx[t] = "stat" /\ Returned(t)
  /\ StartSend(t, scan[t].char)
  /\ Enter(t, "send")
  /\ UNCHANGED <<cpu, critical, room, key_release, scan>>

PutcharSend(t) ==
  /\ ctx[t] = "stat" /\ Returned(t) /\ room[t]
  /\ StartSend(t, scan[t].char)
  /\ Enter(t, "send")
  /\ UNCHANGED <<cpu, critical, room, key_release, scan>>

(* the character is sent or discarded; the interrupt returns *)
PutcharReturn(t) ==
  /\ Returned(t)
  /\ ctx[t] = "send" \/ (ctx[t] = "stat" /\ ~room[t])
  /\ LeaveCritical(t)
  /\ room' = [room EXCEPT ![t] = FALSE]
  /\ scan' = [scan EXCEPT ![t] = NoScan]
  /\ Enter(t, "user")
  /\ UNCHANGED <<allvars, cpu, key_release>>

MailboxStep(t) ==
  \/ /\ RecvWait(t) \/ RecvCopy(t) \/ RecvDone(t) \/ SendWait(t) \/ SendCopy(t) \/ SendDone(t)
     /\ UNCHANGED kvars
  \/ Step(t) /\ UNCHANGED <<mboxvars, kvars>>
  \/ PutcharStat(t)

Run(t) ==
  /\ cpu = t
  /\ \/ Getchar(t) \/ GetcharReturn(t)
     \/ \E s \in ScanCodes : KeyInterrupt(t, s)
     \/ IgnoreRelease(t) \/ Putchar(t) \/ PutcharSend(t) \/ PutcharReturn(t)
     \/ MailboxStep(t)

KNext == \E t \in Threads : Run(t) \/ Dispatch(t)

KSpec == KInit /\ [][KNext]_kallvars

----------------------------------------------------------------------------
(* The deadlocks described above getchar and putchar do not happen: the    *)
(* only thread that ever blocks is one in getchar waiting for a key. The   *)
(* interrupt handler blocks neither on the lock nor for space, whichever   *)
(* process it interrupted.                                                 *)
OnlyReadersBlock ==
  \A t \in Threads :
    status[t] = "BLOCKED" => ctx[t] = "getchar" /\ Queued(t, moreData)

(* "check if this is a key release or press": a character is sent only for *)
(* a scan code that is a press.                                            *)
OnlyPressesTyped ==
  \A t \in Threads : ctx[t] \in {"stat", "send"} => ~scan[t].release

=============================================================================
