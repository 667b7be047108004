# TLA+ models of Skole

The repository is a collection of course projects. Its own core logic is a small
protected-mode kernel (`src/2201/aei034-P6/src`), a stop-and-wait transport protocol
in a network simulator (`src/2301/Assignment 3/aei034-A3/aei034/src`), a Chord
key-value store (`src/3200/P2`) and a small database (`src/2700/aei034-a3`). This
directory models the kernel (locks, mailboxes, keyboard, scheduler, paging, file
system), the transport protocol and the Chord node with TLA+, checks the models with
TLC and proves with TLAPS properties of the kernel's locks, conditions, mailboxes,
keyboard, scheduler, semaphores, barriers, paging and file system, of the transport
protocol and of the Chord ring. Semaphores and barriers exist only in an earlier version of the kernel
(`src/2201/aei034-P3/src`, P3 below), with two test programs; they are modelled from
there.

Paths below are relative to `src/2201/aei034-P6/src` unless they say otherwise.

## Inventory

| Component | State | Operations | What makes it correct |
|---|---|---|---|
| Locks and conditions (`thread.c`, `block`/`unblock` of `scheduler.c`) | spinlock words, lock status, waiting lists, thread status | acquire, release, wait, signal, broadcast | one owner; nobody sleeps forgotten; waiting is atomic with releasing; no deadlock inside the primitives |
| Mailboxes (`mbox.c`) | count, head, tail, used, circular buffer, one lock and two conditions | open, close, stat, send, receive | a bounded FIFO of whole messages; nobody sleeps although it could go on |
| Keyboard (`keyboard.c`, `entry.S`, `interrupt.c`) | a mailbox of characters, `key_release`, interrupt mask of each thread | the irq1 handler, `getchar` | the handler never blocks; only presses are typed |
| Scheduler and pcb table (`scheduler.c`, `sleep.c`, `kernel.c`) | doubly linked ring, free list, statuses, wake-up times | yield, block, unblock, exit, sleep, create, the scheduling loop | the ring and the free list stay whole; no pcb is lost; everyone runs |
| Monitor test (`th2.c`) | shared counter, turn, exit count | two threads taking turns | the sum is exact, both exit |
| Semaphores and barriers of P3 (`thread.c`, `barrier_test.c`, `philosophers.c`) | counters, waiting lists; counts and eating flags of the tests | up, down, barrier wait | a fork is neither lost nor given twice; nobody starves; a barrier can be used again at once |
| Transport (2301 assignment 3) | two bits, package in the air, queue, timer at each end; datagrams in flight | application send, network receive, timeout | in order, once, everything; loss is repaired |
| Virtual memory (`memory.c`) | page map, page tables, TLB, process images on the disk, the page map's lock | page fault, allocation, replacement, creation of a process | a frame belongs to one page; a page's last contents come back; faults end |
| File system (`fs.c`, `block.c`) | bitmaps, inode table, data blocks, the shell's directory and open file; no lock | mkfs, open, write, link, mkdir, chdir, one block write at a time, by any process | bitmaps cover what can be reached; an entry names an inode that exists; nothing is overwritten; all this after a restart too, on a full disk and for two callers |
| USB and SCSI (`usb/`) | controller rings, device lists, locks | transfers | device locks are not taken twice |
| Chord (`src/3200/P2/src/chord-node`) | successor, predecessor, key store of each node; the copies its loops work on | join, stabilize, notify, check predecessor, close, put, get | one ring in the order of the IDs; nobody is cut off; lookups end; a get finds what was put |
| db2700 pager (`src/2700/aei034-a3/src/db2700/pager.c`) | block cache, open files | get, pin, flush | a dirty block is written before it is dropped |

Interaction: threads call the monitor operations; the mailboxes and `th2.c` are client
code of the monitor, as is the page map's lock; the keyboard handler is client code of a mailbox and runs in
interrupt context of whichever thread it interrupted; a page fault holds the page map's lock
through its disk transfers, during which other processes run and may fault; `block` and `unblock` move threads
out of and into the scheduler's ring, and the clock interrupt takes the processor away
between any two instructions outside a critical section. In the simulator one thread
runs timer callbacks; the two stacks interact only through datagrams. Chord nodes
interact by remote calls, which run at the other end while the caller's own state may
change.

What is hard: preemption between any two accesses of shared memory; the lock handed from
thread to thread without being released; two spinlocks held at once; messages of
different sizes waiting for space; handlers that run in the context of a thread that may
hold the very lock they need; a barrier used again before the threads it woke have run;
three threads each holding one semaphore and asking for another; a ring that is edited
while the scheduler walks over it; a page taken from a process that runs during the
transfer; a machine that stops between two block writes of one system call, a write that
fails, two processes in the file system, which has no lock; neighbours
of a node read before a remote call and used after it; lost, delayed and repeated
datagrams. `PROJECT.json` lists each hazard at its line.

## Modules

| Module | Models | Correspondence |
|---|---|---|
| `Monitor` | `thread.c`, `block`, `unblock` | One action per access of shared state: taking a spinlock, testing the status or the list, updating it, giving the spinlock back. `spin` is the spinlock words, `lstatus` is `lock_t.status`, `waiting` the waiting lists, `status` the pcb's status, `pc` where a thread is, `arg` the condition it was called with. `block` and `unblock` are critical sections, hence one step. `Client` is the code between calls, any legal call at any time. |
| `MesaMonitor` | what `thread.c` promises | The abstract monitor: owner, entry queue, sleepers per condition, each operation one step. |
| `WaitingLists` | | Facts about lists without repetition and about least elements, for the proofs. |
| `Mbox` | `mbox.c` | EXTENDS `Monitor`; the body of an operation between two monitor calls is one step with the call that follows it, because it runs with the lock held. `op` is the operation a thread is in; `pending`, the messages sent and not received, is a history variable. The buffer is kept byte by byte; a byte is a digit below `Radix`, and the header is `HeaderSize` such digits, least significant first, as the size field of `msg_t` is (`Rest` divides the size by `Radix` again and again). A message that is larger than the buffer is a sender that waits for ever, as in the code. |
| `MboxProofs` | | Theorems about `Monitor`: its invariants, and that it implements `MesaMonitor`; about `Mbox`: its invariants, and that it implements `MessageQueue`; and about `Keyboard`. |
| `MessageQueue` | what a mailbox promises | A bounded FIFO of whole messages. |
| `Keyboard` | `keyboard.c`, `enter_critical`/`leave_critical`, the irq1 mask | EXTENDS `Mbox`; `cpu` is the running thread, `critical` its interrupt flag, `ctx` the handler or `getchar` it is in, `scan` the local scan code, `key_release` the global. |
| `Th2` | `th2.c` | EXTENDS `Monitor`; one stage per statement that touches the shared counter. |
| `Scheduler` | `scheduler.c`, `sleep.c`, pcb table of `kernel.c` | `next` and `previous` are the links, used for the ring and for the free list as in the code; `mode` is whether the scheduling loop has the processor. One action per turn of the loop, in which the code takes one pcb out of the ring or goes on to the next; time may pass in between, interrupts are off. A pcb that is being created is in `making`. `Ring` and `FreeSet`, of the properties, are what following `next` finds. |
| `SchedulerProofs` | | Theorems about `Scheduler`. |
| `Barrier` | barrier and `barrier_test.c` of P3 | `limit`, `counter`, `waiting` are the fields of `barrier_t`, `bv` the counts `b1v`, `b2v`, `b3v`; a thread in `waiting` is in the `block()` of the wait it has just made. For any number of threads, one of which sets the barrier up. |
| `Philosophers` | semaphores and `philosophers.c` of P3 | `num` and `blocked` are the counter and the waiting list of the three semaphores, `First` and `Second` the forks each thread asks for in order, `at` where it is, `eating` the flags of the assertions. |
| `P3` | both test programs of P3 on one CPU | Composes `Barrier` and `Philosophers`; states the fairness of P3's ready ring for their threads. |
| `P3Proofs` | | Theorems about `Barrier`, `Philosophers` and their composition. |
| `Paging` | `memory.c`, with the parts of the CPU and of `scsi.c` it relies on | One action per stretch of the fault handler between two points where another process can run. `pageMap`, `dole`, `hand` are `page_map`, `dole_ptr` and the static `page` of the replacement policy; `pte` the page table entries with PE_P and PE_D; `tlb` what the CPU has cached; `holder` and `waiting` the lock, as `Monitor` is shown to implement it; `child` the process an actor is creating, which may be the kernel's loader or another process; `Transfer` a disk transfer, which yields unless it fails at once. `stored`, what a process has last stored, is a history variable; `wrecked` tells that a store has hit a page table, after which nothing is modelled. |
| `PagingProofs` | | Theorems about `Paging`. |
| `FileSystem` | `fs.c`, `block.c` | One call at a time. One action per system call, which decides on its block writes (`pending`), and one action per block write, which reaches the disk (`Modified`) or fails (`NotModified`); `Crash` in between. `ibmap`, `dbmap` are the bitmaps in memory, `ibmapD`, `dbmapD`, `itable`, `cells` the disk. Every cell of a data block remembers the inode and the position it was written for. `lost`: a call has used what was never assigned, written or read, and the behaviour ends. `trouble` is a history variable of what the code does not guard against: a full disk, a failed write, an inode beyond the table, a stop with something unmarked. |
| `SharedDisk` | `fs_mkdir`, `get_free_entry`, `block_modify` for several callers | Two or more processes that make directories in the root. The test and the set of a bit, the read, the change and the write of a block are steps of their own. |
| `FileSystemProofs` | | Theorems about `FileSystem`. |
| `Chord` | `chord.go`, handlers of `main.go` | One action per remote call of a node: `succ`, `pred` are the fields of `Node`; `copy` and `leave` what `Stabilize` and `Close` have fetched, `find` a lookup on its way from node to node. |
| `ChordProofs` | | Theorems about `Chord`. |
| `Transport` | the transport layer, network layer and main loop of the simulator | One action per callback. `ack`, `seq`, `snd_pkg`, `rcv_pkg`, `queue`, `timer` are the fields of `transport_layer_t`; `net` is the datagrams in flight, any of which may arrive next; `expected` is the list the application layer compares with; `settings` is the command line: who generates, how many datagrams the network may lose, whether timers fire before the end. |
| `TransportProofs` | | Theorems about `Transport`. |

The modules whose names begin with `MC` give the constants their values. Operators marked "Mutant" are wrong versions of the definition
below them; `PROJECT.json` pairs each with the property that catches it.

`Mbox`, `Keyboard` and `Th2` use the fine-grained `Monitor` and not `MesaMonitor`, so that
their runs include every preemption inside the primitives.

## Runs

| Run | Question | Properties | Bounds |
|---|---|---|---|
| `monitor` | Do the primitives keep the lock, the lists and the atomicity of waiting under any preemption, and do they implement the abstract monitor? | `MutualExclusion`, `SpinlockExclusion`, `TestedStillHolds`, `BlockedIffQueued`, `NoLostWakeup`, `NoDeadlock`, `MesaSpec` | four threads, two conditions: an owner, two queued threads whose order shows, and a sleeper |
| `mbox` | Are messages of different sizes kept whole and in order, and does no sender sleep in vain? | `AccountingExact`, `SleepingSendersHaveNoRoom`, `QueueSpec` | two senders, one receiver, messages of two and three bytes in four: full and empty with head = tail, wrap at every offset and inside the header |
| `keyboard` | Do the two deadlocks that `keyboard.c` describes stay away, and is one signal per character enough for several readers? | `OnlyReadersBlock`, `SleepingReceiversHaveNoMessage` | three threads, each of which may read and be interrupted; two characters fit |
| `keyboard_release_race` | Is only a press typed? Violated. | `OnlyPressesTyped` | as above |
| `th2` | Do both threads finish with the right sum? | `BothReportOK` | three turns of `thread3` for the code's 100, six of `thread2`; signals for the first half, broadcasts after it, as the code switches at 20 |
| `scheduler` | Do the ring and the free list survive every order of operations, does the kernel never run out of jobs, does everyone run? | `RingIntact`, `PcbsAccounted`, `EveryoneRuns`, deadlock | three boot threads and one free pcb: a ring of one to four, an exhausted free list |
| `paging` | Does a page keep what was stored in it through swaps by any process, with a TLB that is never invalidated by hand, do stores reach their pages, and does every fault end? | `Coherent`, `StoresHitTheirPage`, `MapAgrees`, `StopsOnlyWhenAllPinned`, `FaultsEnd` | three processes, the later ones created by the loader or by each other, on four frames, one pinned by the kernel and one by each process: two frames to share, then one, then none; the second process has two pages, the first one; one page whose transfers may fail, with or without a yield |
| `filesystem` | Do the bitmaps cover what can be reached, in memory and after a restart? | `MarksCoverUse`, `ReturnedCallsAreSaved`, `EntriesNameInodes`, `NothingOverwritten` | four inodes and four blocks, so that either runs out; two blocks of seven cells an inode, so that an entry crosses a block's end and a directory becomes full; inode 2 straddles two blocks of the inode table, inode 3 lies in the data blocks. States with `trouble` are not continued: the properties allow everything in them, and `trouble` only grows |
| `shared_disk` | Does `block_modify` change its part of the block only? Violated. | `ModifyChangesItsPart` | two callers |
| `chord` | Does the ring recover from joins and polite leaves, in whatever order the loops run, do lookups end and gets find? | `NobodyLost`, `OneOrderedRing`, `GetFindsPut`, `RingConverges`, `LookupsEnd` | three nodes, two of three nodes, two of which join while one may leave again; one key beyond the highest ID, which belongs to the lowest node, or to the next one as long as that has not joined |
| `transport` | Is everything delivered in order, with delays both ways, and with losses and repeats one way? | `InOrder`, `StopAndWait`, `EndsWell`, `AllDelivered` | four messages; both ends sending, no loss and no timeout; one end sending, two losses, any timeouts with fewer than four datagrams in flight; datagrams arrive in any order |
| `p3` | Do the assertions of the two test programs hold, are forks neither lost nor given twice, does everybody finish or eat again and again, on the same CPU? | `CountsAgree`, `CounterIsWaiting`, `OneEats`, `ForksAccounted`, `AllOK`, `EverybodyEats`, deadlock | three iterations of the barrier test for the code's 20000: six uses in a row; the philosophers are finite as they are |

Symmetry is used over threads and conditions in runs with safety properties only.
Deadlock is checked in `scheduler`, where a state without a step is the kernel's
`HALT("No more jobs.")`: the clock thread never blocks, so it must not happen; and in
`p3`, whose philosophers run for ever. Elsewhere the system may stop: every thread may
wait on a condition, every frame may be pinned, a node may have died, the program may be
done.

Type invariants are not checked by themselves; those in the proof modules are part
of the invariants that are proved.

Named bounds: `NumPackets`, `losses` and `MaxFlight` in `Transport` (a timer fires only
while fewer than `MaxFlight` datagrams are in flight, both ways together; nothing else
waits for the bound);
`Rounds` and `SignalBelow` in `Th2`; `Iterations` in `Barrier`; in `Chord` the client
puts a key once, and a node joins once. In the other modules the state is finite by
itself.

### What the violations show

* `keyboard_release_race`: irq1 is masked only in the mask of the interrupted thread
  (`interrupt.c:90-92`). A handler preempted after storing `key_release` (`keyboard.c:246`)
  finds the value of another thread's handler when `normal_handler` reads it; the release
  of a key is typed.
* `shared_disk`: any process may call the file system (`kernel.c:107-118`), the shell can
  load a second shell, system calls run with interrupts on (`interrupt.c:58`), and `fs.c`
  has no lock. Of two `block_modify` on one block one undoes the other
  (`block.c:85-89`): the first shell's new inode or entry is gone.

### What the properties leave out, because the code does not do it

Each exception in a property is something the code does or does not guard against.

* `AllDelivered` (transport): `transport_layer_onLayerTimeout` sets the timer again only when
  a package is in the air (`transport_layer.c:165-174`), and sending never sets it. After one
  idle timeout a lost package is never repeated. The other exception is a repeat of a
  package that has been received. It may be taken for the next one, since it may arrive
  after it even on a network of equal delays (`timer_set` inserts at the head of the list,
  `timer.c:31-32`). It may be acknowledged for ever with a wrong bit: the bit is
  `rcv_pkg->seq` (`transport_layer.c:128`), and `rcv_pkg` was freed when the callback that
  received it returned. So one lost acknowledgement, with data flowing one way, can be enough for the program
  not to end.
* `EndsWell` (transport): after a package was repeated too early it is acknowledged twice, and
  `transport_layer.c:134` may read `snd_pkg->seq` when `snd_pkg` is NULL. This needs a timeout;
  before the first loss or timeout `EndsWell` excludes it.
* `Coherent` and `StoresHitTheirPage` exclude pages whose transfers fail: `page_swap_in` and
  `page_swap_out` do not look at what `scsi_read` and `scsi_write` return, and a transfer that
  fails at once (`scsi.c:193`, `uhci.c:409`) does not empty the TLB. `Coherent` speaks of what
  the page tables and the disk have; `StoresHitTheirPage` of what goes through the TLB.
* `StoresHitTheirPage` allows a clean translation to a frame that was taken.
  `invalidate_page` (`memory.c:85`) names the address of its parameter to
  `invlpg`, not the page. A switch or a transfer usually empties the TLB before the process
  goes on. But the shell's `load` (`shell.c:149`, `kernel.c:748-751`) runs `setup_page_table`
  in the shell's own address space and may take a clean page of the shell for a table of the new process,
  with neither: the shell then reads the table through the old translation. It cannot store
  through it, since a store through a clean translation walks the page table and faults.
* `StopsOnlyWhenAllPinned`, `FaultsEnd` (paging): with five pinned frames per process the
  page map is full of pinned frames after six processes; the next fault halts the kernel or
  goes round for ever with the lock held, according to the word behind `page_map`.
* `lost` (file system): calls that go on with what was never assigned, written or read. A line
  that exactly fills a block leaves `direct[1]` unset for the next; `fs_write` uses the file
  descriptor of an open that failed; a link to a file larger than a block copies past it; a
  call reads an inode that was never written, after a stop in `fs_mkfs` or on a full disk;
  a read fails. What the code then does depends on what the memory held; the behaviour ends there.
* `trouble` (file system) ends what the four properties promise. "full": with no data block
  left `create_dir` (`fs.c:385`) and `create_file`
  (`fs.c:577`) return without writing the inode, and `fs_mkdir` and `mkfile` write the entry
  all the same (`fs.c:494`, `fs.c:553`). "spilled": 13 blocks (`fs.c:20-22`) hold 237 inodes
  of 28 bytes; the bitmap hands out 256, and the later ones are written to the first data
  block, over the root directory. "failed": `fs.c` never looks at what `block_modify`
  returns, so that any call may return with part of its writes done. "unsaved": a stop
  between `update_inode` and the bitmap writes, or from `fs_mkfs` to the first
  `update_bitmaps` after it, leaves blocks in use that are not marked.
* `rude` (Chord): `Close` works on copies of its neighbours. It keeps the ring together only
  when a node leaves an ideal ring of three or more, nobody else joins or leaves meanwhile
  and its own `Stabilize` is asleep. Each of these conditions is needed: TLC finds
  `NobodyLost` violated without it.
* `NobodyLost` (Chord): `New` starts the `Stabilize` loop before `Join` has found a
  successor; a joiner whose loop comes first dies in `log.Fatal`.
* `Settled` (Chord): a node may join with a successor that is stale by the time it has
  joined, when another has joined in between. Until its `Stabilize` has run it answers for
  keys that are not its own, and a get through it does not find what a put elsewhere has
  left, although the ring has not changed between the two. TLC finds `GetFindsPut` violated
  without `Settled`.
* `LookupsEnd` (Chord): `ElementIn` leaves both ends out, so a key equal to a node's ID
  belongs to nobody and its lookup goes round for ever.

## Fairness

* `Th2Spec`: weak fairness of each thread's steps. The ready queue is a ring and the clock
  interrupt takes the processor, so a thread that stays able to run gets to run. Weak
  fairness of the whole thread suffices, also for spinning: the other thread gives the
  spinlock up and has then to wait itself.
* `Scheduler!Fairness`: the clock interrupt makes whoever runs yield, the scheduling loop
  goes on, and time passes for a sleeper. Nothing is assumed of threads' own calls.
* `P3Spec`: weak fairness of each thread's steps. The
  clock interrupt takes the processor from whoever has it, spinning threads included. P3's
  `unblock` inserts a woken thread right behind the running one, ahead of those that wait
  their turn; in these programs that does not keep the turn from coming: at a barrier the
  threads all need each other, and a meal lasts 100 ms and more (`update_keyboard_LED`), so
  that the clock moves the ring on in every meal.
* `Paging!Fairness`: the ring gives each actor that has work in the kernel its turn, a
  transfer ends, and the lock is handed over in the order of arrival. Nothing is assumed of
  what processes do in user mode.
* `Chord!Fairness`: the loops run once a second for ever, and a remote call is answered or
  fails. Weak fairness of each loop, of each lookup and of the client's reply; nobody has to
  join, to leave or to ask.
* `Transport!Fairness`: `timer_tickall` advances every timer, so a datagram in flight
  arrives, an armed timer fires, messages are generated and the main loop tests its
  condition. No fairness is assumed of the network's choice not to lose; losses are
  bounded by `settings.losses`.

## Proofs

`MboxProofs` proves of `Monitor`, for every set of threads and conditions (finite or not) and under
`MonitorAssumption` alone (the lock and the "no condition" value are not conditions):

| Theorem | States |
|---|---|
| `Invariance` | the inductive invariant `Inv` always holds |
| `TypeCorrect` | `TypeOK` |
| `MutexCorrect` | `MutualExclusion` |
| `SpinlockCorrect` | `SpinlockExclusion` |
| `TestsCorrect` | `TestedStillHolds` |
| `ListsCorrect` | `BlockedIffQueued` |
| `WaitIsAtomic` | `NoLostWakeup` |
| `DeadlockFree` | `NoDeadlock` |

The invariant is the conjunction of the properties, plus two parts they need:
`ArgOK`, that a thread inside a condition operation has a condition as its argument; and
`LockedIfQueued`, that the lock is LOCKED while somebody is queued for it. The argument:

1. `SpinlockExclusion` is inductive by itself: a spinlock is taken when free, given back by
   the thread that has it, or left alone (`SpinTaken`, `SpinGiven`, `SpinKept`).
2. So only the thread inside a spinlock's region changes what the spinlock protects
   (`OnlyHolderChanges`), and what a thread has tested stays true until it acts
   (`TestedStep`).
3. So the head of a waiting list exists when it is woken, and a thread enters a list only
   when it is in none: the lists agree with the statuses (`ListsStep`; `AppendOccurs` and
   `TailOccurs` are the facts about sequences it rests on).
4. So the hand-off in `lock_release` gives the lock to a sleeper that did not own it, and
   to it alone (`OwnStep`, `QueueStep`).
5. `NoLostWakeup` follows from `SpinlockExclusion`: signaller and waiter would both be
   inside the region of the condition's spinlock. `NoDeadlock` says that among the threads
   that are in an operation or hold the lock, and do not just wait for a condition, one can
   go on; it follows because a thread in
   the region of the lock's spinlock can always go on, a thread in the region of a
   condition's waits at most for the lock's, and the owner of a locked lock exists
   (`HolderCanStep`).

`Implements` is `Spec => MesaSpec`, for every set of threads and
conditions. `MesaStep` maps each step to one of `MesaMonitor` or to none. Most are unseen
(`QuietUnseen`): they move a thread between two places that mean the same to the abstract
monitor. The others need the invariant. `AcquireTake` finds nobody inside, and
`AcquireBlock` somebody, because what the thread tested still holds. `ReleaseHandOff` lets
in the head of the queue, who sleeps in `lock_acquire` (`PassesOn`). A thread in
`condition_wait` counts as asleep on `c` from the moment it gives up the lock
(`FallsAsleep`); there is at most one such thread for each condition, because it keeps
`c`'s spinlock until it is in the list. That makes the `CHOOSE` in `Asleep` a function of
the state (`AsleepIs`), makes the later `block()` unseen (`WaitBlockUnseen`), and lets a
signaller, who has the same spinlock, find everybody who is asleep in the list (`Wakes`).

`MboxProofs` proves of `Mbox`, for any finite set of threads and any sizes (`MboxAssumption`):

| Theorem | States |
|---|---|
| `KeepsMonitorRules` | `MboxSpec => Spec`: the mailbox calls the monitor as its rules allow, so the theorems above hold of it |
| `MInvariance` | the inductive invariant `MInv` always holds |
| `OneSignalIsEnough` | `SleepingReceiversHaveNoMessage` |
| `DInvariance` | the inductive invariant `DInv` of the buffer always holds |
| `AccountingCorrect` | `AccountingExact` |
| `ImplementsQueue` | `MboxSpec => QueueSpec`: a mailbox is a bounded queue of whole messages |
| `SendersInvariance` | the inductive invariant `SendersWait` always holds |
| `BroadcastIsEnough` | `SleepingSendersHaveNoRoom` |

`SleepingReceiversHaveNoMessage` speaks of the moments when the lock is free. `Enough`
extends it to all moments. `Due` is the number of messages receivers must come for: `count`,
one more once a sender has signalled and not yet counted, one less while a receiver has
copied and not yet counted. If anybody sleeps, at least `Due` receivers are on their way.
A thread in `condition_wait` counts as asleep from the moment it gives up the lock, at
which `count` is 0 (`LetGoEnough`). A signal adds one to `Due` and wakes one sleeper, or
finds the list empty, and then nobody sleeps: whoever were on the way to sleep would have
the spinlock (`TestEnough`, `WakeEnough`). `OpOK` ties the place in the monitor to the
operation, so that the owner is alone with `count` (`OwnerAlone`).

`DInv` says where the bytes are. `LaidOut`: there are offsets `st` from the tail, one for
each unreceived message and one for the head, each the size of the message before it
further, and from each the buffer holds the header and the body of its message, wrapped
around. `SendCopy` adds an offset and overwrites only bytes beyond the last, because what
`space_available` returned is what the offsets leave over (`SpaceLeft`, which needs `count`
to tell a full buffer from an empty one); `RecvCopy` drops the first and lowers the others.
The test of the space and the copy are made under one hold of the lock, so nobody adds
bytes in between. That the receiver reads the size the sender wrote (`SizeRead`) is about two
loops over the digits of a number, `Rest` and `SizeField`, and holds if the header is wide
enough, which `MboxAssumption` asks of the messages. The sum of sizes in `QueueSpec` is the
last offset (`LaidBytes`). Each of these is an induction, made by looking at the least
number for which the claim fails (`LeastElement`).

`SleepingSendersHaveNoRoom` speaks of the moments when the lock is free, and is not inductive
either. `SendersWait` follows a sender through `condition_wait`, from the test it has just
failed (`InWait`), and a receiver through its broadcast: while a receiver is telling the
senders, some may wait in vain (`Waking`), but it leaves the broadcast only when the list is
empty, so that when it has told them all, nobody waits (`Woken`). Only a receiver makes
room, and it has the lock until it has broadcast.

`MboxProofs` proves of `Keyboard`, for any finite set of threads, all of which read keys and
are interrupted by them:

| Theorem | States |
|---|---|
| `KInvariance` | the inductive invariant `KInv` always holds |
| `HandlerNeverBlocks` | `OnlyReadersBlock`: none of the deadlocks described in `keyboard.c` |
| `KeysFindReaders` | `SleepingReceiversHaveNoMessage` |

A thread inside the mailbox has interrupts off and loses the CPU only if it cannot go on.
`InsideRuns` shows that it then sleeps in `condition_wait`: the lock and the spinlocks are
not anybody else's, because everybody else is outside or asleep (`OneInside`). So at most
one thread is inside, no thread ever queues for the lock (`NoneQueuesForLock`), and between
`mbox_stat` and `mbox_send` of the handler nobody sends (`RoomKept`), so that `SendWait`
never happens (`WorkFine`).

`SchedulerProofs` proves, for every finite pcb table and every list of different boot threads
(`SchedulerAssumption`):

| Theorem | States |
|---|---|
| `SInvariance` | the inductive invariant `SInv` (with `TypeOK`) always holds |
| `ReadyQueueIntact` | `RingIntact` |
| `NoPcbLost` | `PcbsAccounted` |

The properties speak of what following `next` finds, which no step changes in a way that
can be reasoned about link by link. `SInv` says instead that there are two sequences of pcbs: the
ring as a round from `current_running`, whose neighbours `next` and `previous` are, both ways
(`Circle`), and the free list (`Chain`). Every action edits the sequences: insertion appends
to the round (`InsertKeeps`), a turn of the scheduling loop rotates it (`GoOnKeeps`) or
drops its first (`LeaveKeeps`), `free_pcb` and `alloc_pcb` put on and take off the front of the
free list. `Places` says that every pcb is in exactly one place, so that an edit of one list
does not touch the links of the other; `StatusOK` that an interrupt can wake a blocked
thread only when it has left the ring, as interrupts are off until `scheduler()` has removed
it. `FollowIs` shows that following `next` from the first element finds the elements of such a sequence and no
others: the walk reaches element `k` after `k - 1` links, and never leaves the sequence
(two inductions by least counterexample), and the sequence is no longer than the table.

`TransportProofs` proves, for any number of messages, any bound on the datagrams in flight,
any number of losses, in one direction or both, with and without timeouts, whatever the
order in which datagrams arrive (`TransportAssumption`: there are two ends):

| Theorem | States |
|---|---|
| `TInvariance` | the inductive invariant `TInv` (with `TypeOK`) always holds |
| `DeliveredInOrder` | `InOrder` |
| `OneAtATime` | `StopAndWait` |
| `EndsAsItShould` | `EndsWell` |

`TInv` describes the two directions, each by the same `Channel`. `Numbered`: the
package in hand and those queued behind it are the last ones generated, and the bit of each
is the parity of its number. `Expecting`: the receiver has been given the messages 1 to `Got`, in
order, its bit is the parity of `Got`, and it is not ahead of the sender. `InFlight`: what is
in flight was sent. `Alone`: before the first loss or timeout one datagram at most is in
flight, the package in hand or its acknowledgement. Hence a package with an unknown bit is
the next message, or, after a loss or a timeout, perhaps an old one; the comparison with
`expected` then stops the program (`Stopped`: all before it were in order, and it was
generated). `Remembered` is for `rcv_pkg`: what is
repeated to an end that has received nothing can only be the first message. A step of one
direction leaves the other alone, even though acknowledgements of one and data of the other travel in the
same `net` (`Untouched`).

`P3Proofs` proves of `Barrier`, for every finite set of threads and every number of iterations
(`BarrierAssumption`: the leader is one of the threads), and of `P3`, which composes it with
the three philosophers:

| Theorem | States |
|---|---|
| `Invariance` | the inductive invariant `Inv` always holds |
| `TypeCorrect` | `TypeOK` |
| `AssertionsHold` | `CountsAgree`, the assertions of `barrier_test.c` |
| `Reusable` | `CounterIsWaiting` |
| `P3Invariance` | the inductive invariants of both programs always hold in `P3` |
| `OnePhilosopherEats` | `OneEats`, the assertions of `philosophers.c` |
| `ForksNeverLost` | `ForksAccounted` |
| `BarrierHolds` | `CountsAgree` and `CounterIsWaiting`, in `P3` |

`CountsAgree` is not inductive: nothing in it says where the other threads are when one
reaches the comparison. The invariant counts, for each thread, the barriers it has passed
since the start (`Passed`: two per iteration it has counted, less those still ahead of it),
with the moment of being woken, not of running again, as the moment of passing. `SameStage`
says that all threads have passed the same number. It is inductive because only the last to
arrive changes it, and for everybody at once: by `CounterIsWaiting` the counter reaches
`limit` exactly when all others are in the waiting list (`WaitingCounted`, `WaitStep`). From
equal `Passed`, a thread that is at the comparison and has one barrier of its iteration
ahead has the same count as any other, whose count would otherwise differ by parity or by a
whole iteration. `SetUp` adds that nobody uses the barrier before the leader has set it up.

For the philosophers `ForksShared` says of each fork, which two of the threads use, that its
counter is one less for each of the two that has it or asks for it, and that of two at most
one goes on: the other is in the waiting list (`Shared`). Two that eat would share a fork and
both have it. `FlagsTell` ties the flags that the assertions read to who eats.

`PagingProofs` proves, for any number of processes, pages and frames and any set of pages
the disk may fail on (`PagingAssumption`: at least one frame is the kernel's and at least
one is not, the loader is no process, and a page belongs to a process):

| Theorem | States |
|---|---|
| `Invariance` | the inductive invariant `Inv` always holds |
| `PagesKeepContents` | `Coherent`: a page holds, where its page table or the disk has it, what its process last stored |
| `StoresAreKept` | `StoresHitTheirPage`: what a process may still do through the TLB |
| `MapCorrect` | `MapAgrees` |
| `StopsOnlyWhenFull` | `StopsOnlyWhenAllPinned` |

None of the four is inductive. `Coherent` says where the contents of a page are, in memory,
on the disk or on the way, and needs the following.

1. `LockOK`: whoever is inside the handler has the lock, so the frame that is picked and
   everything learned about it stay as they are during a transfer, whoever runs meanwhile.
2. `PickedOK` and `MapAgrees`: the picked frame belongs to one page, whose owner can no
   longer reach it through its page table, or to the page being read. So no process stores into a frame that is
   being written out or read in. Whether the owner runs meanwhile, or has a fault of its
   own, does not matter. `TargetOK`: what an actor creates nobody else creates or runs.
3. `CleanIsStored`: a page that is not dirty equals its copy on the disk, so it may be
   dropped. The CPU sets the dirty bit in the entry and the TLB together; a TLB entry that
   says dirty is of a page that is dirty (`Cache`).
4. `Cache` says of each translation in the TLB, at any moment, that it is one of three. It is
   in the page table (`Mapped`). Or its page is being taken by its own process, which is in
   the kernel (`Leaving`). Or it is of a page that was taken (`Astray`), and then it is clean
   and leads to a frame that has become a table, or to one that holds a page whose transfer
   did not yield; any other way back to user mode is through a transfer or a switch, which
   empties the TLB. A store through a clean translation walks the page table.
5. `StopsOnlyWhenAllPinned`: the search of `page_replacement_policy` never considers frame
   0, nor does it matter, as that frame is the kernel's and pinned (`FramesOK`).

`ChordProofs` proves, for every finite set of IDs, every first node, any keys and any nodes
that may leave:

| Theorem | States |
|---|---|
| `ChordInvariance` | the inductive invariant `ChordInv` (with `TypeOK`) always holds |
| `OneRing` | `OneOrderedRing` |
| `GetsFindPuts` | `GetFindsPut` |
| `NobodyIsLost` | `NobodyLost` |
| `NobodyIsLostBeforeExit` | until the first node has exited nobody with a successor is dead, polite or not |

1. `Known`, until the first exit: whatever a node knows of another (its neighbours, the
   copies in `Stabilize` and `Close`, the answer of a lookup) is a node that has found a
   successor, and so answers.
2. `Ordered`, until the first node begins to leave: going round from `First`, no successor
   passes `First` (`Ahead`). `Stabilize` may decide on stale copies, but between its calls
   nobody else changes the successor they are about, and it adopts only what lies between.
   So every walk along `succ` goes up to `First` and passes it nowhere (`Climbs`,
   `PassesFirst`), comes back to it by the pigeonhole principle (`FirstReturns`), and what is
   on a ring is on the ring of `First`, which goes round once (`Lap`). Two nodes of it with
   a third between them would not be one lap: `RingOrdered`.
3. `LookupOK`: in a settled ring the intervals from each node to the next are disjoint
   (`NextIs`, `OneRight`), so that all lookups of a key end at one node (`LookupFinds`).
4. `PoliteInv`, while nodes leave politely: `LiveRing` says that neighbours are nodes that
   answer. `Parting` follows a leaving node `x` through its calls: nobody else joins or
   leaves (`Alone`); the others know their neighbours, and what their `Stabilize` has
   fetched changes nothing (`Others`, `Harmless`); the copies `x` holds of its neighbours
   are right at each of its calls, and nobody has it as a neighbour when it exits
   (`Neighbours`). It begins in an ideal ring, in which `succ` is an injection of a finite
   set into itself and hence onto it (`IdealRing`), so each node has one predecessor.

`FileSystemProofs` proves, for any number of inodes and blocks, any size of a block (at least
four cells) and of an inode, any inodes that straddle two blocks or lie beyond the inode table, and any lengths of
lines that fit a block (`FileSystemAssumption`; `NamesAssumption`: what was never assigned
is no block and no inode, and names differ from inode numbers and from what users write):

| Theorem | States |
|---|---|
| `FileSystemInvariance` | the inductive invariant `Inv` always holds |
| `BitmapsCoverUse` | `MarksCoverUse` |
| `CallsAreSaved` | `ReturnedCallsAreSaved` |
| `EntriesAreWritten` | `EntriesNameInodes` |
| `NothingIsOverwritten` | `NothingOverwritten` |

All five are about one call at a time, and about what happens as long as `trouble` is empty:
no entry was made on a full disk, no block write has failed, no inode beyond the table has
been taken, and no stop came while something was in use and not marked on the disk. `Inv` is
`trouble = {} => Orderly`; as `trouble` only grows, a step has to keep `Orderly` only when it
adds nothing to it.

The properties speak of the disk at one moment, while the reason they hold lies in the
order of the block writes a call has decided on. So `Orderly` looks ahead: `Safe` says that the
pending writes, done one by one until the last or until an `ASSERT` stops the kernel, lead
through disks that are all `Fine`, and to one that is `Ended`. `WriteBlock` then has nothing to
show (`SafeTail`), a stop finds a `Fine` disk (`StopInv`), and each call is proved once, when
it begins, from its last write to its first (`SafeCons`).

1. A disk is `Fine` when it is `Sound` for some set `U` of inodes of the table with the root in it: the
   entries of `U` name inodes of `U` (`Closed`), all of which are written, no block is in two
   of them or twice in one (`Apart`), and each holds in every cell up to its size what was
   written there for it (`InPlace`). `U` need not be all that can be found; `ReachIs` shows
   that this is within `U`, as each round of `Found` adds an inode or finds no more, and
   there are `NInodes` of them.
2. `Ended` adds the bitmaps: those in memory mark `U` and its blocks, and those on the disk
   do too, once some data block is marked there.
3. A write of cells past the end of an inode, or into a block of nobody, does not touch what
   `U` holds (`DataKeeps`, `SpareEnd`, `SpareNew`). An inode outside `U` can be written
   without anybody's notice (`OutsideKeeps`) and then be added to `U` (`Adopt`): this is why
   `fs_mkdir` and `mkfile` must write what they create before the entry that names it. An
   inode grows over cells that have been written before (`InodeGrows`).
4. The calls are made of these: a new inode (`TakesFile`, `TakesDir`), cells at the end of an
   inode (`AppendSafe`), and cells that cross into a new block (`SpillSafe`), for an entry in
   `fs_mkdir` and a line in `fs_write`.
5. `fs_mkfs` writes the root before the root's entries, so that for one moment the disk is
   not `Sound` but `Blank`. A stop at that moment is one with something unmarked ("unsaved"): the
   root's block is in no bitmap on the disk yet.

Only model-checked:

* everything in `Th2`, whose one property is of liveness;
* liveness (`BothReportOK`, `EveryoneRuns`, `AllOK`, `EverybodyEats`, `AllDelivered`,
  `FaultsEnd`, `RingConverges`, `LookupsEnd`), as the prover handles neither `ENABLED` nor
  fairness;
* the two properties that are violated, and with them all of `SharedDisk`.

The library's induction theorems take an operator as a parameter, which the provers cannot
instantiate. Where a proof needs induction over data (the digits of a header, the sum of
message sizes, the walk along a list) it takes the least number for which the claim
fails, from `LeastElement` of `WaitingLists`, and derives a contradiction.

## Modelling decisions

* The kernel is uniprocessor and strongly ordered; a step is one access of shared memory
  outside critical sections and one whole critical section inside.
* Clients of the monitor follow its rules: acquire when not the owner, the other calls
  when the owner. Every caller in the kernel does.
* Spinning is not a step of its own: a thread whose spinlock is taken waits.
* Scheduling among runnable threads is free in `Monitor`, `Mbox` and `Th2` (any thread may
  take the next step), follows `cpu` in `Keyboard`, and is the ring itself in `Scheduler`.
* `Scheduler` has one waiting list; `block` and `unblock` treat all lists alike.
* `Keyboard` has one kind of key; its character stands for any.
* In `Barrier` and `Philosophers` an operation is one step, because P3
  runs the whole of it with interrupts off; reads and writes of the tests' own variables are
  steps of their own. The order of a barrier's waiting list cannot be observed, as all are
  woken at once, and is left out.
* `Paging`: a transfer lets others run at least once, as the controller works in frames
  of a millisecond, unless it fails before it gets to the controller (the pages in `Flaky`). Processes are
  created in the order of their pids, by the loader or by any process in user mode, and each image is loaded
  once. Between two such points the handler is one step, except where it
  releases or takes the lock. Clearing PE_P is one instruction, so the CPU cannot set PE_D
  between its read and its write. Processes access pages of their image only. A process
  that exits keeps its frames, as the comment `BUG` of `memory.c:27-29` says; it is one that takes no
  further step. The word behind `page_map`, which the replacement policy reads, may be
  anything. The kernel pins 2 frames and 5 for each process in the code, 1 and 1 in the run.
* `FileSystem`: a call is not interleaved with another. Nothing in the code sees to
  that; `SharedDisk` is about two calls at once. Several shells that call one after another are
  one shell that moves about, except that each has its own open file. The block writes of a
  call are decided when it begins (each block it reads is one it wrote itself
  or that no write of the call is pending for; a call whose write fails therefore goes on as
  if it had not). `cat` is the only use of `fs_write`, hence
  one open file; the table of descriptors never fills. Paths have one component, in `ln`
  also a directory before it. `ls`, `more` and `stat` change nothing and are left out, with
  `fs_read`, `fs_stat` and the read position. `fs_rmdir` and `fs_unlink` only return an
  error, and nothing else frees an inode or a block. An inode that straddles two blocks of
  the inode table stops the kernel at `ASSERT` (`block.c:83`) when it is read or modified in part; `create_dir`
  writes it in two parts (`fs.c:410-415`).
  Inode 18 is the first such in the code, 2 in the run. Of the inodes beyond the table each takes
  one cell of data block 0. A call that was refused a block writes to "block -1", the last of
  the inode table. In the run the fourth entry of a directory is the one that crosses a
  block's end, in the code the 26th. `fs_link` raises the link count in a copy of the inode
  only, so that counts are not modelled; `fs_chdir` leaves the shell in a file when its
  argument names one.
* `Chord`: the IDs of nodes differ. Keys are not handed over when a node joins or leaves,
  as in the code, hence `kept` in `GetFindsPut`. The finger table is never used by the
  running program (`FixFingers` and `ClosestPrecedingNode` are not called) and is left out,
  as is the exit after `maxRunTime`. `CheckPredecessor` also dials the empty name
  and clears the predecessor when that fails; a `Notify` between the two is undone and
  repeated a second later. One such race was tried (3.6 million states, the
  invariants hold); it is left out of the run for its size. So are the nodes a lookup has
  been forwarded through: `Forward` remembers who asked and who is asked, and a node in
  between that exits fails the lookup in the code only. While nodes leave politely
  nobody joins, so that this can only be the lookup of a put or get, which then has no result.
* `Transport` identifies a message with the number of its generation. Datagrams arrive in
  any order, whatever the options: `timer_set` inserts at the head of the timer list
  (`timer.c:31-32`), `timer_tickall` walks from the head, and it leaves the loop when the timer
  at the head fires (`timer.c:63-64`), so that of two datagrams sent in one tick the later arrives
  first. Even with `loss_prob` 0 one datagram in 10001 is
  lost (`network_layer.c:87`); a setting with no losses is a run in which that does not
  happen. The
  bit in an acknowledgement of a repeated package is read from freed memory
  (`transport_layer.c:128`), so it is any of the two bits or another value. `expected` is
  appended when a message is generated, before it is sent, as in the code.
* Losses and timeouts in both directions at once are in `Transport` and its theorems, not in
  the run, which would be too large with four messages: `EndsWell` and `AllDelivered` hold in
  the 303,338 states with three messages from each end, one loss and `MaxFlight` 2.
* Damaged packages, teardown, and the diagnostics are left out of `Transport`.
* Messages larger than the buffer do not occur in the run, and unbalanced closes not in `Mbox`: no
  caller produces them.

## Not modelled, and the plan

In order:

1. The rest of the file system: `fs_read` and `fs_stat`, paths of any length, several
   descriptors.
2. `Processes`: `process3.c` and `process4.c` on two mailboxes.
3. The locking of `usb/scsi.c` below `Paging`.
4. The pager of db2700: its block cache, pins and dirty blocks.

Not planned: device drivers (registers and timing), drawing, games, parsers, format
conversions, the host-side simulators, what else the earlier kernels P1 to P5 share with
P6 or have that P6 replaced, documents and vendored libraries. `PROJECT.json` names each
with its reason. These are the bulk of the repository: pictures and meshes as C arrays,
headers of SDL and OpenGL, drivers and games, beside which the modelled code is small. The
map covers a small share of the lines for that reason.

## Running

    tlc -workers 2 -config MCMonitor.cfg MCMonitor
    tlapm WaitingLists.tla
    tlapm MboxProofs.tla
    tlapm SchedulerProofs.tla
    tlapm P3Proofs.tla
    tlapm PagingProofs.tla
    tlapm TransportProofs.tla
    tlapm ChordProofs.tla
    tlapm FileSystemProofs.tla

Every other configuration is `MC<Module><Variant>.cfg` for module `MC<Module>`. The longest
runs are `paging` and `chord`, 600,000 states or more and about three minutes each.
