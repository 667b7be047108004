----------------------------- MODULE Transport -----------------------------
(***************************************************************************)
(* The reliable transfer simulator of assignment 3: two OSI stacks whose   *)
(* transport layers send one package at a time, number them with one bit   *)
(* and queue what the application sends meanwhile. The whole program is    *)
(* one thread that runs timer callbacks, so every callback is one step.    *)
(*                                                                         *)
(* A message is the number of its generation, which stands for its random  *)
(* bytes. A datagram in flight may arrive at any time and in any order:    *)
(* delays are random, and even equal ones keep no order, since a timer set *)
(* goes before those in the list, and one that fires at the head of the    *)
(* list keeps all behind it from being counted.                            *)
(***************************************************************************)
EXTENDS Naturals, Sequences, FiniteSets, SequencesExt

CONSTANTS
  Ends,         \* the two stacks
  NumPackets,   \* messages each end that generates data generates
  Settings,     \* what the program may be started with
  MaxFlight     \* bound: a timer waits while so many datagrams are in flight

(* generators: the ends that generate data, one, or both if bidirectional; *)
(* losses: a bound on the datagrams lost (with loss_prob = 0 one in 10001  *)
(* still is, so that 0 stands for a run that loses none);                  *)
(* timeouts: the program lasts the 10000 ticks to the first timeout.       *)
AllSettings == [generators : SUBSET Ends \ {{}}, losses : Nat, timeouts : BOOLEAN]

ASSUME TransportAssumption ==
  /\ \E x, y \in Ends : x # y /\ Ends = {x, y}
  /\ NumPackets \in Nat \ {0}
  /\ Settings \subseteq AllSettings
  /\ MaxFlight \in Nat \ {0}

VARIABLES
  settings,   \* the program's arguments
  ack, seq,   \* the two bits of transport_layer_t
  snd_pkg,    \* the package waiting for its acknowledgement, or NoPkg
  rcv_pkg,    \* rcv_pkg is not NULL
  queue,      \* the packages waiting for snd_pkg's turn
  timer,      \* the layer's timer is in the timer list
  net,        \* the datagrams in flight to each end
  losses,     \* how many were lost
  generated,  \* dataGenerateCount
  expected,   \* the application's list of data still to come
  delivered,  \* history: what the application was given
  halted      \* how the program ended, or "no"

vars == <<settings, ack, seq, snd_pkg, rcv_pkg, queue, timer, net, losses,
          generated, expected, delivered, halted>>

Other(e) == CHOOSE x \in Ends : x # e

NoPkg == [data |-> 0, ack |-> 0, seq |-> 0]

(* An acknowledgement has size 0, here data 0. The bit of an ack built     *)
(* from freed memory may be any byte: 0, 1 or 2 for all the others.        *)
Packages == [data : 0..NumPackets, ack : 0..2, seq : 0..1]

AckPkg(bit) == [data |-> 0, ack |-> bit, seq |-> 0]

Init ==
  /\ settings \in Settings
  /\ ack = [e \in Ends |-> 0] /\ seq = [e \in Ends |-> 0]
  /\ snd_pkg = [e \in Ends |-> NoPkg] /\ rcv_pkg = [e \in Ends |-> FALSE]
  /\ queue = [e \in Ends |-> << >>]
  /\ timer = [e \in Ends |-> TRUE]
  /\ net = [e \in Ends |-> << >>] /\ losses = 0
  /\ generated = [e \in Ends |-> 0]
  /\ expected = [e \in Ends |-> << >>] /\ delivered = [e \in Ends |-> << >>]
  /\ halted = "no"

(* network_layer_onTpSend: from n, the network as the callback found it,   *)
(* a copy of p sets out for e or is lost. *)
NwSend(n, e, p) ==
  \/ net' = [n EXCEPT ![e] = Append(@, p)] /\ UNCHANGED losses
  \/ net' = n /\ losses < settings.losses /\ losses' = losses + 1

Running == halted = "no"

FlightBound(e) == Len(net[e]) + Len(net[Other(e)]) < MaxFlight

----------------------------------------------------------------------------

(* Mutant: a package is sent although another one is in the air. *)
GenerateAndSend(e) ==
  /\ Running
  /\ e \in settings.generators /\ generated[e] < NumPackets
  /\ generated' = [generated EXCEPT ![e] = @ + 1]
  /\ expected' = [expected EXCEPT ![Other(e)] = Append(@, generated[e] + 1)]
  /\ seq' = [seq EXCEPT ![e] = 1 - @]
  /\ LET pkg == [data |-> generated[e] + 1, ack |-> ack[e], seq |-> seq'[e]]
     IN  snd_pkg' = [snd_pkg EXCEPT ![e] = pkg] /\ NwSend(net, Other(e), pkg)
  /\ UNCHANGED <<settings, ack, rcv_pkg, queue, timer, delivered, halted>>

(* osi_app_layer_onDataGenerateTick and transport_layer_onAppSend *)
Generate(e) ==
  /\ Running
  /\ e \in settings.generators /\ generated[e] < NumPackets
  /\ generated' = [generated EXCEPT ![e] = @ + 1]
  /\ expected' = [expected EXCEPT ![Other(e)] = Append(@, generated[e] + 1)]
  /\ seq' = [seq EXCEPT ![e] = 1 - @]
  /\ LET pkg == [data |-> generated[e] + 1, ack |-> ack[e], seq |-> seq'[e]]
     IN  IF snd_pkg[e] = NoPkg
           THEN /\ snd_pkg' = [snd_pkg EXCEPT ![e] = pkg]
                /\ NwSend(net, Other(e), pkg)
                /\ UNCHANGED queue
           ELSE /\ queue' = [queue EXCEPT ![e] = Append(@, pkg)]
                /\ UNCHANGED <<snd_pkg, net, losses>>
  /\ UNCHANGED <<settings, ack, rcv_pkg, timer, delivered, halted>>

Without(e, k) == [net EXCEPT ![e] = RemoveAt(@, k)]

(* Mutant: the package received is not remembered. *)
ReceiveDataForget(e, k) ==
  LET p == net[e][k] IN
  /\ Running
  /\ p.data # 0 /\ p.seq # ack[e]
  /\ delivered' = [delivered EXCEPT ![e] = Append(@, p.data)]
  /\ ack' = [ack EXCEPT ![e] = 1 - @]
  /\ NwSend(Without(e, k), Other(e), AckPkg(p.seq))
  /\ UNCHANGED <<settings, seq, snd_pkg, rcv_pkg, queue, timer, generated, expected, halted>>

(* transport_layer_onNwReceive, new data: up to the application, which     *)
(* ends the program if it is not what it expects; else acknowledge it.     *)
ReceiveData(e, k) ==
  LET p == net[e][k] IN
  /\ Running
  /\ p.data # 0 /\ p.seq # ack[e]
  /\ delivered' = [delivered EXCEPT ![e] = Append(@, p.data)]
  /\ IF expected[e] # << >> /\ Head(expected[e]) = p.data
       THEN /\ expected' = [expected EXCEPT ![e] = Tail(@)]
            /\ ack' = [ack EXCEPT ![e] = 1 - @]
            /\ rcv_pkg' = [rcv_pkg EXCEPT ![e] = TRUE]
            /\ NwSend(Without(e, k), Other(e), AckPkg(p.seq))
            /\ UNCHANGED halted
       ELSE /\ halted' = "unexpected data"
            /\ UNCHANGED <<expected, ack, rcv_pkg, net, losses>>
  /\ UNCHANGED <<settings, seq, snd_pkg, queue, timer, generated>>

(* ... data seen before: acknowledge it with rcv_pkg->seq. rcv_pkg was     *)
(* freed when the callback that received it returned.                      *)
ReceiveAgain(e, k) ==
  LET p == net[e][k] IN
  /\ Running
  /\ p.data # 0 /\ p.seq = ack[e]
  /\ IF rcv_pkg[e]
       THEN /\ \E bit \in 0..2 : NwSend(Without(e, k), Other(e), AckPkg(bit))
            /\ UNCHANGED halted
       ELSE halted' = "null rcv_pkg" /\ UNCHANGED <<net, losses>>
  /\ UNCHANGED <<settings, ack, seq, snd_pkg, rcv_pkg, queue, timer, generated, expected, delivered>>

(* Mutant: the package queued last is sent next. *)
ReceiveAckLast(e, k) ==
  LET p == net[e][k] IN
  /\ Running
  /\ p.data = 0 /\ snd_pkg[e] # NoPkg /\ p.ack = snd_pkg[e].seq
  /\ IF queue[e] = << >>
       THEN /\ snd_pkg' = [snd_pkg EXCEPT ![e] = NoPkg]
            /\ net' = Without(e, k)
            /\ UNCHANGED <<queue, losses>>
       ELSE /\ snd_pkg' = [snd_pkg EXCEPT ![e] = Last(queue[e])]
            /\ queue' = [queue EXCEPT ![e] = Front(@)]
            /\ NwSend(Without(e, k), Other(e), Last(queue[e]))
  /\ UNCHANGED <<settings, ack, seq, rcv_pkg, timer, generated, expected, delivered, halted>>

(* ... the acknowledgement of snd_pkg: send the next one, if any. *)
ReceiveAck(e, k) ==
  LET p == net[e][k] IN
  /\ Running
  /\ p.data = 0 /\ snd_pkg[e] # NoPkg /\ p.ack = snd_pkg[e].seq
  /\ IF queue[e] = << >>
       THEN /\ snd_pkg' = [snd_pkg EXCEPT ![e] = NoPkg]
            /\ net' = Without(e, k)
            /\ UNCHANGED <<queue, losses>>
       ELSE /\ snd_pkg' = [snd_pkg EXCEPT ![e] = Head(queue[e])]
            /\ queue' = [queue EXCEPT ![e] = Tail(@)]
            /\ NwSend(Without(e, k), Other(e), Head(queue[e]))
  /\ UNCHANGED <<settings, ack, seq, rcv_pkg, timer, generated, expected, delivered, halted>>

(* ... another acknowledgement: ignored, but snd_pkg->seq is read even if  *)
(* there is no snd_pkg. *)
ReceiveWrongAck(e, k) ==
  LET p == net[e][k] IN
  /\ Running
  /\ p.data = 0 /\ (snd_pkg[e] = NoPkg \/ p.ack # snd_pkg[e].seq)
  /\ halted' = IF snd_pkg[e] = NoPkg THEN "null snd_pkg" ELSE "no"
  /\ net' = Without(e, k)
  /\ UNCHANGED <<settings, ack, seq, snd_pkg, rcv_pkg, queue, timer, losses,
                 generated, expected, delivered>>

(* timer_tickall runs the callback of one of the datagrams.                *)
Receive(e) == \E k \in DOMAIN net[e] :
  ReceiveData(e, k) \/ ReceiveAgain(e, k) \/ ReceiveAck(e, k) \/ ReceiveWrongAck(e, k)

(* Mutant: the timer is set again, and nothing is sent. *)
LayerTimeoutNoResend(e) ==
  /\ Running
  /\ settings.timeouts /\ timer[e] /\ FlightBound(e)
  /\ timer' = [timer EXCEPT ![e] = snd_pkg[e] # NoPkg]
  /\ UNCHANGED <<settings, ack, seq, snd_pkg, rcv_pkg, queue, net, losses, generated,
                 expected, delivered, halted>>

(* transport_layer_onLayerTimeout: the timer that fired is off the list;   *)
(* it is set again only if there is a package to resend. *)
LayerTimeout(e) ==
  /\ Running
  /\ settings.timeouts /\ timer[e] /\ FlightBound(e)
  /\ IF snd_pkg[e] # NoPkg
       THEN NwSend(net, Other(e), snd_pkg[e]) /\ UNCHANGED timer
       ELSE timer' = [timer EXCEPT ![e] = FALSE] /\ UNCHANGED <<net, losses>>
  /\ UNCHANGED <<settings, ack, seq, snd_pkg, rcv_pkg, queue, generated, expected, delivered, halted>>

ShouldContinue ==
  \E e \in settings.generators : generated[e] < NumPackets \/ expected[Other(e)] # << >>

(* main leaves its loop *)
Finish ==
  /\ Running /\ ~ShouldContinue
  /\ halted' = "done"
  /\ UNCHANGED <<settings, ack, seq, snd_pkg, rcv_pkg, queue, timer, net, losses,
                 generated, expected, delivered>>

Next ==
  \/ \E e \in Ends : Generate(e) \/ Receive(e) \/ LayerTimeout(e)
  \/ Finish

Spec == Init /\ [][Next]_vars

(* timer_tickall counts every timer in the list towards its callback. *)
Fairness ==
  /\ \A e \in Ends :
       WF_vars(Generate(e)) /\ WF_vars(Receive(e)) /\ WF_vars(LayerTimeout(e))
  /\ WF_vars(Finish)

FairSpec == Spec /\ Fairness

----------------------------------------------------------------------------
(* Nothing has been lost and nothing will be repeated. *)
Quiet == losses = 0 /\ ~settings.timeouts

(* Whatever is lost, repeated or reordered, an application is given exact  *)
(* messages in their order until the program stops at an unexpected one,   *)
(* and that one was generated too; and before the first loss or timeout    *)
(* none is unexpected, though datagrams overtake each other.               *)
InOrder ==
  \A e \in Ends : \A i \in DOMAIN delivered[e] :
    /\ delivered[e][i] \in 1..generated[Other(e)]
    /\ Quiet \/ i < Len(delivered[e]) \/ halted # "unexpected data" => delivered[e][i] = i

DataTo(e) == Cardinality({k \in DOMAIN net[e] : net[e][k].data # 0})
AcksTo(e) == Cardinality({k \in DOMAIN net[e] : net[e][k].data = 0})

(* Stop and wait: while a package is unacknowledged exactly one datagram,  *)
(* it or its acknowledgement, is in flight, and otherwise none is; packages *)
(* wait in the queue only behind one that is unacknowledged, losses and    *)
(* repeats or not.                                                         *)
StopAndWait ==
  \A e \in Ends :
    /\ Quiet => DataTo(Other(e)) + AcksTo(e) = IF snd_pkg[e] = NoPkg THEN 0 ELSE 1
    /\ queue[e] # << >> => snd_pkg[e] # NoPkg

(* The program ends only because it is done until something is repeated,   *)
(* and a package that repeats one already received finds rcv_pkg set,      *)
(* whatever the network does.                                              *)
EndsWell ==
  /\ Quiet => halted \in {"no", "done"}
  /\ halted # "null rcv_pkg"

(* A package that was received before is on its way. *)
RepeatInFlight ==
  \E e \in Ends : \E k \in DOMAIN net[e] : net[e][k].data # 0 /\ net[e][k].seq = ack[e]

(* Every message generated is delivered and the program ends, lost ones    *)
(* included: unless a sender's timer has fired with nothing to repeat,     *)
(* after which it is never set again, or a package is repeated that had    *)
(* been received.                                                          *)
AllDelivered ==
  <>(\/ halted = "done" /\ \A e \in Ends :
          Len(delivered[e]) = IF Other(e) \in settings.generators THEN NumPackets ELSE 0
     \/ \E e \in settings.generators : ~timer[e]
     \/ RepeatInFlight)

=============================================================================
