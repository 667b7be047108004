------------------------------- MODULE Chord -------------------------------
(***************************************************************************)
(* chord.go and main.go of the Chord node (3200, P2): a ring of nodes with *)
(* one successor each that store values under hashed keys.  A node is      *)
(* named by its ID, the hash of its address; the IDs differ.               *)
(*                                                                         *)
(* A remote call is one step of the node that makes it: it runs the        *)
(* handler at the other end, or fails because nobody listens there.        *)
(* Between two calls of a node all the others may run.                     *)
(***************************************************************************)
EXTENDS Naturals, FiniteSets

CONSTANTS
  Nodes,    \* IDs of the nodes that may be started
  First,    \* the node that creates the network
  Leavers,  \* nodes that get a /shutdown request
  Keys,     \* hashed keys that the client puts and gets
  Client,   \* the client
  Nobody    \* an empty Name

ASSUME ChordAssumption ==
  /\ Nodes \cup Keys \subseteq Nat /\ IsFiniteSet(Nodes)
  /\ First \in Nodes /\ Leavers \subseteq Nodes
  /\ {Client, Nobody} \cap Nat = {}

VARIABLES
  status,  \* off, joining, up, closing, left (exited) or dead (log.Fatal)
  succ,    \* Successor of each node
  pred,    \* Predecessor of each node
  stab,    \* where its Stabilize loop is
  copy,    \* the successor, and its Predecessor, as Stabilize fetched them
  gone,    \* its CheckPredecessor loop found the predecessor gone
  leave,   \* where Close is, and the copies of the neighbours it works on
  find,    \* a lookup per joining node and for the client, and where it is
  op,      \* what the client is doing
  data,    \* the keys each node stores a value for
  rude,    \* history: a node has left in a way that Close does not cope with
  steady,  \* history: the ring is as it was when the client's call began
  kept     \* history: keys put since the ring changed last

vars == <<status, succ, pred, stab, copy, gone, leave, find, op, data, rude, steady, kept>>

NoFind  == [key |-> 0, at |-> Nobody, step |-> "none"]
NoCopy  == [node |-> Nobody, pred |-> Nobody]
NoLeave == [step |-> "none", p |-> Nobody, s |-> Nobody, pPred |-> Nobody, sSucc |-> Nobody]

----------------------------------------------------------------------------
(* ElementIn: a is strictly between pre and suc on the circle, which is    *)
(* everywhere when they are the same.                                      *)
ElementIn(a, pre, suc) ==
  \/ pre < a /\ a < suc
  \/ pre = suc
  \/ pre > suc /\ (a > pre \/ a < suc)

(* Nodes that answer calls: from New until the process ends.               *)
Serving == {n \in Nodes : status[n] \in {"joining", "up", "closing"}}

(* The nodes that have joined.                                             *)
Members == {n \in Nodes : status[n] = "up" /\ succ[n] # Nobody}

NextOf(n) ==
  IF Members = {n} THEN n
  ELSE CHOOSE m \in Members \ {n} : \A o \in Members \ {m, n} : ~ElementIn(o, n, m)

(* What the ring should be: everybody knows both neighbours.               *)
Ideal ==
  /\ \A n \in Members : succ[n] = NextOf(n) /\ pred[NextOf(n)] = n
  /\ \A n \in Nodes : status[n] \notin {"joining", "closing"}

(* Create: one node is up, its own successor.                              *)
Init ==
  /\ status = [n \in Nodes |-> IF n = First THEN "up" ELSE "off"]
  /\ succ = [n \in Nodes |-> IF n = First THEN n ELSE Nobody]
  /\ pred = [n \in Nodes |-> Nobody]
  /\ stab = [n \in Nodes |-> "sleep"]
  /\ copy = [n \in Nodes |-> NoCopy]
  /\ gone = [n \in Nodes |-> FALSE]
  /\ leave = [n \in Nodes |-> NoLeave]
  /\ find = [c \in Nodes \cup {Client} |-> NoFind]
  /\ op = "none"
  /\ data = [n \in Nodes |-> {}]
  /\ rude = FALSE /\ steady = FALSE /\ kept = {}

----------------------------------------------------------------------------
(* FindSuccessor(key, m) of caller c.  The call runs from node to node.    *)
Begin(c, key, m) == find' = [find EXCEPT ![c] = [key |-> key, at |-> m, step |-> "ask"]]

End(c) == find' = [find EXCEPT ![c] = NoFind]

(* Mutant: the successor is the answer, wherever the key is. *)
AskFirst(c) ==
  LET m == find[c].at
      s == succ[m]
  IN
    /\ find[c].step = "ask"
    /\ find' = [find EXCEPT ![c] =
         IF m \notin Serving \/ s \notin Serving THEN [@ EXCEPT !.step = "failed"]
         ELSE [@ EXCEPT !.step = "found", !.at = s]]
    /\ UNCHANGED <<status, succ, pred, stab, copy, gone, leave, op, data, rude>>

(* RPCFindSuccessor at the node the lookup is at: it fetches its successor *)
(* and answers with it if the key is between the two, else it forwards the *)
(* call to its successor, which it reads again.                            *)
Ask(c) ==
  LET m == find[c].at
      s == succ[m]
  IN
    /\ find[c].step = "ask"
    /\ find' = [find EXCEPT ![c] =
         IF m \notin Serving \/ s \notin Serving THEN [@ EXCEPT !.step = "failed"]
         ELSE IF ElementIn(@.key, m, s) THEN [@ EXCEPT !.step = "found", !.at = s]
         ELSE [@ EXCEPT !.step = "forward"]]
    /\ UNCHANGED <<status, succ, pred, stab, copy, gone, leave, op, data, rude>>

(* Mutant: the call is forwarded to the node itself. *)
ForwardSelf(c) ==
  LET m == find[c].at IN
    /\ find[c].step = "forward"
    /\ find' = [find EXCEPT ![c] =
         IF m \notin Serving THEN [@ EXCEPT !.step = "failed"] ELSE [@ EXCEPT !.step = "ask"]]
    /\ UNCHANGED <<status, succ, pred, stab, copy, gone, leave, op, data, rude>>

(* The nodes a call has come through wait for its answer; that it is lost  *)
(* with any of them that exits meanwhile is left out.                      *)
Forward(c) ==
  LET m == find[c].at
      s == succ[m]
  IN
    /\ find[c].step = "forward"
    /\ find' = [find EXCEPT ![c] =
         IF m \notin Serving \/ s \notin Serving THEN [@ EXCEPT !.step = "failed"]
         ELSE [@ EXCEPT !.step = "ask", !.at = s]]
    /\ UNCHANGED <<status, succ, pred, stab, copy, gone, leave, op, data, rude>>

----------------------------------------------------------------------------
(* New and Join: node n is started with the address of node m.             *)
Start(n, m) ==
  /\ status[n] = "off" /\ status[m] = "up"
  /\ status' = [status EXCEPT ![n] = "joining"]
  /\ Begin(n, n, m)
  /\ rude' = (rude \/ \E o \in Nodes : status[o] = "closing")
  /\ UNCHANGED <<succ, pred, stab, copy, gone, leave, op, data>>

(* Join gets its answer.  An error is dropped by joinNetwork: the node     *)
(* stays without a successor.                                              *)
Join(n) ==
  /\ status[n] = "joining" /\ find[n].step \in {"found", "failed"}
  /\ succ' = [succ EXCEPT ![n] = IF find[n].step = "found" THEN find[n].at ELSE Nobody]
  /\ status' = [status EXCEPT ![n] = "up"]
  /\ End(n)
  /\ UNCHANGED <<pred, stab, copy, gone, leave, op, data, rude>>

----------------------------------------------------------------------------
(* Stabilize sleeps, which New starts before the node has joined, and      *)
(* fetches its successor; log.Fatal if it cannot.                          *)
StabilizeGet(n) ==
  /\ n \in Serving /\ stab[n] = "sleep"
  /\ IF succ[n] \in Serving
       THEN /\ copy' = [copy EXCEPT ![n] = [node |-> succ[n], pred |-> pred[succ[n]]]]
            /\ stab' = [stab EXCEPT ![n] = "got"]
            /\ rude' = (rude \/ status[n] = "closing")
            /\ UNCHANGED <<status, find>>
       ELSE /\ status' = [status EXCEPT ![n] = "dead"]
            /\ End(n)
            /\ UNCHANGED <<copy, stab, rude>>
  /\ UNCHANGED <<succ, pred, gone, leave, op, data>>

(* Mutant: the predecessor of the successor is adopted wherever it is. *)
StabilizeAdoptAny(n) ==
  LET q == copy[n].pred IN
    /\ n \in Serving /\ stab[n] = "got"
    /\ succ' = [succ EXCEPT ![n] = IF q # Nobody THEN q ELSE @]
    /\ stab' = [stab EXCEPT ![n] = "notify"]
    /\ copy' = [copy EXCEPT ![n] = NoCopy]
    /\ UNCHANGED <<status, pred, gone, leave, find, op, data, rude>>

(* A node closer than the successor it fetched becomes the successor.      *)
StabilizeAdopt(n) ==
  LET q == copy[n].pred IN
    /\ n \in Serving /\ stab[n] = "got"
    /\ succ' = [succ EXCEPT ![n] =
         IF q # Nobody /\ ElementIn(q, n, copy[n].node) THEN q ELSE @]
    /\ stab' = [stab EXCEPT ![n] = "notify"]
    /\ copy' = [copy EXCEPT ![n] = NoCopy]
    /\ UNCHANGED <<status, pred, gone, leave, find, op, data, rude>>

(* Mutant: RPCNotify only fills in an unknown predecessor. *)
StabilizeNotifyFirst(n) ==
  LET m == succ[n] IN
    /\ n \in Serving /\ stab[n] = "notify"
    /\ pred' = IF m \in Serving /\ pred[m] = Nobody THEN [pred EXCEPT ![m] = n] ELSE pred
    /\ stab' = [stab EXCEPT ![n] = IF status[n] = "closing" THEN "ended" ELSE "sleep"]
    /\ UNCHANGED <<status, succ, copy, gone, leave, find, op, data, rude>>

(* Notify and RPCNotify at the successor; an error is dropped.  The loop   *)
(* goes on as long as update is set.                                       *)
StabilizeNotify(n) ==
  LET m == succ[n] IN
    /\ n \in Serving /\ stab[n] = "notify"
    /\ pred' = IF m \in Serving /\ (pred[m] = Nobody \/ ElementIn(n, pred[m], m))
                 THEN [pred EXCEPT ![m] = n] ELSE pred
    /\ stab' = [stab EXCEPT ![n] = IF status[n] = "closing" THEN "ended" ELSE "sleep"]
    /\ UNCHANGED <<status, succ, copy, gone, leave, find, op, data, rude>>

(* CheckPredecessor finds that the predecessor does not answer ...  The    *)
(* dial of an empty name fails without a wait: it and the clearing of the  *)
(* name, empty already, are no step.                                       *)
CheckPredecessor(n) ==
  /\ n \in Serving /\ ~gone[n]
  /\ pred[n] # Nobody /\ pred[n] \notin Serving
  /\ gone' = [gone EXCEPT ![n] = TRUE]
  /\ UNCHANGED <<status, succ, pred, stab, copy, leave, find, op, data, rude>>

(* ... and clears it, whoever it is by now.                                *)
ClearPredecessor(n) ==
  /\ n \in Serving /\ gone[n]
  /\ pred' = [pred EXCEPT ![n] = Nobody]
  /\ gone' = [gone EXCEPT ![n] = FALSE]
  /\ UNCHANGED <<status, succ, stab, copy, leave, find, op, data, rude>>

----------------------------------------------------------------------------
(* Close goes on with step if the node it calls answers, else it returns   *)
(* the error; shutdownHandler exits in both cases.                         *)
Goto(n, called, l) ==
  leave' = [leave EXCEPT ![n] = IF called \in Serving THEN l ELSE [NoLeave EXCEPT !.step = "exit"]]

(* A leaving that Close copes with: from an ideal ring of three or more,   *)
(* while no other node leaves or joins and no Notify of its own is under   *)
(* way.                                                                    *)
Polite(n) == Ideal /\ Cardinality(Members) >= 3 /\ stab[n] = "sleep"

CloseGetPredecessor(n) ==
  LET p == pred[n] IN
    /\ n \in Leavers /\ status[n] = "up"
    /\ status' = [status EXCEPT ![n] = "closing"]
    /\ Goto(n, p, [NoLeave EXCEPT !.step = "succ", !.p = p,
                     !.pPred = IF p \in Nodes THEN pred[p] ELSE Nobody])
    /\ rude' = (rude \/ ~Polite(n))
    /\ UNCHANGED <<succ, pred, stab, copy, gone, find, op, data>>

CloseGetSuccessor(n) ==
  LET s == succ[n] IN
    /\ leave[n].step = "succ" /\ n \in Serving
    /\ Goto(n, s, [leave[n] EXCEPT !.step = "setSucc", !.s = s,
                     !.sSucc = IF s \in Nodes THEN succ[s] ELSE Nobody])
    /\ UNCHANGED <<status, succ, pred, stab, copy, gone, find, op, data, rude>>

(* NodeSet and RPCNodeSet at m: both neighbours are overwritten.           *)
NodeSet(m, p, s) ==
  IF m \in Serving
    THEN pred' = [pred EXCEPT ![m] = p] /\ succ' = [succ EXCEPT ![m] = s]
    ELSE UNCHANGED <<pred, succ>>

CloseSetSuccessor(n) ==
  LET l == leave[n] IN
    /\ l.step = "setSucc" /\ n \in Serving
    /\ NodeSet(l.s, l.p, l.sSucc)
    /\ Goto(n, l.s, [l EXCEPT !.step = "setPred"])
    /\ UNCHANGED <<status, stab, copy, gone, find, op, data, rude>>

(* Mutant: Close links the successor only. *)
CloseSetPredecessorSkip(n) ==
  LET l == leave[n] IN
    /\ l.step = "setPred" /\ n \in Serving
    /\ Goto(n, l.p, [NoLeave EXCEPT !.step = "exit"])
    /\ UNCHANGED <<status, succ, pred, stab, copy, gone, find, op, data, rude>>

CloseSetPredecessor(n) ==
  LET l == leave[n] IN
    /\ l.step = "setPred" /\ n \in Serving
    /\ NodeSet(l.p, l.pPred, l.s)
    /\ Goto(n, l.p, [NoLeave EXCEPT !.step = "exit"])
    /\ UNCHANGED <<status, stab, copy, gone, find, op, data, rude>>

(* os.Exit, or the end of a node that log.Fatal has stopped meanwhile.     *)
Exit(n) ==
  /\ leave[n].step = "exit" /\ n \in Serving
  /\ status' = [status EXCEPT ![n] = "left"]
  /\ leave' = [leave EXCEPT ![n] = NoLeave]
  /\ UNCHANGED <<succ, pred, stab, copy, gone, find, op, data, rude>>

----------------------------------------------------------------------------
(* The client sends a PUT or a GET to node n, which looks the key up ...   *)
(* Bound: it puts each key once.                                           *)
Request(kind, n, key) ==
  /\ op = "none" /\ status[n] = "up"
  /\ kind = "put" => \A m \in Nodes : key \notin data[m]
  /\ op' = kind
  /\ Begin(Client, key, n)
  /\ UNCHANGED <<status, succ, pred, stab, copy, gone, leave, data, rude>>

(* ... and has the node it found store or return the value.                *)
Reply ==
  LET f == find[Client] IN
    /\ op # "none" /\ f.step \in {"found", "failed"}
    /\ data' = IF op = "put" /\ f.step = "found" /\ f.at \in Serving
                 THEN [data EXCEPT ![f.at] = @ \cup {f.key}] ELSE data
    /\ op' = "none"
    /\ End(Client)
    /\ UNCHANGED <<status, succ, pred, stab, copy, gone, leave, rude>>

(* The history of the client's calls.                                      *)
History ==
  LET f == find[Client]
      changed == succ' # succ \/ status' # status
  IN
    /\ steady' = (op' # "none" /\ ~changed /\ (op = "none" \/ steady))
    /\ kept' = IF changed THEN {}
               ELSE IF op = "put" /\ op' = "none" /\ steady /\ f.step = "found" 
                    THEN kept \cup {f.key} ELSE kept

----------------------------------------------------------------------------
Lookup(c) == Ask(c) \/ Forward(c)

Stabilize(n) == StabilizeGet(n) \/ StabilizeAdopt(n) \/ StabilizeNotify(n)

Check(n) == CheckPredecessor(n) \/ ClearPredecessor(n)

Close(n) ==
  CloseGetSuccessor(n) \/ CloseSetSuccessor(n) \/ CloseSetPredecessor(n) \/ Exit(n)

Step ==
  \/ \E n, m \in Nodes : Start(n, m)
  \/ \E n \in Nodes : Join(n) \/ Stabilize(n) \/ Check(n) \/ CloseGetPredecessor(n) \/ Close(n)
  \/ \E c \in Nodes \cup {Client} : Lookup(c)
  \/ \E kind \in {"put", "get"}, n \in Nodes, key \in Keys : Request(kind, n, key)
  \/ Reply

Next == Step /\ History

(* The loops run once a second for ever, a call is answered or fails.      *)
Fairness ==
  /\ \A n \in Nodes :
       WF_vars(Stabilize(n) /\ History) /\ WF_vars(Check(n) /\ History)
         /\ WF_vars((Join(n) \/ Close(n)) /\ History)
  /\ \A c \in Nodes \cup {Client} : WF_vars(Lookup(c) /\ History)
  /\ WF_vars(Reply /\ History)

Spec == Init /\ [][Next]_vars /\ Fairness

----------------------------------------------------------------------------
(* Where n's successors lead, one after the other.                         *)
Walk(n) ==
  LET walk[k \in 0 .. Cardinality(Nodes)] == IF k = 0 THEN n ELSE succ[walk[k - 1]] IN walk

OnRing(n) == \E k \in 1 .. Cardinality(Nodes) : Walk(n)[k] = n

(* While nodes only join, or leave politely, and whatever stale successor  *)
(* a node has fetched: no node that has joined stops (log.Fatal in         *)
(* Stabilize).                                                             *)
NobodyLost == ~rude => \A n \in Nodes : status[n] = "dead" => succ[n] = Nobody

(* While nodes only join, every node that has joined leads to one ring,    *)
(* whose successors are in the order of the IDs: no node is skipped for    *)
(* good and no second ring forms (Join, Stabilize, RPCNotify).             *)
OneOrderedRing ==
  (\A n \in Nodes : status[n] \notin {"closing", "left"}) =>
    LET ring == {n \in Members : OnRing(n)} IN
      /\ \A n \in Members : succ[n] \in Members /\ (pred[n] # Nobody => pred[n] \in Members)
      /\ ring # {}
      /\ \A n, m \in ring : ~(m \notin {n, succ[n]} /\ ElementIn(m, n, succ[n]))

(* When nobody joins or leaves any more, the ring becomes ideal and stays  *)
(* so (Stabilize, CheckPredecessor, Close).                                *)
RingConverges == <>[](rude \/ Ideal)

(* Every node that has joined knows its successor.                         *)
Settled == \A n \in Members : succ[n] = NextOf(n)

(* A get finds what was put, through whatever nodes the two went, as long  *)
(* as every node knows its successor and the ring did not change in        *)
(* between (Put, Get, RPCFindSuccessor).  A node that joined with a        *)
(* successor that was stale by then would look for the key elsewhere.      *)
GetFindsPut ==
  Settled /\ op = "get" /\ find[Client].step = "found" /\ find[Client].key \in kept =>
    find[Client].key \in data[find[Client].at]

(* A lookup ends, while nodes join and leave, unless the key is the ID of  *)
(* a node: ElementIn leaves both ends out, and the call runs round for     *)
(* ever (chord.go:411).                                                    *)
LookupsEnd == []<>(find[Client].step \notin {"ask", "forward"} \/ find[Client].key \in Nodes)
=============================================================================
