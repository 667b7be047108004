----------------------------- MODULE ChordProofs -----------------------------
(***************************************************************************)
(* Theorems about Chord for any finite set of IDs, any keys and any nodes  *)
(* that leave: while nodes only join there is one ring in the order of the *)
(* IDs, nobody is lost when they leave politely, and a get finds what was  *)
(* put while the ring does not change.                                     *)
(***************************************************************************)
EXTENDS Chord, FiniteSetTheorems, WaitingLists, TLAPS

Stati == {"off", "joining", "up", "closing", "left", "dead"}

NodeOrNobody == Nodes \cup {Nobody}

Leave == [step : {"none", "succ", "setSucc", "setPred", "exit"},
          p : NodeOrNobody, s : NodeOrNobody, pPred : NodeOrNobody, sSucc : NodeOrNobody]

Find == [key : Nat, at : NodeOrNobody, step : {"none", "ask", "forward", "found", "failed"}]

TypeOK ==
  /\ status \in [Nodes -> Stati]
  /\ succ \in [Nodes -> NodeOrNobody] /\ pred \in [Nodes -> NodeOrNobody]
  /\ stab \in [Nodes -> {"sleep", "got", "notify", "ended"}]
  /\ copy \in [Nodes -> [node : NodeOrNobody, pred : NodeOrNobody]]
  /\ gone \in [Nodes -> BOOLEAN]
  /\ leave \in [Nodes -> Leave]
  /\ find \in [Nodes \cup {Client} -> Find]
  /\ op \in {"none", "put", "get"}
  /\ data \in [Nodes -> SUBSET Nat] /\ kept \subseteq Nat
  /\ rude \in BOOLEAN /\ steady \in BOOLEAN

(* The nodes that have found a successor. *)
Linked == {n \in Nodes : succ[n] # Nobody}

(* None of them has exited; none of them is about to. *)
NoneLeft   == \A n \in Linked : status[n] # "left"
NoneLeaves == \A n \in Linked : status[n] \notin {"left", "closing"}

LinkedOr == Linked \cup {Nobody}

(* Whatever a node knows of another is that it has found a successor:      *)
(* that of its neighbours, of what Stabilize and Close have fetched, and   *)
(* of the answer of a lookup.                                              *)
RingKnown  == \A n \in Linked : status[n] \in {"up", "closing"} /\ succ[n] \in Linked
PredKnown  == \A n \in Nodes : pred[n] \in LinkedOr /\ (pred[n] # Nobody => n \in Linked)
StabKnown  == \A n \in Nodes : stab[n] \in {"got", "notify"} => n \in Linked
CopyKnown  == \A n \in Nodes : stab[n] = "got" => copy[n].pred \in LinkedOr
LeaveKnown ==
  \A n \in Nodes : leave[n].step \in {"succ", "setSucc", "setPred"} =>
    /\ n \in Linked
    /\ leave[n].p \in Linked /\ leave[n].pPred \in LinkedOr
    /\ leave[n].step # "succ" => leave[n].s \in Linked /\ leave[n].sSucc \in Linked
FindKnown  == \A c \in Nodes \cup {Client} : find[c].step = "found" => find[c].at \in Linked

Known == RingKnown /\ PredKnown /\ StabKnown /\ CopyKnown /\ LeaveKnown /\ FindKnown

(* Going round from First, b comes after a. *)
Later(a, b) == IF a >= First THEN b > a \/ b < First ELSE a < b /\ b < First

(* From a to b First is not passed. *)
Ahead(a, b) == b = First \/ Later(a, b)

(* While nodes only join, no successor skips First. *)
Ordered ==
  /\ First \in Linked
  /\ \A n \in Linked : Ahead(n, succ[n])
  /\ \A n \in Nodes : stab[n] = "got" => copy[n].node = succ[n]
  /\ \A n \in Nodes : leave[n].step \in {"none", "exit"}
  /\ \A n \in Nodes : find[n].step # "none" => find[n].key = n
  /\ \A n \in Nodes : find[n].step = "found" => Ahead(n, find[n].at)

RingInv == (NoneLeft => Known) /\ (NoneLeaves => Ordered)

(* The client's lookup, while nothing has changed since it began. *)
Right(key, n) == \E m \in Members : ElementIn(key, m, succ[m]) /\ n = succ[m]

LookupOK ==
  LET f == find[Client] IN
  /\ op # "none" /\ kept # {} => steady
  /\ op # "none" /\ steady /\ Settled =>
       /\ f.step \in {"ask", "forward"} => f.at \in Members \/ f.at \notin Linked
       /\ f.step = "found" => Right(f.key, f.at)
  /\ Settled => \A k \in kept : \E n \in Nodes : Right(k, n) /\ k \in data[n]

----------------------------------------------------------------------------
(* The nodes that have found a successor and have not ended. *)
Live == {n \in Linked : status[n] \in {"up", "closing"}}

Closing == {n \in Nodes : status[n] = "closing"}

(* What Stabilize has fetched of n's successor does not make it adopt      *)
(* another. *)
Harmless(n) == copy[n].pred = Nobody \/ ~ElementIn(copy[n].pred, n, copy[n].node)

(* The neighbours that a live node knows are alive, and so is whatever it  *)
(* is about to adopt; a join ends with a live successor. *)
LiveRing ==
  /\ \A n \in Linked : status[n] \in {"up", "closing", "left"}
  /\ \A n \in Live : succ[n] \in Live /\ pred[n] \in Live \cup {Nobody}
  /\ \A n \in Nodes \ Linked : pred[n] = Nobody

LiveStab ==
  /\ \A n \in Nodes : stab[n] \in {"got", "notify"} => n \in Linked
  /\ \A n \in Serving : stab[n] = "got" => Harmless(n) \/ (copy[n].node = succ[n] /\ copy[n].pred \in Live)

LiveFind == \A n \in Nodes : find[n].step # "none" =>
              status[n] = "joining" /\ (find[n].step = "found" => find[n].at \in Live)

Leaving ==
  \A n \in Nodes : /\ leave[n].step # "none" => status[n] \in {"closing", "dead"}
                   /\ leave[n].step \in {"succ", "setSucc", "setPred"} => n \in Linked

(* While x leaves, nobody else does and nobody joins, *)
Alone(x) ==
  /\ Closing = {x} /\ stab[x] = "sleep"
  /\ \A n \in Nodes : status[n] # "joining"

(* the others know their neighbours, *)
Others(x) ==
  \A n \in Live \ {x} :
    /\ succ[n] # n /\ pred[succ[n]] \in {n, Nobody}
    /\ \A m \in Live \ {x, n} : succ[m] # succ[n]
    /\ stab[n] = "got" => Harmless(n)

(* and x has its neighbours right, until the one has become the other's.   *)
Neighbours(x) ==
  LET l == leave[x] IN
  /\ \A n \in Live \ {x} : succ[n] = x => n = l.p /\ l.step # "exit"
  /\ \A n \in Live \ {x} : pred[n] = x => n = succ[x] /\ l.step \in {"succ", "setSucc"}
  /\ succ[x] # x
  /\ l.step # "exit" =>
       /\ {l.p, l.pPred} \subseteq Live \ {x}
       /\ succ[l.p] = x /\ succ[l.pPred] = l.p /\ l.p # succ[x]
       /\ \A n \in Live \ {x} : succ[n] # succ[x]
  /\ l.step \in {"setSucc", "setPred"} => l.s = succ[x] /\ l.sSucc = succ[l.s]
  /\ l.step = "setPred" => pred[l.s] \in {l.p, Nobody}

Parting == \A x \in Closing : Alone(x) /\ (x \in Linked => Others(x) /\ Neighbours(x))

PoliteInv == LiveRing /\ LiveStab /\ LiveFind /\ Leaving /\ Parting

----------------------------------------------------------------------------
(* Numbers and names. *)
LEMMA Named ==
  /\ Nodes \subseteq Nat /\ Keys \subseteq Nat /\ First \in Nodes
  /\ Nobody \notin Nat /\ Client \notin Nat /\ Nobody \notin Nodes /\ Client \notin Nodes
BY ChordAssumption

LEMMA TypeInit == Init => TypeOK
<1> SUFFICES ASSUME Init PROVE TypeOK
  OBVIOUS
<1> USE Named
<1>1. /\ status \in [Nodes -> Stati] /\ succ \in [Nodes -> NodeOrNobody] /\ pred \in [Nodes -> NodeOrNobody]
      /\ stab \in [Nodes -> {"sleep", "got", "notify", "ended"}] /\ gone \in [Nodes -> BOOLEAN]
      /\ op \in {"none", "put", "get"} /\ data \in [Nodes -> SUBSET Nat] /\ kept \subseteq Nat
      /\ rude \in BOOLEAN /\ steady \in BOOLEAN
  BY DEF Init, NodeOrNobody, Stati
<1>2. copy \in [Nodes -> [node : NodeOrNobody, pred : NodeOrNobody]]
  BY DEF Init, NodeOrNobody, NoCopy
<1>3. leave \in [Nodes -> Leave]
  BY DEF Init, NodeOrNobody, NoLeave, Leave
<1>4. find \in [Nodes \cup {Client} -> Find]
  BY DEF Init, NodeOrNobody, NoFind, Find
<1> QED BY <1>1, <1>2, <1>3, <1>4 DEF TypeOK

(* The values that the steps write. *)
LEMMA Values ==
  ASSUME TypeOK
  PROVE  /\ NoFind \in Find /\ NoLeave \in Leave
         /\ \A n \in Nodes : n \in Serving /\ succ[n] \in Serving =>
              [node |-> succ[n], pred |-> pred[succ[n]]] \in [node : NodeOrNobody, pred : NodeOrNobody]
         /\ \A n \in Nodes : leave[n] \in Leave
         /\ \A s \in NodeOrNobody, l \in Leave :
              [l EXCEPT !.step = "setSucc", !.s = s,
                !.sSucc = IF s \in Nodes THEN succ[s] ELSE Nobody] \in Leave
<1>1. NoFind \in Find /\ NoLeave \in Leave
  BY DEF NoFind, NoLeave, Find, Leave, NodeOrNobody
<1>2. ASSUME NEW n \in Nodes, succ[n] \in Serving
      PROVE  [node |-> succ[n], pred |-> pred[succ[n]]] \in [node : NodeOrNobody, pred : NodeOrNobody]
  <2>1. succ[n] \in Nodes
    BY <1>2 DEF Serving
  <2>2. pred[succ[n]] \in NodeOrNobody
    BY <2>1 DEF TypeOK
  <2> QED BY <2>1, <2>2 DEF NodeOrNobody
<1>3. \A n \in Nodes : leave[n] \in Leave
  BY DEF TypeOK
<1>4. ASSUME NEW s \in NodeOrNobody, NEW l \in Leave
      PROVE  [l EXCEPT !.step = "setSucc", !.s = s,
                !.sSucc = IF s \in Nodes THEN succ[s] ELSE Nobody] \in Leave
  <2> DEFINE r == IF s \in Nodes THEN succ[s] ELSE Nobody
  <2>1. r \in NodeOrNobody
    BY DEF TypeOK, NodeOrNobody
  <2> HIDE DEF r
  <2>2. [l EXCEPT !.step = "setSucc", !.s = s, !.sSucc = r] \in Leave
    BY <2>1 DEF Leave
  <2> QED BY <2>2 DEF r
<1> QED BY <1>1, <1>2, <1>3, <1>4

(* Every step keeps the types. *)
LEMMA TypeNext ==
  ASSUME TypeOK, [Next]_vars
  PROVE  TypeOK'
<1> USE Named
<1> DEFINE Rest == steady' \in BOOLEAN /\ kept' \subseteq Nat
<1>1. CASE UNCHANGED vars
  BY <1>1 DEF TypeOK, vars
<1>2. CASE Next
  <2>1. Rest
    <3>1. History /\ find[Client].key \in Nat /\ kept \subseteq Nat /\ steady \in BOOLEAN
      BY <1>2 DEF Next, TypeOK, Find
    <3>2. steady' \in BOOLEAN
      BY <3>1 DEF History
    <3>3. kept' \subseteq Nat
      BY <3>1 DEF History
    <3> QED
      BY <3>2, <3>3
  <2> HIDE DEF Rest
  <2>2. ASSUME NEW n \in Nodes, NEW m \in Nodes, Start(n, m) PROVE TypeOK'
    BY <2>1, <2>2 DEF TypeOK, Start, Begin, Stati, NodeOrNobody, Rest, Find
  <2>3. ASSUME NEW n \in Nodes, Join(n) PROVE TypeOK'
    BY <2>1, <2>3 DEF TypeOK, Join, End, NoFind, Stati, NodeOrNobody, Rest, Find
  <2>4. ASSUME NEW n \in Nodes, StabilizeGet(n) PROVE TypeOK'
    <3>1. find' \in [Nodes \cup {Client} -> Find]
      BY <2>4, Values DEF TypeOK, StabilizeGet, End
    <3>2. copy' \in [Nodes -> [node : NodeOrNobody, pred : NodeOrNobody]]
      <4> DEFINE Copies == [node : NodeOrNobody, pred : NodeOrNobody]
                 got == [node |-> succ[n], pred |-> pred[succ[n]]]
      <4>1. copy \in [Nodes -> Copies]
        BY DEF TypeOK
      <4>2. copy' = copy \/ (copy' = [copy EXCEPT ![n] = got] /\ got \in Copies)
        BY <2>4, Values DEF StabilizeGet
      <4> HIDE DEF Copies, got
      <4>3. copy' \in [Nodes -> Copies]
        BY <4>1, <4>2
      <4> QED BY <4>3 DEF Copies
    <3>3. status' \in [Nodes -> Stati] /\ rude' \in BOOLEAN /\ stab' \in [Nodes -> {"sleep", "got", "notify", "ended"}]
      BY <2>4 DEF TypeOK, StabilizeGet, Stati
    <3>4. UNCHANGED <<succ, pred, gone, leave, op, data>>
      BY <2>4 DEF StabilizeGet
    <3> QED
      BY <2>1, <3>1, <3>2, <3>3, <3>4 DEF TypeOK, Rest
  <2>5. ASSUME NEW n \in Nodes, StabilizeAdopt(n) PROVE TypeOK'
    BY <2>1, <2>5 DEF TypeOK, StabilizeAdopt, NoCopy, NodeOrNobody, Rest
  <2>6. ASSUME NEW n \in Nodes, StabilizeNotify(n) PROVE TypeOK'
    BY <2>1, <2>6 DEF TypeOK, StabilizeNotify, NodeOrNobody, Rest
  <2>7. ASSUME NEW n \in Nodes, Check(n) PROVE TypeOK'
    BY <2>1, <2>7 DEF TypeOK, Check, CheckPredecessor, ClearPredecessor, NodeOrNobody, Rest
  <2>8. ASSUME NEW n \in Nodes, CloseGetPredecessor(n) PROVE TypeOK'
    <3>1. leave' \in [Nodes -> Leave]
      BY <2>8 DEF TypeOK, CloseGetPredecessor, Goto, NoLeave, NodeOrNobody, Leave
    <3>2. status' \in [Nodes -> Stati] /\ rude' \in BOOLEAN
      BY <2>8 DEF TypeOK, CloseGetPredecessor, Stati
    <3>3. UNCHANGED <<succ, pred, stab, copy, gone, find, op, data>>
      BY <2>8 DEF CloseGetPredecessor
    <3> QED
      BY <2>1, <3>1, <3>2, <3>3 DEF TypeOK, Rest
  <2>9. ASSUME NEW n \in Nodes, CloseGetSuccessor(n) PROVE TypeOK'
    <3>1. leave' \in [Nodes -> Leave]
      <4>1. [leave[n] EXCEPT !.step = "setSucc", !.s = succ[n],
                !.sSucc = IF succ[n] \in Nodes THEN succ[succ[n]] ELSE Nobody] \in Leave
        BY Values DEF TypeOK
      <4>2. [NoLeave EXCEPT !.step = "exit"] \in Leave
        BY DEF NoLeave, Leave, NodeOrNobody
      <4> QED BY <2>9, <4>1, <4>2 DEF TypeOK, CloseGetSuccessor, Goto
    <3>2. UNCHANGED <<status, succ, pred, stab, copy, gone, find, op, data, rude>>
      BY <2>9 DEF CloseGetSuccessor
    <3> QED
      BY <2>1, <3>1, <3>2 DEF TypeOK, Rest
  <2>10. ASSUME NEW n \in Nodes, CloseSetSuccessor(n) PROVE TypeOK'
    <3>1. leave' \in [Nodes -> Leave]
      BY <2>10 DEF TypeOK, CloseSetSuccessor, Goto, NoLeave, NodeOrNobody, Leave
    <3>2. leave[n] \in Leave
      BY DEF TypeOK
    <3>3. succ' \in [Nodes -> NodeOrNobody] /\ pred' \in [Nodes -> NodeOrNobody]
      BY <2>10, <3>2 DEF TypeOK, CloseSetSuccessor, NodeSet, Leave
    <3>4. UNCHANGED <<status, stab, copy, gone, find, op, data, rude>>
      BY <2>10 DEF CloseSetSuccessor
    <3> QED
      BY <2>1, <3>1, <3>3, <3>4 DEF TypeOK, Rest
  <2>11. ASSUME NEW n \in Nodes, CloseSetPredecessor(n) PROVE TypeOK'
    <3>1. leave' \in [Nodes -> Leave]
      BY <2>11 DEF TypeOK, CloseSetPredecessor, Goto, NoLeave, NodeOrNobody, Leave
    <3>2. leave[n] \in Leave
      BY DEF TypeOK
    <3>3. succ' \in [Nodes -> NodeOrNobody] /\ pred' \in [Nodes -> NodeOrNobody]
      BY <2>11, <3>2 DEF TypeOK, CloseSetPredecessor, NodeSet, Leave
    <3>4. UNCHANGED <<status, stab, copy, gone, find, op, data, rude>>
      BY <2>11 DEF CloseSetPredecessor
    <3> QED
      BY <2>1, <3>1, <3>3, <3>4 DEF TypeOK, Rest
  <2>12. ASSUME NEW n \in Nodes, Exit(n) PROVE TypeOK'
    BY <2>1, <2>12 DEF TypeOK, Exit, NoLeave, NodeOrNobody, Rest, Stati, Leave
  <2>13. ASSUME NEW c \in Nodes \cup {Client}, Lookup(c) PROVE TypeOK'
    <3>1. find[c] \in Find /\ succ \in [Nodes -> NodeOrNobody]
      BY DEF TypeOK
    <3>2. PICK f \in Find : find' = [find EXCEPT ![c] = f]
      <4> DEFINE m == find[c].at
                 s == succ[m]
      <4>1. [find[c] EXCEPT !.step = "failed"] \in Find /\ [find[c] EXCEPT !.step = "forward"] \in Find
        BY <3>1 DEF Find
      <4>2. ASSUME NEW x \in Nodes
            PROVE  /\ [find[c] EXCEPT !.step = "found", !.at = x] \in Find
                   /\ [find[c] EXCEPT !.step = "ask", !.at = x] \in Find
        BY <3>1 DEF Find, NodeOrNobody
      <4>3. CASE m \notin Serving \/ s \notin Serving
        BY <2>13, <4>1, <4>3 DEF Lookup, Ask, Forward
      <4>4. CASE ~(m \notin Serving \/ s \notin Serving)
        <5>1. s \in Nodes
          BY <4>4 DEF Serving
        <5> QED BY <2>13, <4>1, <4>2, <4>4, <5>1 DEF Lookup, Ask, Forward
      <4> QED BY <4>3, <4>4
    <3>3. UNCHANGED <<status, succ, pred, stab, copy, gone, leave, op, data, rude>>
      BY <2>13 DEF Lookup, Ask, Forward
    <3> QED
      BY <2>1, <3>2, <3>3 DEF TypeOK, Rest
  <2>14. ASSUME NEW kind \in {"put", "get"}, NEW n \in Nodes, NEW key \in Keys, Request(kind, n, key)
         PROVE  TypeOK'
    BY <2>1, <2>14 DEF TypeOK, Request, Begin, NodeOrNobody, Rest, Find
  <2>15. CASE Reply
    <3>1. find' \in [Nodes \cup {Client} -> Find] /\ op' \in {"none", "put", "get"}
      BY <2>15 DEF TypeOK, Reply, End, NoFind, NodeOrNobody, Find
    <3>2. data' \in [Nodes -> SUBSET Nat]
      <4>1. find[Client].key \in Nat /\ data \in [Nodes -> SUBSET Nat]
        BY DEF TypeOK, Find
      <4> QED BY <2>15, <4>1 DEF Reply, Serving
    <3>3. UNCHANGED <<status, succ, pred, stab, copy, gone, leave, rude>>
      BY <2>15 DEF Reply
    <3> QED
      BY <2>1, <3>1, <3>2, <3>3 DEF TypeOK, Rest
  <2> QED
    BY <1>2, <2>2, <2>3, <2>4, <2>5, <2>6, <2>7, <2>8, <2>9, <2>10, <2>11, <2>12, <2>13, <2>14, <2>15
       DEF Next, Step, Stabilize, Close
<1> QED
  BY <1>1, <1>2

----------------------------------------------------------------------------
(* A node that has exited does nothing any more, and nobody sets its       *)
(* neighbours.                                                             *)
LEMMA StaysLeft ==
  ASSUME TypeOK, [Next]_vars, NEW n \in Nodes, status[n] = "left"
  PROVE  status'[n] = "left" /\ succ'[n] = succ[n]
<1> SUFFICES ASSUME Step PROVE status'[n] = "left" /\ succ'[n] = succ[n]
  BY DEF Next, vars
<1>1. n \notin Serving
  BY DEF Serving
<1>2. ASSUME NEW o \in Nodes, NEW m \in Nodes, Start(o, m)
      PROVE  status'[n] = "left" /\ succ'[n] = succ[n]
  BY <1>2 DEF Start, TypeOK
<1>3. ASSUME NEW o \in Nodes, Join(o) PROVE status'[n] = "left" /\ succ'[n] = succ[n]
  BY <1>3 DEF Join, TypeOK
<1>4. ASSUME NEW o \in Nodes, Stabilize(o) PROVE status'[n] = "left" /\ succ'[n] = succ[n]
  BY <1>1, <1>4 DEF Stabilize, StabilizeGet, StabilizeAdopt, StabilizeNotify, TypeOK
<1>5. ASSUME NEW o \in Nodes, CloseGetPredecessor(o) PROVE status'[n] = "left" /\ succ'[n] = succ[n]
  BY <1>5 DEF CloseGetPredecessor, TypeOK
<1>6. ASSUME NEW o \in Nodes, Close(o) PROVE status'[n] = "left" /\ succ'[n] = succ[n]
  BY <1>1, <1>6
     DEF Close, CloseGetSuccessor, CloseSetSuccessor, CloseSetPredecessor, NodeSet, Exit, TypeOK
<1>7. ASSUME NEW o \in Nodes, Check(o) PROVE status' = status /\ succ' = succ
  BY <1>7 DEF Check, CheckPredecessor, ClearPredecessor
<1>8. ASSUME NEW c \in Nodes \cup {Client}, Lookup(c) PROVE status' = status /\ succ' = succ
  BY <1>8 DEF Lookup, Ask, Forward
<1>9. ASSUME NEW kind, NEW o, NEW key, Request(kind, o, key) PROVE status' = status /\ succ' = succ
  BY <1>9 DEF Request
<1>10. CASE Reply
  BY <1>10 DEF Reply
<1> QED BY <1>2, <1>3, <1>4, <1>5, <1>6, <1>7, <1>8, <1>9, <1>10 DEF Step

LEMMA NoneHadLeft ==
  ASSUME TypeOK, [Next]_vars, NoneLeft'
  PROVE  NoneLeft
BY StaysLeft DEF NoneLeft, Linked

(* While none of them has exited, the nodes know only nodes that have      *)
(* found a successor, and those do not stop.                               *)
LEMMA KnownStep ==
  ASSUME TypeOK, TypeOK', Known, NoneLeft', Step
  PROVE  Known'
<1> USE Named
<1>1. ASSUME NEW n \in Nodes, NEW m \in Nodes, Start(n, m) PROVE Known'
  <2>1. Linked' = Linked /\ n \notin Linked
    BY <1>1 DEF Start, Known, RingKnown, Linked
  <2>2. RingKnown'
    BY <1>1, <2>1 DEF Start, Known, RingKnown, TypeOK
  <2>3. FindKnown'
    BY <1>1, <2>1 DEF Start, Begin, Known, FindKnown, TypeOK
  <2> QED BY <1>1, <2>1, <2>2, <2>3
     DEF Start, Known, PredKnown, StabKnown, CopyKnown, LeaveKnown, LinkedOr
<1>2. ASSUME NEW n \in Nodes, Join(n) PROVE Known'
  <2>1. n \notin Linked /\ Linked \subseteq Linked' /\ Linked' \subseteq Linked \cup {n}
    BY <1>2 DEF Join, Known, RingKnown, Linked, TypeOK
  <2>2. n \in Linked' => find[n].step = "found" /\ succ'[n] \in Linked
    BY <1>2, <2>1 DEF Join, Known, FindKnown, Linked, TypeOK
  <2>3. RingKnown'
    BY <1>2, <2>1, <2>2 DEF Join, Known, RingKnown, TypeOK, Linked
  <2>4. FindKnown'
    BY <1>2, <2>1 DEF Join, End, NoFind, Known, FindKnown, TypeOK
  <2> QED BY <1>2, <2>1, <2>3, <2>4
     DEF Join, Known, PredKnown, StabKnown, CopyKnown, LeaveKnown, LinkedOr
<1>3. ASSUME NEW n \in Nodes, StabilizeGet(n) PROVE Known'
  <2>1. Linked' = Linked
    BY <1>3 DEF StabilizeGet, Linked
  <2>2. n \in Linked <=> succ[n] \in Serving
    BY DEF Known, RingKnown, Linked, Serving
  <2>3. RingKnown' /\ FindKnown'
    <3>1. n \in Linked => status' = status
      BY <1>3, <2>2 DEF StabilizeGet
    <3>2. \A m \in Nodes : m # n => status'[m] = status[m]
      BY <1>3 DEF StabilizeGet, TypeOK
    <3>3. find' = find \/ find' = [find EXCEPT ![n] = NoFind]
      BY <1>3 DEF StabilizeGet, End
    <3>4. UNCHANGED succ
      BY <1>3 DEF StabilizeGet
    <3>5. RingKnown'
      BY <2>1, <3>1, <3>2, <3>4 DEF Known, RingKnown, Linked
    <3>6. FindKnown'
      BY <2>1, <3>3 DEF Known, FindKnown, TypeOK, NoFind
    <3> QED BY <3>5, <3>6
  <2>4. StabKnown'
    BY <1>3, <2>1, <2>2 DEF StabilizeGet, Known, StabKnown, TypeOK
  <2>5. CopyKnown'
    <3>1. CASE succ[n] \in Serving
      <4>1. copy' = [copy EXCEPT ![n] = [node |-> succ[n], pred |-> pred[succ[n]]]] /\ pred[succ[n]] \in LinkedOr
        BY <1>3, <3>1 DEF StabilizeGet, Known, PredKnown, Serving
      <4>2. copy'[n].pred \in LinkedOr /\ \A m \in Nodes \ {n} : copy'[m] = copy[m]
        BY <4>1 DEF TypeOK
      <4>3. stab' = [stab EXCEPT ![n] = "got"]
        BY <1>3, <3>1 DEF StabilizeGet
      <4> QED BY <2>1, <4>2, <4>3 DEF Known, CopyKnown, LinkedOr, TypeOK
    <3>2. CASE succ[n] \notin Serving
      <4>1. copy' = copy /\ stab' = stab
        BY <1>3, <3>2 DEF StabilizeGet
      <4> QED BY <2>1, <4>1 DEF Known, CopyKnown, LinkedOr
    <3> QED BY <3>1, <3>2
  <2> QED BY <1>3, <2>1, <2>3, <2>4, <2>5 DEF StabilizeGet, Known, PredKnown, LeaveKnown, LinkedOr
<1>4. ASSUME NEW n \in Nodes, StabilizeAdopt(n) PROVE Known'
  <2>1. n \in Linked /\ copy[n].pred \in LinkedOr
    BY <1>4 DEF StabilizeAdopt, Known, StabKnown, CopyKnown
  <2>2. Linked' = Linked
    BY <1>4, <2>1 DEF StabilizeAdopt, Linked, LinkedOr, TypeOK
  <2>3. RingKnown'
    <3>1. status' = status /\ \A m \in Nodes : m # n => succ'[m] = succ[m]
      BY <1>4 DEF StabilizeAdopt, TypeOK
    <3>2. succ'[n] = succ[n] \/ succ'[n] \in Linked
      BY <1>4, <2>1 DEF StabilizeAdopt, LinkedOr, TypeOK
    <3> QED BY <2>2, <3>1, <3>2 DEF Known, RingKnown, Linked
  <2>4. StabKnown' /\ CopyKnown'
    BY <1>4, <2>1, <2>2 DEF StabilizeAdopt, Known, StabKnown, CopyKnown, LinkedOr, TypeOK
  <2> QED BY <1>4, <2>2, <2>3, <2>4
     DEF StabilizeAdopt, Known, PredKnown, LeaveKnown, FindKnown, LinkedOr
<1>5. ASSUME NEW n \in Nodes, StabilizeNotify(n) PROVE Known'
  <2>1. Linked' = Linked /\ n \in Linked /\ succ[n] \in Linked
    BY <1>5 DEF StabilizeNotify, Known, StabKnown, RingKnown, Linked
  <2>2. PredKnown'
    BY <1>5, <2>1 DEF StabilizeNotify, Known, PredKnown, LinkedOr, TypeOK
  <2>3. StabKnown' /\ CopyKnown'
    BY <1>5, <2>1 DEF StabilizeNotify, Known, StabKnown, CopyKnown, LinkedOr, TypeOK
  <2> QED BY <1>5, <2>1, <2>2, <2>3
     DEF StabilizeNotify, Known, RingKnown, LeaveKnown, FindKnown, LinkedOr
<1>6. ASSUME NEW n \in Nodes, Check(n) PROVE Known'
  <2>1. Linked' = Linked
    BY <1>6 DEF Check, CheckPredecessor, ClearPredecessor, Linked
  <2>2. PredKnown'
    BY <1>6, <2>1 DEF Check, CheckPredecessor, ClearPredecessor, Known, PredKnown, LinkedOr, TypeOK
  <2> QED BY <1>6, <2>1, <2>2
     DEF Check, CheckPredecessor, ClearPredecessor, Known, RingKnown, StabKnown,
            CopyKnown, LeaveKnown, FindKnown, LinkedOr
<1>7. ASSUME NEW n \in Nodes, CloseGetPredecessor(n) PROVE Known'
  <2>1. Linked' = Linked
    BY <1>7 DEF CloseGetPredecessor, Linked
  <2>2. RingKnown'
    BY <1>7, <2>1 DEF CloseGetPredecessor, Known, RingKnown, TypeOK
  <2>3. ASSUME pred[n] \in Serving
        PROVE  n \in Linked /\ pred[n] \in Linked /\ pred[pred[n]] \in LinkedOr
    BY <2>3 DEF Known, PredKnown, LinkedOr, Linked, Serving
  <2>4. LeaveKnown'
    BY <1>7, <2>1, <2>3
       DEF CloseGetPredecessor, Goto, NoLeave, Known, LeaveKnown, LinkedOr, TypeOK, Linked
  <2> QED BY <1>7, <2>1, <2>2, <2>4 DEF CloseGetPredecessor, Known, PredKnown, StabKnown, CopyKnown,
            FindKnown, LinkedOr
<1>8. ASSUME NEW n \in Nodes, CloseGetSuccessor(n) PROVE Known'
  <2>1. Linked' = Linked
    BY <1>8 DEF CloseGetSuccessor, Linked
  <2>2. n \in Linked /\ leave[n].p \in Linked /\ leave[n].pPred \in LinkedOr
    BY <1>8 DEF CloseGetSuccessor, Known, LeaveKnown
  <2>3. succ[n] \in Linked /\ succ[n] \in Nodes /\ succ[succ[n]] \in Linked
    BY <2>2 DEF Known, RingKnown, Linked
  <2>4. leave[n] \in Leave
    BY DEF TypeOK
  <2>5. LeaveKnown'
    BY <1>8, <2>1, <2>2, <2>3, <2>4
       DEF CloseGetSuccessor, Goto, NoLeave, Known, LeaveKnown, LinkedOr, TypeOK, Leave
  <2> QED BY <1>8, <2>1, <2>5
     DEF CloseGetSuccessor, Known, RingKnown, PredKnown, StabKnown, CopyKnown,
            FindKnown, LinkedOr
<1>9. ASSUME NEW n \in Nodes, CloseSetSuccessor(n) \/ CloseSetPredecessor(n) PROVE Known'
  <2>1. PICK m \in Linked, p \in LinkedOr, s \in Linked : NodeSet(m, p, s)
    BY <1>9 DEF CloseSetSuccessor, CloseSetPredecessor, Known, LeaveKnown, LinkedOr
  <2>2. Linked' = Linked
    BY <2>1 DEF NodeSet, Linked, TypeOK
  <2>3. RingKnown'
    BY <1>9, <2>1, <2>2
       DEF CloseSetSuccessor, CloseSetPredecessor, NodeSet, Known, RingKnown, TypeOK, Linked
  <2>4. PredKnown'
    BY <2>1, <2>2 DEF NodeSet, Known, PredKnown, TypeOK, Linked, LinkedOr
  <2>5. leave[n] \in Leave
    BY DEF TypeOK
  <2>6. LeaveKnown'
    <3>1. leave[n].step \in {"setSucc", "setPred"}
      BY <1>9 DEF CloseSetSuccessor, CloseSetPredecessor
    <3>2. \/ leave' = [leave EXCEPT ![n] = [leave[n] EXCEPT !.step = "setPred"]]
          \/ leave' = [leave EXCEPT ![n] = [NoLeave EXCEPT !.step = "exit"]]
      BY <1>9 DEF CloseSetSuccessor, CloseSetPredecessor, Goto
    <3>3. \A o \in Nodes : o # n => leave'[o] = leave[o]
      BY <3>2 DEF TypeOK
    <3>4. leave'[n].step = "exit" \/ leave'[n] = [leave[n] EXCEPT !.step = "setPred"]
      BY <3>2 DEF TypeOK, NoLeave
    <3>5. leave'[n].step # "exit" => /\ leave'[n].p = leave[n].p /\ leave'[n].pPred = leave[n].pPred
                                     /\ leave'[n].s = leave[n].s /\ leave'[n].sSucc = leave[n].sSucc
      BY <2>5, <3>4 DEF Leave
    <3> QED BY <2>2, <3>1, <3>3, <3>5 DEF Known, LeaveKnown, LinkedOr
  <2> QED BY <1>9, <2>2, <2>3, <2>4, <2>6
     DEF CloseSetSuccessor, CloseSetPredecessor, Known, StabKnown, CopyKnown,
            FindKnown, LinkedOr
<1>10. ASSUME NEW n \in Nodes, Exit(n) PROVE Known'
  <2>1. Linked' = Linked
    BY <1>10 DEF Exit, Linked
  <2>2. n \notin Linked
    BY <1>10, <2>1 DEF Exit, NoneLeft, TypeOK
  <2>3. RingKnown' /\ LeaveKnown'
    BY <1>10, <2>1, <2>2 DEF Exit, NoLeave, Known, RingKnown, LeaveKnown, LinkedOr, TypeOK
  <2> QED BY <1>10, <2>1, <2>3 DEF Exit, Known, PredKnown, StabKnown, CopyKnown, FindKnown, LinkedOr
<1>11. ASSUME NEW c \in Nodes \cup {Client}, Lookup(c) PROVE Known'
  <2>1. Linked' = Linked
    BY <1>11 DEF Lookup, Ask, Forward, Linked
  <2>2. ASSUME find'[c].step = "found" PROVE find'[c].at \in Linked
    <3>1. find[c].at \in Serving /\ succ[find[c].at] \in Serving /\ find'[c].at = succ[find[c].at]
      <4>1. find[c] \in Find /\ c \in DOMAIN find
        BY DEF TypeOK
      <4>2. CASE Ask(c)
        BY <2>2, <4>1, <4>2 DEF Ask, Find
      <4>3. CASE Forward(c)
        BY <2>2, <4>1, <4>3 DEF Forward, Find
      <4> QED BY <1>11, <4>2, <4>3 DEF Lookup
    <3> QED BY <3>1 DEF Known, RingKnown, Linked, Serving
  <2>3. \A d \in Nodes \cup {Client} : d # c => find'[d] = find[d]
    BY <1>11 DEF Lookup, Ask, Forward, TypeOK
  <2>4. FindKnown'
    BY <2>1, <2>2, <2>3 DEF Known, FindKnown
  <2> QED BY <1>11, <2>1, <2>4
     DEF Lookup, Ask, Forward, Known, RingKnown, PredKnown, StabKnown, CopyKnown,
            LeaveKnown, LinkedOr
<1>12. ASSUME NEW kind, NEW n \in Nodes, NEW key, Request(kind, n, key) PROVE Known'
  <2>1. Linked' = Linked
    BY <1>12 DEF Request, Linked
  <2>2. FindKnown'
    BY <1>12, <2>1 DEF Request, Begin, Known, FindKnown, TypeOK
  <2> QED BY <1>12, <2>1, <2>2
     DEF Request, Known, RingKnown, PredKnown, StabKnown, CopyKnown, LeaveKnown, LinkedOr
<1>13. CASE Reply
  <2>1. Linked' = Linked
    BY <1>13 DEF Reply, Linked
  <2>2. FindKnown'
    BY <1>13, <2>1 DEF Reply, End, NoFind, Known, FindKnown, TypeOK
  <2> QED BY <1>13, <2>1, <2>2
     DEF Reply, Known, RingKnown, PredKnown, StabKnown, CopyKnown, LeaveKnown, LinkedOr
<1> QED BY <1>1, <1>2, <1>3, <1>4, <1>5, <1>6, <1>7, <1>8, <1>9, <1>10, <1>11, <1>12, <1>13
        DEF Step, Stabilize, Close

----------------------------------------------------------------------------
(* A node that has found a successor keeps one, and one that is closing    *)
(* goes on until it exits: it is never stopped by log.Fatal.               *)
LEMMA StaysLinked ==
  ASSUME TypeOK, Known, [Next]_vars, NEW n \in Linked
  PROVE  n \in Linked' /\ (status[n] = "closing" => status'[n] \in {"closing", "left"})
<1> DEFINE Stays == n \in Linked' /\ (status[n] = "closing" => status'[n] \in {"closing", "left"})
<1> SUFFICES ASSUME Step PROVE Stays
  BY DEF Next, vars, Linked
<1> USE Named
<1>1. n \in Nodes /\ succ[n] # Nobody /\ status[n] \in {"up", "closing"} /\ succ[n] \in Serving
  BY DEF Known, RingKnown, Linked, Serving
<1>2. ASSUME succ' = succ, status' = status PROVE Stays
  BY <1>1, <1>2 DEF Linked
<1>3. ASSUME NEW o \in Nodes, NEW m \in Nodes, Start(o, m) PROVE Stays
  BY <1>1, <1>3 DEF Start, TypeOK, Linked
<1>4. ASSUME NEW o \in Nodes, Join(o) PROVE Stays
  BY <1>1, <1>4 DEF Join, TypeOK, Linked
<1>5. ASSUME NEW o \in Nodes, StabilizeGet(o) PROVE Stays
  BY <1>1, <1>5 DEF StabilizeGet, TypeOK, Linked
<1>6. ASSUME NEW o \in Nodes, StabilizeAdopt(o) PROVE Stays
  BY <1>1, <1>6 DEF StabilizeAdopt, TypeOK, Linked
<1>7. ASSUME NEW o \in Nodes, CloseGetPredecessor(o) PROVE Stays
  BY <1>1, <1>7 DEF CloseGetPredecessor, TypeOK, Linked
<1>8. ASSUME NEW o \in Nodes, CloseSetSuccessor(o) \/ CloseSetPredecessor(o) PROVE Stays
  <2>1. PICK m \in Linked, p \in LinkedOr, s \in Linked : NodeSet(m, p, s)
    BY <1>8 DEF CloseSetSuccessor, CloseSetPredecessor, Known, LeaveKnown, LinkedOr
  <2>2. status' = status
    BY <1>8 DEF CloseSetSuccessor, CloseSetPredecessor
  <2> QED BY <1>1, <2>1, <2>2 DEF NodeSet, Linked, TypeOK
<1>9. ASSUME NEW o \in Nodes, Exit(o) PROVE Stays
  BY <1>1, <1>9 DEF Exit, TypeOK, Linked
<1>10. ASSUME NEW o \in Nodes, StabilizeNotify(o) \/ Check(o) \/ CloseGetSuccessor(o)
       PROVE  succ' = succ /\ status' = status
  BY <1>10 DEF StabilizeNotify, Check, CheckPredecessor, ClearPredecessor, CloseGetSuccessor
<1>11. ASSUME NEW c, Lookup(c) PROVE succ' = succ /\ status' = status
  BY <1>11 DEF Lookup, Ask, Forward
<1>12. ASSUME NEW kind, NEW o, NEW key, Request(kind, o, key) PROVE succ' = succ /\ status' = status
  BY <1>12 DEF Request
<1>13. CASE Reply
  BY <1>2, <1>13 DEF Reply
<1> QED BY <1>2, <1>3, <1>4, <1>5, <1>6, <1>7, <1>8, <1>9, <1>10, <1>11, <1>12, <1>13
        DEF Step, Stabilize, Close

LEMMA NoneWereLeaving ==
  ASSUME TypeOK, NoneLeft => Known, [Next]_vars, NoneLeaves'
  PROVE  NoneLeaves /\ NoneLeft
<1>1. NoneLeft' /\ NoneLeft
  BY NoneHadLeft DEF NoneLeft, NoneLeaves
<1>2. ASSUME NEW n \in Linked, status[n] = "closing" PROVE FALSE
  BY <1>1, <1>2, StaysLinked DEF NoneLeaves
<1> QED BY <1>1, <1>2 DEF NoneLeaves, NoneLeft

(* What lies between a and b, when First does not. *)
LEMMA Between ==
  ASSUME NEW a \in Nodes, NEW b \in Nodes, NEW q \in Nodes, Ahead(a, b), ElementIn(q, a, b)
  PROVE  Ahead(a, q) /\ Ahead(q, b)
BY Named DEF Ahead, Later, ElementIn

(* While nodes only join, no successor skips First: neither the answer of  *)
(* a lookup nor the predecessor of the successor lies beyond it.           *)
LEMMA OrderedStep ==
  ASSUME TypeOK, TypeOK', Known, Known', Ordered, NoneLeaves, NoneLeaves', Step
  PROVE  Ordered'
<1> USE Named
<1> DEFINE LeaveKept == \A n \in Nodes : leave'[n].step \in {"none", "exit"}
           FindKept  == \A n \in Nodes : /\ find'[n].step # "none" => find'[n].key = n
                                         /\ find'[n].step = "found" => Ahead(n, find'[n].at)
           RingKept  == /\ First \in Linked'
                        /\ \A n \in Linked' : Ahead(n, succ'[n])
           CopyKept  == \A n \in Nodes : stab'[n] = "got" => copy'[n].node = succ'[n]
<1>1. ASSUME LeaveKept, FindKept, RingKept, CopyKept PROVE Ordered'
  BY <1>1 DEF Ordered, Ahead, Later
<1>2. leave' = leave => LeaveKept
  BY DEF Ordered
<1>3. find' = find => FindKept
  BY DEF Ordered
<1>4. succ' = succ => RingKept
  BY DEF Ordered, Linked
<1>5. stab' = stab /\ copy' = copy /\ succ' = succ => CopyKept
  BY DEF Ordered
<1>6. (\A n \in Nodes : find'[n] = find[n] \/ find'[n].step = "none") => FindKept
  BY DEF Ordered
<1> HIDE DEF LeaveKept, FindKept, RingKept, CopyKept
<1>7. ASSUME NEW n \in Nodes, NEW m \in Nodes, Start(n, m) PROVE Ordered'
  <2>1. FindKept
    BY <1>7 DEF Start, Begin, Ordered, TypeOK, FindKept
  <2> QED BY <1>1, <1>2, <1>4, <1>5, <1>7, <2>1 DEF Start
<1>8. ASSUME NEW n \in Nodes, Join(n) PROVE Ordered'
  <2>1. n \notin Linked
    BY <1>8 DEF Join, Known, RingKnown
  <2>2. stab[n] # "got"
    BY <2>1 DEF Known, StabKnown
  <2>3. \A m \in Nodes : m # n => succ'[m] = succ[m]
    BY <1>8 DEF Join, TypeOK
  <2>4. n \in Linked' => find[n].step = "found" /\ succ'[n] = find[n].at
    BY <1>8 DEF Join, TypeOK, Linked
  <2>5. RingKept
    BY <2>1, <2>3, <2>4 DEF RingKept, Ordered, Linked
  <2>6. CopyKept
    BY <1>8, <2>2, <2>3 DEF CopyKept, Ordered, Join
  <2>7. FindKept
    BY <1>6, <1>8 DEF Join, End, NoFind, TypeOK
  <2> QED BY <1>1, <1>2, <1>8, <2>5, <2>6, <2>7 DEF Join
<1>9. ASSUME NEW n \in Nodes, StabilizeGet(n) PROVE Ordered'
  <2>1. FindKept
    BY <1>6, <1>9 DEF StabilizeGet, End, NoFind, TypeOK
  <2>2. CopyKept
    <3>1. \/ copy' = copy /\ stab' = stab
          \/ copy' = [copy EXCEPT ![n] = [node |-> succ[n], pred |-> pred[succ[n]]]]
             /\ stab' = [stab EXCEPT ![n] = "got"]
      BY <1>9 DEF StabilizeGet
    <3>2. succ' = succ
      BY <1>9 DEF StabilizeGet
    <3>3. \A m \in Nodes : \/ copy'[m] = copy[m] /\ stab'[m] = stab[m]
                           \/ copy'[m].node = succ[m]
      BY <3>1 DEF TypeOK
    <3> QED BY <3>2, <3>3 DEF CopyKept, Ordered
  <2> QED BY <1>1, <1>2, <1>4, <1>9, <2>1, <2>2 DEF StabilizeGet
<1>10. ASSUME NEW n \in Nodes, StabilizeAdopt(n) PROVE Ordered'
  <2>1. n \in Linked /\ copy[n].pred \in LinkedOr /\ copy[n].node = succ[n] /\ succ[n] \in Nodes
    BY <1>10 DEF StabilizeAdopt, Known, StabKnown, CopyKnown, Ordered, RingKnown, Linked
  <2>2. \A m \in Nodes : m # n => succ'[m] = succ[m]
    BY <1>10 DEF StabilizeAdopt, TypeOK
  <2>3. \/ succ'[n] = succ[n]
        \/ succ'[n] \in Linked /\ ElementIn(succ'[n], n, succ[n])
    BY <1>10, <2>1 DEF StabilizeAdopt, LinkedOr, TypeOK
  <2>4. Ahead(n, succ'[n])
    BY <2>1, <2>3, Between DEF Ordered, Linked
  <2>5. RingKept
    BY <2>1, <2>2, <2>3, <2>4 DEF RingKept, Ordered, Linked
  <2>6. CopyKept
    BY <1>10, <2>2 DEF CopyKept, Ordered, StabilizeAdopt, TypeOK
  <2> QED BY <1>1, <1>2, <1>3, <1>10, <2>5, <2>6 DEF StabilizeAdopt
<1>11. ASSUME NEW n \in Nodes, StabilizeNotify(n) PROVE Ordered'
  <2>1. CopyKept
    BY <1>11 DEF StabilizeNotify, CopyKept, Ordered, TypeOK
  <2> QED BY <1>1, <1>2, <1>3, <1>4, <1>11, <2>1 DEF StabilizeNotify
<1>12. ASSUME NEW n \in Nodes, Check(n) PROVE Ordered'
  BY <1>1, <1>2, <1>3, <1>4, <1>5, <1>12 DEF Check, CheckPredecessor, ClearPredecessor
<1>13. ASSUME NEW n \in Nodes, CloseGetPredecessor(n) PROVE Ordered'
  <2>1. n \notin Linked
    BY <1>13 DEF CloseGetPredecessor, NoneLeaves, Linked, TypeOK
  <2>2. pred[n] \notin Serving
    BY <2>1 DEF Known, PredKnown, Serving
  <2>3. LeaveKept
    BY <1>13, <2>2 DEF CloseGetPredecessor, Goto, NoLeave, LeaveKept, Ordered, TypeOK
  <2> QED BY <1>1, <1>3, <1>4, <1>5, <1>13, <2>3 DEF CloseGetPredecessor
<1>14. ASSUME NEW n \in Nodes, CloseGetSuccessor(n) \/ CloseSetSuccessor(n) \/ CloseSetPredecessor(n)
       PROVE  Ordered'
  BY <1>14 DEF CloseGetSuccessor, CloseSetSuccessor, CloseSetPredecessor, Ordered
<1>15. ASSUME NEW n \in Nodes, Exit(n) PROVE Ordered'
  <2>1. LeaveKept
    BY <1>15 DEF Exit, NoLeave, LeaveKept, Ordered, TypeOK
  <2> QED BY <1>1, <1>3, <1>4, <1>5, <1>15, <2>1 DEF Exit
<1>16. ASSUME NEW c \in Nodes \cup {Client}, Lookup(c) PROVE Ordered'
  <2>1. \A d \in Nodes \cup {Client} : d # c => find'[d] = find[d]
    BY <1>16 DEF Lookup, Ask, Forward, TypeOK
  <2>2. /\ find[c].step # "none" /\ find'[c].key = find[c].key
        /\ find'[c].step = "found" =>
             find[c].at \in Linked /\ find'[c].at = succ[find[c].at] /\ ElementIn(find[c].key, find[c].at, succ[find[c].at])
    <3>1. find[c] \in Find /\ c \in DOMAIN find
      BY DEF TypeOK
    <3>2. ASSUME find[c].at \in Serving, succ[find[c].at] \in Serving PROVE find[c].at \in Linked
      BY <3>2 DEF Linked, Serving
    <3>3. CASE Ask(c)
      BY <3>1, <3>2, <3>3 DEF Ask, Find
    <3>4. CASE Forward(c)
      BY <3>1, <3>4 DEF Forward, Find
    <3> QED BY <1>16, <3>3, <3>4 DEF Lookup
  <2>3. ASSUME c \in Nodes, find'[c].step = "found" PROVE Ahead(c, find'[c].at)
    <3>1. find[c].key = c /\ find[c].at \in Nodes /\ succ[find[c].at] \in Nodes /\ Ahead(find[c].at, succ[find[c].at])
      BY <2>2, <2>3 DEF Ordered, Known, RingKnown, Linked
    <3>2. c \in Nodes /\ ElementIn(c, find[c].at, succ[find[c].at]) /\ find'[c].at = succ[find[c].at]
      BY <2>2, <2>3, <3>1
    <3>3. Ahead(c, succ[find[c].at])
      BY <3>1, <3>2, Between
    <3> QED BY <3>2, <3>3
  <2>4. FindKept
    BY <2>1, <2>2, <2>3 DEF FindKept, Ordered
  <2> QED BY <1>1, <1>2, <1>4, <1>5, <1>16, <2>4 DEF Lookup, Ask, Forward
<1>17. ASSUME NEW kind, NEW n \in Nodes, NEW key, Request(kind, n, key) PROVE Ordered'
  <2>1. FindKept
    BY <1>6, <1>17 DEF Request, Begin, TypeOK
  <2> QED BY <1>1, <1>2, <1>4, <1>5, <1>17, <2>1 DEF Request
<1>18. CASE Reply
  <2>1. FindKept
    BY <1>6, <1>18 DEF Reply, End, TypeOK
  <2> QED BY <1>1, <1>2, <1>4, <1>5, <1>18, <2>1 DEF Reply
<1> QED BY <1>7, <1>8, <1>9, <1>10, <1>11, <1>12, <1>13, <1>14, <1>15, <1>16, <1>17, <1>18
        DEF Step, Stabilize, Close

LEMMA RingInit == Init => RingInv
<1> SUFFICES ASSUME Init PROVE RingInv
  OBVIOUS
<1> USE Named
<1>1. Linked = {First} /\ succ[First] = First
  BY DEF Init, Linked
<1>2. Known
  BY <1>1
     DEF Init, Known, RingKnown, PredKnown, StabKnown, CopyKnown, LeaveKnown, FindKnown, LinkedOr, NoLeave, NoFind
<1>3. Ordered
  BY <1>1 DEF Init, Ordered, Ahead, NoLeave, NoFind
<1> QED BY <1>2, <1>3 DEF RingInv

LEMMA RingNext ==
  ASSUME TypeOK, TypeOK', RingInv, [Next]_vars
  PROVE  RingInv'
<1>1. CASE UNCHANGED vars
  BY <1>1
     DEF vars, RingInv, NoneLeft, NoneLeaves, Known, RingKnown, PredKnown, StabKnown, CopyKnown,
      LeaveKnown, FindKnown, Ordered, Linked, LinkedOr, Ahead, Later
<1>2. CASE Next
  <2>1. ASSUME NoneLeft' PROVE Known'
    BY <1>2, <2>1, NoneHadLeft, KnownStep DEF RingInv, Next
  <2>2. ASSUME NoneLeaves' PROVE Ordered'
    <3>1. NoneLeaves /\ NoneLeft /\ Known /\ Ordered
      BY <2>2, NoneWereLeaving DEF RingInv
    <3>2. NoneLeft'
      BY <2>2 DEF NoneLeft, NoneLeaves
    <3> QED BY <1>2, <2>1, <2>2, <3>1, <3>2, OrderedStep DEF Next
  <2> QED BY <2>1, <2>2 DEF RingInv
<1> QED BY <1>1, <1>2

----------------------------------------------------------------------------
(* Walk is the function that its definition describes. *)
LEMMA WalkIs ==
  ASSUME NEW p
  PROVE  \A k \in 0 .. Cardinality(Nodes) :
           Walk(p)[k] = IF k = 0 THEN p ELSE succ[Walk(p)[k - 1]]
<1>1. PICK n \in Nat : n = Cardinality(Nodes)
  BY ChordAssumption, FS_CardinalityType
<1> DEFINE Is(w, m) == w = [k \in 0 .. m |-> IF k = 0 THEN p ELSE succ[w[k - 1]]]
           Bad == {m \in 0 .. n : ~\E w : Is(w, m)}
<1>2. \E w : Is(w, n)
  <2> SUFFICES ASSUME Bad # {} PROVE FALSE
    <3>1. n \in 0 .. n
      OBVIOUS
    <3> QED BY <3>1
  <2>1. Bad \subseteq Nat
    OBVIOUS
  <2>2. PICK m \in Bad : \A y \in Bad : m <= y
    <3> HIDE DEF Bad
    <3> QED BY <2>1, LeastElement
  <2>3. m \in 0 .. n /\ ~\E w : Is(w, m)
    BY <2>2
  <2>4. m # 0
    <3>1. Is([k \in 0 .. 0 |-> p], 0)
      OBVIOUS
    <3> QED BY <3>1, <2>3
  <2>5. m - 1 \notin Bad
    <3>1. m \in Nat /\ m - 1 \in Int /\ ~(m <= m - 1)
      BY <2>3
    <3> HIDE DEF Bad
    <3> QED BY <2>2, <3>1
  <2>6. PICK w : Is(w, m - 1)
    <3>1. m - 1 \in 0 .. n
      BY <2>3, <2>4
    <3> QED BY <3>1, <2>5
  <2> DEFINE v == [k \in 0 .. m |-> IF k = 0 THEN p ELSE succ[w[k - 1]]]
  <2>7. \A k \in 0 .. m : k # 0 => k - 1 \in 0 .. m - 1 /\ k - 1 \in 0 .. m
    BY <2>3
  <2>8. \A k \in 0 .. m - 1 : v[k] = w[k]
    <3>1. \A k \in 0 .. m - 1 : k \in 0 .. m
      BY <2>3
    <3> QED BY <3>1, <2>6
  <2>9. Is(v, m)
    <3>1. \A k \in 0 .. m : k # 0 => v[k - 1] = w[k - 1]
      BY <2>7, <2>8
    <3>2. v = [k \in 0 .. m |-> IF k = 0 THEN p ELSE succ[v[k - 1]]]
      BY <3>1
    <3> QED BY <3>2
  <2> QED BY <2>3, <2>9
<1>3. Walk(p) = CHOOSE w : Is(w, n)
  BY <1>1 DEF Walk
<1>4. Is(Walk(p), n)
  <2> HIDE DEF Is
  <2> QED BY <1>2, <1>3
<1>5. PICK w : w = Walk(p) /\ w = [k \in 0 .. n |-> IF k = 0 THEN p ELSE succ[w[k - 1]]]
  BY <1>4
<1>6. \A k \in 0 .. n : w[k] = IF k = 0 THEN p ELSE succ[w[k - 1]]
  BY <1>5
<1> QED BY <1>1, <1>5, <1>6

(* What holds of the start of a walk and is passed on from a node to its   *)
(* successor holds of the whole walk. *)
LEMMA WalkStays ==
  ASSUME NEW T, \A n \in T : succ[n] \in T,
         NEW p, NEW j \in 0 .. Cardinality(Nodes), Walk(p)[j] \in T
  PROVE  \A k \in j .. Cardinality(Nodes) : Walk(p)[k] \in T
<1>1. PICK N \in Nat : N = Cardinality(Nodes)
  BY ChordAssumption, FS_CardinalityType
<1> DEFINE Bad == {k \in j .. N : Walk(p)[k] \notin T}
<1> SUFFICES ASSUME Bad # {} PROVE FALSE
  BY <1>1
<1>2. j \in Nat
  BY <1>1
<1>3. Bad \subseteq Nat
  BY <1>2
<1>4. PICK k \in Bad : \A y \in Bad : k <= y
  <2> HIDE DEF Bad
  <2> QED BY <1>3, LeastElement
<1>5. k \in j .. N /\ Walk(p)[k] \notin T /\ k # j
  BY <1>4
<1>6. k - 1 \notin Bad
  <2>1. k \in Nat /\ k - 1 \in Int /\ ~(k <= k - 1)
    BY <1>2, <1>5
  <2> HIDE DEF Bad
  <2> QED BY <1>4, <2>1
<1>7. k - 1 \in j .. N /\ k \in 0 .. N /\ k # 0
  BY <1>2, <1>5
<1>8. Walk(p)[k - 1] \in T
  BY <1>6, <1>7
<1>9. Walk(p)[k] = succ[Walk(p)[k - 1]]
  BY <1>1, <1>7, WalkIs
<1> QED BY <1>5, <1>8, <1>9

(* Later orders the nodes. *)
LEMMA LaterOrders ==
  ASSUME NEW a \in Nodes, NEW b \in Nodes, NEW c \in Nodes
  PROVE  ~Later(a, a) /\ (Later(a, b) /\ Later(b, c) => Later(a, c))
BY Named DEF Later

(* So nodes that come one after another do not repeat. *)
LEMMA Climbs ==
  ASSUME NEW f, NEW n \in Nat, \A i \in 0 .. n : f[i] \in Nodes,
         \A i \in 1 .. n : Later(f[i - 1], f[i])
  PROVE  \A i, j \in 0 .. n : i < j => Later(f[i], f[j])
<1> SUFFICES ASSUME NEW i \in 0 .. n PROVE \A j \in 0 .. n : i < j => Later(f[i], f[j])
  OBVIOUS
<1> DEFINE Bad == {j \in 0 .. n : i < j /\ ~Later(f[i], f[j])}
<1> SUFFICES ASSUME Bad # {} PROVE FALSE
  OBVIOUS
<1>1. Bad \subseteq Nat
  OBVIOUS
<1>2. PICK j \in Bad : \A y \in Bad : j <= y
  <2> HIDE DEF Bad
  <2> QED BY <1>1, LeastElement
<1>3. j \in 0 .. n /\ i < j /\ ~Later(f[i], f[j])
  BY <1>2
<1>4. j - 1 \in 0 .. n /\ j \in 1 .. n /\ (i = j - 1 \/ i < j - 1)
  BY <1>3
<1>5. j - 1 \notin Bad
  <2>1. j \in Nat /\ j - 1 \in Int /\ ~(j <= j - 1)
    BY <1>3
  <2> HIDE DEF Bad
  <2> QED BY <1>2, <2>1
<1>6. Later(f[j - 1], f[j])
  BY <1>4
<1>7. i # j - 1
  BY <1>3, <1>6
<1>8. Later(f[i], f[j - 1])
  BY <1>4, <1>5, <1>7
<1>9. f[i] \in Nodes /\ f[j] \in Nodes /\ f[j - 1] \in Nodes
  BY <1>3, <1>4
<1> QED BY <1>3, <1>6, <1>8, <1>9, LaterOrders

(* From a node with a successor the walk stays among such nodes, and goes  *)
(* forward, unless it comes to First. *)
LEMMA WalkAhead ==
  ASSUME Known, Ordered, NEW m \in Linked
  PROVE  /\ \A k \in 0 .. Cardinality(Nodes) : Walk(m)[k] \in Linked /\ Walk(m)[k] \in Nodes
         /\ \A k \in 1 .. Cardinality(Nodes) : Walk(m)[k] = succ[Walk(m)[k - 1]]
         /\ \A k \in 1 .. Cardinality(Nodes) : Walk(m)[k] = First \/ Later(Walk(m)[k - 1], Walk(m)[k])
         /\ Walk(m)[0] = m
<1>1. PICK N \in Nat : N = Cardinality(Nodes)
  BY ChordAssumption, FS_CardinalityType
<1>2. 0 \in 0 .. N /\ Walk(m)[0] = m
  <2>1. 0 \in 0 .. N
    OBVIOUS
  <2> QED BY <1>1, <2>1, WalkIs
<1>3. \A n \in Linked : succ[n] \in Linked /\ n \in Nodes
  BY DEF Known, RingKnown, Linked
<1>4. \A k \in 0 .. N : Walk(m)[k] \in Linked
  BY <1>1, <1>2, <1>3, WalkStays
<1>5. \A k \in 1 .. N : Walk(m)[k] = succ[Walk(m)[k - 1]] /\ k - 1 \in 0 .. N
  <2>1. \A k \in 1 .. N : k \in 0 .. N /\ k # 0 /\ k - 1 \in 0 .. N
    OBVIOUS
  <2> QED BY <1>1, <2>1, WalkIs
<1>6. \A k \in 1 .. N : Ahead(Walk(m)[k - 1], Walk(m)[k])
  BY <1>4, <1>5 DEF Ordered
<1> QED BY <1>1, <1>2, <1>3, <1>4, <1>5, <1>6 DEF Ahead

(* A walk that comes back has passed First. *)
LEMMA PassesFirst ==
  ASSUME Known, Ordered, NEW m \in Linked, NEW k \in 1 .. Cardinality(Nodes), Walk(m)[k] = m
  PROVE  \E j \in 0 .. k : Walk(m)[j] = First
<1> SUFFICES ASSUME \A j \in 0 .. k : Walk(m)[j] # First PROVE FALSE
  OBVIOUS
<1>1. PICK N \in Nat : N = Cardinality(Nodes)
  BY ChordAssumption, FS_CardinalityType
<1>2. k \in 1 .. N /\ k \in Nat /\ 0 < k /\ 0 \in 0 .. k /\ k \in 0 .. k
  BY <1>1
<1>3. /\ \A i \in 0 .. k : i \in 0 .. N
      /\ \A i \in 1 .. k : i \in 1 .. N /\ i \in 0 .. k
  BY <1>2
<1>4. \A i \in 0 .. k : Walk(m)[i] \in Nodes
  BY <1>1, <1>3, WalkAhead
<1>5. \A i \in 1 .. k : Later(Walk(m)[i - 1], Walk(m)[i])
  BY <1>1, <1>3, WalkAhead
<1>6. Later(Walk(m)[0], Walk(m)[k])
  BY <1>2, <1>4, <1>5, Climbs
<1>7. Walk(m)[0] = m /\ m \in Nodes
  BY WalkAhead DEF Linked
<1> QED BY <1>6, <1>7, LaterOrders

(* The walk from First comes back, and the first time it does, it has been *)
(* at every node that is on a ring: they follow one another in the order   *)
(* of their IDs. *)
LEMMA FirstReturns ==
  ASSUME Known, Ordered
  PROVE  \E k \in 1 .. Cardinality(Nodes) : Walk(First)[k] = First
<1> SUFFICES ASSUME \A k \in 1 .. Cardinality(Nodes) : Walk(First)[k] # First PROVE FALSE
  OBVIOUS
<1>1. PICK N \in Nat : N = Cardinality(Nodes)
  BY ChordAssumption, FS_CardinalityType
<1>2. First \in Linked
  BY DEF Ordered
<1>3. \A i \in 0 .. N : Walk(First)[i] \in Nodes
  BY <1>1, <1>2, WalkAhead
<1>4. \A i \in 1 .. N : Later(Walk(First)[i - 1], Walk(First)[i])
  BY <1>1, <1>2, WalkAhead
<1>5. \A i, j \in 0 .. N : i < j => Later(Walk(First)[i], Walk(First)[j])
  BY <1>3, <1>4, Climbs
<1> DEFINE f == [i \in 0 .. N |-> Walk(First)[i]]
<1>6. f \in [0 .. N -> Nodes]
  BY <1>3
<1>7. IsFiniteSet(0 .. N) /\ Cardinality(0 .. N) = N + 1
  <2>1. 0 \in Int /\ N \in Int /\ ~(0 > N) /\ N - 0 + 1 = N + 1
    OBVIOUS
  <2> QED BY <2>1, FS_Interval
<1>8. Cardinality(Nodes) < Cardinality(0 .. N)
  BY <1>1, <1>7
<1>9. PICK x \in 0 .. N, y \in 0 .. N : x # y /\ f[x] = f[y]
  <2> HIDE DEF f
  <2> QED BY <1>6, <1>7, <1>8, ChordAssumption, FS_PigeonHole
<1>10. Walk(First)[x] = Walk(First)[y] /\ (x < y \/ y < x)
  BY <1>9
<1>11. Later(Walk(First)[x], Walk(First)[x])
  BY <1>5, <1>10
<1> QED BY <1>3, <1>11, LaterOrders

(* W goes once round from First, in L steps, and past every node of a ring. *)
IsLap(W, L) ==
  /\ W[L] = First /\ \A i \in 0 .. L : W[i] \in Linked
  /\ \A i, j \in 0 .. L - 1 : i < j => Later(W[i], W[j])
  /\ \A i \in 0 .. L - 1 : succ[W[i]] = W[i + 1]
  /\ \A m \in Linked : OnRing(m) => \E i \in 0 .. L - 1 : m = W[i]

LEMMA Lap ==
  ASSUME Known, Ordered
  PROVE  \E L \in 1 .. Cardinality(Nodes) : \E W : IsLap(W, L)
<1>1. PICK N \in Nat : N = Cardinality(Nodes)
  BY ChordAssumption, FS_CardinalityType
<1>2. First \in Linked
  BY DEF Ordered
<1> DEFINE Returns == {k \in 1 .. N : Walk(First)[k] = First}
<1>3. Returns # {} /\ Returns \subseteq Nat
  BY <1>1, FirstReturns
<1>4. PICK L \in Returns : \A k \in Returns : L <= k
  <2> HIDE DEF Returns
  <2> QED BY <1>3, LeastElement
<1>5. L \in 1 .. N /\ Walk(First)[L] = First
  BY <1>4
<1>6. \A k \in 1 .. L - 1 : Walk(First)[k] # First
  <2>1. \A k \in 1 .. L - 1 : k \in 1 .. N /\ ~(L <= k)
    BY <1>5
  <2> QED BY <1>4, <2>1
<1>7. PICK W : W = Walk(First)
  OBVIOUS
<1>8. /\ \A i \in 0 .. L : i \in 0 .. N
      /\ \A i \in 0 .. L - 1 : i \in 0 .. N /\ i + 1 \in 1 .. N /\ i + 1 - 1 = i
      /\ \A i \in 1 .. L - 1 : i \in 1 .. N
  BY <1>5
<1>9. \A i \in 0 .. L : W[i] \in Linked /\ W[i] \in Nodes
  BY <1>1, <1>2, <1>7, <1>8, WalkAhead
<1>10. \A i \in 0 .. L - 1 : succ[W[i]] = W[i + 1]
  <2> SUFFICES ASSUME NEW i \in 0 .. L - 1 PROVE succ[W[i]] = W[i + 1]
    OBVIOUS
  <2>1. i + 1 \in 1 .. N /\ i + 1 - 1 = i
    BY <1>8
  <2>2. \A k \in 1 .. N : W[k] = succ[W[k - 1]]
    BY <1>1, <1>2, <1>7, WalkAhead
  <2>3. W[i + 1] = succ[W[i + 1 - 1]]
    BY <2>1, <2>2
  <2> QED BY <2>1, <2>3
<1>11. \A i, j \in 0 .. L - 1 : i < j => Later(W[i], W[j])
  <2>1. L - 1 \in Nat /\ \A i \in 0 .. L - 1 : i \in 0 .. L
    BY <1>5
  <2>2. \A i \in 1 .. L - 1 : Later(W[i - 1], W[i])
    BY <1>1, <1>2, <1>6, <1>7, <1>8, WalkAhead
  <2> QED BY <1>9, <2>1, <2>2, Climbs
<1>12. ASSUME NEW m \in Linked, OnRing(m) PROVE \E i \in 0 .. L - 1 : m = W[i]
  <2> DEFINE T == {W[i] : i \in 0 .. L - 1}
  <2>1. First \in T
    <3>1. 0 \in 0 .. L - 1
      BY <1>5
    <3>2. W[0] = First
      BY <1>2, <1>7, WalkAhead
    <3> QED BY <3>1, <3>2
  <2>2. ASSUME NEW n \in T PROVE succ[n] \in T
    <3>1. PICK i \in 0 .. L - 1 : n = W[i]
      OBVIOUS
    <3>2. succ[n] = W[i + 1]
      BY <1>10, <3>1
    <3>3. i + 1 \in 0 .. L - 1 \/ i + 1 = L
      BY <1>5
    <3> QED BY <1>5, <1>7, <2>1, <3>2, <3>3
  <2>3. PICK k \in 1 .. N : Walk(m)[k] = m
    BY <1>1, <1>12 DEF OnRing
  <2>4. PICK j \in 0 .. k : Walk(m)[j] = First
    BY <1>1, <2>3, PassesFirst
  <2>5. j \in 0 .. N /\ k \in j .. N
    BY <2>3, <2>4
  <2>6. Walk(m)[j] \in T /\ \A n \in T : succ[n] \in T
    BY <2>1, <2>2, <2>4
  <2>7. Walk(m)[k] \in T
    <3> HIDE DEF T
    <3>1. \A i \in j .. N : Walk(m)[i] \in T
      BY <1>1, <2>5, <2>6, WalkStays
    <3> QED BY <2>5, <3>1
  <2> QED BY <2>3, <2>7
<1> QED
  <2>1. L \in 1 .. Cardinality(Nodes) /\ W[L] = First
    BY <1>1, <1>5, <1>7
  <2> QED BY <1>9, <1>10, <1>11, <1>12, <2>1 DEF IsLap

(* A node strictly between another and its successor comes later than the  *)
(* one and, unless that is First, before the other. *)
LEMMA StrictlyBetween ==
  ASSUME NEW n \in Nodes, NEW s \in Nodes, NEW m \in Nodes,
         Ahead(n, s), ElementIn(m, n, s), m \notin {n, s}
  PROVE  Later(n, m) /\ (s # First => Later(m, s))
BY Named DEF Ahead, Later, ElementIn

LEMMA RingOrdered == TypeOK /\ RingInv => OneOrderedRing
<1> SUFFICES ASSUME TypeOK, RingInv, \A n \in Nodes : status[n] \notin {"closing", "left"}
             PROVE  LET ring == {n \in Members : OnRing(n)} IN
                      /\ \A n \in Members : succ[n] \in Members /\ (pred[n] # Nobody => pred[n] \in Members)
                      /\ ring # {}
                      /\ \A n, m \in ring : ~(m \notin {n, succ[n]} /\ ElementIn(m, n, succ[n]))
  BY DEF OneOrderedRing
<1>1. Known /\ Ordered
  BY DEF RingInv, NoneLeft, NoneLeaves, Linked
<1>2. Members = Linked
  BY <1>1 DEF Known, RingKnown, Members, Linked
<1>3. \A n \in Members : succ[n] \in Members /\ (pred[n] # Nobody => pred[n] \in Members)
  BY <1>1, <1>2 DEF Known, RingKnown, PredKnown, LinkedOr, Linked
<1> DEFINE ring == {n \in Members : OnRing(n)}
<1>4. First \in ring
  BY <1>1, <1>2, FirstReturns DEF OnRing, Ordered
<1>5. ASSUME NEW n \in ring, NEW m \in ring, m \notin {n, succ[n]}, ElementIn(m, n, succ[n])
      PROVE  FALSE
  <2>0. PICK L \in 1 .. Cardinality(Nodes) : \E W : IsLap(W, L)
    BY <1>1, Lap
  <2>1. PICK W : IsLap(W, L)
    BY <2>0
  <2>2. L \in Nat /\ L > 0
    BY ChordAssumption, FS_CardinalityType
  <2>3. PICK i \in 0 .. L - 1, j \in 0 .. L - 1 : n = W[i] /\ m = W[j]
    BY <1>2, <2>1 DEF IsLap
  <2>4. n \in Nodes /\ m \in Nodes /\ succ[n] \in Nodes /\ Ahead(n, succ[n])
    BY <1>1, <1>2 DEF Known, RingKnown, Ordered, Linked
  <2>5. Later(W[i], W[j]) /\ (succ[n] # First => Later(W[j], succ[n]))
    BY <1>5, <2>3, <2>4, StrictlyBetween
  <2>6. \A a, b \in 0 .. L - 1 : W[a] \in Nodes /\ (Later(W[a], W[b]) => a < b)
    <3> SUFFICES ASSUME NEW a \in 0 .. L - 1, NEW b \in 0 .. L - 1
                 PROVE  W[a] \in Nodes /\ (Later(W[a], W[b]) => a < b)
      OBVIOUS
    <3>1. a \in 0 .. L /\ b \in 0 .. L /\ (a < b \/ a = b \/ b < a)
      BY <2>2
    <3>2. W[a] \in Nodes /\ W[b] \in Nodes
      BY <2>1, <3>1 DEF Linked, IsLap
    <3>3. ASSUME b < a, Later(W[a], W[b]) PROVE FALSE
      <4>1. Later(W[b], W[a])
        BY <2>1, <3>3 DEF IsLap
      <4> QED BY <3>2, <3>3, <4>1, LaterOrders
    <3>4. ~Later(W[a], W[a])
      BY <3>2, LaterOrders
    <3> QED BY <3>1, <3>2, <3>3, <3>4
  <2>7. i < j /\ i + 1 \in 0 .. L - 1
    BY <2>2, <2>5, <2>6
  <2>8. succ[n] = W[i + 1]
    BY <2>1, <2>3 DEF IsLap
  <2>9. succ[n] # First
    <3>1. W[0] = First
      <4>1. PICK k \in 0 .. L - 1 : First = W[k]
        BY <1>2, <1>4, <2>1 DEF IsLap
      <4>2. ASSUME k # 0 PROVE FALSE
        <5>1. 0 \in 0 .. L - 1 /\ 0 < k
          BY <2>2, <4>1, <4>2
        <5>2. Later(W[0], First)
          BY <2>1, <4>1, <5>1 DEF IsLap
        <5>3. W[0] \in Nodes
          BY <2>6, <5>1
        <5>4. \A a \in Nodes : ~Later(a, First)
          BY Named DEF Later
        <5> QED BY <5>2, <5>3, <5>4
      <4> QED BY <4>1, <4>2
    <3>2. 0 \in 0 .. L - 1 /\ 0 < i + 1
      BY <2>2, <2>3
    <3>3. Later(W[0], W[i + 1])
      BY <2>1, <2>7, <3>2 DEF IsLap
    <3>4. First \in Nodes
      BY Named
    <3> QED BY <2>8, <3>1, <3>3, <3>4, LaterOrders
  <2>10. Later(W[j], W[i + 1])
    BY <2>5, <2>8, <2>9
  <2>11. j < i + 1
    BY <2>3, <2>6, <2>7, <2>10
  <2> QED BY <2>7, <2>11
<1> QED BY <1>3, <1>4, <1>5

----------------------------------------------------------------------------
(* A node that has joined has a next one: the other with the least ID      *)
(* above its own or, failing that, with the least ID. *)
LEMMA NextIs ==
  ASSUME NEW n \in Members
  PROVE  /\ NextOf(n) \in Members
         /\ Members # {n} => NextOf(n) # n
         /\ \A o \in Members \ {NextOf(n), n} : ~ElementIn(o, n, NextOf(n))
<1>1. Members \subseteq Nat
  BY Named DEF Members
<1>2. CASE Members = {n}
  BY <1>2 DEF NextOf
<1>3. CASE Members # {n}
  <2> DEFINE Next1(m) == \A o \in Members \ {m, n} : ~ElementIn(o, n, m)
             Above == {o \in Members : o > n}
  <2>1. \E m \in Members \ {n} : Next1(m)
    <3>1. CASE Above # {}
      <4>1. PICK m \in Above : \A o \in Above : m <= o
        <5>1. Above \subseteq Nat
          BY <1>1
        <5> HIDE DEF Above
        <5> QED BY <3>1, <5>1, LeastElement
      <4>2. m \in Members /\ m > n /\ m \in Nat /\ n \in Nat
        BY <1>1, <4>1
      <4>3. \A o \in Members : o > n => m <= o
        BY <4>1
      <4>4. ASSUME NEW o \in Members \ {m, n} PROVE ~ElementIn(o, n, m)
        <5>1. o \in Nat /\ (o > n => m <= o) /\ o # m
          BY <1>1, <4>3
        <5> QED BY <4>2, <5>1 DEF ElementIn
      <4> QED BY <4>2, <4>4
    <3>2. CASE Above = {}
      <4>1. Members \ {n} # {}
        BY <1>3
      <4>2. PICK m \in Members \ {n} : \A o \in Members \ {n} : m <= o
        <5>1. Members \ {n} \subseteq Nat
          BY <1>1
        <5> QED BY <4>1, <5>1, LeastElement
      <4>3. \A o \in Members : o <= n
        BY <1>1, <3>2
      <4>4. ASSUME NEW o \in Members \ {m, n} PROVE ~ElementIn(o, n, m)
        <5>1. o \in Nat /\ m \in Nat /\ n \in Nat /\ o <= n /\ m <= n /\ m <= o /\ m # n /\ o # n
          BY <1>1, <4>2, <4>3
        <5> QED BY <5>1 DEF ElementIn
      <4> QED BY <4>4
    <3> QED BY <3>1, <3>2
  <2>2. NextOf(n) = CHOOSE m \in Members \ {n} : Next1(m)
    BY <1>3 DEF NextOf
  <2> HIDE DEF Next1
  <2>3. NextOf(n) \in Members \ {n} /\ Next1(NextOf(n))
    BY <2>1, <2>2
  <2> QED BY <2>3 DEF Next1
<1> QED BY <1>2, <1>3

(* Between two nodes and the next ones of these lies no key twice. *)
LEMMA OneRight ==
  ASSUME Settled, NEW key \in Nat, NEW a, NEW b, Right(key, a), Right(key, b)
  PROVE  a = b
<1>1. PICK m \in Members : ElementIn(key, m, NextOf(m)) /\ a = NextOf(m)
  BY DEF Right, Settled
<1>2. PICK n \in Members : ElementIn(key, n, NextOf(n)) /\ b = NextOf(n)
  BY DEF Right, Settled
<1> SUFFICES ASSUME m # n PROVE FALSE
  BY <1>1, <1>2
<1>3. /\ a \in Members /\ a # m /\ (n = a \/ ~ElementIn(n, m, a))
      /\ b \in Members /\ b # n /\ (m = b \/ ~ElementIn(m, n, b))
  BY <1>1, <1>2, NextIs
<1>4. m \in Nat /\ n \in Nat /\ a \in Nat /\ b \in Nat
  BY <1>3, Named DEF Members
<1> QED BY <1>1, <1>2, <1>3, <1>4 DEF ElementIn

LEMMA RightServes ==
  ASSUME Settled, NEW key, NEW n, Right(key, n)
  PROVE  n \in Members /\ n \in Nodes /\ n \in Serving
BY NextIs DEF Settled, Right, Members, Serving

(* The ring, when neither a successor nor a status has changed. *)
LEMMA Unchanged ==
  ASSUME succ' = succ, status' = status
  PROVE  /\ Members' = Members /\ Linked' = Linked /\ Settled' = Settled
         /\ \A key, n : Right(key, n)' = Right(key, n)
<1>1. Members' = Members /\ Linked' = Linked
  BY DEF Members, Linked
<1>2. Settled' = Settled
  BY <1>1 DEF Settled, NextOf, ElementIn
<1> QED BY <1>1, <1>2 DEF Right, ElementIn

(* What a step does with the client's lookup. *)
LEMMA ClientStep ==
  ASSUME TypeOK, Step
  PROVE  \/ op' = op /\ data' = data /\ find'[Client] = find[Client]
         \/ op' = op /\ data' = data /\ Lookup(Client)
         \/ \E kind \in {"put", "get"}, n \in Nodes, key \in Keys : Request(kind, n, key)
         \/ Reply
<1> USE Named
<1>1. ASSUME NEW n \in Nodes, NEW m \in Nodes, Start(n, m)
      PROVE  op' = op /\ data' = data /\ find'[Client] = find[Client]
  BY <1>1 DEF Start, Begin, TypeOK
<1>2. ASSUME NEW n \in Nodes, Join(n) \/ StabilizeGet(n)
      PROVE  op' = op /\ data' = data /\ find'[Client] = find[Client]
  BY <1>2 DEF Join, StabilizeGet, End, TypeOK
<1>3. ASSUME NEW n \in Nodes, \/ StabilizeAdopt(n) \/ StabilizeNotify(n) \/ Check(n) \/ CloseGetPredecessor(n)
                              \/ Close(n)
      PROVE  op' = op /\ data' = data /\ find' = find
  BY <1>3
     DEF StabilizeAdopt, StabilizeNotify, Check, CheckPredecessor, ClearPredecessor, CloseGetPredecessor,
     Close, CloseGetSuccessor, CloseSetSuccessor, CloseSetPredecessor, Exit
<1>4. ASSUME NEW c \in Nodes \cup {Client}, Lookup(c), c # Client
      PROVE  op' = op /\ data' = data /\ find'[Client] = find[Client]
  BY <1>4 DEF Lookup, Ask, Forward, TypeOK
<1>5. ASSUME Lookup(Client) PROVE op' = op /\ data' = data
  BY <1>5 DEF Lookup, Ask, Forward
<1> QED BY <1>1, <1>2, <1>3, <1>4, <1>5 DEF Step, Stabilize

(* A lookup that goes from node to node finds the right one, while nothing *)
(* changes. *)
LEMMA LookupFinds ==
  ASSUME TypeOK, Settled, Lookup(Client), succ' = succ, status' = status,
         find[Client].at \in Members \/ find[Client].at \notin Linked
  PROVE  /\ find'[Client].step \in {"ask", "forward"} => find'[Client].at \in Members \/ find'[Client].at \notin Linked
         /\ find'[Client].step = "found" => Right(find'[Client].key, find'[Client].at)
<1> DEFINE m == find[Client].at
           s == succ[m]
<1>1. find[Client] \in Find /\ Client \in DOMAIN find
  BY DEF TypeOK
<1>2. ASSUME m \in Serving, s \in Serving PROVE m \in Members /\ s \in Members
  <2>1. m \in Members
    BY <1>2, Named DEF Linked, Serving
  <2> QED BY <2>1, NextIs DEF Settled
<1>3. CASE Ask(Client)
  <2>1. \/ find'[Client] = [find[Client] EXCEPT !.step = "failed"]
        \/ find'[Client] = [find[Client] EXCEPT !.step = "forward"]
        \/ m \in Members /\ ElementIn(find[Client].key, m, s)
           /\ find'[Client] = [find[Client] EXCEPT !.step = "found", !.at = s]
    BY <1>1, <1>2, <1>3 DEF Ask
  <2> QED BY <1>1, <2>1 DEF Find, Right
<1>4. CASE Forward(Client)
  <2>1. \/ find'[Client] = [find[Client] EXCEPT !.step = "failed"]
        \/ s \in Members /\ find'[Client] = [find[Client] EXCEPT !.step = "ask", !.at = s]
    BY <1>1, <1>2, <1>4 DEF Forward
  <2> QED BY <1>1, <2>1 DEF Find
<1> QED BY <1>3, <1>4 DEF Lookup

LEMMA LookupInit == Init => LookupOK
BY DEF Init, LookupOK

LEMMA LookupNext ==
  ASSUME TypeOK, LookupOK, [Next]_vars
  PROVE  LookupOK'
<1> USE Named
<1>1. CASE UNCHANGED vars
  <2>1. /\ Members' = Members /\ Linked' = Linked /\ Settled' = Settled
        /\ \A key, n : Right(key, n)' = Right(key, n)
    BY <1>1, Unchanged DEF vars
  <2> QED BY <1>1, <2>1 DEF vars, LookupOK
<1>2. CASE Next /\ (succ' # succ \/ status' # status)
  <2>1. kept' = {} /\ steady' = FALSE
    BY <1>2 DEF Next, History
  <2> QED BY <2>1 DEF LookupOK
<1>3. CASE Next /\ succ' = succ /\ status' = status
  <2>1. /\ Members' = Members /\ Linked' = Linked /\ Settled' = Settled
        /\ \A key, n : Right(key, n)' = Right(key, n)
    BY <1>3, Unchanged
  <2>2. /\ steady' = (op' # "none" /\ (op = "none" \/ steady))
        /\ kept' = IF op = "put" /\ op' = "none" /\ steady /\ find[Client].step = "found"
                   THEN kept \cup {find[Client].key} ELSE kept
    BY <1>3 DEF Next, History
  <2>3. CASE op' = op /\ data' = data /\ find'[Client] = find[Client]
    BY <2>1, <2>2, <2>3 DEF LookupOK
  <2>4. CASE op' = op /\ data' = data /\ Lookup(Client)
    <3>1. kept' = kept /\ (op # "none" => steady' = steady)
      BY <2>2, <2>4 DEF TypeOK
    <3>2. find[Client].step \in {"ask", "forward"}
      BY <2>4 DEF Lookup, Ask, Forward
    <3>3. ASSUME op # "none", steady, Settled
          PROVE  /\ find'[Client].step \in {"ask", "forward"} => find'[Client].at \in Members \/ find'[Client].at \notin Linked
                 /\ find'[Client].step = "found" => Right(find'[Client].key, find'[Client].at)
      BY <1>3, <2>4, <3>2, <3>3, LookupFinds DEF LookupOK
    <3> QED BY <2>1, <2>4, <3>1, <3>3 DEF LookupOK
  <2>5. ASSUME NEW kind \in {"put", "get"}, NEW n \in Nodes, NEW key \in Keys, Request(kind, n, key)
        PROVE  LookupOK'
    <3>1. op = "none" /\ op' = kind /\ data' = data /\ kept' = kept /\ steady' = TRUE
      BY <2>2, <2>5 DEF Request
    <3>2. find'[Client] = [key |-> key, at |-> n, step |-> "ask"]
      BY <2>5 DEF Request, Begin, TypeOK
    <3>3. n \in Members \/ n \notin Linked
      BY <2>5 DEF Request, Members, Linked
    <3> QED BY <2>1, <3>1, <3>2, <3>3 DEF LookupOK
  <2>6. CASE Reply
    <3>1. op' = "none"
      BY <2>6 DEF Reply
    <3>2. \A n \in Nodes : data[n] \subseteq data'[n]
      BY <2>6 DEF Reply, TypeOK
    <3>3. ASSUME Settled, op = "put", steady, find[Client].step = "found"
          PROVE  \E n \in Nodes : Right(find[Client].key, n) /\ find[Client].key \in data'[n]
      <4>1. Right(find[Client].key, find[Client].at)
        BY <3>3 DEF LookupOK
      <4>2. find[Client].at \in Serving /\ find[Client].at \in Nodes
        BY <3>3, <4>1, RightServes
      <4>3. find[Client].key \in data'[find[Client].at]
        BY <2>6, <3>3, <4>2 DEF Reply, TypeOK
      <4> QED BY <4>1, <4>2, <4>3
    <3>4. ASSUME Settled, NEW k \in kept' PROVE \E n \in Nodes : Right(k, n) /\ k \in data'[n]
      <4>1. k \in kept \/ (op = "put" /\ steady /\ find[Client].step = "found" /\ k = find[Client].key)
        BY <2>2, <3>4
      <4> QED BY <3>2, <3>3, <3>4, <4>1 DEF LookupOK
    <3> QED BY <2>1, <3>1, <3>4 DEF LookupOK
  <2> QED BY <1>3, <2>3, <2>4, <2>5, <2>6, ClientStep DEF Next
<1> QED BY <1>1, <1>2, <1>3

LEMMA LookupGets == TypeOK /\ LookupOK => GetFindsPut
<1> SUFFICES ASSUME TypeOK, LookupOK, Settled, op = "get", find[Client].step = "found", find[Client].key \in kept
             PROVE  find[Client].key \in data[find[Client].at]
  BY DEF GetFindsPut
<1>1. Right(find[Client].key, find[Client].at)
  BY DEF LookupOK
<1>2. PICK n \in Nodes : Right(find[Client].key, n) /\ find[Client].key \in data[n]
  BY DEF LookupOK
<1>3. find[Client].key \in Nat
  BY DEF TypeOK
<1> QED BY <1>1, <1>2, <1>3, OneRight

----------------------------------------------------------------------------
(* What an ideal ring of three or more looks like from each of its nodes. *)
LEMMA IdealRing ==
  ASSUME TypeOK, Ideal, Cardinality(Members) >= 3
  PROVE  /\ \A n \in Members : /\ succ[n] \in Members /\ succ[n] # n /\ succ[succ[n]] # n
                               /\ pred[n] \in Members /\ succ[pred[n]] = n /\ pred[succ[n]] = n
         /\ \A n, o \in Members : ElementIn(o, n, succ[n]) => o \in {n, succ[n]}
<1> USE Named
<1>1. IsFiniteSet(Members) /\ Members \subseteq Nat
  <2>1. Members \in SUBSET Nodes
    BY DEF Members
  <2> QED BY <2>1, FS_Subset, ChordAssumption
<1>2. ASSUME NEW a, NEW b PROVE \E o \in Members : o \notin {a, b}
  <2>1. IsFiniteSet({a}) /\ Cardinality({a}) = 1
    BY FS_Singleton
  <2>2. IsFiniteSet({a} \cup {b}) /\ Cardinality({a} \cup {b}) \in {1, 2}
    <3>1. /\ IsFiniteSet({a} \cup {b})
          /\ Cardinality({a} \cup {b}) = IF b \in {a} THEN Cardinality({a}) ELSE Cardinality({a}) + 1
      BY ONLY <2>1, FS_AddElement
    <3> QED BY ONLY <2>1, <3>1
  <2>3. ASSUME Members \subseteq {a} \cup {b} PROVE FALSE
    <3>1. Cardinality(Members) <= Cardinality({a} \cup {b})
      BY <2>2, <2>3, FS_Subset
    <3>2. Cardinality(Members) \in Nat
      BY <1>1, FS_CardinalityType
    <3> QED BY <2>2, <3>1, <3>2
  <2> QED BY <2>3
<1>3. \A n \in Members : succ[n] = NextOf(n) /\ pred[succ[n]] = n
  BY DEF Ideal
<1>4. \A n \in Members : /\ succ[n] \in Members /\ succ[n] # n
                         /\ \A o \in Members \ {succ[n], n} : ~ElementIn(o, n, succ[n])
  BY <1>2, <1>3, NextIs
<1>5. ASSUME NEW n \in Members PROVE succ[succ[n]] # n
  <2>1. PICK o \in Members : o \notin {n, succ[n]}
    BY <1>2
  <2>2. n \in Nat /\ succ[n] \in Nat /\ o \in Nat
    BY <1>1, <1>4
  <2>3. ~ElementIn(o, n, succ[n]) /\ ~(succ[succ[n]] = n /\ ElementIn(o, succ[n], n))
    BY <1>4, <2>1
  <2> QED BY <1>4, <2>1, <2>2, <2>3 DEF ElementIn
<1>6. ASSUME NEW n \in Members PROVE \E m \in Members : succ[m] = n
  <2> DEFINE f == [m \in Members |-> succ[m]]
  <2>1. f \in Injection(Members, Members)
    BY <1>3, <1>4 DEF Injection, IsInjective
  <2>2. f \in Surjection(Members, Members)
    <3> HIDE DEF f
    <3> QED BY <1>1, <2>1, FS_Injection
  <2> QED BY <2>2 DEF Surjection
<1>7. \A n \in Members : pred[n] \in Members /\ succ[pred[n]] = n
  BY <1>3, <1>6
<1> QED BY <1>3, <1>4, <1>5, <1>7

LEMMA LiveServes ==
  /\ Live \subseteq Linked /\ Live \subseteq Serving /\ Live \subseteq Nodes
  /\ \A n \in Linked : n \in Serving /\ LiveRing => n \in Live
  /\ \A n \in Nodes : n \in Serving /\ succ[n] \in Serving => n \in Linked
BY Named DEF Live, Linked, Serving, LiveRing

LEMMA EndsOut == \A a, b \in Nodes : a # b => ~ElementIn(a, a, b) /\ ~ElementIn(b, a, b)
BY Named DEF ElementIn

(* While nodes join or leave politely: those that are alive know the live, *)
(* and a node that exits is known to nobody. *)
LEMMA PoliteStep ==
  ASSUME TypeOK, TypeOK', PoliteInv, ~rude', Step
  PROVE  PoliteInv'
<1> USE Named
<1> DEFINE Same == status' = status /\ succ' = succ
<1>0. /\ Same => Linked' = Linked /\ Live' = Live /\ Closing' = Closing /\ Serving' = Serving
      /\ Same /\ pred' = pred => LiveRing'
      /\ Same /\ stab' = stab /\ copy' = copy => LiveStab'
      /\ Same /\ find' = find => LiveFind'
      /\ Same /\ leave' = leave => Leaving'
      /\ Same /\ stab' = stab /\ copy' = copy /\ pred' = pred /\ leave' = leave => Parting'
  <2>1. Same => Linked' = Linked /\ Live' = Live /\ Closing' = Closing /\ Serving' = Serving
    BY DEF Linked, Live, Closing, Serving
  <2>2. Same /\ pred' = pred => LiveRing'
    BY <2>1 DEF PoliteInv, LiveRing
  <2>3. Same /\ stab' = stab /\ copy' = copy => LiveStab'
    BY <2>1 DEF PoliteInv, LiveStab, Harmless, ElementIn
  <2>4. Same /\ find' = find => LiveFind'
    BY <2>1 DEF PoliteInv, LiveFind
  <2>5. Same /\ leave' = leave => Leaving'
    BY <2>1 DEF PoliteInv, Leaving
  <2>6. Same /\ stab' = stab /\ copy' = copy /\ pred' = pred /\ leave' = leave => Parting'
    BY <2>1 DEF PoliteInv, Parting, Alone, Others, Neighbours, Harmless, ElementIn
  <2> QED BY <2>1, <2>2, <2>3, <2>4, <2>5, <2>6
<1>1. ASSUME NEW n \in Nodes, NEW m \in Nodes, Start(n, m) PROVE PoliteInv'
  <2>1. Closing = {} /\ n \notin Linked
    BY <1>1 DEF Start, Closing, PoliteInv, LiveRing
  <2>2. Linked' = Linked /\ Live' = Live /\ Closing' = {}
    BY <1>1, <2>1 DEF Start, Linked, Live, Closing, TypeOK
  <2>3. Parting' /\ LiveRing'
    BY <1>1, <2>1, <2>2 DEF Start, Parting, PoliteInv, LiveRing, TypeOK
  <2>4. LiveStab'
    <3>1. stab[n] # "got" /\ \A k \in Nodes : k # n => (k \in Serving' <=> k \in Serving)
      BY <1>1, <2>1 DEF Start, Serving, PoliteInv, LiveStab, TypeOK
    <3>2. Serving' \subseteq Nodes
      BY DEF Serving
    <3> QED BY <1>1, <2>2, <3>1, <3>2 DEF Start, PoliteInv, LiveStab, Harmless, ElementIn
  <2>5. LiveFind'
    BY <1>1, <2>2 DEF Start, Begin, PoliteInv, LiveFind, TypeOK
  <2>6. Leaving'
    BY <1>1, <2>1, <2>2 DEF Start, PoliteInv, Leaving, TypeOK
  <2> QED BY <2>3, <2>4, <2>5, <2>6 DEF PoliteInv
<1>2. ASSUME NEW n \in Nodes, Join(n) PROVE PoliteInv'
  <2>1. Closing = {} /\ n \notin Linked /\ n \in Serving
    BY <1>2 DEF Join, Closing, PoliteInv, Parting, Alone, LiveRing, Serving
  <2>2. Closing' = {} /\ Serving' = Serving
    BY <1>2, <2>1 DEF Join, Closing, Serving, TypeOK
  <2>3. succ'[n] = Nobody \/ succ'[n] \in Live
    BY <1>2 DEF Join, PoliteInv, LiveFind, TypeOK
  <2>4. status'[n] = "up" /\ \A m \in Nodes : m # n => succ'[m] = succ[m] /\ status'[m] = status[m]
    BY <1>2 DEF Join, TypeOK
  <2>5. /\ Linked' = Linked \cup {k \in {n} : succ'[n] # Nobody}
        /\ Live' = Live \cup {k \in {n} : succ'[n] # Nobody}
    BY <2>1, <2>4 DEF Linked, Live
  <2>6. LiveRing'
    BY <1>2, <2>1, <2>3, <2>4, <2>5, LiveServes DEF Join, PoliteInv, LiveRing
  <2>7. LiveStab'
    <3>1. UNCHANGED <<stab, copy>> /\ stab[n] \notin {"got", "notify"}
      BY <1>2, <2>1 DEF Join, PoliteInv, LiveStab
    <3>2. Linked \subseteq Linked' /\ Live \subseteq Live' /\ Serving \subseteq Nodes
      BY <2>5 DEF Serving
    <3> QED BY <2>2, <2>4, <3>1, <3>2 DEF PoliteInv, LiveStab, Harmless, ElementIn
  <2>8. LiveFind'
    BY <1>2, <2>4, <2>5 DEF Join, End, NoFind, PoliteInv, LiveFind, TypeOK
  <2>9. Leaving'
    BY <1>2, <2>1, <2>4, <2>5 DEF Join, PoliteInv, Leaving
  <2>10. Parting'
    BY <2>2 DEF Parting
  <2> QED BY <2>6, <2>7, <2>8, <2>9, <2>10 DEF PoliteInv
<1>3. ASSUME NEW n \in Nodes, StabilizeGet(n), n \in Linked PROVE PoliteInv'
  <2>1. n \in Live /\ succ[n] \in Live /\ succ[n] \in Serving /\ succ[n] \in Nodes
    BY <1>3, LiveServes DEF StabilizeGet, PoliteInv, LiveRing
  <2>2. /\ copy' = [copy EXCEPT ![n] = [node |-> succ[n], pred |-> pred[succ[n]]]]
        /\ stab' = [stab EXCEPT ![n] = "got"] /\ status[n] # "closing"
        /\ UNCHANGED <<status, find, succ, pred, gone, leave, op, data>>
    BY <1>3, <2>1 DEF StabilizeGet, TypeOK
  <2>3. /\ \A m \in Nodes : m # n => copy'[m] = copy[m] /\ stab'[m] = stab[m]
        /\ copy'[n].node = succ[n] /\ copy'[n].pred = pred[succ[n]] /\ stab'[n] = "got"
    BY <2>2 DEF TypeOK
  <2>4. pred[succ[n]] \in Live \cup {Nobody}
    BY <2>1 DEF PoliteInv, LiveRing
  <2>5. LiveStab'
    <3>1. copy'[n].pred = Nobody \/ (copy'[n].node = succ'[n] /\ copy'[n].pred \in Live')
      BY <1>0, <2>2, <2>3, <2>4
    <3> QED BY <1>0, <1>3, <2>2, <2>3, <3>1 DEF PoliteInv, LiveStab, Harmless, ElementIn, Serving
  <2>6. Parting'
    <3> SUFFICES ASSUME NEW x \in Closing, x \in Linked => Others(x) /\ Neighbours(x), Alone(x)
                 PROVE  Alone(x)' /\ (x \in Linked => Others(x)' /\ Neighbours(x)')
      BY <1>0, <2>2 DEF PoliteInv, Parting
    <3>1. x # n /\ x \in Nodes
      BY <2>2 DEF Closing
    <3>2. Alone(x)'
      BY <1>0, <2>2, <2>3, <3>1 DEF Alone
    <3>3. ASSUME x \in Linked PROVE Others(x)'
      <4>1. n \in Live \ {x} /\ succ[n] # n /\ pred[succ[n]] \in {n, Nobody}
        BY <2>1, <3>1, <3>3 DEF Others
      <4>2. ~ElementIn(n, n, succ[n])
        BY <2>1, <4>1, EndsOut
      <4>3. Harmless(n)'
        BY <2>3, <4>1, <4>2 DEF Harmless, ElementIn
      <4> QED BY <1>0, <2>2, <2>3, <3>3, <4>3, LiveServes DEF Others, Harmless, ElementIn
    <3>4. ASSUME x \in Linked PROVE Neighbours(x)'
      BY <1>0, <2>2, <3>4 DEF Neighbours
    <3> QED BY <3>2, <3>3, <3>4
  <2> QED BY <1>0, <2>2, <2>5, <2>6 DEF PoliteInv
<1>4. ASSUME NEW n \in Nodes, StabilizeGet(n), n \notin Linked PROVE PoliteInv'
  <2>1. succ[n] \notin Serving
    BY <1>4 DEF Linked, Serving
  <2>2. /\ status' = [status EXCEPT ![n] = "dead"] /\ find' = [find EXCEPT ![n] = NoFind]
        /\ UNCHANGED <<succ, pred, stab, copy, gone, leave, op, data>>
    BY <1>4, <2>1 DEF StabilizeGet, End
  <2>3. /\ status'[n] = "dead" /\ \A m \in Nodes : m # n => status'[m] = status[m]
        /\ find'[n].step = "none" /\ \A m \in Nodes : m # n => find'[m] = find[m]
    BY <2>2 DEF TypeOK, NoFind
  <2>4. Linked' = Linked /\ Live' = Live /\ Closing' = Closing \ {n} /\ Serving' \subseteq Serving
    BY <1>4, <2>2, <2>3 DEF Linked, Live, Closing, Serving
  <2>5. LiveRing'
    BY <1>4, <2>2, <2>3, <2>4, LiveServes DEF PoliteInv, LiveRing
  <2>8. Leaving'
    BY <2>2, <2>3, <2>4 DEF PoliteInv, Leaving
  <2>9. LiveFind'
    BY <2>3, <2>4 DEF PoliteInv, LiveFind
  <2>6. LiveStab'
    BY <2>2, <2>4 DEF PoliteInv, LiveStab, Harmless, ElementIn
  <2>7. Parting'
    BY <2>2, <2>3, <2>4 DEF PoliteInv, Parting, Alone, Others, Neighbours, Harmless, ElementIn
  <2> QED BY <2>5, <2>6, <2>7, <2>8, <2>9 DEF PoliteInv
<1>5. ASSUME NEW n \in Nodes, StabilizeAdopt(n) PROVE PoliteInv'
  <2>1. n \in Live /\ n \in Serving /\ stab[n] = "got" /\ (Harmless(n) \/ copy[n].pred \in Live)
    BY <1>5, LiveServes DEF StabilizeAdopt, PoliteInv, LiveStab
  <2>2. /\ \A m \in Nodes : m # n => succ'[m] = succ[m] /\ stab'[m] = stab[m] /\ copy'[m] = copy[m]
        /\ succ'[n] = succ[n] \/ (succ'[n] \in Live /\ ~Harmless(n))
        /\ stab'[n] = "notify"
        /\ UNCHANGED <<status, pred, gone, leave, find, op, data>>
    BY <1>5, <2>1 DEF StabilizeAdopt, Harmless, TypeOK
  <2>3. Linked' = Linked /\ Live' = Live /\ Closing' = Closing /\ Serving' = Serving
    <3>1. status' = status /\ succ[n] # Nobody /\ succ'[n] # Nobody
      BY <2>1, <2>2, LiveServes DEF Linked
    <3>2. \A m \in Nodes : succ'[m] # Nobody <=> succ[m] # Nobody
      BY <2>2, <3>1
    <3> QED BY <3>1, <3>2 DEF Linked, Live, Closing, Serving
  <2>4. LiveRing' /\ LiveFind' /\ Leaving'
    BY <2>1, <2>2, <2>3, LiveServes DEF PoliteInv, LiveRing, LiveFind, Leaving
  <2>5. LiveStab'
    BY <2>1, <2>2, <2>3, LiveServes DEF PoliteInv, LiveStab, Harmless, ElementIn, Serving
  <2>6. Parting'
    <3> SUFFICES ASSUME NEW x \in Closing, x \in Linked => Others(x) /\ Neighbours(x), Alone(x)
                 PROVE  Alone(x)' /\ (x \in Linked => Others(x)' /\ Neighbours(x)')
      BY <2>3 DEF PoliteInv, Parting
    <3>1. x # n /\ x \in Nodes
      BY <2>1 DEF Closing, Alone
    <3>2. Alone(x)'
      BY <2>2, <2>3, <3>1 DEF Alone
    <3>3. ASSUME x \in Linked PROVE succ' = succ
      <4>1. Harmless(n)
        BY <2>1, <3>1, <3>3 DEF Others
      <4> QED BY <1>5, <4>1 DEF StabilizeAdopt, Harmless, TypeOK
    <3>4. ASSUME x \in Linked PROVE Others(x)'
      BY <2>2, <2>3, <3>3, <3>4, LiveServes DEF Others, Harmless, ElementIn
    <3>5. ASSUME x \in Linked PROVE Neighbours(x)'
      BY <2>2, <2>3, <3>3, <3>5 DEF Neighbours
    <3> QED BY <3>2, <3>4, <3>5
  <2> QED BY <2>4, <2>5, <2>6 DEF PoliteInv
<1>6. ASSUME NEW n \in Nodes, StabilizeNotify(n) PROVE PoliteInv'
  <2>1. n \in Live /\ n \in Serving /\ succ[n] \in Live /\ stab[n] = "notify"
    BY <1>6, LiveServes DEF StabilizeNotify, PoliteInv, LiveStab, LiveRing
  <2>2. /\ \A m \in Nodes : m # n => stab'[m] = stab[m]
        /\ stab'[n] \in {"ended", "sleep"}
        /\ \A m \in Nodes : m # succ[n] => pred'[m] = pred[m]
        /\ pred'[succ[n]] = pred[succ[n]] \/ pred'[succ[n]] = n
        /\ UNCHANGED <<status, succ, copy, gone, leave, find, op, data>>
    BY <1>6, <2>1, LiveServes DEF StabilizeNotify, TypeOK
  <2>3. LiveRing'
    BY <1>0, <2>1, <2>2, LiveServes DEF PoliteInv, LiveRing, Linked
  <2>4. LiveStab'
    BY <1>0, <2>1, <2>2 DEF PoliteInv, LiveStab, Harmless, ElementIn, Serving
  <2>5. Parting'
    <3> SUFFICES ASSUME NEW x \in Closing, x \in Linked => Others(x) /\ Neighbours(x), Alone(x)
                 PROVE  Alone(x)' /\ (x \in Linked => Others(x)' /\ Neighbours(x)')
      BY <1>0, <2>2 DEF PoliteInv, Parting
    <3>1. x # n /\ x \in Nodes
      BY <2>1 DEF Closing, Alone
    <3>2. Alone(x)'
      BY <1>0, <2>2, <3>1 DEF Alone
    <3>3. ASSUME x \in Linked, NEW k \in Live \ {x} PROVE pred'[succ[k]] \in {k, Nobody}
      <4>1. k # n => succ[k] # succ[n]
        BY <2>1, <3>1, <3>3 DEF Others
      <4>2. pred[succ[k]] \in {k, Nobody} /\ succ[k] \in Nodes
        BY <3>3, LiveServes DEF Others, PoliteInv, LiveRing
      <4> QED BY <2>2, <4>1, <4>2
    <3>4. ASSUME x \in Linked PROVE Others(x)'
      BY <1>0, <2>2, <3>3, <3>4, LiveServes DEF Others, Harmless, ElementIn
    <3>5. ASSUME x \in Linked PROVE Neighbours(x)'
      <4>1. \A k \in Live \ {x} : pred'[k] = x => pred[k] = x
        BY <2>2, <3>1, LiveServes
      <4>2. leave[x].step = "setPred" => pred'[leave[x].s] = pred[leave[x].s]
        <5>1. leave[x].step = "setPred" => leave[x].s = succ[x] /\ succ[n] # succ[x] /\ succ[x] \in Nodes
          BY <2>1, <3>1, <3>5, LiveServes DEF Neighbours, PoliteInv, LiveRing, Closing, Live
        <5> QED BY <2>2, <5>1
      <4> QED BY <1>0, <2>2, <3>5, <4>1, <4>2 DEF Neighbours
    <3> QED BY <3>2, <3>4, <3>5
  <2> QED BY <1>0, <2>2, <2>3, <2>4, <2>5 DEF PoliteInv
<1>7. ASSUME NEW n \in Nodes, Check(n) PROVE PoliteInv'
  <2>1. /\ \A m \in Nodes : pred'[m] = pred[m] \/ pred'[m] = Nobody
        /\ UNCHANGED <<status, succ, stab, copy, leave, find, op, data>>
    BY <1>7 DEF Check, CheckPredecessor, ClearPredecessor, TypeOK
  <2>2. LiveRing'
    BY <1>0, <2>1, LiveServes DEF PoliteInv, LiveRing, Linked
  <2>3. Parting'
    <3> SUFFICES ASSUME NEW x \in Closing, x \in Linked, Others(x), Neighbours(x)
                 PROVE  Others(x)' /\ Neighbours(x)'
      BY <1>0, <2>1 DEF PoliteInv, Parting, Alone
    <3>1. x \in Live /\ x \in Nodes /\ succ[x] \in Live /\ \A k \in Live : k \in Nodes /\ succ[k] \in Nodes
      BY LiveServes DEF Closing, Live, PoliteInv, LiveRing
    <3>2. Others(x)'
      BY <1>0, <2>1, <3>1 DEF Others, Harmless, ElementIn
    <3>3. Neighbours(x)'
      BY <1>0, <2>1, <3>1 DEF Neighbours
    <3> QED BY <3>2, <3>3
  <2> QED BY <1>0, <2>1, <2>2, <2>3 DEF PoliteInv
<1>8. ASSUME NEW x \in Nodes, CloseGetPredecessor(x) PROVE PoliteInv'
  <2>1. /\ Ideal /\ Cardinality(Members) >= 3 /\ stab[x] = "sleep" /\ status[x] = "up"
        /\ status' = [status EXCEPT ![x] = "closing"]
        /\ UNCHANGED <<succ, pred, stab, copy, gone, find, op, data>>
    BY <1>8 DEF CloseGetPredecessor, Polite, TypeOK
  <2>2. /\ status'[x] = "closing" /\ \A n \in Nodes : n # x => status'[n] = status[n]
        /\ \A n \in Nodes : status[n] \notin {"joining", "closing"}
    BY <2>1 DEF Ideal, TypeOK
  <2>3. /\ Linked' = Linked /\ Live' = Live /\ Closing' = {x} /\ Serving' = Serving /\ Live = Members
    BY <2>1, <2>2 DEF Linked, Live, Closing, Serving, Members
  <2>4. LiveRing' /\ LiveStab' /\ LiveFind'
    BY <2>1, <2>2, <2>3 DEF PoliteInv, LiveRing, LiveStab, LiveFind, Harmless, ElementIn
  <2>5. Alone(x)'
    BY <2>1, <2>2, <2>3 DEF Alone
  <2>6. CASE x \notin Linked
    <3>1. pred[x] \notin Serving
      BY <2>6 DEF PoliteInv, LiveRing, Serving
    <3>2. leave'[x].step = "exit" /\ \A n \in Nodes : n # x => leave'[n] = leave[n]
      BY <1>8, <3>1 DEF CloseGetPredecessor, Goto, NoLeave, TypeOK
    <3>3. Leaving'
      BY <2>2, <2>3, <3>2 DEF PoliteInv, Leaving
    <3>4. Parting'
      BY <2>3, <2>5, <2>6 DEF Parting
    <3> QED BY <2>4, <3>3, <3>4 DEF PoliteInv
  <2>7. CASE x \in Linked
    <3>1. x \in Members
      BY <2>1, <2>7 DEF Members, Linked
    <3> DEFINE p == pred[x]
    <3>2. /\ \A n \in Members : /\ succ[n] \in Members /\ succ[n] # n /\ succ[succ[n]] # n
                                /\ pred[n] \in Members /\ succ[pred[n]] = n /\ pred[succ[n]] = n
          /\ \A n, o \in Members : ElementIn(o, n, succ[n]) => o \in {n, succ[n]}
      BY <2>1, IdealRing
    <3>3. p \in Members /\ p \in Serving /\ p \in Nodes
      BY <3>1, <3>2 DEF Members, Serving
    <3>4. /\ leave'[x] = [NoLeave EXCEPT !.step = "succ", !.p = p, !.pPred = pred[p]]
          /\ \A n \in Nodes : n # x => leave'[n] = leave[n]
      BY <1>8, <3>3 DEF CloseGetPredecessor, Goto, TypeOK
    <3>5. leave'[x].step = "succ" /\ leave'[x].p = p /\ leave'[x].pPred = pred[p]
      BY <3>4 DEF NoLeave
    <3>6. Leaving'
      BY <2>2, <2>3, <2>7, <3>4, <3>5 DEF PoliteInv, Leaving
    <3>7. ASSUME NEW n \in Members, stab[n] = "got" PROVE Harmless(n)
      <4>1. n \in Nodes /\ n \in Serving /\ succ[n] \in Nodes /\ succ[n] # n
        BY <3>2 DEF Members, Serving
      <4>2. ~ElementIn(n, n, succ[n]) /\ ~ElementIn(succ[n], n, succ[n])
        BY <4>1, EndsOut
      <4> QED BY <2>3, <3>2, <3>7, <4>1, <4>2 DEF PoliteInv, LiveStab, Harmless
    <3>8. Others(x)'
      BY <2>1, <2>3, <3>2, <3>7 DEF Others, Harmless, ElementIn
    <3>9. Neighbours(x)'
      <4>1. p # succ[x] /\ pred[p] \in Members /\ pred[p] # x /\ p # x /\ succ[pred[p]] = p /\ succ[p] = x
        BY <3>1, <3>2
      <4>2. \A n \in Live : (succ[n] = x => n = p) /\ (pred[n] = x => n = succ[x]) /\ (n # x => succ[n] # succ[x])
        BY <2>3, <3>1, <3>2
      <4> QED BY <2>1, <2>3, <3>1, <3>2, <3>3, <3>5, <4>1, <4>2 DEF Neighbours
    <3>10. Parting'
      BY <2>3, <2>5, <3>8, <3>9 DEF Parting
    <3> QED BY <2>4, <3>6, <3>10 DEF PoliteInv
  <2> QED BY <2>6, <2>7
<1>9. ASSUME NEW x \in Nodes, CloseGetSuccessor(x) PROVE PoliteInv'
  <2>1. Same /\ UNCHANGED <<pred, stab, copy, gone, find, op, data, rude>>
    BY <1>9 DEF CloseGetSuccessor
  <2>2. leave[x].step = "succ" /\ x \in Closing /\ x \in Linked /\ x \in Live /\ leave[x] \in Leave
    BY <1>9 DEF CloseGetSuccessor, PoliteInv, Leaving, Serving, Closing, Live, TypeOK
  <2>3. succ[x] \in Live /\ succ[x] \in Serving /\ succ[x] \in Nodes
    BY <2>2, LiveServes DEF PoliteInv, LiveRing
  <2>4. /\ leave'[x] = [leave[x] EXCEPT !.step = "setSucc", !.s = succ[x], !.sSucc = succ[succ[x]]]
        /\ \A n \in Nodes : n # x => leave'[n] = leave[n]
    BY <1>9, <2>3 DEF CloseGetSuccessor, Goto, TypeOK
  <2>5. /\ leave'[x].step = "setSucc" /\ leave'[x].p = leave[x].p /\ leave'[x].pPred = leave[x].pPred
        /\ leave'[x].s = succ[x] /\ leave'[x].sSucc = succ[succ[x]]
    BY <2>2, <2>4 DEF Leave
  <2>6. Leaving'
    BY <1>0, <2>1, <2>2, <2>4, <2>5 DEF PoliteInv, Leaving, Closing
  <2>7. Alone(x) /\ Others(x) /\ Neighbours(x) /\ Closing = {x}
    BY <2>2 DEF PoliteInv, Parting, Alone
  <2>8. Alone(x)' /\ Others(x)'
    BY <1>0, <2>1, <2>7 DEF Alone, Others, Harmless, ElementIn
  <2>9. Neighbours(x)'
    BY <1>0, <2>1, <2>2, <2>5, <2>7 DEF Neighbours
  <2>10. Parting'
    BY <1>0, <2>1, <2>7, <2>8, <2>9 DEF Parting
  <2> QED BY <1>0, <2>1, <2>6, <2>10 DEF PoliteInv
<1>10. ASSUME NEW x \in Nodes, CloseSetSuccessor(x) PROVE PoliteInv'
  <2> DEFINE l == leave[x]
  <2>1. UNCHANGED <<status, stab, copy, gone, find, op, data, rude>>
    BY <1>10 DEF CloseSetSuccessor
  <2>2. l.step = "setSucc" /\ x \in Closing /\ x \in Linked /\ x \in Live /\ l \in Leave
    BY <1>10 DEF CloseSetSuccessor, PoliteInv, Leaving, Serving, Closing, Live, TypeOK
  <2>3. Alone(x) /\ Others(x) /\ Neighbours(x) /\ Closing = {x}
    BY <2>2 DEF PoliteInv, Parting, Alone
  <2>4. /\ l.s = succ[x] /\ l.s \in Live /\ l.s \in Serving /\ l.s \in Nodes /\ l.sSucc = succ[l.s]
        /\ l.p \in Live \ {x} /\ l.p \in Nodes
    BY <2>2, <2>3, LiveServes DEF PoliteInv, LiveRing, Neighbours
  <2>5. succ' = succ
    BY <1>10, <2>4 DEF CloseSetSuccessor, NodeSet, TypeOK
  <2>6. pred'[l.s] = l.p /\ \A n \in Nodes : n # l.s => pred'[n] = pred[n]
    BY <1>10, <2>4 DEF CloseSetSuccessor, NodeSet, TypeOK
  <2>7. /\ leave'[x] = [l EXCEPT !.step = "setPred"]
        /\ \A n \in Nodes : n # x => leave'[n] = leave[n]
    BY <1>10, <2>4 DEF CloseSetSuccessor, Goto, TypeOK
  <2>8. /\ leave'[x].step = "setPred" /\ leave'[x].p = l.p /\ leave'[x].pPred = l.pPred
        /\ leave'[x].s = l.s /\ leave'[x].sSucc = l.sSucc
    BY <2>2, <2>7 DEF Leave
  <2>9. LiveRing'
    BY <1>0, <2>1, <2>4, <2>5, <2>6, LiveServes DEF PoliteInv, LiveRing
  <2>10. Leaving'
    BY <1>0, <2>1, <2>2, <2>5, <2>7, <2>8 DEF PoliteInv, Leaving, Closing
  <2>11. Alone(x)'
    BY <1>0, <2>1, <2>3, <2>5 DEF Alone
  <2>12. Others(x)'
    <3>1. ASSUME NEW n \in Live \ {x} PROVE pred'[succ[n]] = pred[succ[n]]
      <4>1. succ[n] # succ[x]
        BY <2>2, <2>3 DEF Neighbours
      <4>2. succ[n] \in Nodes
        BY LiveServes DEF PoliteInv, LiveRing
      <4> QED BY <2>4, <2>6, <4>1, <4>2
    <3> QED BY <1>0, <2>1, <2>3, <2>5, <3>1 DEF Others, Harmless, ElementIn
  <2>13. Neighbours(x)'
    <3>1. \A n \in Live \ {x} : pred'[n] # x
      BY <2>3, <2>4, <2>6, LiveServes DEF Neighbours
    <3> QED BY <1>0, <2>1, <2>2, <2>3, <2>4, <2>5, <2>6, <2>8, <3>1 DEF Neighbours
  <2>14. Parting'
    BY <1>0, <2>1, <2>3, <2>5, <2>11, <2>12, <2>13 DEF Parting
  <2> QED BY <1>0, <2>1, <2>5, <2>9, <2>10, <2>14 DEF PoliteInv
<1>11. ASSUME NEW x \in Nodes, CloseSetPredecessor(x) PROVE PoliteInv'
  <2> DEFINE l == leave[x]
  <2>1. UNCHANGED <<status, stab, copy, gone, find, op, data, rude>>
    BY <1>11 DEF CloseSetPredecessor
  <2>2. l.step = "setPred" /\ x \in Closing /\ x \in Linked /\ x \in Live /\ l \in Leave
    BY <1>11 DEF CloseSetPredecessor, PoliteInv, Leaving, Serving, Closing, Live, TypeOK
  <2>3. Alone(x) /\ Others(x) /\ Neighbours(x) /\ Closing = {x}
    BY <2>2 DEF PoliteInv, Parting, Alone
  <2>4. /\ l.s = succ[x] /\ l.s \in Live /\ l.s \in Nodes /\ l.s # l.p /\ l.s # x /\ pred[l.s] \in {l.p, Nobody}
        /\ l.p \in Live \ {x} /\ l.p \in Nodes /\ l.p \in Serving /\ succ[l.p] = x
        /\ l.pPred \in Live \ {x} /\ succ[l.pPred] = l.p
    BY <2>2, <2>3, LiveServes DEF PoliteInv, LiveRing, Neighbours
  <2>5. succ'[l.p] = l.s /\ \A n \in Nodes : n # l.p => succ'[n] = succ[n]
    BY <1>11, <2>4 DEF CloseSetPredecessor, NodeSet, TypeOK
  <2>6. pred'[l.p] = l.pPred /\ \A n \in Nodes : n # l.p => pred'[n] = pred[n]
    BY <1>11, <2>4 DEF CloseSetPredecessor, NodeSet, TypeOK
  <2>7. leave'[x].step = "exit" /\ \A n \in Nodes : n # x => leave'[n] = leave[n]
    BY <1>11, <2>4 DEF CloseSetPredecessor, Goto, NoLeave, TypeOK
  <2>8. Linked' = Linked /\ Live' = Live /\ Closing' = Closing /\ Serving' = Serving
    <3>1. \A n \in Nodes : succ'[n] # Nobody <=> succ[n] # Nobody
      BY <2>4, <2>5
    <3> QED BY <2>1, <3>1 DEF Linked, Live, Closing, Serving
  <2>9. LiveRing'
    BY <2>1, <2>4, <2>5, <2>6, <2>8, LiveServes DEF PoliteInv, LiveRing
  <2>10. Leaving'
    BY <2>1, <2>2, <2>7, <2>8 DEF PoliteInv, Leaving, Closing
  <2>11. LiveFind' /\ Alone(x)'
    BY <2>1, <2>3, <2>8 DEF PoliteInv, LiveFind, Alone
  <2>12. LiveStab'
    <3>1. ASSUME NEW n \in Serving, stab[n] = "got" PROVE Harmless(n)
      BY <2>3, <3>1, LiveServes DEF PoliteInv, LiveStab, Alone, Others, Serving
    <3> QED BY <2>1, <2>8, <3>1 DEF PoliteInv, LiveStab, Harmless, ElementIn
  <2>13. Others(x)'
    <3>1. ASSUME NEW n \in Live \ {x}
          PROVE  /\ succ'[n] # n /\ pred'[succ'[n]] \in {n, Nobody}
                 /\ \A m \in Live \ {x, n} : succ'[m] # succ'[n]
      <4>1. n \in Nodes /\ succ[n] \in Nodes /\ succ[n] # n /\ pred[succ[n]] \in {n, Nobody} /\ succ[n] # l.s
        BY <2>2, <2>3, <2>4, LiveServes DEF Others, Neighbours, PoliteInv, LiveRing
      <4>2. \A m \in Live \ {x, n} : m \in Nodes /\ succ[m] # succ[n] /\ succ[m] # l.s
        BY <2>2, <2>3, <2>4, LiveServes DEF Others, Neighbours
      <4>3. succ[n] = l.p => n = l.pPred
        BY <2>3, <2>4 DEF Others
      <4> QED BY <2>4, <2>5, <2>6, <4>1, <4>2, <4>3
    <3> QED BY <2>1, <2>3, <2>8, <3>1 DEF Others, Harmless, ElementIn
  <2>14. Neighbours(x)'
    <3>1. \A n \in Live \ {x} : succ'[n] # x /\ pred'[n] # x
      BY <2>2, <2>3, <2>4, <2>5, <2>6, LiveServes DEF Neighbours
    <3>2. succ'[x] # x
      BY <2>2, <2>4, <2>5, LiveServes
    <3> QED BY <2>7, <2>8, <3>1, <3>2 DEF Neighbours
  <2>15. Parting'
    BY <2>3, <2>8, <2>11, <2>13, <2>14 DEF Parting
  <2> QED BY <2>9, <2>10, <2>11, <2>12, <2>15 DEF PoliteInv
<1>12. ASSUME NEW x \in Nodes, Exit(x) PROVE PoliteInv'
  <2>1. UNCHANGED <<succ, pred, stab, copy, gone, find, op, data, rude>>
    BY <1>12 DEF Exit
  <2>2. leave[x].step = "exit" /\ x \in Closing /\ Alone(x) /\ (x \in Linked => Others(x) /\ Neighbours(x))
    BY <1>12 DEF Exit, PoliteInv, Leaving, Parting, Serving, Closing
  <2>3. /\ status'[x] = "left" /\ \A n \in Nodes : n # x => status'[n] = status[n]
        /\ leave'[x].step = "none" /\ \A n \in Nodes : n # x => leave'[n] = leave[n]
    BY <1>12 DEF Exit, NoLeave, TypeOK
  <2>4. Linked' = Linked /\ Live' = Live \ {x} /\ Closing' = {} /\ Serving' = Serving \ {x}
    BY <2>1, <2>2, <2>3 DEF Linked, Live, Closing, Serving, Alone
  <2>5. Leaving' /\ Parting'
    BY <2>3, <2>4 DEF PoliteInv, Leaving, Parting
  <2>6. LiveFind'
    BY <2>1, <2>2, <2>3 DEF PoliteInv, LiveFind, Alone
  <2>7. \A n \in Live \ {x} : succ[n] # x /\ pred[n] # x
    BY <2>2 DEF Neighbours, PoliteInv, LiveRing, Live
  <2>8. LiveRing'
    <3>1. \A n \in Linked : status'[n] \in {"up", "closing", "left"}
      BY <2>3, LiveServes DEF PoliteInv, LiveRing, Linked
    <3>2. \A n \in Live \ {x} : succ[n] \in Live \ {x} /\ pred[n] \in (Live \ {x}) \cup {Nobody}
      BY <2>7 DEF PoliteInv, LiveRing
    <3>3. \A n \in Nodes \ Linked : pred[n] = Nobody
      BY DEF PoliteInv, LiveRing
    <3> QED BY <2>1, <2>4, <3>1, <3>2, <3>3 DEF LiveRing
  <2>9. LiveStab'
    <3>1. ASSUME NEW n \in Serving \ {x}, stab[n] = "got"
          PROVE  Harmless(n) \/ (copy[n].node = succ[n] /\ copy[n].pred \in Live \ {x})
      <4>1. n \in Live \ {x}
        BY <3>1, LiveServes DEF PoliteInv, LiveStab, Serving
      <4>2. CASE x \in Linked
        BY <2>2, <3>1, <4>1, <4>2 DEF Others
      <4>3. CASE x \notin Linked
        BY <3>1, <4>3, LiveServes DEF PoliteInv, LiveStab
      <4> QED BY <4>2, <4>3
    <3> QED BY <2>1, <2>4, <3>1 DEF PoliteInv, LiveStab, Harmless, ElementIn
  <2> QED BY <2>5, <2>6, <2>8, <2>9 DEF PoliteInv
<1>13. ASSUME NEW c \in Nodes \cup {Client}, Lookup(c) PROVE PoliteInv'
  <2>1. Same /\ UNCHANGED <<pred, stab, copy, gone, leave, op, data, rude>>
    BY <1>13 DEF Lookup, Ask, Forward
  <2>2. \A d \in Nodes \cup {Client} : d # c => find'[d] = find[d]
    BY <1>13 DEF Lookup, Ask, Forward, TypeOK
  <2>3. find[c].step # "none" /\ (find'[c].step = "found" => find'[c].at \in Live)
    <3>1. find[c] \in Find /\ c \in DOMAIN find
      BY DEF TypeOK
    <3>2. ASSUME find[c].at \in Serving, succ[find[c].at] \in Serving
          PROVE  succ[find[c].at] \in Live
      BY <3>2, LiveServes DEF PoliteInv, LiveRing, Serving
    <3>3. CASE Ask(c)
      BY <3>1, <3>2, <3>3 DEF Ask, Find
    <3>4. CASE Forward(c)
      BY <3>1, <3>4 DEF Forward, Find
    <3> QED BY <1>13, <3>3, <3>4 DEF Lookup
  <2>4. LiveFind'
    BY <1>0, <2>1, <2>2, <2>3 DEF PoliteInv, LiveFind
  <2> QED BY <1>0, <2>1, <2>4 DEF PoliteInv
<1>14. ASSUME NEW kind, NEW n, NEW key, Request(kind, n, key) PROVE PoliteInv'
  <2>1. Same /\ UNCHANGED <<pred, stab, copy, gone, leave, data, rude>>
    BY <1>14 DEF Request
  <2>2. LiveFind'
    BY <1>0, <1>14, <2>1 DEF Request, Begin, PoliteInv, LiveFind, TypeOK
  <2> QED BY <1>0, <2>1, <2>2 DEF PoliteInv
<1>15. CASE Reply
  <2>1. Same /\ UNCHANGED <<pred, stab, copy, gone, leave, rude>>
    BY <1>15 DEF Reply
  <2>2. LiveFind'
    BY <1>0, <1>15, <2>1 DEF Reply, End, PoliteInv, LiveFind, TypeOK
  <2> QED BY <1>0, <2>1, <2>2 DEF PoliteInv
<1> QED
  BY <1>1, <1>2, <1>3, <1>4, <1>5, <1>6, <1>7, <1>8, <1>9, <1>10, <1>11, <1>12, <1>13, <1>14, <1>15
  DEF Step, Stabilize, Close

(* A rude leaving is remembered. *)
LEMMA StaysRude ==
  ASSUME TypeOK, Step, rude
  PROVE  rude'
BY
   DEF Step, Start, Join, Stabilize, StabilizeGet, StabilizeAdopt, StabilizeNotify, Check, CheckPredecessor,
   ClearPredecessor, CloseGetPredecessor, Close, CloseGetSuccessor, CloseSetSuccessor, CloseSetPredecessor,
   Exit, Lookup, Ask, Forward, Request, Reply, TypeOK

LEMMA PoliteInit == Init => PoliteInv
<1> SUFFICES ASSUME Init PROVE PoliteInv
  OBVIOUS
<1>1. Linked = {First} /\ Live = {First} /\ Closing = {} /\ succ[First] = First
  BY Named DEF Init, Linked, Live, Closing
<1>2. LiveRing
  BY <1>1, Named DEF Init, LiveRing
<1>3. LiveStab
  BY Named DEF Init, LiveStab, Serving
<1>4. LiveFind
  BY DEF Init, LiveFind, NoFind
<1>5. Leaving
  BY DEF Init, Leaving, NoLeave
<1>6. Parting
  BY <1>1 DEF Parting
<1> QED BY <1>2, <1>3, <1>4, <1>5, <1>6 DEF PoliteInv

LEMMA PoliteNext ==
  ASSUME TypeOK, TypeOK', ~rude => PoliteInv, [Next]_vars
  PROVE  ~rude' => PoliteInv'
<1>1. CASE UNCHANGED vars
  BY <1>1
     DEF vars, PoliteInv, LiveRing, LiveStab, LiveFind, Leaving, Parting, Alone, Others, Neighbours,
     Harmless, ElementIn, Linked, Live, Closing, Serving
<1>2. CASE Next
  BY <1>2, StaysRude, PoliteStep DEF Next
<1> QED BY <1>1, <1>2

----------------------------------------------------------------------------
(* The inductive invariant: what the nodes know of one another, what the   *)
(* successors skip, where the client's lookup may be, and how a polite     *)
(* leaving goes on. *)
ChordInv == TypeOK /\ RingInv /\ LookupOK /\ (~rude => PoliteInv)

(* The inductive invariant holds in every reachable state (Join,           *)
(* Stabilize, RPCNotify, RPCFindSuccessor, Close). *)
THEOREM ChordInvariance == Spec => []ChordInv
<1>1. Init => ChordInv
  BY TypeInit, RingInit, LookupInit, PoliteInit DEF ChordInv
<1>2. ChordInv /\ [Next]_vars => ChordInv'
  BY TypeNext, RingNext, LookupNext, PoliteNext DEF ChordInv
<1> QED BY <1>1, <1>2, PTL DEF Spec

(* While nodes only join, every node that has joined leads to one ring,    *)
(* whose successors are in the order of the IDs: for any number of nodes   *)
(* and any interleaving of their Join, Stabilize and Notify calls. *)
THEOREM OneRing == Spec => []OneOrderedRing
<1>1. ChordInv => OneOrderedRing
  BY RingOrdered DEF ChordInv
<1> QED BY <1>1, ChordInvariance, PTL

(* A get finds what was put, through whatever nodes the two went, while    *)
(* every node knows its successor and the ring does not change (Put, Get,  *)
(* RPCFindSuccessor). *)
THEOREM GetsFindPuts == Spec => []GetFindsPut
<1>1. ChordInv => GetFindsPut
  BY LookupGets DEF ChordInv
<1> QED BY <1>1, ChordInvariance, PTL

(* While nodes join, and leave politely, one after the other and any       *)
(* number of them, no node that has joined is stopped by log.Fatal in      *)
(* Stabilize: its successor answers. *)
THEOREM NobodyIsLost == Spec => []NobodyLost
<1>1. ChordInv => NobodyLost
  BY DEF ChordInv, PoliteInv, LiveRing, Linked, NobodyLost
<1> QED BY <1>1, ChordInvariance, PTL

(* Nor is one before the first node has exited, however the leaving nodes  *)
(* interfere with one another in Close. *)
THEOREM NobodyIsLostBeforeExit ==
  Spec => [](NoneLeft => \A n \in Nodes : status[n] = "dead" => succ[n] = Nobody)
<1>1. ChordInv => (NoneLeft => \A n \in Nodes : status[n] = "dead" => succ[n] = Nobody)
  BY DEF ChordInv, RingInv, Known, RingKnown, Linked
<1> QED BY <1>1, ChordInvariance, PTL
=============================================================================
