-------------------------- MODULE TransportProofs --------------------------
(***************************************************************************)
(* Theorems about Transport for any number of messages, any bound on the   *)
(* datagrams in flight, any number of losses, in one direction or both,    *)
(* with and without timeouts, whatever order datagrams arrive in. Each     *)
(* direction is a channel that a step of the other direction leaves alone. *)
(***************************************************************************)
EXTENDS Transport, FiniteSetTheorems, WaitingLists, TLAPS

DataPkgs == {p \in Packages : p.data # 0}
AckPkgs  == {p \in Packages : p.data = 0}

TypeOK ==
  /\ settings \in AllSettings
  /\ ack \in [Ends -> 0..1] /\ seq \in [Ends -> 0..1]
  /\ snd_pkg \in [Ends -> DataPkgs \cup {NoPkg}]
  /\ rcv_pkg \in [Ends -> BOOLEAN]
  /\ queue \in [Ends -> Seq(DataPkgs)]
  /\ timer \in [Ends -> BOOLEAN]
  /\ net \in [Ends -> Seq(Packages)]
  /\ losses \in Nat
  /\ generated \in [Ends -> 0..NumPackets]
  /\ expected \in [Ends -> Seq(1..NumPackets)]
  /\ delivered \in [Ends -> Seq(1..NumPackets)]
  /\ halted \in {"no", "done", "unexpected data", "null snd_pkg", "null rcv_pkg"}

(* All of s that is in V is in W; exactly one of s is in V, and it is in W. *)
AllIn(s, V, W) == \A k \in DOMAIN s : s[k] \in V => s[k] \in W
OneIn(s, V, W) == \E k \in DOMAIN s : s[k] \in W /\ \A j \in DOMAIN s : s[j] \in V => j = k

Idle(e) == snd_pkg[e] = NoPkg

(* The number of the message that e sent last. *)
Current(e) == IF Idle(e) THEN generated[e] ELSE snd_pkg[e].data

Exact(p, n) == p.data = n /\ p.seq = n % 2

Sent(lo, hi) == {p \in DataPkgs : p.data \in lo..hi /\ p.seq = p.data % 2}

AcksOf(bit) == {p \in AckPkgs : p.ack = bit}

Got(e) == Len(delivered[e])

(* The channel from e to Other(e), part by part. The messages e has        *)
(* generated are numbered in order: the package in hand, and behind it the *)
(* queue; and the bit of each is that of its number.                       *)
Numbered(e) ==
  /\ seq[e] = generated[e] % 2
  /\ Current(e) + Len(queue[e]) = generated[e]
  /\ ~Idle(e) => Exact(snd_pkg[e], Current(e))
  /\ \A i \in DOMAIN queue[e] : Exact(queue[e][i], Current(e) + i)

(* The other end has been given the first Got messages, expects the rest,  *)
(* and has not overtaken the sender.                                       *)
Expecting(e) == LET r == Other(e) IN
  /\ ack[r] = Got(r) % 2
  /\ Got(r) <= Current(e)
  /\ \A i \in DOMAIN delivered[r] : delivered[r][i] = i
  /\ Got(r) + Len(expected[r]) = generated[e]
  /\ \A i \in DOMAIN expected[r] : expected[r][i] = Got(r) + i

(* What is in flight was sent. *)
InFlight(e) == AllIn(net[Other(e)], DataPkgs, Sent(1, Current(e)))

(* An end that has received nothing has nothing to be repeated to it but   *)
(* the first message, and has acknowledged nothing.                        *)
Remembered(e) == LET r == Other(e) IN
  ~rcv_pkg[r] => /\ Got(r) = 0 /\ Current(e) <= 1
                 /\ Idle(e) => generated[e] = 0
                 /\ AllIn(net[e], AckPkgs, {})

(* Before the first loss or timeout: nothing is in flight, or the package  *)
(* in hand is, or its acknowledgement.                                     *)
Alone(e) == LET r == Other(e) IN
  Quiet =>
    \/ /\ Idle(e) /\ Got(r) = Current(e)
       /\ AllIn(net[r], DataPkgs, {}) /\ AllIn(net[e], AckPkgs, {})
    \/ /\ ~Idle(e) /\ Got(r) = Current(e) - 1
       /\ OneIn(net[r], DataPkgs, Sent(Current(e), Current(e)))
       /\ AllIn(net[e], AckPkgs, {})
    \/ /\ ~Idle(e) /\ Got(r) = Current(e)
       /\ AllIn(net[r], DataPkgs, {})
       /\ OneIn(net[e], AckPkgs, AcksOf(Current(e) % 2))

Channel(e) == Numbered(e) /\ Expecting(e) /\ InFlight(e) /\ Remembered(e) /\ Alone(e)

(* The program has stopped at a package that nobody expected: the last     *)
(* message of one end. *)
Stopped(e) == LET r == Other(e) IN
  /\ \A i \in DOMAIN delivered[r] :
       delivered[r][i] \in 1..generated[e] /\ (i < Got(r) => delivered[r][i] = i)
  /\ Numbered(e)

(* The inductive invariant. *)
TInv == IF halted = "unexpected data"
          THEN ~Quiet /\ \A e \in Ends : Stopped(e)
          ELSE /\ halted # "null rcv_pkg" /\ (Quiet => halted # "null snd_pkg")
               /\ \A e \in Ends : Channel(e)

(* t is what a step makes of s that adds or takes nothing of V. *)
Untouched(t, s, V) ==
  \/ t = s
  \/ \E p \in Packages \ V : t = Append(s, p)
  \/ \E k \in DOMAIN s : s[k] \notin V /\ t = RemoveAt(s, k)

LEMMA OtherIs ==
  ASSUME NEW e \in Ends
  PROVE  /\ Other(e) \in Ends /\ Other(e) # e /\ Other(Other(e)) = e
         /\ \A x \in Ends : x = e \/ x = Other(e)
<1>1. PICK x, y \in Ends : x # y /\ Ends = {x, y}
  BY TransportAssumption
<1>2. \A c \in Ends : \E d \in Ends : d # c
  BY <1>1
<1>3. \A c \in Ends : Other(c) \in Ends /\ Other(c) # c
  BY <1>2 DEF Other
<1> QED
  BY <1>1, <1>3

LEMMA Parity ==
  ASSUME NEW n \in Nat
  PROVE  n % 2 \in 0..1 /\ (n + 1) % 2 = 1 - (n % 2) /\ 0 % 2 = 0 /\ 1 % 2 = 1
OBVIOUS

LEMMA RemoveAtIs ==
  ASSUME NEW S, NEW s \in Seq(S), NEW k \in DOMAIN s
  PROVE  /\ RemoveAt(s, k) \in Seq(S)
         /\ Len(RemoveAt(s, k)) = Len(s) - 1
         /\ \A i \in 1..Len(s) - 1 : RemoveAt(s, k)[i] = s[IF i < k THEN i ELSE i + 1]
<1>1. k \in 1..Len(s) /\ Len(s) \in Nat
  OBVIOUS
<1>2. /\ SubSeq(s, 1, k - 1) \in Seq(S) /\ Len(SubSeq(s, 1, k - 1)) = k - 1
      /\ \A i \in 1..k - 1 : SubSeq(s, 1, k - 1)[i] = s[i]
  BY <1>1
<1>3. /\ SubSeq(s, k + 1, Len(s)) \in Seq(S) /\ Len(SubSeq(s, k + 1, Len(s))) = Len(s) - k
      /\ \A i \in 1..Len(s) - k : SubSeq(s, k + 1, Len(s))[i] = s[k + i]
  BY <1>1
<1>4. ASSUME NEW t \in Seq(S), NEW u \in Seq(S), Len(t) = k - 1, Len(u) = Len(s) - k
      PROVE  /\ t \o u \in Seq(S) /\ Len(t \o u) = Len(s) - 1
             /\ \A i \in 1..k - 1 : (t \o u)[i] = t[i]
             /\ \A i \in 1..Len(s) - 1 : i >= k => (t \o u)[i] = u[i + 1 - k]
  BY <1>1, <1>4
<1>5. RemoveAt(s, k) = SubSeq(s, 1, k - 1) \o SubSeq(s, k + 1, Len(s))
  BY DEF RemoveAt
<1>6. /\ RemoveAt(s, k) \in Seq(S) /\ Len(RemoveAt(s, k)) = Len(s) - 1
      /\ \A i \in 1..k - 1 : RemoveAt(s, k)[i] = s[i]
      /\ \A i \in 1..Len(s) - 1 : i >= k => RemoveAt(s, k)[i] = SubSeq(s, k + 1, Len(s))[i + 1 - k]
  <2>1. PICK t \in Seq(S), u \in Seq(S) :
          t = SubSeq(s, 1, k - 1) /\ u = SubSeq(s, k + 1, Len(s))
    BY <1>2, <1>3
  <2>2. Len(t) = k - 1 /\ Len(u) = Len(s) - k /\ RemoveAt(s, k) = t \o u
        /\ \A i \in 1..k - 1 : t[i] = s[i]
    BY <2>1, <1>2, <1>3, <1>5
  <2>3. /\ t \o u \in Seq(S) /\ Len(t \o u) = Len(s) - 1
        /\ \A i \in 1..k - 1 : (t \o u)[i] = t[i]
        /\ \A i \in 1..Len(s) - 1 : i >= k => (t \o u)[i] = u[i + 1 - k]
    BY <2>2, <1>4
  <2> QED
    BY <2>1, <2>2, <2>3, Zenon
<1>7. ASSUME NEW i \in 1..Len(s) - 1, i >= k
      PROVE  SubSeq(s, k + 1, Len(s))[i + 1 - k] = s[i + 1]
  <2>1. i + 1 - k \in 1..Len(s) - k /\ k + (i + 1 - k) = i + 1
    BY <1>1, <1>7
  <2> QED
    BY <1>3, <2>1
<1>8. ASSUME NEW i \in 1..Len(s) - 1
      PROVE  RemoveAt(s, k)[i] = s[IF i < k THEN i ELSE i + 1]
  <2>1. CASE i < k
    <3>1. i \in 1..k - 1
      BY <2>1, <1>1
    <3> QED
      BY <3>1, <2>1, <1>6
  <2>2. CASE ~(i < k)
    <3>1. i >= k
      BY <2>2, <1>1
    <3> QED
      BY <3>1, <2>2, <1>6, <1>7
  <2> QED
    BY <2>1, <2>2
<1> QED
  BY <1>6, <1>8

(* Every element of the rest stood in s and not at k, and every other       *)
(* element of s is in the rest. *)
LEMMA RestOf ==
  ASSUME NEW S, NEW s \in Seq(S), NEW k \in DOMAIN s
  PROVE  /\ \A i \in DOMAIN RemoveAt(s, k) : \E j \in DOMAIN s :
              j # k /\ RemoveAt(s, k)[i] = s[j]
         /\ \A j \in DOMAIN s : j # k => \E i \in DOMAIN RemoveAt(s, k) :
              /\ RemoveAt(s, k)[i] = s[j]
              /\ \A m \in DOMAIN RemoveAt(s, k) : m # i => \E n \in DOMAIN s : n # j /\ RemoveAt(s, k)[m] = s[n]
<1> DEFINE t == RemoveAt(s, k)
           from(i) == IF i < k THEN i ELSE i + 1
<1>1. /\ t \in Seq(S) /\ Len(t) = Len(s) - 1
      /\ \A i \in 1..Len(s) - 1 : t[i] = s[from(i)]
  BY RemoveAtIs
<1>2. k \in 1..Len(s) /\ Len(s) \in Nat /\ DOMAIN s = 1..Len(s) /\ DOMAIN t = 1..Len(s) - 1
  BY <1>1
<1>3. \A i \in 1..Len(s) - 1 : from(i) \in DOMAIN s /\ from(i) # k
  BY <1>2
<1>5. ASSUME NEW j \in DOMAIN s, j # k
      PROVE  \E i \in DOMAIN t : from(i) = j
  <2>1. CASE j < k
    BY <2>1, <1>2
  <2>2. CASE j > k
    <3>1. j - 1 \in DOMAIN t /\ ~(j - 1 < k) /\ (j - 1) + 1 = j
      BY <2>2, <1>2
    <3> QED
      BY <3>1
  <2> QED
    BY <2>1, <2>2, <1>2, <1>5
<1>6. \A i, j \in DOMAIN t : i # j => from(i) # from(j)
  BY <1>2
<1> HIDE DEF t, from
<1>7. \A i \in DOMAIN t : \E j \in DOMAIN s : j # k /\ t[i] = s[j]
  BY <1>1, <1>2, <1>3
<1>9. ASSUME NEW j \in DOMAIN s, j # k
      PROVE  \E i \in DOMAIN t : /\ t[i] = s[j]
               /\ \A m \in DOMAIN t : m # i => \E n \in DOMAIN s : n # j /\ t[m] = s[n]
  <2>1. PICK i \in DOMAIN t : from(i) = j
    BY <1>5, <1>9
  <2>2. t[i] = s[j]
    BY <2>1, <1>1, <1>2
  <2>3. \A m \in DOMAIN t : m # i => from(m) \in DOMAIN s /\ from(m) # j /\ t[m] = s[from(m)]
    BY <2>1, <1>1, <1>2, <1>3, <1>6
  <2> QED
    BY <2>2, <2>3, Zenon
<1> QED
  BY <1>7, <1>9 DEF t

LEMMA Added ==
  ASSUME NEW s \in Seq(Packages), NEW p \in Packages, NEW V, NEW W \in SUBSET V
  PROVE  /\ AllIn(s, V, W) /\ (p \in V => p \in W) => AllIn(Append(s, p), V, W)
         /\ AllIn(s, V, {}) /\ p \in W => OneIn(Append(s, p), V, W)
         /\ OneIn(s, V, W) /\ p \notin V => OneIn(Append(s, p), V, W)
<1> DEFINE t == Append(s, p)
<1>1. /\ t \in Seq(Packages) /\ Len(t) = Len(s) + 1 /\ Len(s) \in Nat
      /\ DOMAIN t = 1..Len(s) + 1 /\ DOMAIN s = 1..Len(s)
      /\ \A i \in 1..Len(s) : t[i] = s[i] /\ i \in DOMAIN t /\ i # Len(s) + 1
      /\ t[Len(s) + 1] = p /\ Len(s) + 1 \in DOMAIN t
      /\ \A i \in DOMAIN t : i \in 1..Len(s) \/ i = Len(s) + 1
  BY AppendIs
<1> HIDE DEF t
<1>3. AllIn(s, V, W) /\ (p \in V => p \in W) => AllIn(t, V, W)
  BY <1>1, Zenon DEF AllIn
<1>4. AllIn(s, V, {}) /\ p \in W => OneIn(t, V, W)
  BY <1>1, Zenon DEF AllIn, OneIn
<1>5. OneIn(s, V, W) /\ p \notin V => OneIn(t, V, W)
  BY <1>1, Zenon DEF OneIn
<1> QED
  BY <1>3, <1>4, <1>5 DEF t

LEMMA Removed ==
  ASSUME NEW s \in Seq(Packages), NEW k \in DOMAIN s, NEW V, NEW W \in SUBSET V
  PROVE  /\ AllIn(s, V, W) => AllIn(RemoveAt(s, k), V, W)
         /\ OneIn(s, V, W) /\ s[k] \in V => s[k] \in W /\ AllIn(RemoveAt(s, k), V, {})
         /\ OneIn(s, V, W) /\ s[k] \notin V => OneIn(RemoveAt(s, k), V, W)
<1> DEFINE t == RemoveAt(s, k)
<1>1. /\ \A i \in DOMAIN t : \E j \in DOMAIN s : j # k /\ t[i] = s[j]
      /\ \A j \in DOMAIN s : j # k => \E i \in DOMAIN t :
           /\ t[i] = s[j]
           /\ \A m \in DOMAIN t : m # i => \E n \in DOMAIN s : n # j /\ t[m] = s[n]
  BY RestOf
<1> HIDE DEF t
<1>2. AllIn(s, V, W) => AllIn(t, V, W)
  BY <1>1, Zenon DEF AllIn
<1>3. OneIn(s, V, W) /\ s[k] \in V => s[k] \in W /\ AllIn(t, V, {})
  <2> SUFFICES ASSUME NEW j \in DOMAIN s, s[j] \in W, s[k] \in V,
                      \A n \in DOMAIN s : s[n] \in V => n = j
               PROVE  s[k] \in W /\ \A i \in DOMAIN t : s[k] \in V /\ t[i] \notin V
    BY Zenon DEF OneIn, AllIn
  <2>1. k = j
    OBVIOUS
  <2> QED
    BY <2>1, <1>1, Zenon
<1>4. OneIn(s, V, W) /\ s[k] \notin V => OneIn(t, V, W)
  <2> SUFFICES ASSUME NEW j \in DOMAIN s, s[j] \in W, s[k] \notin V,
                      \A n \in DOMAIN s : s[n] \in V => n = j
               PROVE  OneIn(t, V, W)
    BY Zenon DEF OneIn
  <2>1. j # k
    OBVIOUS
  <2>2. PICK i \in DOMAIN t :
          /\ t[i] = s[j]
          /\ \A m \in DOMAIN t : m # i => \E n \in DOMAIN s : n # j /\ t[m] = s[n]
    BY <2>1, <1>1
  <2> QED
    BY <2>2 DEF OneIn
<1> QED
  BY <1>2, <1>3, <1>4 DEF t

LEMMA UntouchedKeeps ==
  ASSUME NEW s \in Seq(Packages), NEW t, NEW V, NEW W \in SUBSET V, Untouched(t, s, V)
  PROVE  /\ AllIn(s, V, W) => AllIn(t, V, W)
         /\ OneIn(s, V, W) => OneIn(t, V, W)
<1>1. CASE t = s
  BY <1>1
<1>2. ASSUME NEW p \in Packages \ V, t = Append(s, p)
      PROVE  /\ AllIn(s, V, W) => AllIn(t, V, W)
             /\ OneIn(s, V, W) => OneIn(t, V, W)
  BY <1>2, Added
<1>3. ASSUME NEW k \in DOMAIN s, s[k] \notin V, t = RemoveAt(s, k)
      PROVE  /\ AllIn(s, V, W) => AllIn(t, V, W)
             /\ OneIn(s, V, W) => OneIn(t, V, W)
  BY <1>3, Removed
<1> QED
  BY <1>1, <1>2, <1>3 DEF Untouched

LEMMA PackagesAre ==
  /\ DataPkgs \subseteq Packages /\ AckPkgs \subseteq Packages
  /\ NoPkg \notin DataPkgs /\ NoPkg \in Packages
  /\ \A p \in Packages : /\ p \in AckPkgs <=> p.data = 0
                         /\ p \in DataPkgs <=> p.data # 0
                         /\ p.data \in 0..NumPackets /\ p.seq \in 0..1 /\ p.ack \in 0..2
  /\ \A bit \in 0..2 : AckPkg(bit) \in AckPkgs /\ AckPkg(bit).ack = bit
  /\ \A n \in 1..NumPackets, x \in 0..1, y \in 0..1 :
       /\ [data |-> n, ack |-> x, seq |-> y] \in DataPkgs
       /\ [data |-> n, ack |-> x, seq |-> y].data = n
       /\ [data |-> n, ack |-> x, seq |-> y].seq = y
<1>1. NumPackets \in Nat
  BY TransportAssumption
<1> QED
  BY <1>1 DEF DataPkgs, AckPkgs, Packages, NoPkg, AckPkg

LEMMA Sends ==
  ASSUME NEW n \in [Ends -> Seq(Packages)], NEW e \in Ends, NEW p \in Packages,
         losses \in Nat, NwSend(n, e, p)
  PROVE  /\ net' \in [Ends -> Seq(Packages)]
         /\ net'[e] = n[e] \/ net'[e] = Append(n[e], p)
         /\ \A x \in Ends : x # e => net'[x] = n[x]
         /\ losses' \in Nat
         /\ losses' = 0 => losses = 0 /\ net'[e] = Append(n[e], p)
<1>1. n[e] \in Seq(Packages) /\ Append(n[e], p) \in Seq(Packages)
  BY AppendIs
<1>2. \/ net' = [n EXCEPT ![e] = Append(n[e], p)] /\ losses' = losses
      \/ net' = n /\ losses' = losses + 1
  BY DEF NwSend
<1> HIDE DEF NwSend
<1>3. CASE net' = [n EXCEPT ![e] = Append(n[e], p)] /\ losses' = losses
  BY <1>1, <1>3
<1>4. CASE net' = n /\ losses' = losses + 1
  BY <1>4
<1> QED
  BY <1>2, <1>3, <1>4

LEMMA Removes ==
  ASSUME TypeOK, NEW e \in Ends, NEW k \in DOMAIN net[e]
  PROVE  /\ Without(e, k) \in [Ends -> Seq(Packages)]
         /\ Without(e, k)[e] = RemoveAt(net[e], k)
         /\ \A x \in Ends : x # e => Without(e, k)[x] = net[x]
         /\ net[e][k] \in Packages /\ net[e] \in Seq(Packages)
<1>1. net \in [Ends -> Seq(Packages)] /\ net[e] \in Seq(Packages)
  BY DEF TypeOK
<1>2. RemoveAt(net[e], k) \in Seq(Packages)
  BY <1>1, RemoveAtIs
<1> QED
  BY <1>1, <1>2 DEF Without

LEMMA TypesOf ==
  ASSUME TypeOK, NEW e \in Ends
  PROVE  /\ ack[e] \in 0..1 /\ seq[e] \in 0..1 /\ 1 - ack[e] \in 0..1 /\ 1 - seq[e] \in 0..1
         /\ snd_pkg[e] = NoPkg \/ snd_pkg[e] \in DataPkgs
         /\ snd_pkg[e] \in Packages /\ rcv_pkg[e] \in BOOLEAN
         /\ queue[e] \in Seq(DataPkgs) /\ net[e] \in Seq(Packages)
         /\ losses \in Nat /\ generated[e] \in 0..NumPackets /\ generated[e] \in Nat
         /\ expected[e] \in Seq(1..NumPackets) /\ delivered[e] \in Seq(1..NumPackets)
<1>1. NumPackets \in Nat
  BY TransportAssumption
<1>2. ack[e] \in 0..1 /\ seq[e] \in 0..1 /\ generated[e] \in 0..NumPackets
  BY DEF TypeOK
<1>3. snd_pkg[e] \in DataPkgs \cup {NoPkg}
  BY DEF TypeOK
<1>4. 1 - ack[e] \in 0..1 /\ 1 - seq[e] \in 0..1 /\ generated[e] \in Nat
  <2> PICK x \in 0..1, y \in 0..1, n \in 0..NumPackets : x = ack[e] /\ y = seq[e] /\ n = generated[e]
    BY <1>2
  <2>1. 1 - x \in 0..1 /\ 1 - y \in 0..1 /\ n \in Nat
    BY <1>1
  <2> QED
    BY <2>1
<1>5. snd_pkg[e] = NoPkg \/ snd_pkg[e] \in DataPkgs
  BY <1>3
<1>6. /\ rcv_pkg[e] \in BOOLEAN /\ queue[e] \in Seq(DataPkgs) /\ net[e] \in Seq(Packages)
      /\ losses \in Nat
      /\ expected[e] \in Seq(1..NumPackets) /\ delivered[e] \in Seq(1..NumPackets)
  BY DEF TypeOK
<1>7. snd_pkg[e] \in Packages
  BY <1>5, PackagesAre
<1> QED
  BY <1>2, <1>4, <1>5, <1>6, <1>7

LEMMA TypeInit == Init => TypeOK
<1> SUFFICES ASSUME Init PROVE TypeOK
  OBVIOUS
<1>1. NumPackets \in Nat /\ Settings \subseteq AllSettings
  BY TransportAssumption
<1> QED
  BY <1>1 DEF Init, TypeOK

LEMMA TypeNext == TypeOK /\ [Next]_vars => TypeOK'
<1> SUFFICES ASSUME TypeOK, [Next]_vars PROVE TypeOK'
  OBVIOUS
<1>0. NumPackets \in Nat
  BY TransportAssumption
<1>1. ASSUME NEW e \in Ends, Generate(e)
      PROVE  TypeOK'
  <2> DEFINE r == Other(e)
             pkg == [data |-> generated[e] + 1, ack |-> ack[e], seq |-> 1 - seq[e]]
  <2>1. /\ r \in Ends /\ generated[e] + 1 \in 1..NumPackets
        /\ ack[e] \in 0..1 /\ 1 - seq[e] \in 0..1 /\ seq'[e] = 1 - seq[e]
    <3>1. seq' = [seq EXCEPT ![e] = 1 - seq[e]] /\ generated[e] < NumPackets
      BY <1>1 DEF Generate
    <3> QED
      <4>1. seq'[e] = 1 - seq[e]
        BY <3>1 DEF TypeOK
      <4>2. generated[e] + 1 \in 1..NumPackets
        BY <1>0, <3>1, TypesOf
      <4> QED
        BY <4>1, <4>2, OtherIs, TypesOf
  <2>2. pkg \in DataPkgs /\ pkg \in Packages
    BY <2>1, PackagesAre
  <2>3. /\ seq' \in [Ends -> 0..1] /\ generated' \in [Ends -> 0..NumPackets]
        /\ expected' \in [Ends -> Seq(1..NumPackets)]
    <3>1. Append(expected[r], generated[e] + 1) \in Seq(1..NumPackets)
      BY <2>1, TypesOf, AppendIs
    <3>2. /\ generated' = [generated EXCEPT ![e] = generated[e] + 1]
          /\ expected' = [expected EXCEPT ![r] = Append(expected[r], generated[e] + 1)]
          /\ seq' = [seq EXCEPT ![e] = 1 - seq[e]]
      BY <1>1 DEF Generate
    <3>3. generated[e] + 1 \in 0..NumPackets
      BY <2>1
    <3> HIDE DEF r
    <3> QED
      BY <2>1, <3>1, <3>2, <3>3 DEF TypeOK
  <2> HIDE DEF r
  <2>4. CASE snd_pkg[e] = NoPkg
    <3>1. snd_pkg' = [snd_pkg EXCEPT ![e] = pkg] /\ NwSend(net, r, pkg) /\ queue' = queue
      BY <1>1, <2>1, <2>4 DEF Generate, r
    <3> HIDE DEF pkg
    <3>2. net' \in [Ends -> Seq(Packages)] /\ losses' \in Nat
      BY <3>1, <2>1, <2>2, Sends DEF TypeOK
    <3> QED
      BY <3>1, <3>2, <2>2, <2>3, <1>1 DEF Generate, TypeOK
  <2>5. CASE snd_pkg[e] # NoPkg
    <3>1. queue' = [queue EXCEPT ![e] = Append(@, pkg)] /\ UNCHANGED <<snd_pkg, net, losses>>
      BY <1>1, <2>1, <2>5 DEF Generate, r
    <3> HIDE DEF pkg
    <3>2. Append(queue[e], pkg) \in Seq(DataPkgs)
      BY <2>2, TypesOf, AppendIs
    <3> QED
      BY <3>1, <3>2, <2>3, <1>1 DEF Generate, TypeOK
  <2> QED
    BY <2>4, <2>5
<1>2. ASSUME NEW e \in Ends, NEW k \in DOMAIN net[e], ReceiveData(e, k)
      PROVE  TypeOK'
  <2> DEFINE p == net[e][k]
  <2>1. /\ Other(e) \in Ends /\ p \in Packages /\ p.data \in 1..NumPackets /\ p.seq \in 0..1
        /\ Without(e, k) \in [Ends -> Seq(Packages)]
    <3>1. p \in Packages /\ p.data # 0
      BY <1>2, Removes DEF ReceiveData
    <3>2. p.data \in 0..NumPackets /\ p.seq \in 0..1
      BY <3>1, PackagesAre
    <3> HIDE DEF p
    <3> QED
      BY <1>0, <3>1, <3>2, OtherIs, Removes
  <2>2. AckPkg(p.seq) \in Packages
    BY <2>1, PackagesAre
  <2>3. delivered' \in [Ends -> Seq(1..NumPackets)]
    <3>1. Append(delivered[e], p.data) \in Seq(1..NumPackets)
      BY <2>1, TypesOf, AppendIs
    <3>2. delivered' = [delivered EXCEPT ![e] = Append(delivered[e], p.data)]
      BY <1>2 DEF ReceiveData
    <3> HIDE DEF p
    <3> QED
      BY <3>1, <3>2 DEF TypeOK
  <2>4. CASE expected[e] # << >> /\ Head(expected[e]) = p.data
    <3>1. /\ expected' = [expected EXCEPT ![e] = Tail(@)]
          /\ ack' = [ack EXCEPT ![e] = 1 - @]
          /\ rcv_pkg' = [rcv_pkg EXCEPT ![e] = TRUE]
          /\ NwSend(Without(e, k), Other(e), AckPkg(p.seq)) /\ halted' = halted
      BY <1>2, <2>4 DEF ReceiveData
    <3> HIDE DEF p
    <3>2. net' \in [Ends -> Seq(Packages)] /\ losses' \in Nat
      BY <3>1, <2>1, <2>2, Sends DEF TypeOK
    <3>3. Tail(expected[e]) \in Seq(1..NumPackets)
      BY <2>4, TailIs DEF TypeOK
    <3>4. expected' \in [Ends -> Seq(1..NumPackets)]
      BY <3>1, <3>3 DEF TypeOK
    <3>5. ack' \in [Ends -> 0..1] /\ rcv_pkg' \in [Ends -> BOOLEAN]
      BY <3>1, TypesOf DEF TypeOK
    <3> QED
      BY <3>1, <3>2, <3>4, <3>5, <2>3, <1>2 DEF ReceiveData, TypeOK
  <2>5. CASE ~(expected[e] # << >> /\ Head(expected[e]) = p.data)
    BY <2>5, <2>3, <1>2 DEF ReceiveData, TypeOK
  <2> QED
    BY <2>4, <2>5
<1>3. ASSUME NEW e \in Ends, NEW k \in DOMAIN net[e], ReceiveAgain(e, k)
      PROVE  TypeOK'
  <2>1. Other(e) \in Ends /\ Without(e, k) \in [Ends -> Seq(Packages)]
    BY OtherIs, Removes
  <2>2. CASE rcv_pkg[e]
    <3>1. PICK bit \in 0..2 : NwSend(Without(e, k), Other(e), AckPkg(bit))
      BY <1>3, <2>2 DEF ReceiveAgain
    <3>2. AckPkg(bit) \in Packages
      BY PackagesAre
    <3>3. net' \in [Ends -> Seq(Packages)] /\ losses' \in Nat
      BY <2>1, <3>1, <3>2, Sends DEF TypeOK
    <3> QED
      BY <3>3, <2>2, <1>3 DEF ReceiveAgain, TypeOK
  <2>3. CASE ~rcv_pkg[e]
    BY <2>3, <1>3 DEF ReceiveAgain, TypeOK
  <2> QED
    BY <2>2, <2>3
<1>4. ASSUME NEW e \in Ends, NEW k \in DOMAIN net[e], ReceiveAck(e, k)
      PROVE  TypeOK'
  <2>1. Other(e) \in Ends /\ Without(e, k) \in [Ends -> Seq(Packages)]
    BY OtherIs, Removes
  <2>2. CASE queue[e] = << >>
    <3>1. snd_pkg' = [snd_pkg EXCEPT ![e] = NoPkg] /\ net' = Without(e, k)
          /\ UNCHANGED <<queue, losses>>
      BY <1>4, <2>2 DEF ReceiveAck
    <3>2. snd_pkg' \in [Ends -> DataPkgs \cup {NoPkg}]
      BY <3>1 DEF TypeOK
    <3> QED
      BY <3>1, <3>2, <2>1, <1>4 DEF ReceiveAck, TypeOK
  <2>3. CASE queue[e] # << >>
    <3>1. /\ snd_pkg' = [snd_pkg EXCEPT ![e] = Head(queue[e])]
          /\ queue' = [queue EXCEPT ![e] = Tail(@)]
          /\ NwSend(Without(e, k), Other(e), Head(queue[e]))
      BY <1>4, <2>3 DEF ReceiveAck
    <3>2. Head(queue[e]) \in DataPkgs /\ Tail(queue[e]) \in Seq(DataPkgs)
      BY <2>3, TailIs DEF TypeOK
    <3>3. net' \in [Ends -> Seq(Packages)] /\ losses' \in Nat
      BY <2>1, <3>1, <3>2, Sends, PackagesAre DEF TypeOK
    <3>4. snd_pkg' \in [Ends -> DataPkgs \cup {NoPkg}] /\ queue' \in [Ends -> Seq(DataPkgs)]
      BY <3>1, <3>2 DEF TypeOK
    <3> QED
      BY <3>3, <3>4, <1>4 DEF ReceiveAck, TypeOK
  <2> QED
    BY <2>2, <2>3
<1>5. ASSUME NEW e \in Ends, NEW k \in DOMAIN net[e], ReceiveWrongAck(e, k)
      PROVE  TypeOK'
  BY <1>5, Removes DEF ReceiveWrongAck, TypeOK
<1>6. ASSUME NEW e \in Ends, LayerTimeout(e)
      PROVE  TypeOK'
  <2>1. CASE snd_pkg[e] # NoPkg
    <3>1. Other(e) \in Ends /\ snd_pkg[e] \in Packages
      BY OtherIs, TypesOf
    <3>2. NwSend(net, Other(e), snd_pkg[e]) /\ timer' = timer
      BY <2>1, <1>6 DEF LayerTimeout
    <3>3. net' \in [Ends -> Seq(Packages)] /\ losses' \in Nat
      BY <3>1, <3>2, Sends DEF TypeOK
    <3> QED
      BY <3>2, <3>3, <1>6 DEF LayerTimeout, TypeOK
  <2>2. CASE snd_pkg[e] = NoPkg
    BY <2>2, <1>6 DEF LayerTimeout, TypeOK
  <2> QED
    BY <2>1, <2>2
<1>7. CASE Finish
  BY <1>7 DEF Finish, TypeOK
<1>8. CASE UNCHANGED vars
  BY <1>8 DEF vars, TypeOK
<1> QED
  BY <1>1, <1>2, <1>3, <1>4, <1>5, <1>6, <1>7, <1>8 DEF Next, Receive

LEMMA Subsets ==
  /\ \A lo, hi : Sent(lo, hi) \in SUBSET DataPkgs
  /\ \A bit : AcksOf(bit) \in SUBSET AckPkgs
  /\ \A V : {} \in SUBSET V
BY DEF Sent, AcksOf

LEMMA CountsAre ==
  ASSUME TypeOK, NEW e \in Ends
  PROVE  /\ Current(e) \in Nat /\ Current(e) <= NumPackets
         /\ Got(e) \in Nat /\ DOMAIN delivered[e] = 1..Got(e)
         /\ Len(expected[e]) \in Nat /\ Len(queue[e]) \in Nat
         /\ ~Idle(e) => snd_pkg[e] \in DataPkgs /\ Current(e) # 0
<1>1. NumPackets \in Nat
  BY TransportAssumption
<1>2. CASE Idle(e)
  BY <1>1, <1>2, TypesOf DEF Current, Got
<1>3. CASE ~Idle(e)
  <2>1. snd_pkg[e] \in DataPkgs /\ snd_pkg[e].data \in 0..NumPackets /\ snd_pkg[e].data # 0
    BY <1>3, TypesOf, PackagesAre DEF Idle
  <2> QED
    BY <1>1, <1>3, <2>1, TypesOf DEF Current, Got
<1> QED
  BY <1>2, <1>3

(* Nothing of the channel from e changes but what the other one puts into  *)
(* the network and takes from it. *)
Aside(e) == LET r == Other(e) IN
  /\ settings' = settings /\ seq'[e] = seq[e] /\ snd_pkg'[e] = snd_pkg[e]
  /\ queue'[e] = queue[e] /\ generated'[e] = generated[e]
  /\ ack'[r] = ack[r] /\ rcv_pkg'[r] = rcv_pkg[r]
  /\ expected'[r] = expected[r] /\ delivered'[r] = delivered[r]
  /\ losses' = 0 => losses = 0
  /\ Untouched(net'[r], net[r], DataPkgs)
  /\ Untouched(net'[e], net[e], AckPkgs)

LEMMA Frame ==
  ASSUME TypeOK, NEW e \in Ends, Channel(e), Aside(e)
  PROVE  Channel(e)'
<1> DEFINE r == Other(e)
<1>1. r \in Ends /\ net[r] \in Seq(Packages) /\ net[e] \in Seq(Packages)
  BY OtherIs, TypesOf
<1>2. Current(e)' = Current(e) /\ Got(r)' = Got(r) /\ Idle(e)' = Idle(e) /\ (Quiet' => Quiet)
  BY DEF Aside, Current, Got, Idle, Quiet
<1>3. /\ \A lo, hi : AllIn(net[r], DataPkgs, Sent(lo, hi)) => AllIn(net'[r], DataPkgs, Sent(lo, hi))
      /\ \A lo, hi : OneIn(net[r], DataPkgs, Sent(lo, hi)) => OneIn(net'[r], DataPkgs, Sent(lo, hi))
      /\ AllIn(net[r], DataPkgs, {}) => AllIn(net'[r], DataPkgs, {})
  BY <1>1, Subsets, UntouchedKeeps DEF Aside
<1>4. /\ AllIn(net[e], AckPkgs, {}) => AllIn(net'[e], AckPkgs, {})
      /\ \A bit : OneIn(net[e], AckPkgs, AcksOf(bit)) => OneIn(net'[e], AckPkgs, AcksOf(bit))
  BY <1>1, Subsets, UntouchedKeeps DEF Aside
<1>5. Numbered(e)'
  BY <1>2 DEF Channel, Numbered, Aside
<1>6. Expecting(e)'
  BY <1>2 DEF Channel, Expecting, Aside
<1>7. InFlight(e)'
  BY <1>2, <1>3 DEF Channel, InFlight, Aside
<1>8. Remembered(e)'
  BY <1>2, <1>4 DEF Channel, Remembered, Aside
<1>9. Alone(e)'
  BY <1>2, <1>3, <1>4 DEF Channel, Alone, Aside
<1> QED
  BY <1>5, <1>6, <1>7, <1>8, <1>9 DEF Channel

(* What was sent up to one number was sent up to a later one. *)
LEMMA SentGrows ==
  ASSUME NEW s \in Seq(Packages), NEW lo \in Nat, NEW hi \in Nat, NEW h \in Nat, hi <= h,
         AllIn(s, DataPkgs, Sent(lo, hi))
  PROVE  AllIn(s, DataPkgs, Sent(lo, h))
<1>1. Sent(lo, hi) \subseteq Sent(lo, h)
  <2>1. lo..hi \subseteq lo..h
    OBVIOUS
  <2> QED
    BY <2>1 DEF Sent
<1> QED
  BY <1>1 DEF AllIn

LEMMA SentIs ==
  ASSUME NEW p \in Packages, NEW lo \in Nat, NEW hi \in Nat
  PROVE  /\ p \in Sent(lo, hi) <=> p.data # 0 /\ p.data \in lo..hi /\ p.seq = p.data % 2
         /\ p \in DataPkgs /\ Exact(p, hi) /\ lo <= hi => p \in Sent(lo, hi)
         /\ p \in Sent(lo, hi) => p.data \in Nat /\ lo <= p.data /\ p.data <= hi
<1>1. p \in Sent(lo, hi) <=> p \in DataPkgs /\ p.data \in lo..hi /\ p.seq = p.data % 2
  BY DEF Sent
<1>2. p \in DataPkgs <=> p.data # 0
  BY PackagesAre
<1>3. hi \in lo..hi <=> lo <= hi
  OBVIOUS
<1> QED
  BY <1>1, <1>2, <1>3 DEF Exact

(* The package sent last is put behind all others. *)
LEMMA SendLast ==
  ASSUME NEW s \in Seq(Packages), NEW t, NEW p \in DataPkgs, NEW n \in Nat, NEW c \in Nat,
         Exact(p, n), n # 0, c <= n,
         AllIn(s, DataPkgs, Sent(1, c)),
         t = s \/ t = Append(s, p)
  PROVE  AllIn(t, DataPkgs, Sent(1, n))
<1>1. AllIn(s, DataPkgs, Sent(1, n))
  BY SentGrows
<1>2. p \in Packages /\ p.data = n /\ \A g \in 0..n : p \in Sent(g, n)
  BY PackagesAre, SentIs DEF Exact
<1>3. 1 \in 0..n
  OBVIOUS
<1> QED
  BY <1>1, <1>2, <1>3, Added, Subsets

LEMMA GenerateKeeps ==
  ASSUME TypeOK, TypeOK', NEW e \in Ends, Channel(e), Generate(e)
  PROVE  Channel(e)' /\ Aside(Other(e))
<1> DEFINE r == Other(e)
           pkg == [data |-> generated[e] + 1, ack |-> ack[e], seq |-> 1 - seq[e]]
<1>1. r \in Ends /\ r # e /\ Other(r) = e
  BY OtherIs
<1>2. PICK g \in Nat, c \in Nat, d \in Nat : g = generated[e] /\ c = Current(e) /\ d = Got(r)
  BY <1>1, TypesOf, CountsAre
<1>3. /\ g < NumPackets /\ NumPackets \in Nat /\ seq[e] = g % 2 /\ seq[e] \in 0..1 /\ ack[e] \in 0..1
      /\ 1 - seq[e] = (g + 1) % 2 /\ 1 - seq[e] \in 0..1
  BY <1>2, TransportAssumption, TypesOf, Parity DEF Generate, Channel, Numbered
<1>4. pkg \in DataPkgs /\ Exact(pkg, g + 1)
  <2>1. g + 1 \in 1..NumPackets
    BY <1>3
  <2> QED
    BY <2>1, <1>2, <1>3, PackagesAre DEF Exact
<1>5. /\ generated' = [generated EXCEPT ![e] = g + 1] /\ generated'[e] = g + 1 /\ generated'[r] = generated[r]
      /\ seq'[e] = (g + 1) % 2 /\ seq'[r] = seq[r]
      /\ expected'[r] = Append(expected[r], g + 1) /\ expected'[e] = expected[e]
      /\ UNCHANGED <<settings, ack, rcv_pkg, timer, delivered, halted>>
  <2>1. /\ generated' = [generated EXCEPT ![e] = generated[e] + 1]
        /\ seq' = [seq EXCEPT ![e] = 1 - seq[e]]
        /\ expected' = [expected EXCEPT ![r] = Append(expected[r], generated[e] + 1)]
    BY DEF Generate
  <2>2. UNCHANGED <<settings, ack, rcv_pkg, timer, delivered, halted>>
    BY DEF Generate
  <2> HIDE DEF r
  <2> QED
    BY <2>1, <2>2, <1>1, <1>2, <1>3 DEF TypeOK
<1>6. /\ c + Len(queue[e]) = g /\ d <= c /\ d + Len(expected[r]) = g /\ Got(r)' = d
      /\ Len(queue[e]) \in Nat /\ Len(expected[r]) \in Nat
      /\ (~Idle(e) => Exact(snd_pkg[e], c))
  BY <1>1, <1>2, <1>5, CountsAre DEF Channel, Numbered, Expecting, Got
<1>7. \A i \in DOMAIN expected'[r] : expected'[r][i] = d + i
  <2>1. /\ expected[r] \in Seq(1..NumPackets) /\ g + 1 \in 1..NumPackets
        /\ \A i \in DOMAIN expected[r] : expected[r][i] = d + i
    <3>1. expected[r] \in Seq(1..NumPackets)
      BY <1>1, TypesOf
    <3>2. g + 1 \in 1..NumPackets
      BY <1>3
    <3> QED
      BY <3>1, <3>2, <1>2 DEF Channel, Expecting
  <2>2. PICK l \in Nat : l = Len(expected[r])
    BY <1>6
  <2>3. /\ DOMAIN expected'[r] = 1..l + 1 /\ expected'[r][l + 1] = g + 1
        /\ \A i \in 1..l : expected'[r][i] = expected[r][i] /\ i \in DOMAIN expected[r]
    BY <2>1, <2>2, <1>5, AppendIs
  <2>4. \A i \in 1..l + 1 : i \in 1..l \/ i = l + 1
    BY <2>2
  <2>5. d + (l + 1) = g + 1
    BY <2>2, <1>6
  <2> QED
    BY <2>1, <2>3, <2>4, <2>5
<1>8. d + Len(expected'[r]) = g + 1
  <2>1. Len(expected'[r]) = Len(expected[r]) + 1
    BY <1>1, <1>3, <1>5, TypesOf, AppendIs
  <2> QED
    BY <2>1, <1>6
<1>9. ack'[r] = d % 2 /\ \A i \in DOMAIN delivered'[r] : delivered'[r][i] = i
  BY <1>2, <1>5 DEF Channel, Expecting
<1>10. CASE Idle(e)
  <2>1. /\ snd_pkg' = [snd_pkg EXCEPT ![e] = pkg] /\ NwSend(net, r, pkg) /\ queue' = queue
    BY <1>2, <1>3, <1>5, <1>10 DEF Generate, Idle
  <2>2. /\ snd_pkg'[e] = pkg /\ snd_pkg'[r] = snd_pkg[r]
        /\ c = g /\ queue'[e] = queue[e] /\ Len(queue[e]) = 0
    <3>1. c = g
      BY <1>2, <1>10 DEF Current
    <3>2. Len(queue[e]) = 0
      BY <3>1, <1>6
    <3>3. snd_pkg'[e] = pkg /\ snd_pkg'[r] = snd_pkg[r]
      BY <2>1, <1>1 DEF TypeOK
    <3> QED
      BY <3>1, <3>2, <3>3, <2>1
  <2>3. ~Idle(e)' /\ Current(e)' = g + 1
    BY <2>2, <1>4, PackagesAre DEF Idle, Current, Exact
  <2>4. /\ net'[r] = net[r] \/ net'[r] = Append(net[r], pkg)
        /\ net'[e] = net[e]
        /\ losses' = 0 => losses = 0 /\ net'[r] = Append(net[r], pkg)
    <3>1. pkg \in Packages /\ net \in [Ends -> Seq(Packages)] /\ losses \in Nat
      BY <1>4, PackagesAre DEF TypeOK
    <3> HIDE DEF pkg, r
    <3> QED
      BY <3>1, <2>1, <1>1, Sends
  <2>5. Numbered(e)'
    <3>1. (g + 1) + Len(queue'[e]) = g + 1
      BY <2>2
    <3>2. DOMAIN queue'[e] = {}
      BY <2>2, TypesOf
    <3> HIDE DEF pkg
    <3> QED
      BY <2>2, <2>3, <3>1, <3>2, <1>4, <1>5 DEF Numbered
  <2>6. Expecting(e)'
    <3>1. d <= g + 1
      BY <1>6
    <3> QED
      BY <2>3, <3>1, <1>5, <1>6, <1>7, <1>8, <1>9 DEF Expecting
  <2>7. InFlight(e)'
    <3>1. AllIn(net[r], DataPkgs, Sent(1, g))
      BY <1>2, <2>2 DEF Channel, InFlight
    <3>2. net[r] \in Seq(Packages)
      BY <1>1, TypesOf
    <3>3. g + 1 \in Nat /\ g + 1 # 0 /\ g <= g + 1
      OBVIOUS
    <3>4. AllIn(net'[r], DataPkgs, Sent(1, g + 1))
      BY <3>1, <3>2, <3>3, <2>4, <1>4, SendLast
    <3> QED
      BY <3>4, <2>3, <1>5, <1>6 DEF InFlight
  <2>8. Remembered(e)'
    <3>1. ~rcv_pkg[r] => d = 0 /\ g = 0 /\ AllIn(net[e], AckPkgs, {})
      BY <1>2, <1>10 DEF Channel, Remembered
    <3>2. g = 0 => g + 1 <= 1
      OBVIOUS
    <3> QED
      BY <3>1, <3>2, <1>5, <1>6, <2>3, <2>4 DEF Remembered
  <2>9. Alone(e)'
    <3> SUFFICES ASSUME Quiet' PROVE Alone(e)'
      BY DEF Alone
    <3>1. losses' = 0 /\ Quiet
      BY <1>5, <2>4 DEF Quiet
    <3>2. d = g /\ AllIn(net[r], DataPkgs, {}) /\ AllIn(net[e], AckPkgs, {})
      BY <3>1, <1>2, <1>10, <2>2 DEF Channel, Alone
    <3>3. pkg \in Sent(g + 1, g + 1) /\ pkg \in Packages /\ net[r] \in Seq(Packages)
      BY <1>1, <1>4, PackagesAre, SentIs, TypesOf
    <3>4. OneIn(net'[r], DataPkgs, Sent(g + 1, g + 1))
      BY <3>1, <3>2, <3>3, <2>4, Added, Subsets
    <3>5. d = (g + 1) - 1
      BY <3>2
    <3> QED
      BY <3>2, <3>4, <3>5, <2>3, <2>4, <1>6 DEF Alone
  <2>10. Aside(r)
    <3>1. Untouched(net'[r], net[r], AckPkgs) /\ Untouched(net'[e], net[e], DataPkgs)
      BY <2>4, <1>4, PackagesAre DEF Untouched
    <3> QED
      BY <3>1, <1>1, <1>5, <2>1, <2>2, <2>4 DEF Aside
  <2> QED
    BY <2>5, <2>6, <2>7, <2>8, <2>9, <2>10 DEF Channel
<1>11. CASE ~Idle(e)
  <2>1. /\ queue' = [queue EXCEPT ![e] = Append(@, pkg)] /\ UNCHANGED <<snd_pkg, net, losses>>
    BY <1>2, <1>3, <1>5, <1>11 DEF Generate, Idle
  <2>2. queue'[e] = Append(queue[e], pkg) /\ queue'[r] = queue[r]
    BY <2>1, <1>1 DEF TypeOK
  <2>3. ~Idle(e)' /\ Current(e)' = c /\ (Quiet' <=> Quiet)
    BY <2>1, <1>2, <1>5, <1>11 DEF Idle, Current, Quiet
  <2>4. Numbered(e)'
    <3>1. PICK l \in Nat : l = Len(queue[e])
      BY <1>6
    <3>2. /\ DOMAIN queue'[e] = 1..l + 1 /\ Len(queue'[e]) = l + 1 /\ queue'[e][l + 1] = pkg
          /\ \A i \in 1..l : queue'[e][i] = queue[e][i] /\ i \in DOMAIN queue[e]
      BY <3>1, <2>2, <1>4, TypesOf, AppendIs
    <3>3. \A i \in 1..l + 1 : i \in 1..l \/ i = l + 1
      BY <3>1
    <3>4. c + (l + 1) = g + 1 /\ \A i \in DOMAIN queue[e] : Exact(queue[e][i], c + i)
      BY <3>1, <1>2, <1>6 DEF Channel, Numbered
    <3>5. \A i \in DOMAIN queue'[e] : Exact(queue'[e][i], c + i)
      BY <3>2, <3>3, <3>4, <1>4
    <3> QED
      BY <3>2, <3>4, <3>5, <2>1, <2>3, <1>5, <1>6, <1>11 DEF Numbered
  <2>5. Expecting(e)'
    BY <2>3, <1>5, <1>6, <1>7, <1>8, <1>9 DEF Expecting
  <2>6. InFlight(e)'
    BY <2>1, <2>3, <1>2, <1>5, <1>6 DEF Channel, InFlight
  <2>7. Remembered(e)'
    BY <2>1, <2>3, <1>2, <1>5, <1>6, <1>11 DEF Channel, Remembered
  <2>8. Alone(e)'
    BY <2>1, <2>3, <1>2, <1>5, <1>6, <1>11 DEF Channel, Alone
  <2>9. Aside(r)
    BY <1>1, <1>5, <2>1, <2>2 DEF Aside, Untouched
  <2> QED
    BY <2>4, <2>5, <2>6, <2>7, <2>8, <2>9 DEF Channel
<1> QED
  BY <1>10, <1>11

(* What is taken out of the network is not added to it. *)
LEMMA TakeKeeps ==
  ASSUME TypeOK, NEW e \in Ends, NEW k \in DOMAIN net[e]
  PROVE  /\ \A lo, hi : AllIn(net[e], DataPkgs, Sent(lo, hi)) =>
               AllIn(RemoveAt(net[e], k), DataPkgs, Sent(lo, hi))
         /\ AllIn(net[e], AckPkgs, {}) => AllIn(RemoveAt(net[e], k), AckPkgs, {})
         /\ AllIn(net[e], DataPkgs, {}) => AllIn(RemoveAt(net[e], k), DataPkgs, {})
         /\ net[e][k] \in Packages /\ net[e] \in Seq(Packages) /\ k \in DOMAIN net[e]
<1>1. k \in DOMAIN net[e] /\ net[e] \in Seq(Packages)
  BY TypesOf
<1>2. net[e][k] \in Packages
  BY <1>1
<1>3. \A V : \A W \in SUBSET V : AllIn(net[e], V, W) => AllIn(RemoveAt(net[e], k), V, W)
  BY <1>1, Removed
<1> QED
  BY <1>1, <1>2, <1>3, Subsets

(* What the network does to a callback at end e that takes net[e][k] and    *)
(* sends p to the other end. *)
LEMMA TakeAndSend ==
  ASSUME TypeOK, NEW e \in Ends, NEW k \in DOMAIN net[e], NEW p \in Packages,
         NwSend(Without(e, k), Other(e), p)
  PROVE  /\ net'[e] = RemoveAt(net[e], k)
         /\ net'[Other(e)] = net[Other(e)] \/ net'[Other(e)] = Append(net[Other(e)], p)
         /\ losses' = 0 => losses = 0 /\ net'[Other(e)] = Append(net[Other(e)], p)
<1> DEFINE o == Other(e)
           n == Without(e, k)
<1>1. o \in Ends /\ o # e /\ k \in DOMAIN net[e]
  BY OtherIs
<1>2. n \in [Ends -> Seq(Packages)] /\ n[e] = RemoveAt(net[e], k) /\ n[o] = net[o]
  BY <1>1, Removes
<1>3. NwSend(n, o, p) /\ losses \in Nat
  BY DEF TypeOK
<1> HIDE DEF n, o
<1>4. /\ net'[o] = n[o] \/ net'[o] = Append(n[o], p)
      /\ \A x \in Ends : x # o => net'[x] = n[x]
      /\ losses' = 0 => losses = 0 /\ net'[o] = Append(n[o], p)
  BY <1>1, <1>2, <1>3, Sends
<1> QED
  BY <1>1, <1>2, <1>4 DEF o

(* What arrives at e as data was sent by the other end. *)
LEMMA DataArrives ==
  ASSUME TypeOK, NEW e \in Ends, Channel(e), NEW k \in DOMAIN net[Other(e)],
         net[Other(e)][k].data # 0
  PROVE  LET p == net[Other(e)][k] IN
         /\ p \in DataPkgs /\ p.data \in Nat \ {0} /\ p.data <= Current(e) /\ p.seq = p.data % 2
         /\ Quiet => p.data = Current(e) /\ Got(Other(e)) = Current(e) - 1
              /\ OneIn(net[Other(e)], DataPkgs, Sent(Current(e), Current(e)))
              /\ AllIn(net[e], AckPkgs, {}) /\ ~Idle(e)
<1> DEFINE r == Other(e)
           p == net[r][k]
<1>1. r \in Ends /\ p \in Packages /\ k \in DOMAIN net[r] /\ net[r] \in Seq(Packages)
  BY OtherIs, TakeKeeps
<1>2. p \in DataPkgs
  BY <1>1, PackagesAre
<1>3. p \in Sent(1, Current(e))
  BY <1>1, <1>2 DEF Channel, InFlight, AllIn
<1>4. Current(e) \in Nat /\ Got(r) \in Nat
  BY <1>1, CountsAre
<1>5. ASSUME Quiet
      PROVE  /\ p \in Sent(Current(e), Current(e)) /\ Got(r) = Current(e) - 1 /\ ~Idle(e)
             /\ OneIn(net[r], DataPkgs, Sent(Current(e), Current(e)))
             /\ AllIn(net[e], AckPkgs, {})
  <2>1. ~AllIn(net[r], DataPkgs, {})
    BY <1>1, <1>2 DEF AllIn
  <2>2. /\ Got(r) = Current(e) - 1 /\ ~Idle(e)
        /\ OneIn(net[r], DataPkgs, Sent(Current(e), Current(e)))
        /\ AllIn(net[e], AckPkgs, {})
    BY <1>5, <2>1 DEF Channel, Alone
  <2>3. p \in Sent(Current(e), Current(e))
    BY <2>2, <1>1, <1>2, Removed, Subsets
  <2> QED
    BY <2>2, <2>3
<1> HIDE DEF p, r
<1>6. p.data \in Nat /\ 1 <= p.data /\ p.data <= Current(e) /\ p.seq = p.data % 2
  BY <1>1, <1>3, <1>4, SentIs
<1>7. p.data # 0
  BY <1>6
<1>8. Quiet => p.data = Current(e)
  <2> SUFFICES ASSUME Quiet PROVE p.data = Current(e)
    OBVIOUS
  <2>1. p.data \in Nat /\ Current(e) <= p.data /\ p.data <= Current(e)
    BY <1>1, <1>4, <1>5, SentIs
  <2> QED
    BY <2>1, <1>4
<1> QED
  BY <1>2, <1>5, <1>6, <1>7, <1>8 DEF p, r

LEMMA ExpectedKeeps ==
  ASSUME TypeOK, TypeOK', NEW e \in Ends, Channel(e),
         NEW k \in DOMAIN net[Other(e)], ReceiveData(Other(e), k), halted' = halted
  PROVE  Channel(e)' /\ Aside(Other(e))
<1> DEFINE r == Other(e)
           p == net[r][k]
<1>1. r \in Ends /\ r # e /\ Other(r) = e
  BY OtherIs
<1>2. PICK g \in Nat, c \in Nat, d \in Nat : g = generated[e] /\ c = Current(e) /\ d = Got(r)
  BY <1>1, TypesOf, CountsAre
<1>3. /\ p \in DataPkgs /\ p \in Packages /\ p.data \in Nat \ {0} /\ p.data <= c /\ p.seq = p.data % 2
      /\ Quiet => p.data = c /\ d = c - 1 /\ OneIn(net[r], DataPkgs, Sent(c, c))
                    /\ AllIn(net[e], AckPkgs, {}) /\ ~Idle(e)
  BY <1>1, <1>2, DataArrives, TakeKeeps DEF ReceiveData
<1>4. /\ c + Len(queue[e]) = g /\ d <= c /\ d + Len(expected[r]) = g /\ ack[r] = d % 2
      /\ \A i \in DOMAIN expected[r] : expected[r][i] = d + i
      /\ \A i \in DOMAIN delivered[r] : delivered[r][i] = i
  BY <1>2 DEF Channel, Numbered, Expecting
<1>5. /\ expected[r] # << >> /\ Head(expected[r]) = p.data
      /\ expected' = [expected EXCEPT ![r] = Tail(@)]
      /\ ack' = [ack EXCEPT ![r] = 1 - @] /\ rcv_pkg' = [rcv_pkg EXCEPT ![r] = TRUE]
      /\ NwSend(Without(r, k), Other(r), AckPkg(p.seq))
  <2>1. halted = "no"
    BY DEF ReceiveData, Running
  <2> QED
    BY <2>1 DEF ReceiveData
<1>6. /\ UNCHANGED <<settings, seq, snd_pkg, queue, timer, generated, halted>>
      /\ delivered' = [delivered EXCEPT ![r] = Append(@, p.data)]
  BY DEF ReceiveData
<1>7. p.data = d + 1
  <2>1. 1 \in DOMAIN expected[r] /\ Head(expected[r]) = expected[r][1]
    BY <1>1, <1>5, TypesOf, TailIs
  <2> QED
    BY <2>1, <1>4, <1>5
<1>8. /\ expected'[r] = Tail(expected[r]) /\ expected'[e] = expected[e]
      /\ delivered'[r] = Append(delivered[r], d + 1) /\ delivered'[e] = delivered[e]
      /\ ack'[r] = 1 - ack[r] /\ ack'[e] = ack[e] /\ rcv_pkg'[r] = TRUE /\ rcv_pkg'[e] = rcv_pkg[e]
  BY <1>1, <1>5, <1>6, <1>7 DEF TypeOK
<1>9. /\ net'[r] = RemoveAt(net[r], k)
      /\ net'[e] = net[e] \/ net'[e] = Append(net[e], AckPkg(p.seq))
      /\ losses' = 0 => losses = 0 /\ net'[e] = Append(net[e], AckPkg(p.seq))
      /\ AckPkg(p.seq) \in AckPkgs /\ AckPkg(p.seq) \in Packages /\ AckPkg(p.seq).ack = p.seq
  <2>1. p.seq \in 0..2
    BY <1>3, Parity
  <2>2. AckPkg(p.seq) \in AckPkgs /\ AckPkg(p.seq) \in Packages /\ AckPkg(p.seq).ack = p.seq
    BY <2>1, PackagesAre
  <2> HIDE DEF p
  <2> QED
    BY <2>2, <1>1, <1>5, TakeAndSend
<1> HIDE DEF p
<1>10. /\ Current(e)' = c /\ Idle(e)' = Idle(e) /\ Got(r)' = d + 1 /\ d + 1 <= c
       /\ DOMAIN delivered'[r] = 1..d + 1
       /\ \A i \in 1..d + 1 : delivered'[r][i] = i
  <2>1. Current(e)' = c /\ Idle(e)' = Idle(e)
    BY <1>2, <1>6 DEF Current, Idle
  <2>2. d + 1 \in 1..NumPackets /\ delivered[r] \in Seq(1..NumPackets) /\ Len(delivered[r]) = d
        /\ DOMAIN delivered[r] = 1..d
    <3>1. c <= NumPackets /\ NumPackets \in Nat
      BY <1>2, CountsAre, TransportAssumption
    <3>2. delivered[r] \in Seq(1..NumPackets) /\ Len(delivered[r]) = d /\ DOMAIN delivered[r] = 1..d
      BY <1>1, <1>2, TypesOf, CountsAre DEF Got
    <3> QED
      BY <3>1, <3>2, <1>3, <1>7
  <2>3. /\ Len(delivered'[r]) = d + 1 /\ delivered'[r] \in Seq(1..NumPackets)
        /\ \A i \in 1..d : delivered'[r][i] = delivered[r][i]
        /\ delivered'[r][d + 1] = d + 1
    BY <2>2, <1>8, AppendIs
  <2>4. \A i \in 1..d + 1 : i \in 1..d \/ i = d + 1
    OBVIOUS
  <2> QED
    <3>1. d + 1 <= c
      BY <1>3, <1>7
    <3>2. Got(r)' = d + 1 /\ DOMAIN delivered'[r] = 1..d + 1
      BY <2>3 DEF Got
    <3>3. \A i \in 1..d : delivered'[r][i] = i
      BY <2>2, <2>3, <1>4
    <3> QED
      BY <2>1, <2>3, <2>4, <3>1, <3>2, <3>3
<1>11. Numbered(e)'
  BY <1>2, <1>6, <1>10 DEF Channel, Numbered
<1>12. Expecting(e)'
  <2>1. expected[r] \in Seq(1..NumPackets)
    BY <1>1, TypesOf
  <2>2. PICK l \in Nat \ {0} : l = Len(expected[r])
    BY <2>1, <1>5, TailIs
  <2>3. /\ Len(expected'[r]) = l - 1 /\ DOMAIN expected'[r] = 1..l - 1
        /\ \A i \in 1..l - 1 : expected'[r][i] = expected[r][i + 1]
        /\ DOMAIN expected[r] = 1..l
    <3>1. PICK t \in Seq(1..NumPackets) : t = Tail(expected[r])
      BY <2>1, <1>5, TailIs
    <3>2. /\ Len(t) = l - 1
          /\ \A i \in 1..l - 1 : t[i] = expected[r][i + 1]
      BY <2>1, <2>2, <3>1, <1>5, TailIs
    <3>3. DOMAIN t = 1..l - 1 /\ DOMAIN expected[r] = 1..l
      BY <2>1, <2>2, <3>2
    <3> QED
      BY <3>1, <3>2, <3>3, <1>8
  <2>4. \A i \in 1..l - 1 : i + 1 \in 1..l /\ d + (i + 1) = (d + 1) + i
    OBVIOUS
  <2>5. \A i \in DOMAIN expected'[r] : expected'[r][i] = (d + 1) + i
    BY <2>3, <2>4, <1>4
  <2>6. (d + 1) + (l - 1) = g
    <3>1. d + l = g
      BY <2>2, <1>4
    <3> QED
      BY <3>1
  <2>7. ack'[r] = (d + 1) % 2
    BY <1>4, <1>8, Parity
  <2> QED
    BY <2>3, <2>5, <2>6, <2>7, <1>2, <1>6, <1>10 DEF Expecting
<1>13. InFlight(e)'
  <2>1. AllIn(net'[r], DataPkgs, Sent(1, c))
    BY <1>1, <1>2, <1>9, TakeKeeps DEF Channel, InFlight
  <2> QED
    BY <2>1, <1>6, <1>10 DEF InFlight
<1>14. Remembered(e)'
  BY <1>8 DEF Remembered
<1>15. Alone(e)'
  <2> SUFFICES ASSUME Quiet' PROVE Alone(e)'
    BY DEF Alone
  <2>1. Quiet /\ net'[e] = Append(net[e], AckPkg(p.seq))
    BY <1>6, <1>9 DEF Quiet
  <2>2. p.data = c /\ OneIn(net[r], DataPkgs, Sent(c, c)) /\ AllIn(net[e], AckPkgs, {}) /\ ~Idle(e)
    BY <2>1, <1>3
  <2>3. AllIn(net'[r], DataPkgs, {})
    <3>1. net[r] \in Seq(Packages) /\ k \in DOMAIN net[r] /\ net[r][k] \in DataPkgs
      BY <1>1, <1>3, TakeKeeps DEF p
    <3> QED
      BY <3>1, <2>2, <1>9, Removed, Subsets
  <2>4. OneIn(net'[e], AckPkgs, AcksOf(c % 2))
    <3>1. AckPkg(p.seq) \in AcksOf(c % 2)
      BY <2>2, <1>3, <1>9 DEF AcksOf
    <3> QED
      BY <3>1, <2>1, <2>2, <1>9, TypesOf, Added, Subsets
  <2> QED
    BY <2>2, <2>3, <2>4, <1>7, <1>10 DEF Alone
<1>16. Aside(r)
  <2>1. Untouched(net'[e], net[e], DataPkgs)
    BY <1>9, PackagesAre DEF Untouched
  <2>2. Untouched(net'[r], net[r], AckPkgs)
    <3>1. k \in DOMAIN net[r] /\ net[r][k] \notin AckPkgs
      BY <1>1, <1>3, TakeKeeps, PackagesAre DEF p
    <3> QED
      BY <3>1, <1>9 DEF Untouched
  <2> QED
    BY <2>1, <2>2, <1>1, <1>6, <1>8, <1>9 DEF Aside
<1> QED
  BY <1>11, <1>12, <1>13, <1>14, <1>15, <1>16 DEF Channel

(* Until the program stops, an application has been given exact messages.   *)
LEMMA ExactSoFar ==
  ASSUME TypeOK, NEW e \in Ends, Channel(e)
  PROVE  Stopped(e)
<1> DEFINE r == Other(e)
<1>1. r \in Ends
  BY OtherIs
<1>2. PICK g \in Nat, c \in Nat, d \in Nat : g = generated[e] /\ c = Current(e) /\ d = Got(r)
  BY <1>1, TypesOf, CountsAre
<1>3. d <= c /\ c + Len(queue[e]) = g /\ Len(queue[e]) \in Nat /\ DOMAIN delivered[r] = 1..d
      /\ \A i \in 1..d : delivered[r][i] = i
  BY <1>1, <1>2, CountsAre DEF Channel, Numbered, Expecting
<1>4. d <= g /\ \A i \in 1..d : i \in 1..g
  BY <1>3
<1> QED
  BY <1>2, <1>3, <1>4 DEF Stopped, Channel

LEMMA UnexpectedStops ==
  ASSUME TypeOK, TypeOK', NEW e \in Ends, Channel(e), Channel(Other(e)),
         NEW k \in DOMAIN net[Other(e)], ReceiveData(Other(e), k), halted' # halted
  PROVE  ~Quiet' /\ Stopped(e)' /\ Stopped(Other(e))' /\ halted' = "unexpected data"
<1> DEFINE r == Other(e)
           p == net[r][k]
<1>1. r \in Ends /\ r # e /\ Other(r) = e
  BY OtherIs
<1>2. PICK g \in Nat, c \in Nat, d \in Nat : g = generated[e] /\ c = Current(e) /\ d = Got(r)
  BY <1>1, TypesOf, CountsAre
<1>3. /\ p.data \in Nat \ {0} /\ p.data <= c /\ p.seq = p.data % 2 /\ p.seq # ack[r]
      /\ Quiet => p.data = c /\ d = c - 1 
  BY <1>1, <1>2, DataArrives, TakeKeeps DEF ReceiveData
<1>4. /\ c + Len(queue[e]) = g /\ d <= c /\ d + Len(expected[r]) = g /\ ack[r] = d % 2
      /\ \A i \in DOMAIN expected[r] : expected[r][i] = d + i
      /\ \A i \in DOMAIN delivered[r] : delivered[r][i] = i
      /\ Len(queue[e]) \in Nat /\ Len(expected[r]) \in Nat
  BY <1>1, <1>2, CountsAre DEF Channel, Numbered, Expecting
<1>5. /\ ~(expected[r] # << >> /\ Head(expected[r]) = p.data)
      /\ halted' = "unexpected data"
      /\ UNCHANGED <<settings, seq, snd_pkg, queue, timer, generated, expected, ack, rcv_pkg, net, losses>>
      /\ delivered' = [delivered EXCEPT ![r] = Append(@, p.data)]
  BY DEF ReceiveData
<1> HIDE DEF p
<1>6. delivered'[r] = Append(delivered[r], p.data) /\ delivered'[e] = delivered[e]
  BY <1>1, <1>5 DEF TypeOK
<1>7. ~Quiet
  <2> SUFFICES ASSUME Quiet PROVE FALSE
    OBVIOUS
  <2>1. p.data = d + 1 /\ Len(expected[r]) # 0
    BY <1>3, <1>4
  <2>2. expected[r] # << >> /\ 1 \in DOMAIN expected[r] /\ Head(expected[r]) = expected[r][1]
    <3>1. expected[r] # << >>
      BY <2>1
    <3> QED
      BY <3>1, <1>1, TypesOf, TailIs
  <2> QED
    BY <2>1, <2>2, <1>4, <1>5
<1>8. Stopped(r)'
  <2>1. Stopped(r)
    BY <1>1, ExactSoFar
  <2> QED
    BY <2>1, <1>1, <1>5, <1>6 DEF Stopped, Numbered, Current, Idle, Got
<1>9. Numbered(e)'
  BY <1>1, <1>5 DEF Channel, Numbered, Current, Idle
<1>10. /\ Got(r)' = d + 1 /\ DOMAIN delivered'[r] = 1..d + 1
       /\ \A i \in 1..d : delivered'[r][i] = i
       /\ delivered'[r][d + 1] = p.data
  <2>1. delivered[r] \in Seq(1..NumPackets) /\ Len(delivered[r]) = d /\ DOMAIN delivered[r] = 1..d
    BY <1>1, <1>2, TypesOf, CountsAre DEF Got
  <2>2. p.data \in 1..NumPackets
    BY <1>2, <1>3, CountsAre, TransportAssumption
  <2>3. /\ Len(delivered'[r]) = d + 1 /\ delivered'[r] \in Seq(1..NumPackets)
        /\ \A i \in 1..d : delivered'[r][i] = delivered[r][i]
        /\ delivered'[r][d + 1] = p.data
    BY <2>1, <2>2, <1>6, AppendIs
  <2>4. \A i \in 1..d : delivered'[r][i] = i
    BY <2>1, <2>3, <1>4
  <2> QED
    BY <2>3, <2>4 DEF Got
<1>11. p.data \in 1..g /\ \A i \in 1..d : i \in 1..g
  BY <1>3, <1>4
<1>13. Stopped(e)'
  <2>1. \A i \in 1..d + 1 : (i \in 1..d \/ i = d + 1) /\ (i < d + 1 => i \in 1..d)
    OBVIOUS
  <2>2. \A i \in 1..d + 1 : delivered'[r][i] \in 1..g /\ (i < d + 1 => delivered'[r][i] = i)
    BY <2>1, <1>10, <1>11
  <2> QED
    BY <2>2, <1>2, <1>5, <1>9, <1>10 DEF Stopped
<1> QED
  BY <1>5, <1>7, <1>8, <1>13 DEF Quiet

LEMMA AgainKeeps ==
  ASSUME TypeOK, TypeOK', NEW e \in Ends, Channel(e),
         NEW k \in DOMAIN net[Other(e)], ReceiveAgain(Other(e), k)
  PROVE  Channel(e)' /\ Aside(Other(e)) /\ halted' = halted
<1> DEFINE r == Other(e)
           p == net[r][k]
<1>1. r \in Ends /\ r # e /\ Other(r) = e
  BY OtherIs
<1>2. PICK c \in Nat, d \in Nat : c = Current(e) /\ d = Got(r)
  BY <1>1, CountsAre
<1>3. /\ p \in DataPkgs /\ p.data \in Nat \ {0} /\ p.data <= c /\ p.seq = p.data % 2 /\ p.seq = ack[r]
      /\ Quiet => p.data = c /\ d = c - 1
      /\ ack[r] = d % 2
  BY <1>1, <1>2, DataArrives, TakeKeeps DEF ReceiveAgain, Channel, Expecting
<1>4. UNCHANGED <<settings, ack, seq, snd_pkg, rcv_pkg, queue, timer, generated, expected, delivered>>
  BY DEF ReceiveAgain
<1>5. rcv_pkg[r] = TRUE
  <2> SUFFICES ASSUME ~rcv_pkg[r] PROVE FALSE
    BY <1>1, TypesOf
  <2>1. d = 0 /\ c <= 1
    BY <1>2 DEF Channel, Remembered
  <2>2. p.data = 1
    BY <2>1, <1>2, <1>3
  <2> QED
    BY <2>1, <2>2, <1>3, Parity
<1>6. halted' = halted /\ \E bit \in 0..2 : NwSend(Without(r, k), Other(r), AckPkg(bit))
  BY <1>5, Zenon DEF ReceiveAgain
<1>7. PICK bit \in 0..2 : NwSend(Without(r, k), Other(r), AckPkg(bit))
  BY <1>6
<1>8. /\ net'[r] = RemoveAt(net[r], k)
      /\ net'[e] = net[e] \/ net'[e] = Append(net[e], AckPkg(bit))
      /\ losses' = 0 => losses = 0
      /\ AckPkg(bit) \in AckPkgs
  BY <1>1, <1>7, PackagesAre, TakeAndSend
<1>9. ~Quiet /\ ~Quiet'
  <2>1. ~Quiet
    <3> SUFFICES ASSUME Quiet PROVE FALSE
      OBVIOUS
    <3>1. p.data = d + 1
      BY <1>3
    <3> QED
      BY <3>1, <1>3
  <2> QED
    BY <2>1, <1>4, <1>8 DEF Quiet
<1>10. Current(e)' = c /\ Idle(e)' = Idle(e) /\ Got(r)' = d
  BY <1>2, <1>4 DEF Current, Idle, Got
<1>11. Numbered(e)' /\ Expecting(e)' /\ Remembered(e)' /\ Alone(e)'
  BY <1>2, <1>4, <1>5, <1>9, <1>10 DEF Channel, Numbered, Expecting, Remembered, Alone
<1>12. InFlight(e)'
  <2>1. \A lo, hi : AllIn(net[r], DataPkgs, Sent(lo, hi)) => AllIn(net'[r], DataPkgs, Sent(lo, hi))
    BY <1>1, <1>8, TakeKeeps
  <2> QED
    BY <2>1, <1>2, <1>4, <1>10 DEF Channel, InFlight
<1>13. Aside(r)
  <2>1. Untouched(net'[e], net[e], DataPkgs)
    BY <1>8, PackagesAre DEF Untouched
  <2>2. Untouched(net'[r], net[r], AckPkgs)
    <3>1. k \in DOMAIN net[r] /\ net[r][k] \notin AckPkgs
      BY <1>1, <1>3, TakeKeeps, PackagesAre
    <3> QED
      BY <3>1, <1>8 DEF Untouched
  <2> QED
    BY <2>1, <2>2, <1>1, <1>4, <1>8 DEF Aside
<1> QED
  BY <1>6, <1>11, <1>12, <1>13 DEF Channel

(* What arrives as an acknowledgement before the first loss or timeout is   *)
(* that of the package in hand. *)
LEMMA AckArrives ==
  ASSUME TypeOK, NEW e \in Ends, Channel(e), NEW k \in DOMAIN net[e], net[e][k].data = 0
  PROVE  /\ net[e][k] \in AckPkgs /\ net[e][k] \in Packages /\ rcv_pkg[Other(e)]
         /\ Quiet => /\ net[e][k].ack = Current(e) % 2 /\ ~Idle(e) /\ Got(Other(e)) = Current(e)
                     /\ AllIn(net[Other(e)], DataPkgs, {})
                     /\ AllIn(RemoveAt(net[e], k), AckPkgs, {})
<1>1. k \in DOMAIN net[e] /\ net[e] \in Seq(Packages) /\ net[e][k] \in Packages
  BY TakeKeeps
<1>2. net[e][k] \in AckPkgs
  BY <1>1, PackagesAre
<1>3. ~AllIn(net[e], AckPkgs, {})
  BY <1>1, <1>2 DEF AllIn
<1>4. Quiet => /\ ~Idle(e) /\ Got(Other(e)) = Current(e)
               /\ AllIn(net[Other(e)], DataPkgs, {})
               /\ OneIn(net[e], AckPkgs, AcksOf(Current(e) % 2))
  BY <1>3 DEF Channel, Alone
<1>5. OneIn(net[e], AckPkgs, AcksOf(Current(e) % 2)) =>
        net[e][k] \in AcksOf(Current(e) % 2) /\ AllIn(RemoveAt(net[e], k), AckPkgs, {})
  BY <1>1, <1>2, Removed, Subsets
<1>6. net[e][k] \in AcksOf(Current(e) % 2) => net[e][k].ack = Current(e) % 2
  BY DEF AcksOf
<1> QED
  BY <1>1, <1>2, <1>3, <1>4, <1>5, <1>6 DEF Channel, Remembered

LEMMA WrongAckKeeps ==
  ASSUME TypeOK, TypeOK', NEW e \in Ends, Channel(e), NEW k \in DOMAIN net[e], ReceiveWrongAck(e, k)
  PROVE  /\ Channel(e)' /\ Aside(Other(e))
         /\ halted' \in {"no", "null snd_pkg"} /\ (Quiet' => halted' = "no")
<1> DEFINE r == Other(e)
<1>1. r \in Ends /\ r # e /\ Other(r) = e
  BY OtherIs
<1>2. /\ net[e][k].data = 0 /\ (Idle(e) \/ net[e][k].ack # snd_pkg[e].seq)
      /\ halted' = IF Idle(e) THEN "null snd_pkg" ELSE "no"
      /\ net' = Without(e, k)
      /\ UNCHANGED <<settings, ack, seq, snd_pkg, rcv_pkg, queue, timer, losses,
                     generated, expected, delivered>>
  BY DEF ReceiveWrongAck, Idle
<1>3. ~Quiet
  <2> SUFFICES ASSUME Quiet PROVE FALSE
    OBVIOUS
  <2>1. net[e][k].ack = Current(e) % 2 /\ ~Idle(e)
    BY <1>2, AckArrives
  <2>2. snd_pkg[e].seq = Current(e) % 2
    BY <2>1 DEF Channel, Numbered, Exact
  <2> QED
    BY <2>1, <2>2, <1>2
<1>4. k \in DOMAIN net[e] /\ net[e][k] \in AckPkgs /\ rcv_pkg[r]
  BY <1>2, TakeKeeps, AckArrives
<1>5. net'[e] = RemoveAt(net[e], k) /\ net'[r] = net[r]
  BY <1>1, <1>2, <1>4, Removes
<1>6. Current(e)' = Current(e) /\ Idle(e)' = Idle(e) /\ Got(r)' = Got(r) /\ ~Quiet'
  BY <1>2, <1>3 DEF Current, Idle, Got, Quiet
<1>7. Numbered(e)' /\ Expecting(e)' /\ InFlight(e)' /\ Remembered(e)' /\ Alone(e)'
  BY <1>2, <1>4, <1>5, <1>6 DEF Channel, Numbered, Expecting, InFlight, Remembered, Alone
<1>8. Aside(r)
  <2>1. Untouched(net'[e], net[e], DataPkgs) /\ Untouched(net'[r], net[r], AckPkgs)
    BY <1>4, <1>5, PackagesAre DEF Untouched, DataPkgs, AckPkgs
  <2> QED
    BY <2>1, <1>1, <1>2 DEF Aside
<1> QED
  BY <1>2, <1>6, <1>7, <1>8 DEF Channel

LEMMA AckKeeps ==
  ASSUME TypeOK, TypeOK', NEW e \in Ends, Channel(e), NEW k \in DOMAIN net[e], ReceiveAck(e, k)
  PROVE  Channel(e)' /\ Aside(Other(e)) /\ halted' = halted
<1> DEFINE r == Other(e)
<1>1. r \in Ends /\ r # e /\ Other(r) = e
  BY OtherIs
<1>2. PICK g \in Nat, c \in Nat, d \in Nat : g = generated[e] /\ c = Current(e) /\ d = Got(r)
  BY <1>1, TypesOf, CountsAre
<1>3. /\ net[e][k].data = 0 /\ ~Idle(e) /\ halted' = halted
      /\ UNCHANGED <<settings, ack, seq, rcv_pkg, timer, generated, expected, delivered, halted>>
  BY DEF ReceiveAck, Idle
<1>4. /\ c + Len(queue[e]) = g /\ d <= c /\ queue[e] \in Seq(DataPkgs) /\ Len(queue[e]) \in Nat
      /\ \A i \in DOMAIN queue[e] : Exact(queue[e][i], c + i)
      /\ \A i \in DOMAIN delivered[r] : delivered[r][i] = i
      /\ Got(r)' = d
  BY <1>1, <1>2, <1>3, TypesOf, CountsAre DEF Channel, Numbered, Expecting, Got
<1>5. /\ k \in DOMAIN net[e] /\ net[e][k] \in AckPkgs /\ net[e][k] \notin DataPkgs /\ rcv_pkg[r]
      /\ Quiet => /\ d = c /\ AllIn(net[r], DataPkgs, {})
                  /\ AllIn(RemoveAt(net[e], k), AckPkgs, {})
  BY <1>1, <1>2, <1>3, TakeKeeps, AckArrives, PackagesAre
<1>6. Remembered(e)'
  BY <1>3, <1>5 DEF Remembered
<1>7. CASE queue[e] = << >>
  <2>1. /\ snd_pkg' = [snd_pkg EXCEPT ![e] = NoPkg] /\ net' = Without(e, k)
        /\ UNCHANGED <<queue, losses>>
    BY <1>7 DEF ReceiveAck
  <2>2. /\ snd_pkg'[e] = NoPkg /\ snd_pkg'[r] = snd_pkg[r]
        /\ net'[e] = RemoveAt(net[e], k) /\ net'[r] = net[r]
    <3>1. snd_pkg'[e] = NoPkg /\ snd_pkg'[r] = snd_pkg[r]
      BY <2>1, <1>1 DEF TypeOK
    <3>2. net'[e] = RemoveAt(net[e], k) /\ net'[r] = net[r]
      BY <2>1, <1>1, <1>5, Removes
    <3> QED
      BY <3>1, <3>2
  <2>3. Idle(e)' /\ Current(e)' = c /\ g = c /\ (Quiet' <=> Quiet)
    <3>1. g = c
      BY <1>4, <1>7
    <3> QED
      BY <3>1, <2>1, <2>2, <1>2, <1>3 DEF Idle, Current, Quiet
  <2>4. Numbered(e)' /\ Expecting(e)' /\ InFlight(e)'
    BY <2>1, <2>2, <2>3, <1>2, <1>3, <1>4 DEF Channel, Numbered, Expecting, InFlight
  <2>5. Alone(e)'
    BY <2>2, <2>3, <1>4, <1>5 DEF Alone
  <2>6. Aside(r)
    <3>1. Untouched(net'[e], net[e], DataPkgs) /\ Untouched(net'[r], net[r], AckPkgs)
      BY <1>5, <2>2 DEF Untouched
    <3> QED
      BY <3>1, <2>1, <2>2, <1>1, <1>3 DEF Aside
  <2> QED
    BY <2>4, <2>5, <2>6, <1>3, <1>6 DEF Channel
<1>8. CASE queue[e] # << >>
  <2>1. PICK q \in DataPkgs, t \in Seq(DataPkgs) : q = Head(queue[e]) /\ t = Tail(queue[e])
    BY <1>4, <1>8, TailIs
  <2>2. PICK l \in Nat \ {0} : l = Len(queue[e])
    BY <1>4, <1>8, TailIs
  <2>3. /\ q = queue[e][1] /\ Len(t) = l - 1 /\ DOMAIN t = 1..l - 1 /\ DOMAIN queue[e] = 1..l
        /\ \A i \in 1..l - 1 : t[i] = queue[e][i + 1]
    <3>1. /\ q = queue[e][1] /\ Len(t) = l - 1
          /\ \A i \in 1..l - 1 : t[i] = queue[e][i + 1]
      BY <2>1, <2>2, <1>4, <1>8, TailIs
    <3> QED
      BY <3>1, <2>2, <1>4
  <2>4. /\ snd_pkg' = [snd_pkg EXCEPT ![e] = q]
        /\ queue' = [queue EXCEPT ![e] = t]
        /\ NwSend(Without(e, k), Other(e), q)
    BY <1>8, <2>1 DEF ReceiveAck
  <2>5. /\ snd_pkg'[e] = q /\ snd_pkg'[r] = snd_pkg[r] /\ queue'[e] = t /\ queue'[r] = queue[r]
    BY <2>4, <1>1 DEF TypeOK
  <2>6. /\ net'[e] = RemoveAt(net[e], k)
        /\ net'[r] = net[r] \/ net'[r] = Append(net[r], q)
        /\ losses' = 0 => losses = 0 /\ net'[r] = Append(net[r], q)
    BY <2>4, PackagesAre, TakeAndSend
  <2>7. Exact(q, c + 1) /\ q # NoPkg
    <3>1. 1 \in DOMAIN queue[e]
      BY <2>3
    <3> QED
      BY <3>1, <2>3, <1>4, PackagesAre
  <2>8. ~Idle(e)' /\ Current(e)' = c + 1
    BY <2>5, <2>7 DEF Idle, Current, Exact
  <2>9. Numbered(e)'
    <3>1. \A i \in 1..l - 1 : i + 1 \in 1..l /\ c + (i + 1) = (c + 1) + i
      OBVIOUS
    <3>2. \A i \in 1..l - 1 : Exact(t[i], (c + 1) + i)
      BY <3>1, <2>3, <1>4
    <3>3. (c + 1) + (l - 1) = g
      <4>1. c + l = g
        BY <2>2, <1>4
      <4> QED
        BY <4>1
    <3> QED
      BY <3>2, <3>3, <2>3, <2>5, <2>7, <2>8, <1>2, <1>3 DEF Channel, Numbered
  <2>10. Expecting(e)'
    <3>1. d <= c + 1
      BY <1>4
    <3> QED
      BY <3>1, <2>8, <1>2, <1>3, <1>4 DEF Channel, Expecting
  <2>11. InFlight(e)'
    <3>1. AllIn(net[r], DataPkgs, Sent(1, c)) /\ net[r] \in Seq(Packages)
      BY <1>1, <1>2, TypesOf DEF Channel, InFlight
    <3>2. c + 1 \in Nat /\ c + 1 # 0 /\ c <= c + 1
      OBVIOUS
    <3>3. AllIn(net'[r], DataPkgs, Sent(1, c + 1))
      BY <3>1, <3>2, <2>6, <2>7, SendLast
    <3> QED
      BY <3>1, <3>3, <2>8, <1>3, <1>4 DEF InFlight
  <2>12. Alone(e)'
    <3> SUFFICES ASSUME Quiet' PROVE Alone(e)'
      BY DEF Alone
    <3>1. Quiet /\ net'[r] = Append(net[r], q)
      BY <1>3, <2>6 DEF Quiet
    <3>2. OneIn(net'[r], DataPkgs, Sent(c + 1, c + 1))
      <4>1. c + 1 \in Nat /\ c + 1 <= c + 1 /\ q \in Packages
        BY PackagesAre
      <4>2. q \in Sent(c + 1, c + 1)
        BY <4>1, <2>7, SentIs
      <4>3. net[r] \in Seq(Packages)
        BY <1>1, TypesOf
      <4> QED
        BY <4>1, <4>2, <4>3, <3>1, <1>5, Added, Subsets
    <3>3. d = (c + 1) - 1
      BY <3>1, <1>5
    <3> QED
      BY <3>1, <3>2, <3>3, <2>6, <2>8, <1>4, <1>5 DEF Alone
  <2>13. Aside(r)
    <3>1. Untouched(net'[e], net[e], DataPkgs)
      BY <1>5, <2>6 DEF Untouched
    <3>2. Untouched(net'[r], net[r], AckPkgs)
      BY <2>6, PackagesAre DEF Untouched
    <3> QED
      BY <3>1, <3>2, <2>5, <2>6, <1>1, <1>3 DEF Aside
  <2> QED
    BY <2>9, <2>10, <2>11, <2>12, <2>13, <1>3, <1>6 DEF Channel
<1> QED
  BY <1>7, <1>8

LEMMA TimeoutKeeps ==
  ASSUME TypeOK, TypeOK', NEW e \in Ends, Channel(e), LayerTimeout(e)
  PROVE  Channel(e)' /\ Aside(Other(e)) /\ halted' = halted
<1> DEFINE r == Other(e)
<1>1. r \in Ends /\ r # e /\ Other(r) = e
  BY OtherIs
<1>2. PICK c \in Nat, d \in Nat : c = Current(e) /\ d = Got(r) /\ d <= c
  BY <1>1, CountsAre DEF Channel, Expecting
<1>3. /\ settings.timeouts
      /\ UNCHANGED <<settings, ack, seq, snd_pkg, rcv_pkg, queue, generated, expected, delivered, halted>>
      /\ Idle(e) => UNCHANGED <<net, losses>>
      /\ ~Idle(e) => NwSend(net, r, snd_pkg[e])
  BY DEF LayerTimeout, Idle
<1>4. ~Quiet /\ ~Quiet'
  BY <1>3 DEF Quiet
<1>5. Current(e)' = c /\ Idle(e)' = Idle(e) /\ Got(r)' = d
  BY <1>2, <1>3 DEF Current, Idle, Got
<1>6. CASE Idle(e)
  <2>1. Channel(e)'
    BY <1>2, <1>3, <1>4, <1>5, <1>6
       DEF Channel, Numbered, Expecting, InFlight, Remembered, Alone
  <2> QED
    BY <2>1, <1>1, <1>3, <1>6 DEF Aside, Untouched
<1>7. CASE ~Idle(e)
  <2>1. PICK q \in DataPkgs : q = snd_pkg[e] /\ q \in Packages /\ Exact(q, c) /\ c # 0
    BY <1>2, <1>7, CountsAre, PackagesAre DEF Channel, Numbered
  <2>2. /\ net'[e] = net[e]
        /\ net'[r] = net[r] \/ net'[r] = Append(net[r], q)
        /\ losses' = 0 => losses = 0
    <3>1. net \in [Ends -> Seq(Packages)] /\ losses \in Nat /\ NwSend(net, r, q)
      BY <2>1, <1>3, <1>7 DEF TypeOK
    <3> HIDE DEF r
    <3> QED
      BY <3>1, <2>1, <1>1, Sends
  <2>3. Numbered(e)' /\ Expecting(e)' /\ Remembered(e)' /\ Alone(e)'
    BY <2>2, <1>2, <1>3, <1>4, <1>5 DEF Channel, Numbered, Expecting, Remembered, Alone
  <2>4. InFlight(e)'
    <3>1. AllIn(net[r], DataPkgs, Sent(1, c)) /\ net[r] \in Seq(Packages)
      BY <1>1, <1>2, TypesOf DEF Channel, InFlight
    <3>2. c <= c
      OBVIOUS
    <3>3. AllIn(net'[r], DataPkgs, Sent(1, c))
      BY <3>1, <3>2, <2>1, <2>2, SendLast
    <3> QED
      BY <3>1, <3>3, <1>3, <1>5 DEF InFlight
  <2>5. Aside(r)
    <3>1. Untouched(net'[e], net[e], DataPkgs) /\ Untouched(net'[r], net[r], AckPkgs)
      BY <2>1, <2>2, PackagesAre DEF Untouched
    <3> QED
      BY <3>1, <2>2, <1>1, <1>3 DEF Aside
  <2> QED
    BY <2>3, <2>4, <2>5, <1>3 DEF Channel
<1> QED
  BY <1>6, <1>7

----------------------------------------------------------------------------
LEMMA TInvInit == Init => TInv
<1> SUFFICES ASSUME Init PROVE TInv
  OBVIOUS
<1>1. ASSUME NEW e \in Ends
      PROVE  Channel(e)
  <2> DEFINE r == Other(e)
  <2>1. r \in Ends
    BY OtherIs
  <2>2. /\ Idle(e) /\ generated[e] = 0 /\ seq[e] = 0 /\ queue[e] = << >> /\ net[e] = << >>
        /\ net[r] = << >> /\ ack[r] = 0 /\ delivered[r] = << >> /\ expected[r] = << >>
    BY <2>1 DEF Init, Idle
  <2>3. Current(e) = 0 /\ Got(r) = 0 /\ Len(queue[e]) = 0 /\ Len(expected[r]) = 0
    BY <2>2 DEF Current, Got
  <2>4. \A V, W : AllIn(net[r], V, W) /\ AllIn(net[e], V, W)
    BY <2>2 DEF AllIn
  <2>6. Numbered(e) /\ Expecting(e)
    <3>1. 0 % 2 = 0 /\ 0 + 0 = 0 /\ 0 <= 0
      BY Parity
    <3>2. DOMAIN queue[e] = {} /\ DOMAIN expected[r] = {} /\ DOMAIN delivered[r] = {}
      BY <2>2
    <3> QED
      BY <2>2, <2>3, <3>1, <3>2 DEF Numbered, Expecting
  <2>7. InFlight(e) /\ Remembered(e) /\ Alone(e)
    BY <2>2, <2>3, <2>4 DEF InFlight, Remembered, Alone
  <2> QED
    BY <2>6, <2>7 DEF Channel
<1> QED
  BY <1>1 DEF TInv, Init

(* Every step is one of one channel, and the other one sees no more of it  *)
(* than Aside says.                                                        *)
LEMMA TInvNext == TypeOK /\ TypeOK' /\ TInv /\ [Next]_vars => TInv'
<1> SUFFICES ASSUME TypeOK, TypeOK', TInv, [Next]_vars PROVE TInv'
  OBVIOUS
<1>1. CASE UNCHANGED vars
  BY <1>1 DEF vars, TInv, Stopped, Channel, Numbered, Expecting, InFlight, Remembered, Alone,
              Got, Current, Idle, Quiet
<1> SUFFICES ASSUME Next PROVE TInv'
  BY <1>1
<1>2. halted = "no" /\ \A e \in Ends : Channel(e)
  BY DEF TInv, Next, Generate, Receive, ReceiveData, ReceiveAgain, ReceiveAck, ReceiveWrongAck,
         LayerTimeout, Finish, Running
<1>3. ASSUME NEW e \in Ends, Channel(e)', Aside(Other(e)),
             halted' # "unexpected data", halted' # "null rcv_pkg",
             Quiet' => halted' # "null snd_pkg"
      PROVE  TInv'
  <2>1. Channel(Other(e))'
    BY <1>2, <1>3, OtherIs, Frame
  <2>2. \A x \in Ends : Channel(x)'
    BY <1>3, <2>1, OtherIs
  <2> QED
    BY <1>3, <2>2 DEF TInv
<1>4. ASSUME NEW e \in Ends, Generate(e)
      PROVE  TInv'
  BY <1>2, <1>3, <1>4, GenerateKeeps DEF Generate
<1>5. ASSUME NEW r \in Ends, NEW k \in DOMAIN net[r], ReceiveData(r, k)
      PROVE  TInv'
  <2>1. PICK e \in Ends : r = Other(e) /\ e = Other(r)
    BY OtherIs
  <2>2. CASE halted' = halted
    BY <2>1, <2>2, <1>2, <1>3, <1>5, ExpectedKeeps
  <2>3. CASE halted' # halted
    <3>1. ~Quiet' /\ Stopped(e)' /\ Stopped(Other(e))' /\ halted' = "unexpected data"
      BY <2>1, <2>3, <1>2, <1>5, UnexpectedStops
    <3>2. \A x \in Ends : Stopped(x)'
      BY <3>1, OtherIs
    <3> QED
      BY <3>1, <3>2 DEF TInv
  <2> QED
    BY <2>2, <2>3
<1>6. ASSUME NEW r \in Ends, NEW k \in DOMAIN net[r], ReceiveAgain(r, k)
      PROVE  TInv'
  <2>1. PICK e \in Ends : r = Other(e) /\ e = Other(r)
    BY OtherIs
  <2> QED
    BY <2>1, <1>2, <1>3, <1>6, AgainKeeps
<1>7. ASSUME NEW e \in Ends, NEW k \in DOMAIN net[e], ReceiveAck(e, k)
      PROVE  TInv'
  BY <1>2, <1>3, <1>7, AckKeeps
<1>8. ASSUME NEW e \in Ends, NEW k \in DOMAIN net[e], ReceiveWrongAck(e, k)
      PROVE  TInv'
  <2>1. /\ Channel(e)' /\ Aside(Other(e))
        /\ halted' \in {"no", "null snd_pkg"} /\ (Quiet' => halted' = "no")
    BY <1>2, <1>8, WrongAckKeeps
  <2> QED
    BY <2>1, <1>3
<1>9. ASSUME NEW e \in Ends, LayerTimeout(e)
      PROVE  TInv'
  BY <1>2, <1>3, <1>9, TimeoutKeeps
<1>10. CASE Finish
  <2>1. /\ halted' = "done"
        /\ UNCHANGED <<settings, ack, seq, snd_pkg, rcv_pkg, queue, timer, net, losses,
                       generated, expected, delivered>>
    BY <1>10 DEF Finish
  <2>2. \A e \in Ends : Channel(e)'
    BY <2>1, <1>2 DEF Channel, Numbered, Expecting, InFlight, Remembered, Alone,
                      Got, Current, Idle, Quiet
  <2> QED
    BY <2>1, <2>2 DEF TInv
<1> QED
  BY <1>4, <1>5, <1>6, <1>7, <1>8, <1>9, <1>10 DEF Next, Receive

(* The channels stay as described, whatever the network does, until the    *)
(* program stops at an unexpected message.                                 *)
THEOREM TInvariance == Spec => [](TypeOK /\ TInv)
<1>1. Init => TypeOK /\ TInv
  BY TypeInit, TInvInit
<1>2. TypeOK /\ TInv /\ [Next]_vars => (TypeOK /\ TInv)'
  BY TypeNext, TInvNext
<1> QED
  BY <1>1, <1>2, PTL DEF Spec

----------------------------------------------------------------------------
LEMMA InOrderHolds == TypeOK /\ TInv => InOrder
<1> SUFFICES ASSUME TypeOK, TInv, NEW r \in Ends
             PROVE  \A i \in DOMAIN delivered[r] :
                      /\ delivered[r][i] \in 1..generated[Other(r)]
                      /\ Quiet \/ i < Len(delivered[r]) \/ halted # "unexpected data" =>
                           delivered[r][i] = i
  BY Zenon DEF InOrder
<1>1. PICK e \in Ends : r = Other(e) /\ e = Other(r)
  BY OtherIs
<1>2. PICK d \in Nat : d = Got(r) /\ d = Len(delivered[r]) /\ DOMAIN delivered[r] = 1..d
  BY CountsAre DEF Got
<1>3. Stopped(e)
  BY <1>1, ExactSoFar DEF TInv
<1>4. \A i \in 1..d : delivered[r][i] \in 1..generated[e] /\ (i < d => delivered[r][i] = i)
  BY <1>1, <1>2, <1>3 DEF Stopped
<1>5. halted # "unexpected data" => \A i \in 1..d : delivered[r][i] = i
  BY <1>1, <1>2 DEF TInv, Channel, Expecting
<1>6. Quiet => halted # "unexpected data"
  BY DEF TInv
<1> QED
  BY <1>1, <1>2, <1>4, <1>5, <1>6

LEMMA CountNone ==
  ASSUME NEW s \in Seq(Packages), NEW V, AllIn(s, V, {})
  PROVE  Cardinality({k \in DOMAIN s : s[k] \in V}) = 0
<1>1. {k \in DOMAIN s : s[k] \in V} = {}
  BY DEF AllIn
<1> QED
  BY <1>1, FS_EmptySet

LEMMA CountOne ==
  ASSUME NEW s \in Seq(Packages), NEW V, NEW W \in SUBSET V, OneIn(s, V, W)
  PROVE  Cardinality({k \in DOMAIN s : s[k] \in V}) = 1
<1>1. PICK k \in DOMAIN s : s[k] \in W /\ \A j \in DOMAIN s : s[j] \in V => j = k
  BY DEF OneIn
<1>2. {j \in DOMAIN s : s[j] \in V} = {k}
  BY <1>1
<1> QED
  BY <1>2, FS_Singleton

LEMMA StopAndWaitHolds == TypeOK /\ TInv => StopAndWait
<1> SUFFICES ASSUME TypeOK, TInv, NEW e \in Ends
             PROVE  /\ Quiet => DataTo(Other(e)) + AcksTo(e) = IF snd_pkg[e] = NoPkg THEN 0 ELSE 1
                    /\ queue[e] # << >> => snd_pkg[e] # NoPkg
  BY Zenon DEF StopAndWait
<1> DEFINE r == Other(e)
<1>1. r \in Ends /\ net[e] \in Seq(Packages) /\ net[r] \in Seq(Packages)
  BY OtherIs, TypesOf
<1>2. /\ DataTo(r) = Cardinality({k \in DOMAIN net[r] : net[r][k] \in DataPkgs})
      /\ AcksTo(e) = Cardinality({k \in DOMAIN net[e] : net[e][k] \in AckPkgs})
  <2>1. \A k \in DOMAIN net[r] : net[r][k].data # 0 <=> net[r][k] \in DataPkgs
    BY <1>1, PackagesAre
  <2>2. \A k \in DOMAIN net[e] : net[e][k].data = 0 <=> net[e][k] \in AckPkgs
    BY <1>1, PackagesAre
  <2>3. /\ {k \in DOMAIN net[r] : net[r][k].data # 0} = {k \in DOMAIN net[r] : net[r][k] \in DataPkgs}
        /\ {k \in DOMAIN net[e] : net[e][k].data = 0} = {k \in DOMAIN net[e] : net[e][k] \in AckPkgs}
    BY <2>1, <2>2
  <2> QED
    BY <2>3 DEF DataTo, AcksTo
<1>3. ASSUME Quiet
      PROVE  DataTo(r) + AcksTo(e) = IF Idle(e) THEN 0 ELSE 1
  <2>1. Alone(e)
    BY <1>3 DEF TInv, Channel
  <2>2. CASE Idle(e)
    <3>1. AllIn(net[r], DataPkgs, {}) /\ AllIn(net[e], AckPkgs, {})
      BY <2>1, <2>2, <1>3 DEF Alone
    <3>2. DataTo(r) = 0 /\ AcksTo(e) = 0
      BY <3>1, <1>1, <1>2, CountNone
    <3> QED
      BY <3>2, <2>2
  <2>3. CASE /\ ~Idle(e) /\ AllIn(net[e], AckPkgs, {})
             /\ OneIn(net[r], DataPkgs, Sent(Current(e), Current(e)))
    <3>1. DataTo(r) = 1
      BY <2>3, <1>1, <1>2, CountOne, Subsets
    <3>2. AcksTo(e) = 0
      BY <2>3, <1>1, <1>2, CountNone
    <3> QED
      BY <3>1, <3>2, <2>3
  <2>4. CASE /\ ~Idle(e) /\ AllIn(net[r], DataPkgs, {})
             /\ OneIn(net[e], AckPkgs, AcksOf(Current(e) % 2))
    <3>1. AcksTo(e) = 1
      BY <2>4, <1>1, <1>2, CountOne, Subsets
    <3>2. DataTo(r) = 0
      BY <2>4, <1>1, <1>2, CountNone
    <3> QED
      BY <3>1, <3>2, <2>4
  <2> QED
    BY <2>1, <2>2, <2>3, <2>4, <1>3 DEF Alone
<1>4. ASSUME queue[e] # << >>, Idle(e)
      PROVE  FALSE
  <2>1. Numbered(e)
    BY DEF TInv, Channel, Stopped
  <2>2. PICK g \in Nat : g = generated[e] /\ g = Current(e)
    BY <1>4, TypesOf DEF Current
  <2>3. queue[e] \in Seq(DataPkgs)
    BY TypesOf
  <2>4. Len(queue[e]) \in Nat \ {0}
    BY <2>3, <1>4, TailIs
  <2> QED
    BY <2>1, <2>2, <2>4 DEF Numbered
<1> QED
  BY <1>3, <1>4 DEF Idle

LEMMA EndsWellHolds == TypeOK /\ TInv => EndsWell
BY DEF TypeOK, TInv, EndsWell

(* For any number of messages and any settings of the network: what an     *)
(* application is given is exact and in order up to the message at which   *)
(* the program stops, that one was generated too, and before the first     *)
(* loss or timeout it does not stop at one, whatever order datagrams       *)
(* arrive in.                                                              *)
THEOREM DeliveredInOrder == Spec => []InOrder
BY TInvariance, InOrderHolds, PTL

(* Before the first loss or timeout there is one datagram in flight for    *)
(* each package in hand; and packages queue only behind one in hand.       *)
THEOREM OneAtATime == Spec => []StopAndWait
BY TInvariance, StopAndWaitHolds, PTL

(* The program ends only because it is done, before the first loss or      *)
(* timeout, and rcv_pkg is never read before it was set.                   *)
THEOREM EndsAsItShould == Spec => []EndsWell
BY TInvariance, EndsWellHolds, PTL

=============================================================================
