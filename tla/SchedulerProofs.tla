-------------------------- MODULE SchedulerProofs --------------------------
(***************************************************************************)
(* Theorems about Scheduler for any pcb table and any boot threads. The    *)
(* invariant shows the ready queue and the free list as sequences: r is    *)
(* the round from current_running, s what hangs off next_free_pcb. That    *)
(* next and previous agree with them is what every insertion and removal   *)
(* relies on, and the last part of the file shows that following next      *)
(* finds exactly their elements.                                           *)
(***************************************************************************)
EXTENDS Scheduler, FiniteSetTheorems, WaitingLists, TLAPS

Statuses == {"RUNNING", "BLOCKED", "SLEEPING", "EXITED"}

TypeOK ==
  /\ current \in Pcbs
  /\ next \in [Pcbs -> Pcbs \cup {NULL}] /\ previous \in [Pcbs -> Pcbs \cup {NULL}]
  /\ status \in [Pcbs -> Statuses]
  /\ free \in Pcbs \cup {NULL}
  /\ waiting \in Seq(Pcbs)
  /\ due \in [Pcbs -> BOOLEAN]
  /\ making \in [Pcbs -> Pcbs \cup {NULL}]
  /\ mode \in {"run", "schedule"}

NoRepeats(s) == \A x : Once(s, x)

Around(s, i) == IF i = Len(s) THEN 1 ELSE i + 1

(* r is the ready queue, from current_running round to it. *)
Circle(r) ==
  /\ r # << >> /\ r[1] = current /\ NoRepeats(r)
  /\ \A i \in 1..Len(r) : next[r[i]] = r[Around(r, i)] /\ previous[r[Around(r, i)]] = r[i]

(* s is the free list. *)
Chain(s) ==
  /\ NoRepeats(s)
  /\ free = IF s = << >> THEN NULL ELSE s[1]
  /\ \A i \in 1..Len(s) : next[s[i]] = IF i = Len(s) THEN NULL ELSE s[i + 1]

(* Every pcb is in one place. *)
Places(r, s) ==
  /\ \A p \in Pcbs : Occurs(r, p) \/ Occurs(s, p) \/ p \in Made \/ Occurs(waiting, p)
  /\ \A p \in Pcbs : Occurs(r, p) => ~Occurs(s, p) /\ p \notin Made
  /\ \A p \in Pcbs : Occurs(s, p) => p \notin Made
  /\ \A p \in Pcbs : Occurs(waiting, p) =>
        ~Occurs(s, p) /\ p \notin Made /\ (Occurs(r, p) => p = current)
  /\ \A p, q \in Pcbs : making[p] = making[q] /\ making[p] # NULL => p = q
  /\ NoRepeats(waiting)

Awake(p) == status[p] \in {"RUNNING", "SLEEPING"}

(* Who blocked or exited is not in the ring, but for current_running on its *)
(* way to scheduler(). *)
StatusOK(r) ==
  /\ \A p \in Pcbs : Occurs(r, p) /\ p # current => Awake(p)
  /\ mode = "run" => Awake(current)
  /\ \A p \in Pcbs : Occurs(waiting, p) => status[p] = "BLOCKED"
  /\ status[current] = "BLOCKED" => Occurs(waiting, current)

Shape(r, s) == Circle(r) /\ Chain(s) /\ Places(r, s) /\ StatusOK(r)

SInv == \E r, s \in Seq(Pcbs) : Shape(r, s)

(* The indices of a sequence, and NoRepeats in terms of them. *)
LEMMA OccursIn ==
  ASSUME NEW S, NEW s \in Seq(S)
  PROVE  /\ Len(s) \in Nat /\ DOMAIN s = 1..Len(s)
         /\ \A i \in 1..Len(s) : s[i] \in S /\ Occurs(s, s[i])
         /\ NoRepeats(s) <=> \A i, j \in 1..Len(s) : s[i] = s[j] => i = j
         /\ s = << >> <=> Len(s) = 0
<1>1. Len(s) \in Nat /\ DOMAIN s = 1..Len(s) /\ (s = << >> <=> Len(s) = 0)
  OBVIOUS
<1>2. \A i \in 1..Len(s) : s[i] \in S /\ Occurs(s, s[i])
  BY DEF Occurs
<1>3. NoRepeats(s) <=> \A i, j \in 1..Len(s) : s[i] = s[j] => i = j
  BY Zenon DEF Once, NoRepeats
<1> QED
  BY <1>1, <1>2, <1>3

(* There is the sequence that has x in front of s. *)
LEMMA ConsIs ==
  ASSUME NEW s \in Seq(Pcbs), NEW x \in Pcbs
  PROVE  \E t \in Seq(Pcbs) :
           /\ Len(t) = Len(s) + 1 /\ t[1] = x
           /\ \A i \in 1..Len(s) : t[i + 1] = s[i]
           /\ \A y : Occurs(t, y) <=> Occurs(s, y) \/ y = x
           /\ NoRepeats(s) /\ ~Occurs(s, x) => NoRepeats(t)
<1>1. PICK l \in Nat : l = Len(s) /\ \A i \in 1..l : s[i] \in Pcbs
  BY OccursIn
<1> DEFINE t == [i \in 1..l + 1 |-> IF i = 1 THEN x ELSE s[i - 1]]
<1>2. \A i \in 1..l + 1 : i = 1 \/ (i # 1 /\ i - 1 \in 1..l)
  BY <1>1
<1>3. t \in Seq(Pcbs) /\ Len(t) = l + 1
  <2>1. \A i \in 1..l + 1 : t[i] \in Pcbs
    BY <1>1, <1>2
  <2>2. l + 1 \in Nat
    OBVIOUS
  <2> QED
    BY <2>1, <2>2
<1>4. t[1] = x /\ \A i \in 1..l : t[i + 1] = s[i]
  <2>1. 1 \in 1..l + 1 /\ \A i \in 1..l : i + 1 \in 1..l + 1 /\ i + 1 # 1 /\ (i + 1) - 1 = i
    OBVIOUS
  <2> QED
    BY <2>1
<1> HIDE DEF t
<1>5. \A i \in 1..l + 1 : i = 1 \/ \E j \in 1..l : i = j + 1
  <2>1. \A i \in 1..l + 1 : i = 1 \/ (i - 1 \in 1..l /\ i = (i - 1) + 1)
    OBVIOUS
  <2> QED
    BY <2>1
<1>6. \A j \in 1..l : j + 1 \in 1..l + 1
  OBVIOUS
<1>7. 1 \in 1..l + 1
  OBVIOUS
<1>8. \A y : Occurs(t, y) <=> Occurs(s, y) \/ y = x
  <2>1. Len(t) = l + 1 /\ Len(s) = l
    BY <1>1, <1>3
  <2>2. ASSUME NEW y, NEW i \in 1..l + 1, t[i] = y
        PROVE  y = x \/ \E j \in 1..l : s[j] = y
    BY <2>2, <1>4, <1>5
  <2>3. \A y : (\E j \in 1..l : s[j] = y) \/ y = x => \E i \in 1..l + 1 : t[i] = y
    BY <1>4, <1>6, <1>7
  <2> QED
    BY <2>1, <2>2, <2>3, Zenon DEF Occurs
<1>9. ASSUME NoRepeats(s), ~Occurs(s, x)
      PROVE  NoRepeats(t)
  <2> SUFFICES ASSUME NEW i \in 1..l + 1, NEW j \in 1..l + 1, t[i] = t[j]
               PROVE  i = j
    BY <1>3, OccursIn
  <2>1. CASE i = 1 /\ j = 1
    BY <2>1
  <2>2. CASE i = 1 /\ j # 1
    BY <2>2, <1>1, <1>4, <1>5, <1>9 DEF Occurs
  <2>3. CASE i # 1 /\ j = 1
    BY <2>3, <1>1, <1>4, <1>5, <1>9 DEF Occurs
  <2>4. CASE i # 1 /\ j # 1
    <3>1. PICK a \in 1..l, b \in 1..l : i = a + 1 /\ j = b + 1
      BY <2>4, <1>5
    <3>2. s[a] = s[b]
      BY <3>1, <1>4
    <3>3. a = b
      BY <3>2, <1>1, <1>9, OccursIn
    <3> QED
      BY <3>1, <3>3
  <2> QED
    BY <2>1, <2>2, <2>3, <2>4
<1> QED
  BY <1>1, <1>3, <1>4, <1>8, <1>9

----------------------------------------------------------------------------
(* insert_job and insert_pcb: p becomes the last of the ring. *)
LEMMA InsertKeeps ==
  ASSUME TypeOK, NEW r \in Seq(Pcbs), NEW s \in Seq(Pcbs), Circle(r), Chain(s),
         NEW p \in Pcbs, ~Occurs(r, p), ~Occurs(s, p),
         \A q \in Pcbs : Occurs(r, q) => ~Occurs(s, q),
         InsertBeforeCurrent(p), current' = current, free' = free
  PROVE  Circle(Append(r, p))' /\ Chain(s)'
<1>1. PICK n \in Nat \ {0} : n = Len(r) /\ \A i \in 1..n : r[i] \in Pcbs
  BY OccursIn DEF Circle
<1>2. PICK t \in Seq(Pcbs) : t = Append(r, p)
  BY AppendIs
<1>3. Len(t) = n + 1 /\ t[n + 1] = p /\ \A i \in 1..n : t[i] = r[i]
  BY <1>1, <1>2, AppendIs
<1>4. /\ r[1] = current /\ current \in Pcbs
      /\ \A i, j \in 1..n : r[i] = r[j] => i = j
      /\ \A i \in 1..n : i # n => next[r[i]] = r[i + 1] /\ previous[r[i + 1]] = r[i]
      /\ next[r[n]] = r[1] /\ previous[r[1]] = r[n]
      /\ \A i \in 1..n : r[i] # p
      /\ 1 \in 1..n /\ n \in 1..n
  <2>1. 1 \in 1..n /\ n \in 1..n
    OBVIOUS
  <2>2. \A i, j \in 1..n : r[i] = r[j] => i = j
    BY <1>1, OccursIn DEF Circle
  <2>3. \A i \in 1..n : r[i] # p
    BY <1>1 DEF Occurs
  <2> QED
    BY <2>1, <2>2, <2>3, <1>1 DEF Circle, Around, TypeOK
<1>5. /\ \A q \in Pcbs : next'[q] = IF q = r[n] THEN p ELSE IF q = p THEN current ELSE next[q]
      /\ \A q \in Pcbs : previous'[q] = IF q = current THEN p ELSE IF q = p THEN r[n] ELSE previous[q]
  <2>1. /\ next' = [next EXCEPT ![p] = current, ![r[n]] = p]
        /\ previous' = [previous EXCEPT ![p] = r[n], ![current] = p]
    BY <1>4 DEF InsertBeforeCurrent
  <2> QED
    BY <2>1, <1>1, <1>4 DEF TypeOK
<1>6. ASSUME NEW i \in 1..n + 1
      PROVE  /\ next'[t[i]] = t[IF i = n + 1 THEN 1 ELSE i + 1]
             /\ previous'[t[IF i = n + 1 THEN 1 ELSE i + 1]] = t[i]
  <2>1. CASE i = n + 1
    BY <2>1, <1>1, <1>3, <1>4, <1>5
  <2>2. CASE i = n
    <3>1. n # n + 1 /\ t[n] = r[n] /\ r[n] \in Pcbs
      BY <1>1, <1>3, <1>4
    <3>2. next'[r[n]] = p /\ previous'[p] = r[n]
      BY <3>1, <1>4, <1>5
    <3> QED
      BY <2>2, <3>1, <3>2, <1>3
  <2>3. CASE i # n + 1 /\ i # n
    <3>1. i \in 1..n /\ i + 1 \in 1..n /\ i + 1 # 1
      BY <2>3
    <3>2. r[i] # r[n] /\ r[i] # p /\ r[i + 1] # current /\ r[i + 1] # p /\ r[i] \in Pcbs /\ r[i + 1] \in Pcbs
      BY <2>3, <3>1, <1>1, <1>4
    <3>3. next'[r[i]] = r[i + 1] /\ previous'[r[i + 1]] = r[i]
      BY <2>3, <3>1, <3>2, <1>4, <1>5
    <3> QED
      BY <2>3, <3>1, <3>3, <1>3
  <2> QED
    BY <2>1, <2>2, <2>3
<1>7. NoRepeats(t)
  BY <1>2, AppendOccurs DEF Circle, NoRepeats
<1>8. Circle(t)'
  <2>1. t # << >> /\ t[1] = current'
    BY <1>3, <1>4, OccursIn
  <2>2. \A i \in 1..Len(t) : next'[t[i]] = t[Around(t, i)] /\ previous'[t[Around(t, i)]] = t[i]
    BY <1>3, <1>6 DEF Around
  <2> QED
    BY <2>1, <2>2, <1>7 DEF Circle
<1>9. Chain(s)'
  <2>1. ASSUME NEW i \in 1..Len(s)
        PROVE  next'[s[i]] = next[s[i]]
    <3>1. s[i] \in Pcbs /\ Occurs(s, s[i]) /\ Occurs(r, r[n])
      BY <1>1, <1>4, OccursIn
    <3>2. s[i] # r[n] /\ s[i] # p
      BY <3>1
    <3> QED
      BY <3>1, <3>2, <1>5
  <2> QED
    BY <2>1 DEF Chain
<1> QED
  BY <1>2, <1>8, <1>9

(* scheduler() goes on to the next in the ring. *)
LEMMA GoOnKeeps ==
  ASSUME TypeOK, NEW r \in Seq(Pcbs), Circle(r),
         current' = next[current], next' = next, previous' = previous
  PROVE  \E t \in Seq(Pcbs) : /\ Circle(t)' /\ \A p : Occurs(t, p) <=> Occurs(r, p)
                              /\ Occurs(r, current')
<1>1. PICK n \in Nat \ {0} : n = Len(r) /\ \A i \in 1..n : r[i] \in Pcbs
  BY OccursIn DEF Circle
<1> DEFINE around(i) == IF i = n THEN 1 ELSE i + 1
           t == [i \in 1..n |-> r[around(i)]]
<1>2. /\ r[1] = current
      /\ \A i, j \in 1..n : r[i] = r[j] => i = j
      /\ \A i \in 1..n : next[r[i]] = r[around(i)] /\ previous[r[around(i)]] = r[i]
  <2>1. \A i \in 1..n : Around(r, i) = around(i)
    BY <1>1 DEF Around
  <2> QED
    BY <2>1, <1>1, OccursIn DEF Circle
<1>3. /\ \A i \in 1..n : around(i) \in 1..n
      /\ \A i, j \in 1..n : around(i) = around(j) => i = j
      /\ \A j \in 1..n : \E i \in 1..n : j = around(i)
      /\ 1 \in 1..n
  <2>1. \A i \in 1..n : around(i) \in 1..n
    OBVIOUS
  <2>2. \A i, j \in 1..n : around(i) = around(j) => i = j
    OBVIOUS
  <2>3. ASSUME NEW j \in 1..n
        PROVE  \E i \in 1..n : j = around(i)
    <3>1. CASE j = 1
      BY <3>1
    <3>2. CASE j # 1
      <4>1. j - 1 \in 1..n /\ j - 1 # n /\ j = (j - 1) + 1
        BY <3>2
      <4> QED
        BY <4>1
    <3> QED
      BY <3>1, <3>2
  <2> QED
    BY <2>1, <2>2, <2>3
<1>4. t \in Seq(Pcbs) /\ Len(t) = n /\ \A i \in 1..n : t[i] = r[around(i)]
  <2>1. \A i \in 1..n : r[around(i)] \in Pcbs
    BY <1>1, <1>3
  <2> HIDE DEF around
  <2> QED
    BY <2>1
<1>5. \A i \in 1..n : Around(t, i) = around(i)
  BY <1>4 DEF Around
<1>6. t[1] = current'
  BY <1>2, <1>3, <1>4
<1> HIDE DEF t, around
<1>7. NoRepeats(t)
  <2> SUFFICES ASSUME NEW i \in 1..n, NEW j \in 1..n, t[i] = t[j]
               PROVE  i = j
    BY <1>4, OccursIn
  <2>1. r[around(i)] = r[around(j)] /\ around(i) \in 1..n /\ around(j) \in 1..n
    BY <1>3, <1>4
  <2>2. around(i) = around(j)
    BY <2>1, <1>2
  <2> QED
    BY <2>2, <1>3
<1>8. ASSUME NEW p
      PROVE  Occurs(t, p) <=> Occurs(r, p)
  <2>1. ASSUME NEW i \in 1..n, t[i] = p
        PROVE  \E j \in 1..n : r[j] = p
    BY <2>1, <1>3, <1>4
  <2>2. ASSUME NEW j \in 1..n, r[j] = p
        PROVE  \E i \in 1..n : t[i] = p
    <3>1. PICK i \in 1..n : j = around(i)
      BY <1>3
    <3> QED
      BY <3>1, <2>2, <1>4
  <2> QED
    BY <2>1, <2>2, <1>1, <1>4 DEF Occurs
<1>9. \A i \in 1..n : next[t[i]] = t[around(i)] /\ previous[t[around(i)]] = t[i]
  BY <1>2, <1>3, <1>4
<1>10. t # << >>
  BY <1>4, OccursIn
<1>11. Circle(t)'
  BY <1>4, <1>5, <1>6, <1>7, <1>9, <1>10 DEF Circle
<1>12. Occurs(r, current')
  <2>1. Occurs(t, t[1])
    BY <1>3, <1>4, OccursIn
  <2> QED
    BY <2>1, <1>6, <1>8
<1> QED
  BY <1>4, <1>8, <1>11, <1>12

(* scheduler() takes current_running out of the ring and goes on. *)
LEMMA LeaveKeeps ==
  ASSUME TypeOK, NEW r \in Seq(Pcbs), Circle(r), next[current] # current,
         current' = next[current],
         \A q \in Pcbs : q # current =>
           next'[q] = IF q = previous[current] THEN next[current] ELSE next[q],
         previous' = [previous EXCEPT ![next[current]] = previous[current]]
  PROVE  /\ Tail(r) \in Seq(Pcbs) /\ Circle(Tail(r))'
         /\ \A p : Occurs(Tail(r), p) <=> Occurs(r, p) /\ p # current
         /\ Occurs(r, current) /\ Occurs(r, current') /\ Occurs(r, previous[current])
<1>1. PICK n \in Nat \ {0} : n = Len(r) /\ \A i \in 1..n : r[i] \in Pcbs
  BY OccursIn DEF Circle
<1>2. PICK t \in Seq(Pcbs) : t = Tail(r)
  BY TailIs DEF Circle
<1>3. Len(t) = n - 1 /\ \A i \in 1..n - 1 : t[i] = r[i + 1]
  BY <1>1, <1>2, TailIs DEF Circle
<1>4. /\ r[1] = current /\ current \in Pcbs
      /\ \A i, j \in 1..n : r[i] = r[j] => i = j
      /\ \A i \in 1..n : i # n => next[r[i]] = r[i + 1] /\ previous[r[i + 1]] = r[i]
      /\ next[r[n]] = r[1] /\ previous[r[1]] = r[n]
      /\ 1 \in 1..n /\ n \in 1..n
  <2>1. 1 \in 1..n /\ n \in 1..n
    OBVIOUS
  <2>2. \A i, j \in 1..n : r[i] = r[j] => i = j
    BY <1>1, OccursIn DEF Circle
  <2> QED
    BY <2>1, <2>2, <1>1 DEF Circle, Around, TypeOK
<1>5. n # 1
  BY <1>4
<1>6. next[current] = r[2] /\ current' = r[2] /\ 2 \in 1..n /\ r[2] \in Pcbs
  <2>1. 1 # n /\ 2 \in 1..n /\ 1 + 1 = 2
    BY <1>5
  <2> QED
    BY <2>1, <1>1, <1>4
<1>7. /\ \A q \in Pcbs : q # current => next'[q] = IF q = r[n] THEN r[2] ELSE next[q]
      /\ \A q \in Pcbs : previous'[q] = IF q = r[2] THEN r[n] ELSE previous[q]
  BY <1>4, <1>6 DEF TypeOK
<1>8. ASSUME NEW i \in 1..n - 1
      PROVE  /\ next'[t[i]] = t[IF i = n - 1 THEN 1 ELSE i + 1]
             /\ previous'[t[IF i = n - 1 THEN 1 ELSE i + 1]] = t[i]
  <2>1. i + 1 \in 1..n /\ i + 1 # 1 /\ t[i] = r[i + 1] /\ r[i + 1] # current /\ r[i + 1] \in Pcbs
    BY <1>1, <1>3, <1>4
  <2>2. CASE i = n - 1
    <3>1. i + 1 = n /\ 1 \in 1..n - 1 /\ 1 + 1 = 2
      BY <2>2, <1>5
    <3>2. t[i] = r[n] /\ t[1] = r[2]
      BY <2>1, <3>1, <1>3
    <3> QED
      BY <2>1, <2>2, <3>1, <3>2, <1>6, <1>7
  <2>3. CASE i # n - 1
    <3>1. i + 1 \in 1..n - 1 /\ i + 1 # n /\ (i + 1) + 1 \in 1..n /\ (i + 1) + 1 # 2
      BY <2>3
    <3>2. t[i + 1] = r[(i + 1) + 1] /\ r[(i + 1) + 1] # r[2] /\ r[i + 1] # r[n] /\ r[(i + 1) + 1] \in Pcbs
      BY <2>1, <3>1, <1>1, <1>3, <1>4, <1>6
    <3>3. next'[r[i + 1]] = r[(i + 1) + 1] /\ previous'[r[(i + 1) + 1]] = r[i + 1]
      BY <2>1, <3>1, <3>2, <1>4, <1>7
    <3> QED
      BY <2>1, <2>3, <3>2, <3>3
  <2> QED
    BY <2>2, <2>3
<1>9. NoRepeats(t)
  BY <1>2, TailOccurs DEF Circle, NoRepeats
<1>10. Circle(t)'
  <2>1. t # << >> /\ t[1] = current'
    <3>1. 1 \in 1..n - 1 /\ n - 1 # 0 /\ 1 + 1 = 2
      BY <1>5
    <3> QED
      BY <3>1, <1>3, <1>6, OccursIn
  <2>2. \A i \in 1..Len(t) : next'[t[i]] = t[Around(t, i)] /\ previous'[t[Around(t, i)]] = t[i]
    BY <1>3, <1>8 DEF Around
  <2> QED
    BY <2>1, <2>2, <1>9 DEF Circle
<1>11. \A p : Occurs(t, p) <=> Occurs(r, p) /\ p # current
  <2>1. Head(r) = current /\ Once(r, current) /\ r # << >>
    BY <1>4, TailIs DEF Circle, NoRepeats
  <2> QED
    BY <2>1, <1>2, TailOccurs
<1> QED
  BY <1>1, <1>2, <1>4, <1>6, <1>10, <1>11, OccursIn

----------------------------------------------------------------------------
(* Every step keeps the types; next and previous of what the actions follow *)
(* are pcbs. *)
LEMMA TypeNext ==
  ASSUME TypeOK, next[current] \in Pcbs, previous[next[current]] \in Pcbs, [Next]_vars
  PROVE  TypeOK'
<1>0. NULL \notin Pcbs
  BY SchedulerAssumption
<1>1. CASE Yield
  BY <1>1 DEF Yield, TypeOK
<1>2. CASE Block
  <2>1. waiting' \in Seq(Pcbs)
    BY <1>2, AppendIs DEF Block, TypeOK
  <2> QED
    BY <2>1, <1>2 DEF Block, Set, TypeOK, Statuses
<1>3. CASE Unblock
  <2>1. Head(waiting) \in Pcbs /\ waiting' \in Seq(Pcbs)
    BY <1>3, TailIs DEF Unblock, TypeOK
  <2> QED
    BY <2>1, <1>3 DEF Unblock, InsertBeforeCurrent, Set, TypeOK, Statuses
<1>4. CASE Exit
  BY <1>4 DEF Exit, Set, TypeOK, Statuses
<1>5. CASE GoToSleep
  BY <1>5 DEF GoToSleep, Set, TypeOK, Statuses
<1>6. CASE AllocPcb
  BY <1>6 DEF AllocPcb, TypeOK
<1>7. CASE InsertPcb
  BY <1>7, <1>0 DEF InsertPcb, InsertBeforeCurrent, Set, TypeOK, Statuses
<1>8. CASE SchedulePass
  BY <1>8 DEF SchedulePass, GoOn, TypeOK, Statuses
<1>9. CASE ScheduleBlocked
  BY <1>9 DEF ScheduleBlocked, Remove, GoOn, TypeOK
<1>10. CASE ScheduleExited
  BY <1>10 DEF ScheduleExited, GoOn, TypeOK
<1>11. ASSUME NEW p \in Pcbs, TimePasses(p)
       PROVE  TypeOK'
  BY <1>11 DEF TimePasses, TypeOK
<1>12. CASE UNCHANGED vars
  BY <1>12 DEF vars, TypeOK
<1> QED
  BY <1>1, <1>2, <1>3, <1>4, <1>5, <1>6, <1>7, <1>8, <1>9, <1>10, <1>11, <1>12
     DEF Next, Schedule

(* In a ring current_running has two neighbours, and they lead back to it. *)
LEMMA CircleTurns ==
  ASSUME TypeOK, NEW r \in Seq(Pcbs), Circle(r)
  PROVE  /\ next[current] \in Pcbs /\ previous[next[current]] = current
         /\ previous[current] \in Pcbs /\ Occurs(r, current) /\ Occurs(r, previous[current])
<1>1. PICK n \in Nat \ {0} : n = Len(r) /\ \A i \in 1..n : r[i] \in Pcbs /\ Occurs(r, r[i])
  BY OccursIn DEF Circle
<1>2. 1 \in 1..n /\ n \in 1..n /\ Around(r, 1) \in 1..n /\ Around(r, n) = 1
  BY <1>1 DEF Around
<1> QED
  BY <1>1, <1>2 DEF Circle

(* What every action has of the state before it. *)
LEMMA InvNow ==
  ASSUME TypeOK, NEW r \in Seq(Pcbs), NEW s \in Seq(Pcbs), Shape(r, s)
  PROVE  /\ Circle(r) /\ Chain(s) /\ Places(r, s) /\ StatusOK(r)
         /\ Occurs(r, current) /\ current \in Pcbs
         /\ ~Occurs(s, current) /\ current \notin Made
         /\ \A p : p \in Made <=> p # NULL /\ \E q \in Pcbs : making[q] = p
         /\ NULL \notin Pcbs
BY CircleTurns, SchedulerAssumption DEF Shape, Places, TypeOK, Made

(* block() leaves current_running in the ring and puts it on the waiting list. *)
LEMMA BlockKeeps ==
  ASSUME TypeOK, NEW r \in Seq(Pcbs), NEW s \in Seq(Pcbs), Shape(r, s), Block
  PROVE  Shape(r, s)'
<1>1. /\ UNCHANGED <<current, next, previous, free, due, making>>
      /\ status' = [status EXCEPT ![current] = "BLOCKED"] /\ status[current] = "RUNNING"
      /\ waiting' = Append(waiting, current) /\ mode' = "schedule"
  BY DEF Block, Running, Set
<1>2. ~Occurs(waiting, current)
  BY <1>1, InvNow DEF StatusOK
<1>3. /\ \A p : Occurs(waiting', p) <=> Occurs(waiting, p) \/ p = current
      /\ NoRepeats(waiting) => NoRepeats(waiting')
  BY <1>1, <1>2, InvNow, AppendOccurs DEF TypeOK, NoRepeats
<1>4. Circle(r)' /\ Chain(s)'
  BY <1>1, InvNow DEF Circle, Chain
<1>5. Made' = Made
  BY <1>1 DEF Made
<1>6. Places(r, s)'
  BY <1>1, <1>3, <1>5, InvNow DEF Places
<1>7. StatusOK(r)'
  BY <1>1, <1>3, InvNow DEF StatusOK, Awake, TypeOK
<1> QED
  BY <1>4, <1>6, <1>7 DEF Shape

(* unblock() puts the first of the waiting list in the ring. It is not     *)
(* there any more: who blocked and is still in the ring is current_running *)
(* while scheduler() has the CPU. *)
LEMMA UnblockKeeps ==
  ASSUME TypeOK, NEW r \in Seq(Pcbs), NEW s \in Seq(Pcbs), Shape(r, s), Unblock
  PROVE  \E t \in Seq(Pcbs) : Shape(t, s)'
<1>1. PICK h \in Pcbs : h = Head(waiting) /\ Occurs(waiting, h)
  BY TailOccurs DEF Unblock, TypeOK
<1>2. /\ UNCHANGED <<current, free, due, making, mode>> /\ mode = "run"
      /\ status' = [status EXCEPT ![h] = "RUNNING"]
      /\ waiting' = Tail(waiting) /\ InsertBeforeCurrent(h)
  BY <1>1 DEF Unblock, Set
<1>3. /\ ~Occurs(waiting', h) /\ \A p : p # h => (Occurs(waiting', p) <=> Occurs(waiting, p))
      /\ NoRepeats(waiting')
  BY <1>1, <1>2, InvNow, TailOccurs DEF Unblock, TypeOK, Places, NoRepeats
<1>4. h # current /\ ~Occurs(r, h) /\ ~Occurs(s, h) /\ h \notin Made
  BY <1>1, <1>2, InvNow DEF Places, StatusOK, Awake
<1>5. Circle(Append(r, h))' /\ Chain(s)'
  BY <1>2, <1>4, InvNow, InsertKeeps DEF Places
<1>6. PICK t \in Seq(Pcbs) : /\ t = Append(r, h)
                            /\ \A p : Occurs(t, p) <=> (Occurs(r, p) \/ p = h)
  <2>1. /\ Append(r, h) \in Seq(Pcbs)
        /\ \A p : Occurs(Append(r, h), p) <=> (Occurs(r, p) \/ p = h)
    BY AppendOccurs, Zenon
  <2> QED
    BY <2>1, Zenon
<1>7. Made' = Made
  BY <1>2 DEF Made
<1>8. Places(t, s)'
  BY <1>2, <1>3, <1>4, <1>6, <1>7, InvNow DEF Places
<1>9. StatusOK(t)'
  BY <1>2, <1>3, <1>4, <1>6, InvNow DEF StatusOK, Awake, TypeOK
<1> QED
  <2>1. Circle(t)'
    BY <1>5, <1>6 DEF Circle
  <2>2. Shape(t, s)'
    BY <2>1, <1>5, <1>8, <1>9 DEF Shape
  <2> QED
    BY <2>2

(* alloc_pcb() takes the first of the free list. *)
LEMMA AllocKeeps ==
  ASSUME TypeOK, NEW r \in Seq(Pcbs), NEW s \in Seq(Pcbs), Shape(r, s), AllocPcb
  PROVE  Tail(s) \in Seq(Pcbs) /\ Shape(r, Tail(s))'
<1>1. /\ UNCHANGED <<current, next, previous, status, waiting, due, mode>>
      /\ making' = [making EXCEPT ![current] = free] /\ making[current] = NULL
      /\ free # NULL /\ free' = next[free]
  BY DEF AllocPcb
<1>2. s # << >> /\ free = s[1] /\ NoRepeats(s)
  BY <1>1, InvNow DEF Chain
<1>3. PICK t \in Seq(Pcbs) : t = Tail(s)
  BY <1>2, TailIs
<1>4. PICK n \in Nat \ {0} : n = Len(s)
  BY <1>2, TailIs
<1>5. Len(t) = n - 1 /\ \A i \in 1..n - 1 : t[i] = s[i + 1]
  BY <1>2, <1>3, <1>4, TailIs
<1>6. /\ ~Occurs(t, free) /\ \A p : p # free => (Occurs(t, p) <=> Occurs(s, p))
      /\ NoRepeats(t) /\ Occurs(s, free) /\ free \in Pcbs
  <2>1. Head(s) = free /\ Head(s) \in Pcbs
    BY <1>2, TailIs
  <2> QED
    BY <2>1, <1>2, <1>3, TailOccurs DEF NoRepeats
<1>7. Circle(r)'
  BY <1>1, InvNow DEF Circle
<1>8. Chain(t)'
  <2>1. \A i \in 1..n : next[s[i]] = IF i = n THEN NULL ELSE s[i + 1]
    BY <1>4, InvNow DEF Chain
  <2>2. free' = IF t = << >> THEN NULL ELSE t[1]
    <3>1. t = << >> <=> n = 1
      BY <1>5, OccursIn
    <3>2. CASE n = 1
      <4>1. 1 \in 1..n
        BY <3>2
      <4> QED
        BY <4>1, <3>1, <3>2, <2>1, <1>1, <1>2
    <3>3. CASE n # 1
      <4>1. 1 \in 1..n /\ 1 \in 1..n - 1
        BY <3>3
      <4> QED
        BY <4>1, <3>1, <3>3, <2>1, <1>1, <1>2, <1>5
    <3> QED
      BY <3>2, <3>3
  <2>3. ASSUME NEW i \in 1..n - 1
        PROVE  next[t[i]] = IF i = n - 1 THEN NULL ELSE t[i + 1]
    <3>1. i + 1 \in 1..n /\ t[i] = s[i + 1] /\ (i = n - 1 <=> i + 1 = n)
      BY <1>5
    <3>2. i # n - 1 => i + 1 \in 1..n - 1 /\ t[i + 1] = s[(i + 1) + 1]
      BY <1>5
    <3> QED
      BY <3>1, <3>2, <2>1
  <2> QED
    BY <2>2, <2>3, <1>1, <1>5, <1>6 DEF Chain
<1>9. \A p : p \in Made' <=> p \in Made \/ p = free
  <2>1. \A q \in Pcbs : making'[q] = IF q = current THEN free ELSE making[q]
    BY <1>1 DEF TypeOK
  <2>2. \A p : p \in Made' <=> p # NULL /\ \E q \in Pcbs : making'[q] = p
    BY DEF Made
  <2> QED
    BY <2>1, <2>2, <1>1, InvNow
<1>10. Places(r, t)'
  <2>1. \A p \in Pcbs : making[p] # free
    BY <1>1, <1>6, InvNow DEF Places
  <2>2. \A p, q \in Pcbs : making'[p] = making'[q] /\ making'[p] # NULL => p = q
    BY <2>1, <1>1, InvNow DEF Places, TypeOK
  <2> QED
    BY <2>2, <1>1, <1>6, <1>9, InvNow DEF Places
<1>11. StatusOK(r)'
  BY <1>1, InvNow DEF StatusOK, Awake
<1> QED
  BY <1>3, <1>7, <1>8, <1>10, <1>11 DEF Shape

(* insert_pcb() puts in the ring what its creator alone held. *)
LEMMA InsertPcbKeeps ==
  ASSUME TypeOK, NEW r \in Seq(Pcbs), NEW s \in Seq(Pcbs), Shape(r, s), InsertPcb
  PROVE  \E t \in Seq(Pcbs) : Shape(t, s)'
<1>1. PICK m \in Pcbs : m = making[current] /\ m \in Made
  BY InvNow DEF InsertPcb, TypeOK
<1>2. /\ UNCHANGED <<current, free, waiting, due, mode>>
      /\ status' = [status EXCEPT ![m] = "RUNNING"]
      /\ InsertBeforeCurrent(m) /\ making' = [making EXCEPT ![current] = NULL]
  BY <1>1 DEF InsertPcb, Set
<1>3. m # current /\ ~Occurs(r, m) /\ ~Occurs(s, m) /\ ~Occurs(waiting, m)
  BY <1>1, InvNow DEF Places
<1>4. Circle(Append(r, m))' /\ Chain(s)'
  BY <1>2, <1>3, InvNow, InsertKeeps DEF Places
<1>5. PICK t \in Seq(Pcbs) : /\ t = Append(r, m)
                            /\ \A p : Occurs(t, p) <=> (Occurs(r, p) \/ p = m)
  <2>1. /\ Append(r, m) \in Seq(Pcbs)
        /\ \A p : Occurs(Append(r, m), p) <=> (Occurs(r, p) \/ p = m)
    BY AppendOccurs, Zenon
  <2> QED
    BY <2>1, Zenon
<1>6. \A q \in Pcbs : making'[q] = IF q = current THEN NULL ELSE making[q]
  BY <1>2 DEF TypeOK
<1>7. \A p : p \in Made' <=> p \in Made /\ p # m
  <2>1. \A p : p \in Made' <=> p # NULL /\ \E q \in Pcbs : making'[q] = p
    BY DEF Made
  <2>2. \A q \in Pcbs : making[q] = m => q = current
    BY <1>1, InvNow DEF Places
  <2> QED
    BY <2>1, <2>2, <1>1, <1>6, InvNow
<1>8. Places(t, s)'
  <2>1. \A p, q \in Pcbs : making'[p] = making'[q] /\ making'[p] # NULL => p = q
    BY <1>6, InvNow DEF Places
  <2> QED
    BY <2>1, <1>2, <1>3, <1>5, <1>7, InvNow DEF Places
<1>9. StatusOK(t)'
  BY <1>2, <1>3, <1>5, InvNow DEF StatusOK, Awake, TypeOK
<1> QED
  <2>1. Circle(t)'
    BY <1>4, <1>5 DEF Circle
  <2>2. Shape(t, s)'
    BY <2>1, <1>4, <1>8, <1>9 DEF Shape
  <2> QED
    BY <2>2

(* scheduler() passes a thread that runs or sleeps. *)
LEMMA PassKeeps ==
  ASSUME TypeOK, NEW r \in Seq(Pcbs), NEW s \in Seq(Pcbs), Shape(r, s), SchedulePass
  PROVE  \E t \in Seq(Pcbs) : Shape(t, s)'
<1>1. /\ status[current] \in {"RUNNING", "SLEEPING"}
      /\ \A p \in Pcbs : p # current => status'[p] = status[p]
      /\ status'[current] \in {"RUNNING", "SLEEPING"}
      /\ current' = next[current]
      /\ mode' = IF status'[current'] = "RUNNING" THEN "run" ELSE "schedule"
      /\ UNCHANGED <<next, previous, free, waiting, due, making>>
  BY DEF SchedulePass, GoOn, TypeOK
<1>2. PICK t \in Seq(Pcbs) : /\ Circle(t)' /\ \A p : Occurs(t, p) <=> Occurs(r, p)
                             /\ Occurs(r, current')
  BY <1>1, InvNow, GoOnKeeps
<1>3. \A p \in Pcbs : Occurs(r, p) => Awake(p)' /\ ~Occurs(waiting, p)
  BY <1>1, InvNow DEF StatusOK, Awake, Places
<1>4. current' \in Pcbs
  BY <1>1, InvNow, CircleTurns
<1>5. Chain(s)' /\ Made' = Made
  BY <1>1, InvNow DEF Chain, Made
<1>6. Places(t, s)'
  BY <1>1, <1>2, <1>3, <1>5, InvNow DEF Places
<1>7. StatusOK(t)'
  BY <1>1, <1>2, <1>3, <1>4, InvNow DEF StatusOK, Awake
<1> QED
  BY <1>2, <1>5, <1>6, <1>7 DEF Shape

(* remove_job takes current_running, which blocked, out of the ring. *)
LEMMA BlockedKeeps ==
  ASSUME TypeOK, NEW r \in Seq(Pcbs), NEW s \in Seq(Pcbs), Shape(r, s), ScheduleBlocked
  PROVE  \E t \in Seq(Pcbs) : Shape(t, s)'
<1>0. previous[next[current]] = current /\ previous[current] \in Pcbs /\ next[current] \in Pcbs
  BY InvNow, CircleTurns
<1>1. /\ status[current] = "BLOCKED" /\ next[current] # current
      /\ next' = [next EXCEPT ![previous[current]] = next[current]]
      /\ previous' = [previous EXCEPT ![next[current]] = previous[current]]
      /\ current' = next[current]
      /\ mode' = IF status'[current'] = "RUNNING" THEN "run" ELSE "schedule"
      /\ UNCHANGED <<status, free, waiting, due, making>>
  BY <1>0 DEF ScheduleBlocked, Remove, GoOn
<1>2. \A q \in Pcbs : next'[q] = IF q = previous[current] THEN next[current] ELSE next[q]
  BY <1>0, <1>1 DEF TypeOK
<1>3. PICK t \in Seq(Pcbs) :
        /\ t = Tail(r) /\ Circle(t)' /\ \A p : Occurs(t, p) <=> Occurs(r, p) /\ p # current
        /\ Occurs(r, current') /\ Occurs(r, previous[current])
  BY <1>1, <1>2, InvNow, LeaveKeeps
<1>4. Occurs(waiting, current)
  BY <1>1, InvNow DEF StatusOK
<1>5. Chain(s)'
  <2>1. ASSUME NEW i \in 1..Len(s)
        PROVE  next'[s[i]] = next[s[i]]
    <3>1. s[i] \in Pcbs /\ Occurs(s, s[i])
      BY OccursIn
    <3>2. s[i] # previous[current]
      BY <3>1, <1>3, InvNow DEF Places
    <3> QED
      BY <3>1, <3>2, <1>2
  <2> QED
    BY <2>1, <1>1, InvNow DEF Chain
<1>6. Made' = Made
  BY <1>1 DEF Made
<1>7. Places(t, s)'
  BY <1>1, <1>3, <1>4, <1>6, InvNow DEF Places
<1>8. StatusOK(t)'
  BY <1>0, <1>1, <1>3, InvNow DEF StatusOK, Awake
<1> QED
  BY <1>3, <1>5, <1>7, <1>8 DEF Shape

(* free_pcb() puts who exited in front of the free list. *)
LEMMA ExitedKeeps ==
  ASSUME TypeOK, NEW r \in Seq(Pcbs), NEW s \in Seq(Pcbs), Shape(r, s), ScheduleExited
  PROVE  \E t, u \in Seq(Pcbs) : Shape(t, u)'
<1>0. previous[next[current]] = current /\ previous[current] \in Pcbs /\ next[current] \in Pcbs
  BY InvNow, CircleTurns
<1>1. /\ status[current] = "EXITED" /\ next[current] # current
      /\ next' = [next EXCEPT ![previous[current]] = next[current], ![current] = free]
      /\ previous' = [previous EXCEPT ![next[current]] = previous[current]]
      /\ free' = current /\ current' = next[current]
      /\ mode' = IF status'[current'] = "RUNNING" THEN "run" ELSE "schedule"
      /\ UNCHANGED <<status, waiting, due, making>>
  BY <1>0 DEF ScheduleExited, GoOn
<1>2. /\ \A q \in Pcbs : q # current =>
           next'[q] = IF q = previous[current] THEN next[current] ELSE next[q]
      /\ next'[current] = free
  BY <1>0, <1>1, InvNow DEF TypeOK
<1>3. PICK t \in Seq(Pcbs) :
        /\ t = Tail(r) /\ Circle(t)' /\ \A p : Occurs(t, p) <=> Occurs(r, p) /\ p # current
        /\ Occurs(r, current') /\ Occurs(r, previous[current])
  BY <1>1, <1>2, InvNow, LeaveKeeps
<1>4. ~Occurs(waiting, current)
  BY <1>1, InvNow DEF StatusOK
<1>5. PICK u \in Seq(Pcbs) :
        /\ Len(u) = Len(s) + 1 /\ u[1] = current
        /\ \A i \in 1..Len(s) : u[i + 1] = s[i]
        /\ \A p : Occurs(u, p) <=> Occurs(s, p) \/ p = current
        /\ NoRepeats(s) /\ ~Occurs(s, current) => NoRepeats(u)
  <2>1. current \in Pcbs
    BY InvNow
  <2> QED
    BY <2>1, ConsIs, Zenon
<1>6. Chain(u)'
  <2>1. PICK l \in Nat : l = Len(s)
    BY OccursIn
  <2>2. /\ NoRepeats(u)
        /\ free = IF l = 0 THEN NULL ELSE s[1]
        /\ \A i \in 1..l : next[s[i]] = IF i = l THEN NULL ELSE s[i + 1]
    <3>1. Chain(s) /\ ~Occurs(s, current)
      BY InvNow
    <3>2. s = << >> <=> l = 0
      BY <2>1, OccursIn
    <3> QED
      BY <3>1, <3>2, <2>1, <1>5 DEF Chain
  <2>3. ASSUME NEW i \in 1..l
        PROVE  next'[s[i]] = next[s[i]]
    <3>1. s[i] \in Pcbs /\ Occurs(s, s[i])
      BY <2>1, OccursIn
    <3>2. s[i] # previous[current] /\ s[i] # current
      BY <3>1, <1>3, InvNow DEF Places
    <3> QED
      BY <3>1, <3>2, <1>2
  <2>4. ASSUME NEW i \in 1..l + 1
        PROVE  next'[u[i]] = IF i = l + 1 THEN NULL ELSE u[i + 1]
    <3>1. CASE i = 1
      <4>1. next'[u[i]] = free
        BY <3>1, <1>2, <1>5
      <4>2. CASE l = 0
        BY <4>1, <4>2, <3>1, <2>2
      <4>3. CASE l # 0
        <5>1. 1 \in 1..l /\ 1 # l + 1 /\ u[1 + 1] = s[1]
          BY <4>3, <2>1, <1>5
        <5> QED
          BY <4>1, <4>3, <5>1, <3>1, <2>2
      <4> QED
        BY <4>2, <4>3
    <3>2. CASE i # 1
      <4>1. PICK j \in 1..l : i = j + 1
        <5>1. i - 1 \in 1..l /\ i = (i - 1) + 1
          BY <3>2
        <5> QED
          BY <5>1
      <4>2. u[i] = s[j] /\ next'[s[j]] = IF j = l THEN NULL ELSE s[j + 1]
        BY <4>1, <2>1, <2>2, <2>3, <1>5
      <4>3. j # l => j + 1 \in 1..l /\ u[(j + 1) + 1] = s[j + 1]
        <5> SUFFICES ASSUME j # l PROVE j + 1 \in 1..l /\ u[(j + 1) + 1] = s[j + 1]
          OBVIOUS
        <5>1. j + 1 \in 1..l
          OBVIOUS
        <5> QED
          BY <5>1, <2>1, <1>5
      <4>4. i = l + 1 <=> j = l
        BY <4>1
      <4> QED
        BY <4>1, <4>2, <4>3, <4>4
    <3> QED
      BY <3>1, <3>2
  <2>5. u # << >>
    BY <2>1, <1>5, OccursIn
  <2> QED
    <3>1. free' = IF u = << >> THEN NULL ELSE u[1]
      BY <2>5, <1>1, <1>5
    <3>2. \A i \in 1..Len(u) : next'[u[i]] = IF i = Len(u) THEN NULL ELSE u[i + 1]
      BY <2>1, <2>4, <1>5
    <3> QED
      BY <3>1, <3>2, <2>2 DEF Chain
<1>7. Made' = Made
  BY <1>1 DEF Made
<1>8. Places(t, u)'
  BY <1>1, <1>3, <1>4, <1>5, <1>7, InvNow DEF Places
<1>9. StatusOK(t)'
  BY <1>0, <1>1, <1>3, InvNow DEF StatusOK, Awake
<1> QED
  BY <1>3, <1>6, <1>8, <1>9 DEF Shape

(* Every step keeps the invariant. *)
LEMMA SInvNext == TypeOK /\ SInv /\ [Next]_vars => TypeOK' /\ SInv'
<1> SUFFICES ASSUME TypeOK, [Next]_vars, NEW r \in Seq(Pcbs), NEW s \in Seq(Pcbs), Shape(r, s)
             PROVE  TypeOK' /\ \E t, u \in Seq(Pcbs) : Shape(t, u)'
  BY DEF SInv
<1>0. TypeOK'
  BY InvNow, CircleTurns, TypeNext
<1>1. ASSUME UNCHANGED <<current, next, previous, free, waiting, making>>,
             status' = status \/ (status[current] \in {"RUNNING", "SLEEPING"} /\
                \E x \in {"SLEEPING", "EXITED"} : status' = [status EXCEPT ![current] = x]),
             mode' = "run" => mode = "run" /\ status'[current] # "EXITED"
      PROVE  Shape(r, s)'
  <2>1. Circle(r)' /\ Chain(s)' /\ Places(r, s)'
    BY <1>1, InvNow DEF Circle, Chain, Places, Made
  <2>2. StatusOK(r)'
    BY <1>1, InvNow DEF StatusOK, Awake, TypeOK
  <2> QED
    BY <2>1, <2>2 DEF Shape
<1>2. CASE Yield
  BY <1>0, <1>1, <1>2 DEF Yield
<1>3. CASE Block
  BY <1>0, <1>3, BlockKeeps
<1>4. CASE Unblock
  BY <1>0, <1>4, UnblockKeeps
<1>5. CASE Exit
  BY <1>0, <1>1, <1>5 DEF Exit, Set, Running
<1>6. CASE GoToSleep
  BY <1>0, <1>1, <1>6 DEF GoToSleep, Set, Running, TypeOK
<1>7. CASE AllocPcb
  BY <1>0, <1>7, AllocKeeps
<1>8. CASE InsertPcb
  BY <1>0, <1>8, InsertPcbKeeps
<1>9. CASE SchedulePass
  BY <1>0, <1>9, PassKeeps
<1>10. CASE ScheduleBlocked
  BY <1>0, <1>10, BlockedKeeps
<1>11. CASE ScheduleExited
  BY <1>0, <1>11, ExitedKeeps
<1>12. ASSUME NEW p \in Pcbs, TimePasses(p)
       PROVE  TypeOK' /\ \E t, u \in Seq(Pcbs) : Shape(t, u)'
  <2>1. Shape(r, s)'
    BY <1>12, InvNow DEF TimePasses, Shape, Circle, Chain, Places, Made, StatusOK, Awake
  <2> QED
    BY <2>1, <1>0
<1>13. CASE UNCHANGED vars
  <2>1. Shape(r, s)'
    BY <1>13, InvNow DEF vars, Shape, Circle, Chain, Places, Made, StatusOK, Awake
  <2> QED
    BY <2>1, <1>0
<1> QED
  BY <1>2, <1>3, <1>4, <1>5, <1>6, <1>7, <1>8, <1>9, <1>10, <1>11, <1>12, <1>13
     DEF Next, Schedule

----------------------------------------------------------------------------
(* After and Before are the neighbours in a sequence without repetition. *)
LEMMA AfterIs ==
  ASSUME NEW S, NEW s \in Seq(S), NoRepeats(s), NEW i \in 1..Len(s), NEW last
  PROVE  /\ After(s, s[i], last) = IF i < Len(s) THEN s[i + 1] ELSE last
         /\ Before(s, s[i]) = IF i > 1 THEN s[i - 1] ELSE s[Len(s)]
<1>1. Place(s, s[i]) = i
  BY OccursIn DEF Place
<1> QED
  BY <1>1 DEF After, Before

(* The free list init_pcb_table makes is a list of all the free pcbs, each *)
(* once. *)
LEMMA FreeOrderIs ==
  /\ FreeOrder \in Seq(Pcbs) /\ NoRepeats(FreeOrder)
  /\ \A p \in Pcbs : Occurs(FreeOrder, p) <=> p \notin BootPcbs
<1> DEFINE F == Pcbs \ BootPcbs
           n == Cardinality(F)
<1>1. IsFiniteSet(F) /\ n \in Nat
  BY SchedulerAssumption, FS_Subset, FS_CardinalityType
<1> HIDE DEF F
<1>2. PICK f \in Bijection(1..n, F) : TRUE
  BY <1>1, FS_CardinalityType DEF ExistsBijection
<1>3. f \in [1..n -> F] /\ \A i, j \in 1..n : f[i] = f[j] => i = j
  BY <1>2 DEF Bijection, Injection, IsInjective
<1>4. FreeOrder = CHOOSE s \in [1..n -> F] : \A i, j \in DOMAIN s : s[i] = s[j] => i = j
  BY DEF FreeOrder, F
<1>5. FreeOrder \in [1..n -> F] /\ \A i, j \in 1..n : FreeOrder[i] = FreeOrder[j] => i = j
  <2>1. \E s \in [1..n -> F] : \A i, j \in DOMAIN s : s[i] = s[j] => i = j
    BY <1>3
  <2>2. FreeOrder \in [1..n -> F] /\ \A i, j \in DOMAIN FreeOrder : FreeOrder[i] = FreeOrder[j] => i = j
    BY <1>4, <2>1
  <2> QED
    BY <2>2
<1>6. PICK s \in [1..n -> F] : s = FreeOrder /\ \A i, j \in 1..n : s[i] = s[j] => i = j
  BY <1>5
<1>7. s \in Injection(1..n, F) /\ Cardinality(1..n) = Cardinality(F)
  <2>1. Cardinality(1..n) = n
    <3>1. Cardinality(1..n) = IF 1 > n THEN 0 ELSE n - 1 + 1
      BY <1>1, FS_Interval
    <3> QED
      BY <1>1, <3>1
  <2>2. DOMAIN s = 1..n
    BY <1>6
  <2>3. IsInjective(s)
    BY <1>6, <2>2 DEF IsInjective
  <2> QED
    BY <1>6, <2>1, <2>3, Zenon DEF Injection, n
<1>8. \A p \in F : \E i \in 1..n : s[i] = p
  <2>1. s \in Surjection(1..n, F)
    BY <1>1, <1>7, FS_Injection
  <2> QED
    BY <2>1 DEF Surjection
<1>9. s \in Seq(Pcbs) /\ Len(s) = n
  <2>1. \A i \in 1..n : s[i] \in Pcbs
    BY <1>6 DEF F
  <2>2. s = [i \in 1..n |-> s[i]]
    BY <1>6
  <2> HIDE DEF n
  <2>4. \A l \in Nat : \A g \in [1..l -> Pcbs] : g \in Seq(Pcbs) /\ Len(g) = l
    OBVIOUS
  <2>5. s \in [1..n -> Pcbs]
    BY <2>1, <2>2
  <2> QED
    BY <1>1, <2>4, <2>5
<1>10. NoRepeats(s)
  BY <1>6, <1>9, OccursIn
<1>11. \A p \in Pcbs : Occurs(s, p) <=> p \notin BootPcbs
  <2>1. \A i \in 1..n : s[i] \in Pcbs /\ s[i] \notin BootPcbs
    BY <1>6 DEF F
  <2>2. \A p \in Pcbs : p \notin BootPcbs => \E i \in 1..n : s[i] = p
    BY <1>8 DEF F
  <2> HIDE DEF n
  <2> QED
    BY <1>9, <2>1, <2>2 DEF Occurs
<1> QED
  BY <1>6, <1>9, <1>10, <1>11

(* current_running is a pcb. *)
LEMMA CircleBegins ==
  ASSUME NEW r \in Seq(Pcbs), Circle(r)
  PROVE  current \in Pcbs
<1>1. r # << >> /\ r[1] = current
  BY DEF Circle
<1> QED
  BY <1>1, TailIs

(* _start establishes the invariant. *)
LEMMA SInvInit == Init => TypeOK /\ SInv
<1> SUFFICES ASSUME Init PROVE TypeOK /\ SInv
  OBVIOUS
<1>1. PICK n \in Nat \ {0} : n = Len(Boot) /\ \A i \in 1..n : Boot[i] \in Pcbs /\ Boot[i] \in BootPcbs
  BY SchedulerAssumption DEF BootPcbs
<1>2. NoRepeats(Boot) /\ Boot \in Seq(Pcbs) /\ NULL \notin Pcbs /\ Boot # << >> /\ BootPcbs \subseteq Pcbs
  BY SchedulerAssumption, OccursIn DEF BootPcbs
<1>3. \A p : p \in BootPcbs <=> Occurs(Boot, p)
  BY <1>1, <1>2 DEF BootPcbs, Occurs
<1>4. PICK s \in Seq(Pcbs) :
        /\ s = FreeOrder /\ NoRepeats(s)
        /\ \A p \in Pcbs : Occurs(s, p) <=> p \notin BootPcbs
  BY FreeOrderIs
<1>5. /\ current = Boot[1] /\ waiting = << >> /\ mode = "run"
      /\ \A p \in Pcbs : p \in BootPcbs =>
           /\ next[p] = After(Boot, p, Boot[1]) /\ previous[p] = Before(Boot, p)
           /\ status[p] = "RUNNING"
      /\ \A p \in Pcbs : p \notin BootPcbs => next[p] = After(s, p, NULL)
      /\ \A p \in Pcbs : making[p] = NULL
      /\ free = IF Pcbs = BootPcbs THEN NULL ELSE s[1]
  BY <1>4 DEF Init
<1>6. Circle(Boot)
  <2>1. ASSUME NEW i \in 1..n
        PROVE  /\ next[Boot[i]] = Boot[IF i = n THEN 1 ELSE i + 1]
               /\ previous[Boot[IF i = n THEN 1 ELSE i + 1]] = Boot[i]
    <3> DEFINE j == IF i = n THEN 1 ELSE i + 1
    <3>1. j \in 1..n /\ (i < n <=> i # n) /\ (j > 1 <=> i # n) /\ (i # n => j - 1 = i)
      OBVIOUS
    <3> HIDE DEF j
    <3> DEFINE last == Boot[1]
    <3> HIDE DEF last
    <3>2. next[Boot[i]] = IF i < n THEN Boot[i + 1] ELSE Boot[1]
      <4>1. After(Boot, Boot[i], last) = IF i < n THEN Boot[i + 1] ELSE last
        BY <1>1, <1>2, AfterIs
      <4> QED
        BY <1>1, <1>5, <4>1 DEF last
    <3>3. previous[Boot[j]] = IF j > 1 THEN Boot[j - 1] ELSE Boot[n]
      BY <3>1, <1>1, <1>2, <1>5, AfterIs
    <3> QED
      BY <3>1, <3>2, <3>3 DEF j
  <2> QED
    BY <2>1, <1>1, <1>2, <1>5 DEF Circle, Around
<1>7. Chain(s)
  <2>1. PICK l \in Nat : l = Len(s) /\ \A i \in 1..l : s[i] \in Pcbs /\ Occurs(s, s[i])
    BY OccursIn
  <2>2. ASSUME NEW i \in 1..l
        PROVE  next[s[i]] = IF i = l THEN NULL ELSE s[i + 1]
    <3>1. i < l <=> i # l
      BY <2>1
    <3> QED
      BY <3>1, <2>1, <1>4, <1>5, AfterIs
  <2>3. s = << >> <=> Pcbs = BootPcbs
    <3>1. s = << >> => \A p \in Pcbs : p \in BootPcbs
      BY <1>4 DEF Occurs
    <3>2. s # << >> => \E p \in Pcbs : p \notin BootPcbs
      <4> SUFFICES ASSUME s # << >> PROVE \E p \in Pcbs : p \notin BootPcbs
        OBVIOUS
      <4>1. 1 \in 1..l
        BY <2>1, OccursIn
      <4> QED
        BY <4>1, <2>1, <1>4
    <3> QED
      BY <3>1, <3>2, <1>2
  <2> QED
    BY <2>1, <2>2, <2>3, <1>4, <1>5 DEF Chain
<1>8. Made = {}
  BY <1>5 DEF Made
<1>9. \A p : ~Occurs(waiting, p)
  BY <1>5 DEF Occurs
<1>10. Places(Boot, s)
  BY <1>3, <1>4, <1>5, <1>8, <1>9 DEF Places, NoRepeats, Once
<1>11. StatusOK(Boot)
  <2>1. current \in Pcbs /\ current \in BootPcbs
    <3>1. 1 \in 1..n
      OBVIOUS
    <3> QED
      BY <3>1, <1>1, <1>5
  <2> QED
    BY <2>1, <1>3, <1>5, <1>9 DEF StatusOK, Awake
<1>12. TypeOK
  <2>1. \A p \in Pcbs : next[p] \in Pcbs \cup {NULL} /\ previous[p] \in Pcbs \cup {NULL}
    <3>1. ASSUME NEW p \in BootPcbs
          PROVE  next[p] \in Pcbs /\ previous[p] \in Pcbs
      <4>1. PICK i \in 1..n : p = Boot[i]
        BY <1>1, <1>3 DEF Occurs
      <4>2. /\ next[p] = IF i < n THEN Boot[i + 1] ELSE Boot[1]
            /\ previous[p] = IF i > 1 THEN Boot[i - 1] ELSE Boot[n]
        BY <4>1, <1>1, <1>2, <1>5, AfterIs
      <4>3. (i < n => i + 1 \in 1..n) /\ (i > 1 => i - 1 \in 1..n) /\ 1 \in 1..n /\ n \in 1..n
        OBVIOUS
      <4> QED
        BY <4>2, <4>3, <1>1
    <3>2. ASSUME NEW p \in Pcbs, p \notin BootPcbs
          PROVE  next[p] \in Pcbs \cup {NULL} /\ previous[p] \in Pcbs \cup {NULL}
      <4>1. PICK i \in 1..Len(s) : p = s[i]
        BY <3>2, <1>4 DEF Occurs
      <4>2. next[p] = IF i = Len(s) THEN NULL ELSE s[i + 1]
        BY <4>1, <1>7 DEF Chain
      <4>3. i # Len(s) => s[i + 1] \in Pcbs
        <5>1. Len(s) \in Nat
          BY OccursIn
        <5>2. i # Len(s) => i + 1 \in 1..Len(s)
          BY <5>1
        <5> QED
          BY <5>2, OccursIn
      <4> QED
        BY <3>2, <4>2, <4>3 DEF Init
    <3> QED
      BY <3>1, <3>2, <1>2
  <2>2. next \in [Pcbs -> Pcbs \cup {NULL}] /\ previous \in [Pcbs -> Pcbs \cup {NULL}]
    <3>1. /\ next = [p \in Pcbs |-> next[p]] /\ previous = [p \in Pcbs |-> previous[p]]
      BY DEF Init
    <3> QED
      BY <2>1, <3>1
  <2>3. free \in Pcbs \cup {NULL}
    <3>1. s # << >> => s[1] \in Pcbs
      BY TailIs
    <3> QED
      BY <3>1, <1>7 DEF Chain
  <2>4. current \in Pcbs
    <3>1. Boot[1] \in Pcbs
      BY <1>1
    <3> QED
      BY <1>5, <3>1
  <2> QED
    BY <2>2, <2>3, <2>4 DEF Init, TypeOK, Statuses
<1> QED
  BY <1>2, <1>4, <1>6, <1>7, <1>10, <1>11, <1>12 DEF SInv, Shape

(* The ready queue is a ring, the free list a chain, and every pcb has its *)
(* place, in every state the kernel reaches: whatever threads block, exit, *)
(* sleep and create, and whatever ticks come, with any number of pcbs. *)
THEOREM SInvariance == Spec => [](TypeOK /\ SInv)
<1> QED
  BY SInvInit, SInvNext, PTL DEF Spec

----------------------------------------------------------------------------
(* Walk is the function that its definition describes. *)
LEMMA WalkIs ==
  ASSUME NEW p
  PROVE  \A k \in 0..Cardinality(Pcbs) : Walk(p)[k] =
           IF k = 0 THEN p ELSE IF Walk(p)[k - 1] = NULL THEN NULL ELSE next[Walk(p)[k - 1]]
<1>1. PICK n \in Nat : n = Cardinality(Pcbs)
  BY SchedulerAssumption, FS_CardinalityType
<1> DEFINE Step(x) == IF x = NULL THEN NULL ELSE next[x]
           Is(w, m) == w = [k \in 0..m |-> IF k = 0 THEN p ELSE Step(w[k - 1])]
           Bad == {m \in 0..n : ~\E w : Is(w, m)}
<1>2. \E w : Is(w, n)
  <2> SUFFICES ASSUME Bad # {} PROVE FALSE
    <3>1. n \in 0..n
      OBVIOUS
    <3> QED
      BY <3>1
  <2>1. Bad \subseteq Nat
    OBVIOUS
  <2>2. PICK m \in Bad : \A y \in Bad : m <= y
    <3> HIDE DEF Bad
    <3> QED
      BY <2>1, LeastElement
  <2>3. m \in 0..n /\ ~\E w : Is(w, m)
    BY <2>2
  <2>4. m # 0
    <3>1. Is([k \in 0..0 |-> p], 0)
      OBVIOUS
    <3> QED
      BY <3>1, <2>3
  <2>5. m - 1 \notin Bad
    <3>1. m \in Nat /\ m - 1 \in Int /\ ~(m <= m - 1)
      BY <2>3
    <3> HIDE DEF Bad
    <3> QED
      BY <2>2, <3>1
  <2>6. PICK w : Is(w, m - 1)
    <3>1. m - 1 \in 0..n
      BY <2>3, <2>4
    <3> QED
      BY <3>1, <2>5
  <2> DEFINE v == [k \in 0..m |-> IF k = 0 THEN p ELSE Step(w[k - 1])]
  <2> HIDE DEF Step
  <2>7. \A k \in 0..m : k # 0 => k - 1 \in 0..m - 1 /\ k - 1 \in 0..m
    BY <2>3
  <2>8. \A k \in 0..m - 1 : v[k] = w[k]
    <3>1. \A k \in 0..m - 1 : k \in 0..m
      BY <2>3
    <3> QED
      BY <3>1, <2>6
  <2>9. Is(v, m)
    <3>1. \A k \in 0..m : k # 0 => v[k - 1] = w[k - 1]
      BY <2>7, <2>8
    <3>2. v = [k \in 0..m |-> IF k = 0 THEN p ELSE Step(v[k - 1])]
      BY <3>1
    <3> QED
      BY <3>2
  <2> QED
    BY <2>3, <2>9
<1>3. Walk(p) = CHOOSE w : Is(w, n)
  BY <1>1 DEF Walk
<1>4. Is(Walk(p), n)
  <2> HIDE DEF Is
  <2> QED
    BY <1>2, <1>3
<1> HIDE DEF Step
<1>5. PICK w : w = Walk(p) /\ w = [k \in 0..n |-> IF k = 0 THEN p ELSE Step(w[k - 1])]
  BY <1>4
<1>6. \A k \in 0..n : w[k] = IF k = 0 THEN p ELSE Step(w[k - 1])
  BY <1>5
<1> QED
  BY <1>1, <1>5, <1>6 DEF Step

(* Following next from the head of a list finds the list, when its last    *)
(* element leads nowhere or back into it. *)
LEMMA FollowIs ==
  ASSUME NEW u \in Seq(Pcbs), u # << >>, NoRepeats(u),
         \A i \in 1..Len(u) : i # Len(u) => next[u[i]] = u[i + 1],
         next[u[Len(u)]] = NULL \/ Occurs(u, next[u[Len(u)]])
  PROVE  \A p : p \in Follow(u[1]) <=> Occurs(u, p)
<1>1. PICK n \in Nat : n = Cardinality(Pcbs)
  BY SchedulerAssumption, FS_CardinalityType
<1>2. PICK l \in Nat \ {0} : /\ l = Len(u) /\ \A i \in 1..l : u[i] \in Pcbs
                             /\ \A i, j \in 1..l : u[i] = u[j] => i = j
  BY OccursIn
<1>3. l <= n
  <2> DEFINE g == [i \in 1..l |-> u[i]]
  <2>1. g \in [1..l -> Pcbs] /\ IsInjective(g)
    BY <1>2 DEF IsInjective
  <2> HIDE DEF g
  <2>2. g \in Injection(1..l, Pcbs)
    BY <2>1 DEF Injection
  <2>3. IsFiniteSet(1..l) /\ Cardinality(1..l) = l
    <3>1. Cardinality(1..l) = IF 1 > l THEN 0 ELSE l - 1 + 1
      BY <1>2, FS_Interval
    <3>2. IsFiniteSet(1..l)
      BY <1>2, FS_Interval
    <3> QED
      BY <1>2, <3>1, <3>2
  <2> QED
    BY <1>1, <2>2, <2>3, SchedulerAssumption, FS_Injection
<1>4. PICK w : /\ w = Walk(u[1])
               /\ \A k \in 0..n : w[k] = IF k = 0 THEN u[1] ELSE IF w[k - 1] = NULL THEN NULL
                                                              ELSE next[w[k - 1]]
  BY <1>1, WalkIs
<1>5. /\ \A i \in 1..l : i # l => next[u[i]] = u[i + 1]
      /\ next[u[l]] = NULL \/ \E j \in 1..l : u[j] = next[u[l]]
  BY <1>2 DEF Occurs
<1>6. \A k \in 0..n : w[k] = NULL \/ \E j \in 1..l : u[j] = w[k]
  <2> DEFINE Bad == {k \in 0..n : ~(w[k] = NULL \/ \E j \in 1..l : u[j] = w[k])}
  <2> SUFFICES ASSUME Bad # {} PROVE FALSE
    OBVIOUS
  <2>1. Bad \subseteq Nat
    OBVIOUS
  <2>2. PICK m \in Bad : \A y \in Bad : m <= y
    <3> HIDE DEF Bad
    <3> QED
      BY <2>1, LeastElement
  <2>3. m \in 0..n /\ w[m] # NULL /\ ~\E j \in 1..l : u[j] = w[m]
    BY <2>2
  <2>4. m # 0
    <3>1. 1 \in 1..l /\ 0 \in 0..n
      BY <1>2
    <3> QED
      BY <3>1, <2>3, <1>4
  <2>5. m - 1 \in 0..n /\ ~(m <= m - 1)
    BY <2>3, <2>4
  <2>6. m - 1 \notin Bad
    <3> HIDE DEF Bad
    <3> QED
      BY <2>2, <2>5
  <2>7. w[m - 1] # NULL /\ w[m] = next[w[m - 1]]
    BY <2>3, <2>4, <1>4
  <2>8. PICK j \in 1..l : u[j] = w[m - 1]
    BY <2>5, <2>6, <2>7
  <2>9. CASE j = l
    BY <2>3, <2>7, <2>8, <2>9, <1>5
  <2>10. CASE j # l
    <3>1. j + 1 \in 1..l
      BY <2>10
    <3> QED
      BY <3>1, <2>3, <2>7, <2>8, <2>10, <1>5
  <2> QED
    BY <2>9, <2>10
<1>7. \A k \in 1..l : w[k - 1] = u[k]
  <2> DEFINE Bad == {k \in 1..l : w[k - 1] # u[k]}
  <2> SUFFICES ASSUME Bad # {} PROVE FALSE
    OBVIOUS
  <2>1. Bad \subseteq Nat
    OBVIOUS
  <2>2. PICK m \in Bad : \A y \in Bad : m <= y
    <3> HIDE DEF Bad
    <3> QED
      BY <2>1, LeastElement
  <2>3. m \in 1..l /\ w[m - 1] # u[m]
    BY <2>2
  <2>4. m # 1
    <3>1. 1 - 1 = 0 /\ 0 \in 0..n
      OBVIOUS
    <3> QED
      BY <3>1, <2>3, <1>4
  <2>5. /\ m - 1 \in 1..l /\ ~(m <= m - 1) /\ m - 1 # l /\ (m - 1) + 1 = m
        /\ m - 1 \in 0..n /\ m - 1 # 0
    BY <2>3, <2>4, <1>3
  <2>6. m - 1 \notin Bad
    <3> HIDE DEF Bad
    <3> QED
      BY <2>2, <2>5
  <2>7. w[(m - 1) - 1] = u[m - 1]
    BY <2>5, <2>6
  <2>8. u[m - 1] # NULL
    BY <2>5, <1>2, SchedulerAssumption
  <2>9. w[m - 1] = next[u[m - 1]]
    BY <2>5, <2>7, <2>8, <1>4
  <2> QED
    BY <2>3, <2>5, <2>9, <1>5
<1>8. \A p : p \in Follow(u[1]) <=> p # NULL /\ \E k \in 0..n : w[k] = p
  BY <1>1, <1>4 DEF Follow
<1>9. ASSUME NEW j \in 1..l PROVE u[j] # NULL /\ \E k \in 0..n : w[k] = u[j]
  <2>1. j - 1 \in 0..n
    BY <1>3
  <2> QED
    BY <2>1, <1>2, <1>7, SchedulerAssumption
<1> QED
  BY <1>2, <1>6, <1>8, <1>9 DEF Occurs

(* An empty list has no elements. *)
LEMMA FollowNothing == \A p : p \notin Follow(NULL)
<1> SUFFICES ASSUME NEW p, p \in Follow(NULL) PROVE FALSE
  OBVIOUS
<1>1. PICK n \in Nat : n = Cardinality(Pcbs)
  BY SchedulerAssumption, FS_CardinalityType
<1>2. PICK w : /\ w = Walk(NULL)
               /\ \A k \in 0..n : w[k] = IF k = 0 THEN NULL ELSE IF w[k - 1] = NULL THEN NULL
                                                              ELSE next[w[k - 1]]
  BY <1>1, WalkIs
<1> DEFINE Bad == {k \in 0..n : w[k] # NULL}
<1>3. Bad # {} /\ Bad \subseteq Nat
  BY <1>1, <1>2 DEF Follow
<1>4. PICK m \in Bad : \A y \in Bad : m <= y
  <2> HIDE DEF Bad
  <2> QED
    BY <1>3, LeastElement
<1>5. m \in 0..n /\ w[m] # NULL /\ m # 0
  BY <1>2, <1>4
<1>6. m - 1 \in 0..n /\ ~(m <= m - 1)
  BY <1>5
<1>7. m - 1 \notin Bad
  <2> HIDE DEF Bad
  <2> QED
    BY <1>4, <1>6
<1> QED
  BY <1>2, <1>5, <1>6, <1>7

(* The pcbs that next leads to from current_running are the ring. *)
LEMMA RingIs ==
  ASSUME NEW r \in Seq(Pcbs), Circle(r)
  PROVE  \A p : p \in Ring <=> Occurs(r, p)
<1>1. PICK l \in Nat \ {0} : l = Len(r)
  BY OccursIn DEF Circle
<1>2. \A i \in 1..Len(r) : i # Len(r) => next[r[i]] = r[i + 1]
  BY DEF Circle, Around
<1>3. Occurs(r, next[r[Len(r)]])
  <2>1. l \in 1..l /\ 1 \in 1..l
    BY <1>1
  <2> QED
    BY <1>1, <2>1 DEF Circle, Around, Occurs
<1> QED
  BY <1>2, <1>3, FollowIs DEF Circle, Ring

(* The pcbs that next leads to from next_free_pcb are the free list. *)
LEMMA FreeSetIs ==
  ASSUME NEW s \in Seq(Pcbs), Chain(s)
  PROVE  \A p : p \in FreeSet <=> Occurs(s, p)
<1>1. CASE s = << >>
  BY <1>1, FollowNothing DEF Chain, FreeSet, Occurs
<1>2. CASE s # << >>
  <2>1. PICK l \in Nat \ {0} : l = Len(s)
    BY <1>2, OccursIn
  <2>2. next[s[Len(s)]] = NULL
    <3>1. l \in 1..l
      BY <2>1
    <3> QED
      BY <2>1, <3>1 DEF Chain
  <2>3. \A i \in 1..Len(s) : i # Len(s) => next[s[i]] = s[i + 1]
    BY DEF Chain
  <2> QED
    BY <1>2, <2>2, <2>3, FollowIs DEF Chain, FreeSet
<1> QED
  BY <1>1, <1>2

(* The pcbs in the waiting list. *)
LEMMA WaitersAre == TypeOK => \A p : p \in Waiters <=> Occurs(waiting, p)
BY OccursIn DEF TypeOK, Waiters, Occurs

(* The invariant implies RingIntact. *)
LEMMA RingFromInv == TypeOK /\ SInv => RingIntact
<1> SUFFICES ASSUME TypeOK, NEW r \in Seq(Pcbs), NEW s \in Seq(Pcbs), Shape(r, s)
             PROVE  RingIntact
  BY DEF SInv
<1>1. Circle(r) /\ StatusOK(r)
  BY DEF Shape
<1>2. \A p : p \in Ring <=> Occurs(r, p)
  BY <1>1, RingIs
<1>3. PICK l \in Nat : l = Len(r) /\ \A i \in 1..l : r[i] \in Pcbs /\ Occurs(r, r[i])
  BY OccursIn
<1>4. ASSUME NEW p \in Ring
      PROVE  next[p] # NULL /\ next[p] \in Ring /\ previous[next[p]] = p
  <2>1. PICK i \in 1..l : p = r[i]
    BY <1>2, <1>3, <1>4 DEF Occurs
  <2> DEFINE j == Around(r, i)
  <2>2. j \in 1..l
    BY <1>3 DEF Around
  <2>3. next[p] = r[j] /\ previous[r[j]] = p
    BY <1>1, <1>3, <2>1 DEF Circle
  <2> HIDE DEF j
  <2> QED
    BY <1>2, <1>3, <2>2, <2>3, SchedulerAssumption
<1>5. \A p \in Ring : p \in Pcbs
  BY <1>2, <1>3 DEF Occurs
<1> QED
  BY <1>1, <1>2, <1>4, <1>5 DEF RingIntact, StatusOK, Awake

(* The invariant implies PcbsAccounted. *)
LEMMA PcbsFromInv == TypeOK /\ SInv => PcbsAccounted
<1> SUFFICES ASSUME TypeOK, NEW r \in Seq(Pcbs), NEW s \in Seq(Pcbs), Shape(r, s)
             PROVE  PcbsAccounted
  BY DEF SInv
<1>1. Circle(r) /\ Chain(s) /\ Places(r, s)
  BY DEF Shape
<1>2. /\ \A p : p \in Ring <=> Occurs(r, p)
      /\ \A p : p \in FreeSet <=> Occurs(s, p)
      /\ \A p : p \in Waiters <=> Occurs(waiting, p)
  BY <1>1, RingIs, FreeSetIs, WaitersAre
<1>3. Ring \subseteq Pcbs /\ FreeSet \subseteq Pcbs /\ Waiters \subseteq Pcbs
  <2>1. ASSUME NEW u \in Seq(Pcbs), NEW p, Occurs(u, p) PROVE p \in Pcbs
    BY <2>1, OccursIn DEF Occurs
  <2> QED
    BY <1>2, <2>1 DEF TypeOK
<1>4. Made \subseteq Pcbs
  BY DEF Made, TypeOK
<1>5. \A i, j \in DOMAIN waiting : waiting[i] = waiting[j] => i = j
  BY <1>1, OccursIn DEF Places, TypeOK
<1> HIDE DEF Made
<1> QED
  BY <1>1, <1>2, <1>3, <1>4, <1>5 DEF PcbsAccounted, Places

(* The ready queue stays one ring, read the same both ways, of the threads *)
(* that can run or sleep (insert_job, insert_pcb, remove_job). *)
THEOREM ReadyQueueIntact == Spec => []RingIntact
BY SInvariance, RingFromInv, PTL

(* No pcb is lost or on two lists (alloc_pcb, free_pcb, block, unblock). *)
THEOREM NoPcbLost == Spec => []PcbsAccounted
BY SInvariance, PcbsFromInv, PTL

=============================================================================
