---------------------------- MODULE WaitingLists ----------------------------
(***************************************************************************)
(* Facts about the waiting lists of locks and conditions (thread.c):       *)
(* threads are appended at the end and taken from the head, and no thread  *)
(* is in a list twice. And, for proofs by induction on what a recursive    *)
(* function computes, that a set of numbers has a least element.           *)
(***************************************************************************)
EXTENDS Naturals, Sequences, WellFoundedInduction, TLAPS

(* Waiting lists as sequences without repetition. *)
Occurs(s, x) == \E i \in 1..Len(s) : s[i] = x

Once(s, x) == \A i, j \in 1..Len(s) : s[i] = x /\ s[j] = x => i = j

(* The elements of what Append and Tail return. *)
LEMMA AppendIs ==
  ASSUME NEW S, NEW s \in Seq(S), NEW x \in S
  PROVE  /\ Append(s, x) \in Seq(S) /\ Len(Append(s, x)) = Len(s) + 1
         /\ \A i \in 1..Len(s) : Append(s, x)[i] = s[i]
         /\ Append(s, x)[Len(s) + 1] = x
OBVIOUS

LEMMA TailIs ==
  ASSUME NEW S, NEW s \in Seq(S), s # << >>
  PROVE  /\ Tail(s) \in Seq(S) /\ Len(Tail(s)) = Len(s) - 1 /\ Len(s) \in Nat \ {0}
         /\ \A i \in 1..Len(s) - 1 : Tail(s)[i] = s[i + 1]
         /\ Head(s) = s[1] /\ Head(s) \in S
OBVIOUS

(* Appending x adds x and nothing else, and repeats nothing if x is new. *)
LEMMA AppendOccurs ==
  ASSUME NEW S, NEW s \in Seq(S), NEW x \in S
  PROVE  /\ Append(s, x) \in Seq(S)
         /\ \A y : Occurs(Append(s, x), y) <=> Occurs(s, y) \/ y = x
         /\ \A y : y # x /\ Once(s, y) => Once(Append(s, x), y)
         /\ ~Occurs(s, x) => Once(Append(s, x), x)
<1> DEFINE a == Append(s, x)
<1>1. /\ a \in Seq(S) /\ Len(a) = Len(s) + 1 /\ Len(s) \in Nat
      /\ a[Len(s) + 1] = x
      /\ \A i \in 1..Len(s) : a[i] = s[i]
  OBVIOUS
<1> HIDE DEF a
<1>2. ASSUME NEW y PROVE Occurs(a, y) <=> Occurs(s, y) \/ y = x
  <2>1. ASSUME NEW i \in 1..Len(a), a[i] = y PROVE Occurs(s, y) \/ y = x
    <3>1. i \in 1..Len(s) \/ i = Len(s) + 1
      BY <1>1
    <3> QED BY <1>1, <2>1, <3>1 DEF Occurs
  <2>2. ASSUME NEW i \in 1..Len(s), s[i] = y PROVE Occurs(a, y)
    BY <1>1, <2>2 DEF Occurs
  <2>3. Len(s) + 1 \in 1..Len(a)
    BY <1>1
  <2> QED BY <1>1, <2>1, <2>2, <2>3 DEF Occurs
<1>3. ASSUME NEW y, y # x, Once(s, y) PROVE Once(a, y)
  BY <1>1, <1>3 DEF Once
<1>4. ASSUME ~Occurs(s, x) PROVE Once(a, x)
  BY <1>1, <1>4 DEF Occurs, Once
<1> QED BY <1>1, <1>2, <1>3, <1>4 DEF a

(* Removing the head removes that element, if it was there once, and no    *)
(* other. *)
LEMMA TailOccurs ==
  ASSUME NEW S, NEW s \in Seq(S), s # << >>
  PROVE  /\ Tail(s) \in Seq(S)
         /\ Head(s) \in S
         /\ Occurs(s, Head(s))
         /\ Once(s, Head(s)) => ~Occurs(Tail(s), Head(s))
         /\ \A y : y # Head(s) => (Occurs(Tail(s), y) <=> Occurs(s, y))
         /\ \A y : Once(s, y) => Once(Tail(s), y)
<1> DEFINE r == Tail(s)
<1>1. /\ r \in Seq(S) /\ Len(s) \in Nat \ {0} /\ Len(r) = Len(s) - 1
      /\ Head(s) = s[1] /\ s[1] \in S
      /\ \A i \in 1..Len(r) : r[i] = s[i + 1]
  OBVIOUS
<1> HIDE DEF r
<1>2. Occurs(s, Head(s))
  BY <1>1 DEF Occurs
<1>3. ASSUME Once(s, Head(s)) PROVE ~Occurs(r, Head(s))
  <2> SUFFICES ASSUME NEW i \in 1..Len(r), r[i] = Head(s) PROVE FALSE
    BY DEF Occurs
  <2>1. i + 1 \in 1..Len(s) /\ 1 \in 1..Len(s) /\ i + 1 # 1 /\ s[i + 1] = Head(s)
    BY <1>1
  <2> QED BY <1>1, <1>3, <2>1 DEF Once
<1>4. ASSUME NEW y, y # Head(s) PROVE Occurs(r, y) <=> Occurs(s, y)
  <2>1. ASSUME NEW i \in 1..Len(r), r[i] = y PROVE Occurs(s, y)
    <3>1. i + 1 \in 1..Len(s) /\ s[i + 1] = y
      BY <1>1, <2>1
    <3> QED BY <3>1 DEF Occurs
  <2>2. ASSUME NEW i \in 1..Len(s), s[i] = y PROVE Occurs(r, y)
    <3>1. i - 1 \in 1..Len(r) /\ (i - 1) + 1 = i
      BY <1>1, <1>4, <2>2
    <3>2. r[i - 1] = y
      BY <1>1, <2>2, <3>1
    <3> QED BY <3>1, <3>2 DEF Occurs
  <2> QED BY <2>1, <2>2 DEF Occurs
<1>5. ASSUME NEW y, Once(s, y) PROVE Once(r, y)
  <2> SUFFICES ASSUME NEW i \in 1..Len(r), NEW j \in 1..Len(r), r[i] = y, r[j] = y
               PROVE  i = j
    BY DEF Once
  <2>1. i + 1 \in 1..Len(s) /\ j + 1 \in 1..Len(s) /\ s[i + 1] = y /\ s[j + 1] = y
    BY <1>1
  <2>2. i + 1 = j + 1
    BY <1>5, <2>1 DEF Once
  <2> QED BY <2>2
<1> QED BY <1>1, <1>2, <1>3, <1>4, <1>5 DEF r

----------------------------------------------------------------------------
(* Every set of naturals has a least element: what fails for some number   *)
(* fails for a first one. *)
LEMMA LeastElement ==
  ASSUME NEW T, T \subseteq Nat, T # {}
  PROVE  \E x \in T : \A y \in T : x <= y
<1> DEFINE Less == OpToRel(<, Nat)
<1>1. IsWellFoundedOn(Less, Nat)
  BY NatLessThanWellFounded
<1>2. ASSUME NEW x \in Nat, NEW y \in Nat, y < x PROVE <<y, x>> \in Less
  BY <1>2 DEF OpToRel
<1> HIDE DEF Less
<1>3. PICK x \in T : \A y \in T : ~(<<y, x>> \in Less)
  BY <1>1, WFMin
<1>4. \A y \in T : ~(y < x)
  BY <1>2, <1>3
<1> QED BY <1>4
============================================================================
