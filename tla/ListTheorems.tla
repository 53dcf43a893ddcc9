---------------------------- MODULE ListTheorems ----------------------------
(***************************************************************************)
(* What the proofs of several components need to know of numbers and       *)
(* sequences: least elements, for induction, and FlattenSeq.               *)
(***************************************************************************)
EXTENDS Integers, Sequences, SequencesExt, SequenceTheorems, FiniteSetTheorems, TLAPS

(* The least element of a set of numbers, for induction.                   *)
LEMMA Least ==
  ASSUME NEW T \in SUBSET Nat, T # {}
  PROVE  \E n \in T : \A m \in T : n <= m
<1> DEFINE Below == {1..n : n \in T}
<1>1. Below # {} /\ Below \subseteq FiniteSubsetsOf(Nat)
  <2>1. \A n \in Nat : IsFiniteSet(1..n) /\ 1..n \subseteq Nat
    BY FS_Interval
  <2> QED BY <2>1 DEF FiniteSubsetsOf
<1>2. IsWellFoundedOn(StrictSubsetOrdering(Nat), FiniteSubsetsOf(Nat))
  BY FS_StrictSubsetOrderingWellFounded
<1>3. PICK X \in Below : \A Y \in Below : <<Y, X>> \notin StrictSubsetOrdering(Nat)
  <2> HIDE DEF Below
  <2> QED BY <1>1, <1>2, WFMin
<1>4. PICK n \in T : X = 1..n
  OBVIOUS
<1>5. ASSUME NEW m \in T, m < n PROVE FALSE
  <2>1. 1..m \in Below /\ 1..m \subseteq 1..n /\ 1..m # 1..n /\ 1..m \subseteq Nat /\ 1..n \subseteq Nat
    BY <1>5
  <2> QED BY <1>3, <1>4, <2>1 DEF StrictSubsetOrdering
<1> QED BY <1>5

-----------------------------------------------------------------------------
(* FlattenSeq, one member at a time: f[i] is what the first i make.        *)
Flattens(ss, S, f) ==
  /\ f \in [0..Len(ss) -> Seq(S)]
  /\ f[0] = <<>>
  /\ \A i \in 1..Len(ss) : f[i] = f[i - 1] \o ss[i]
  /\ FlattenSeq(ss) = f[Len(ss)]

(* The function that FlattenSeq defines, as far as n. *)
Loop(ss, f, n) == f = [i \in 1..n |-> IF i = 1 THEN ss[i] ELSE f[i - 1] \o ss[i]]

LEMMA LoopExists ==
  ASSUME NEW ss, NEW n \in Nat
  PROVE  \E f : Loop(ss, f, n)
<1> DEFINE T == {m \in Nat : ~ \E f : Loop(ss, f, m)}
<1>1. SUFFICES ASSUME T # {} PROVE FALSE
  OBVIOUS
<1>2. PICK m \in T : \A k \in T : m <= k
  BY <1>1, Least
<1>3. CASE m = 0
  <2>1. Loop(ss, <<>>, 0)
    BY DEF Loop
  <2> QED BY <1>3, <2>1
<1>4. CASE m # 0
  <2>1. m - 1 \in Nat /\ m - 1 \notin T
    BY <1>2, <1>4
  <2>2. PICK f : Loop(ss, f, m - 1)
    BY <2>1
  <2> DEFINE g == [i \in 1..m |-> IF i = m THEN (IF i = 1 THEN ss[i] ELSE f[i - 1] \o ss[i]) ELSE f[i]]
  <2>3. f = [i \in 1..(m - 1) |-> IF i = 1 THEN ss[i] ELSE f[i - 1] \o ss[i]]
    BY <2>2 DEF Loop
  <2>4. ASSUME NEW i \in 1..m PROVE g[i] = IF i = 1 THEN ss[i] ELSE g[i - 1] \o ss[i]
    <3>1. i # 1 => i - 1 \in 1..m /\ i - 1 # m /\ g[i - 1] = f[i - 1]
      OBVIOUS
    <3>2. CASE i = m
      BY <3>1, <3>2
    <3>3. CASE i # m
      <4>1. i \in 1..(m - 1) /\ g[i] = f[i]
        BY <3>3
      <4>2. f[i] = IF i = 1 THEN ss[i] ELSE f[i - 1] \o ss[i]
        <5> HIDE DEF g
        <5> QED BY <2>3, <4>1
      <4> HIDE DEF g
      <4> QED BY <3>1, <4>1, <4>2
    <3> QED BY <3>2, <3>3
  <2>5. g = [i \in 1..m |-> g[i]]
    OBVIOUS
  <2>6. Loop(ss, g, m)
    <3> HIDE DEF g
    <3> QED BY <2>4, <2>5 DEF Loop
  <2> QED BY <2>6
<1> QED BY <1>3, <1>4

(* Every sequence of sequences is flattened one member at a time.          *)
LEMMA FlattenSteps ==
  ASSUME NEW S, NEW ss \in Seq(Seq(S))
  PROVE  \E f : Flattens(ss, S, f)
<1> DEFINE n == Len(ss)
<1>1. CASE n = 0
  <2> DEFINE f == [i \in 0..0 |-> <<>>]
  <2>1. f \in [0..n -> Seq(S)] /\ f[0] = <<>> /\ f[n] = <<>> /\ 1..n = {}
    BY <1>1
  <2>2. FlattenSeq(ss) = <<>>
    BY <1>1 DEF FlattenSeq
  <2> QED BY <2>1, <2>2 DEF Flattens
<1>2. CASE n # 0
  <2>1. n \in Nat /\ n >= 1
    BY <1>2
  <2> DEFINE g == CHOOSE h : Loop(ss, h, n)
  <2>2. Loop(ss, g, n)
    BY <2>1, LoopExists
  <2>3. FlattenSeq(ss) = g[n]
    <3>1. FlattenSeq(ss) = (CHOOSE h : Loop(ss, h, n))[n]
      BY <1>2, Zenon DEF FlattenSeq, Loop
    <3> QED BY <3>1
  <2> HIDE DEF g
  <2>4. \A i \in 1..n : g[i] = IF i = 1 THEN ss[i] ELSE g[i - 1] \o ss[i]
    BY <2>2 DEF Loop
  <2> DEFINE f == [i \in 0..n |-> IF i = 0 THEN <<>> ELSE g[i]]
  <2>5. \A i \in 1..n : ss[i] \in Seq(S)
    OBVIOUS
  <2>6. \A i \in 1..n : f[i] = f[i - 1] \o ss[i]
    <3> SUFFICES ASSUME NEW i \in 1..n PROVE f[i] = f[i - 1] \o ss[i]
      OBVIOUS
    <3>1. CASE i = 1
      <4>1. f[i] = ss[i] /\ f[i - 1] = <<>>
        BY <2>4, <3>1
      <4>2. <<>> \o ss[i] = ss[i]
        BY <2>5
      <4> QED BY <4>1, <4>2
    <3>2. CASE i # 1
      <4>1. f[i] = g[i] /\ f[i - 1] = g[i - 1]
        BY <3>2
      <4> QED BY <2>4, <3>2, <4>1
    <3> QED BY <3>1, <3>2
  <2>7. \A i \in 0..n : f[i] \in Seq(S)
    <3> DEFINE T == {i \in 0..n : f[i] \notin Seq(S)}
    <3>1. SUFFICES ASSUME T # {} PROVE FALSE
      OBVIOUS
    <3>2. T \in SUBSET Nat
      OBVIOUS
    <3>3. PICK i \in T : \A k \in T : i <= k
      <4> HIDE DEF T
      <4> QED BY <3>1, <3>2, Least
    <3>4. i # 0
      OBVIOUS
    <3>5. i \in 1..n /\ f[i - 1] \in Seq(S)
      BY <3>3, <3>4
    <3>6. f[i - 1] \o ss[i] \in Seq(S)
      <4> HIDE DEF f
      <4> QED BY <2>5, <3>5
    <3> QED BY <2>6, <3>5, <3>6
  <2>8. f[n] = g[n]
    BY <2>1
  <2>9. f \in [0..n -> Seq(S)] /\ f[0] = <<>>
    BY <2>7
  <2> HIDE DEF f
  <2> QED BY <2>3, <2>6, <2>8, <2>9 DEF Flattens
<1> QED BY <1>1, <1>2

LEMMA FlattenIsSeq ==
  ASSUME NEW S, NEW ss \in Seq(Seq(S))
  PROVE  FlattenSeq(ss) \in Seq(S)
<1>1. PICK f : Flattens(ss, S, f)
  BY FlattenSteps
<1> QED BY <1>1 DEF Flattens

LEMMA FlattenOne ==
  ASSUME NEW S, NEW ss \in Seq(Seq(S)), Len(ss) = 1
  PROVE  FlattenSeq(ss) = ss[1]
<1>1. PICK f : Flattens(ss, S, f)
  BY FlattenSteps
<1>2. 1 \in 1..Len(ss) /\ 1 - 1 = 0 /\ ss[1] \in Seq(S)
  OBVIOUS
<1>3. f[1] = f[0] \o ss[1] /\ f[0] = <<>> /\ FlattenSeq(ss) = f[1]
  BY <1>1, <1>2 DEF Flattens
<1>4. <<>> \o ss[1] = ss[1]
  BY <1>2
<1> QED BY <1>3, <1>4

(* Members of at most one element make no more than one each.              *)
LEMMA FlattenShort ==
  ASSUME NEW S, NEW ss \in Seq(Seq(S)), \A i \in 1..Len(ss) : Len(ss[i]) <= 1
  PROVE  Len(FlattenSeq(ss)) <= Len(ss)
<1>1. PICK f : Flattens(ss, S, f)
  BY FlattenSteps
<1> DEFINE T == {i \in 0..Len(ss) : Len(f[i]) > i}
<1>2. ASSUME T # {} PROVE FALSE
  <2>1. T \in SUBSET Nat
    OBVIOUS
  <2>2. PICK i \in T : \A k \in T : i <= k
    <3> HIDE DEF T
    <3> QED BY <1>2, <2>1, Least
  <2>3. i # 0
    BY <1>1 DEF Flattens
  <2>4. i - 1 \in 0..Len(ss) /\ i \in 1..Len(ss) /\ i - 1 \notin T
    BY <2>2, <2>3
  <2>5. ss[i] \in Seq(S) /\ Len(ss[i]) <= 1
    BY <2>4
  <2>6. f[i - 1] \in Seq(S) /\ Len(f[i - 1]) <= i - 1
    <3>1. f[i - 1] \in Seq(S)
      BY <1>1, <2>4 DEF Flattens
    <3>2. Len(f[i - 1]) \in Nat /\ i - 1 \in Nat
      BY <2>4, <3>1
    <3>3. ~ (Len(f[i - 1]) > i - 1)
      BY <2>4
    <3> QED BY <3>1, <3>2, <3>3
  <2>7. Len(f[i]) <= i
    <3>1. f[i] = f[i - 1] \o ss[i]
      BY <1>1, <2>4 DEF Flattens
    <3>2. Len(f[i - 1] \o ss[i]) = Len(f[i - 1]) + Len(ss[i])
      BY <2>5, <2>6
    <3>3. Len(f[i - 1]) \in Nat /\ Len(ss[i]) \in Nat /\ i \in Nat
      BY <2>4, <2>5, <2>6
    <3>4. Len(f[i]) = Len(f[i - 1]) + Len(ss[i])
      BY <3>1, <3>2
    <3> DEFINE a == Len(f[i - 1])
               b == Len(ss[i])
               c == Len(f[i])
    <3>5. a \in Nat /\ b \in Nat /\ i \in Nat /\ c = a + b /\ a <= i - 1 /\ b <= 1
      BY <2>5, <2>6, <3>3, <3>4
    <3> HIDE DEF T, a, b, c
    <3>6. c <= i
      BY <3>5
    <3> QED BY <3>6 DEF c
  <2>8. ~ (Len(f[i]) > i)
    <3>1. Len(f[i]) \in Nat
      BY <1>1, <2>4 DEF Flattens
    <3> QED BY <2>4, <2>7, <3>1
  <2> QED BY <2>8
<1>3. Len(ss) \in 0..Len(ss) /\ Len(f[Len(ss)]) \in Nat /\ FlattenSeq(ss) = f[Len(ss)]
  BY <1>1 DEF Flattens
<1> QED BY <1>2, <1>3

(* s is how t begins. *)
Begins(s, t) == Len(s) <= Len(t) /\ \A j \in 1..Len(s) : s[j] = t[j]

LEMMA BeginsConcat ==
  ASSUME NEW S, NEW s \in Seq(S), NEW t \in Seq(S), NEW u \in Seq(S), Begins(s, t)
  PROVE  Begins(s, t \o u)
BY DEF Begins

(* What the first members make is how the whole begins.                    *)
LEMMA FlattenBegins ==
  ASSUME NEW S, NEW ss \in Seq(Seq(S)), NEW f, Flattens(ss, S, f), NEW i \in 0..Len(ss)
  PROVE  Begins(f[i], FlattenSeq(ss))
<1> DEFINE T == {n \in i..Len(ss) : ~ Begins(f[i], f[n])}
<1>1. ASSUME T # {} PROVE FALSE
  <2>1. T \in SUBSET Nat
    OBVIOUS
  <2>2. PICK n \in T : \A k \in T : n <= k
    <3> HIDE DEF T
    <3> QED BY <1>1, <2>1, Least
  <2>3. n # i
    BY DEF Begins, Flattens
  <2>4. n - 1 \in i..Len(ss) /\ n \in 1..Len(ss) /\ n - 1 \notin T
    BY <2>2, <2>3
  <2>5. Begins(f[i], f[n - 1])
    BY <2>4
  <2>6. /\ f[n] = f[n - 1] \o ss[n] /\ f[n - 1] \in Seq(S) /\ f[i] \in Seq(S)
        /\ ss[n] \in Seq(S)
    <3>1. n - 1 \in 0..Len(ss) /\ n \in 1..Len(ss)
      BY <2>4
    <3>2. f \in [0..Len(ss) -> Seq(S)] /\ \A k \in 1..Len(ss) : f[k] = f[k - 1] \o ss[k]
      BY DEF Flattens
    <3>3. f[n - 1] \in Seq(S) /\ f[i] \in Seq(S)
      BY <3>1, <3>2
    <3>4. f[n] = f[n - 1] \o ss[n]
      BY <3>1, <3>2, Zenon
    <3>5. ss[n] \in Seq(S)
      BY <3>1
    <3> QED BY <3>3, <3>4, <3>5
  <2>7. Begins(f[i], f[n])
    <3>1. Begins(f[i], f[n - 1] \o ss[n])
      BY <2>5, <2>6, BeginsConcat
    <3> QED BY <2>6, <3>1
  <2> QED BY <2>7
<1>2. Len(ss) \notin T /\ Len(ss) \in i..Len(ss)
  BY <1>1
<1> QED BY <1>2 DEF Flattens

(* No member of a prefix-free set is how another begins; what is made of a *)
(* given number of members can be taken apart in one way only.             *)
PrefixFree(P) ==
  \A p, q \in P : (\A j \in 1..Len(p) : j <= Len(q) => p[j] = q[j]) => p = q

LEMMA FlattenInjective ==
  ASSUME NEW S, NEW P \in SUBSET Seq(S), PrefixFree(P),
         NEW ss \in Seq(P), NEW tt \in Seq(P),
         Len(ss) = Len(tt), FlattenSeq(ss) = FlattenSeq(tt)
  PROVE  ss = tt
<1>1. ss \in Seq(Seq(S)) /\ tt \in Seq(Seq(S))
  OBVIOUS
<1>2. PICK f : Flattens(ss, S, f)
  BY <1>1, FlattenSteps
<1>3. PICK g : Flattens(tt, S, g)
  BY <1>1, FlattenSteps
<1> DEFINE n == Len(ss)
           X == FlattenSeq(ss)
           T == {i \in 1..n : ss[i] # tt[i] \/ f[i] # g[i]}
<1>4. ASSUME T # {} PROVE FALSE
  <2>1. T \in SUBSET Nat
    OBVIOUS
  <2>2. PICK i \in T : \A k \in T : i <= k
    <3> HIDE DEF T
    <3> QED BY <1>4, <2>1, Least
  <2>3. i \in 1..n /\ i - 1 \in 0..n /\ i \in 1..Len(tt) /\ i \in 0..n
    OBVIOUS
  <2>4. f[i - 1] = g[i - 1]
    <3>1. CASE i = 1
      BY <1>2, <1>3, <3>1 DEF Flattens
    <3>2. CASE i # 1
      <4>1. i - 1 \in 1..n /\ i - 1 \notin T
        BY <2>2, <2>3, <3>2
      <4> QED BY <4>1
    <3> QED BY <3>1, <3>2
  <2>5. /\ f[i] = f[i - 1] \o ss[i] /\ g[i] = f[i - 1] \o tt[i]
        /\ f[i - 1] \in Seq(S) /\ ss[i] \in P /\ tt[i] \in P
        /\ ss[i] \in Seq(S) /\ tt[i] \in Seq(S)
    <3>1. f[i] = f[i - 1] \o ss[i] /\ g[i] = g[i - 1] \o tt[i] /\ f[i - 1] \in Seq(S)
      BY <1>2, <1>3, <2>3 DEF Flattens
    <3>2. ss[i] \in P /\ tt[i] \in P
      BY <2>3
    <3> QED BY <2>4, <3>1, <3>2
  <2>6. Begins(f[i], X) /\ Begins(g[i], X)
    BY <1>1, <1>2, <1>3, <2>3, FlattenBegins
  <2> DEFINE a == Len(f[i - 1])
  <2>7. ASSUME NEW j \in 1..Len(ss[i]), j <= Len(tt[i]) PROVE ss[i][j] = tt[i][j]
    <3> DEFINE p == f[i - 1]
    <3>1. /\ a + j \in 1..Len(f[i]) /\ a + j \in 1..Len(g[i])
          /\ f[i][a + j] = ss[i][j] /\ g[i][a + j] = tt[i][j]
      <4>1. p \in Seq(S) /\ ss[i] \in Seq(S) /\ tt[i] \in Seq(S)
            /\ f[i] = p \o ss[i] /\ g[i] = p \o tt[i] /\ a = Len(p)
        BY <2>5
      <4>2. j \in Nat /\ 1 <= j /\ j <= Len(ss[i]) /\ j <= Len(tt[i])
        BY <2>5, <2>7
      <4> HIDE DEF p, a, T
      <4> QED BY <4>1, <4>2
    <3>3. f[i][a + j] = X[a + j] /\ g[i][a + j] = X[a + j]
      BY <2>6, <3>1 DEF Begins
    <3> QED BY <3>1, <3>3
  <2>8. ss[i] = tt[i]
    BY <2>5, <2>7 DEF PrefixFree
  <2> QED BY <2>5, <2>8
<1>5. \A i \in 1..n : ss[i] = tt[i]
  BY <1>4
<1> QED BY <1>1, <1>5, SeqEqual
=============================================================================
