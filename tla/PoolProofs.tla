----------------------------- MODULE PoolProofs ------------------------------
(***************************************************************************)
(* Theorems about PoolSystem: the block pool of sim/cache.py with its      *)
(* queues, heaps and lazy bookkeeping, under the scheduler's calls, for    *)
(* every arm, any sessions, capacity and length of run.                    *)
(*                                                                         *)
(* The invariant of a pool (PoolOK) says where an evictable block is       *)
(* queued, which heap entry counts for it, and in which order protected    *)
(* blocks stand; RefsOK ties the references to the chains the sessions     *)
(* hold.  Each method is shown to keep PoolOK and to be, on what           *)
(* PrefixCache sees, the operation of that module.                         *)
(***************************************************************************)
EXTENDS PoolSystem, FiniteSetTheorems, TLAPS

\* A set of numbers below a bound has a least one.
LEMMA LeastBelow ==
  ASSUME NEW n \in Nat, NEW S \in SUBSET (0 .. n), S # {}
  PROVE  \E m \in S : \A i \in S : m <= i
<1> DEFINE All == 0 .. n
           Downs == {0 .. m : m \in S}
<1>1. IsFiniteSet(All)
  BY FS_Interval
<1>2. IsWellFoundedOn(StrictSubsetOrdering(All), SUBSET All)
  BY <1>1, FS_FiniteSubsetsOfFinite, FS_StrictSubsetOrderingWellFounded
<1>3. Downs \subseteq SUBSET All
  OBVIOUS
<1>4. PICK D \in Downs : TRUE
  OBVIOUS
<1> HIDE DEF Downs, All
<1>5. PICK M \in Downs : \A T \in Downs : ~(<<T, M>> \in StrictSubsetOrdering(All))
  BY <1>2, <1>3, <1>4, WFMin
<1> USE DEF Downs, All
<1>6. PICK m \in S : M = 0 .. m
  OBVIOUS
<1>7. ASSUME NEW i \in S, ~(m <= i)
      PROVE  FALSE
  <2>1. 0 .. i \in Downs
    OBVIOUS
  <2>2. /\ 0 .. i \subseteq M /\ 0 .. i # M
        /\ M \in SUBSET All /\ 0 .. i \in SUBSET All
    BY <1>6, <1>7
  <2> QED
    BY <1>5, <2>1, <2>2 DEF StrictSubsetOrdering
<1> QED
  BY <1>7

\* Induction up to a bound, for a set of numbers.
LEMMA UpTo ==
  ASSUME NEW n \in Nat, NEW P, 0 \in P, \A i \in 0 .. (n - 1) : i \in P => i + 1 \in P
  PROVE  \A i \in 0 .. n : i \in P
<1> DEFINE Bad == (0 .. n) \ P
<1>1. SUFFICES ASSUME Bad # {} PROVE FALSE
  OBVIOUS
<1>2. PICK m \in Bad : \A i \in Bad : m <= i
  <2>1. Bad \in SUBSET (0 .. n)
    OBVIOUS
  <2> HIDE DEF Bad
  <2> QED
    BY <1>1, <2>1, LeastBelow
<1>3. m # 0 /\ m \in 1 .. n
  BY <1>2
<1>4. m - 1 \notin Bad /\ m - 1 \in 0 .. (n - 1)
  BY <1>2, <1>3
<1>5. m - 1 \in P /\ (m - 1) + 1 = m
  BY <1>3, <1>4
<1> QED
  BY <1>2, <1>4, <1>5


(***************************************************************************)
(* Loops.  Each is the last value of a function that starts with x and     *)
(* takes one step per element.                                             *)
(***************************************************************************)
LEMMA WithoutWalk ==
  ASSUME NEW x, x = <<>>, NEW K, NEW s, Len(s) \in Nat
  PROVE  \E f : /\ f[0] = x
                /\ \A i \in 1 .. Len(s) : f[i] = (IF s[i] \in K THEN f[i - 1] ELSE Append(f[i - 1], s[i]))
                /\ Without(s, K) = f[Len(s)]
<1> DEFINE n == Len(s)
           Rec(g, m) == g = [i \in 0 .. m |-> IF i = 0 THEN x ELSE (IF s[i] \in K THEN g[i - 1] ELSE Append(g[i - 1], s[i]))]
           P == {m \in 0 .. n : \E g : Rec(g, m)}
<1>1. 0 \in P
  <2>1. Rec([i \in 0 .. 0 |-> x], 0)
    OBVIOUS
  <2> HIDE DEF Rec
  <2> QED
    BY <2>1
<1>2. ASSUME NEW m \in 0 .. (n - 1), m \in P PROVE m + 1 \in P
  <2>1. PICK g : Rec(g, m)
    BY <1>2
  <2> DEFINE y == (IF s[m + 1] \in K THEN g[m] ELSE Append(g[m], s[m + 1]))
             h == [i \in 0 .. (m + 1) |-> IF i = m + 1 THEN y ELSE g[i]]
  <2>2. \A i \in 0 .. m : g[i] = IF i = 0 THEN x ELSE (IF s[i] \in K THEN g[i - 1] ELSE Append(g[i - 1], s[i]))
    BY <2>1
  <2>3. \A i \in 0 .. (m + 1) : h[i] = IF i = 0 THEN x ELSE (IF s[i] \in K THEN h[i - 1] ELSE Append(h[i - 1], s[i]))
    <3> SUFFICES ASSUME NEW i \in 0 .. (m + 1)
                 PROVE  h[i] = IF i = 0 THEN x ELSE (IF s[i] \in K THEN h[i - 1] ELSE Append(h[i - 1], s[i]))
      OBVIOUS
    <3>1. CASE i = m + 1
      <4>1. h[i] = y /\ h[i - 1] = g[m] /\ i # 0 /\ s[i] = s[m + 1]
        <5> HIDE DEF y
        <5> QED
          BY <3>1
      <4> HIDE DEF h
      <4> QED
        BY <4>1
    <3>2. CASE i # m + 1 /\ i # 0
      <4>1. h[i] = g[i] /\ h[i - 1] = g[i - 1] /\ i \in 0 .. m
        <5> HIDE DEF y
        <5> QED
          BY <3>2
      <4> HIDE DEF h
      <4> QED
        BY <2>2, <3>2, <4>1
    <3>3. CASE i = 0
      <4>1. h[0] = g[0] /\ g[0] = x
        <5> HIDE DEF y
        <5> QED
          BY <2>2
      <4> QED
        BY <3>3, <4>1
    <3> QED
      BY <3>1, <3>2, <3>3
  <2>4. h = [i \in 0 .. (m + 1) |-> h[i]]
    OBVIOUS
  <2> HIDE DEF h
  <2>5. h = [i \in 0 .. (m + 1) |-> IF i = 0 THEN x ELSE (IF s[i] \in K THEN h[i - 1] ELSE Append(h[i - 1], s[i]))]
    BY <2>3, <2>4
  <2>6. \E g0 : Rec(g0, m + 1)
    BY <2>5
  <2> QED
    BY <2>6
<1> HIDE DEF P
<1>3. n \in P
  <2>1. \A i \in 0 .. n : i \in P
    BY <1>1, <1>2, UpTo
  <2> QED
    BY <2>1
<1>4. PICK f : f = (CHOOSE g : Rec(g, n)) /\ Rec(f, n)
  <2>1. \E g : Rec(g, n)
    BY <1>3 DEF P
  <2> HIDE DEF Rec
  <2> QED
    BY <2>1
<1>5. Without(s, K) = f[n]
  BY <1>4 DEF Each, Without
<1>6. f[0] = x /\ \A i \in 1 .. n : f[i] = (IF s[i] \in K THEN f[i - 1] ELSE Append(f[i - 1], s[i]))
  <2>1. \A i \in 0 .. n : f[i] = IF i = 0 THEN x ELSE (IF s[i] \in K THEN f[i - 1] ELSE Append(f[i - 1], s[i]))
    BY <1>4
  <2>2. 0 \in 0 .. n /\ \A i \in 1 .. n : i \in 0 .. n /\ i # 0
    OBVIOUS
  <2> HIDE DEF Rec, n
  <2> QED
    BY <2>1, <2>2
<1> QED
  BY <1>5, <1>6

HoldAll(x, s) == Each(HoldBlock, x, s)

LEMMA HoldWalk ==
  ASSUME NEW x,  NEW s, Len(s) \in Nat
  PROVE  \E f : /\ f[0] = x
                /\ \A i \in 1 .. Len(s) : f[i] = HoldBlock(f[i - 1], s[i])
                /\ HoldAll(x, s) = f[Len(s)]
<1> DEFINE n == Len(s)
           Rec(g, m) == g = [i \in 0 .. m |-> IF i = 0 THEN x ELSE HoldBlock(g[i - 1], s[i])]
           P == {m \in 0 .. n : \E g : Rec(g, m)}
<1>1. 0 \in P
  <2>1. Rec([i \in 0 .. 0 |-> x], 0)
    OBVIOUS
  <2> HIDE DEF Rec
  <2> QED
    BY <2>1
<1>2. ASSUME NEW m \in 0 .. (n - 1), m \in P PROVE m + 1 \in P
  <2>1. PICK g : Rec(g, m)
    BY <1>2
  <2> DEFINE y == HoldBlock(g[m], s[m + 1])
             h == [i \in 0 .. (m + 1) |-> IF i = m + 1 THEN y ELSE g[i]]
  <2>2. \A i \in 0 .. m : g[i] = IF i = 0 THEN x ELSE HoldBlock(g[i - 1], s[i])
    BY <2>1
  <2>3. \A i \in 0 .. (m + 1) : h[i] = IF i = 0 THEN x ELSE HoldBlock(h[i - 1], s[i])
    <3> SUFFICES ASSUME NEW i \in 0 .. (m + 1)
                 PROVE  h[i] = IF i = 0 THEN x ELSE HoldBlock(h[i - 1], s[i])
      OBVIOUS
    <3>1. CASE i = m + 1
      <4>1. h[i] = y /\ h[i - 1] = g[m] /\ i # 0 /\ s[i] = s[m + 1]
        <5> HIDE DEF y
        <5> QED
          BY <3>1
      <4> HIDE DEF h
      <4> QED
        BY <4>1
    <3>2. CASE i # m + 1 /\ i # 0
      <4>1. h[i] = g[i] /\ h[i - 1] = g[i - 1] /\ i \in 0 .. m
        <5> HIDE DEF y
        <5> QED
          BY <3>2
      <4> HIDE DEF h
      <4> QED
        BY <2>2, <3>2, <4>1
    <3>3. CASE i = 0
      <4>1. h[0] = g[0] /\ g[0] = x
        <5> HIDE DEF y
        <5> QED
          BY <2>2
      <4> QED
        BY <3>3, <4>1
    <3> QED
      BY <3>1, <3>2, <3>3
  <2>4. h = [i \in 0 .. (m + 1) |-> h[i]]
    OBVIOUS
  <2> HIDE DEF h
  <2>5. h = [i \in 0 .. (m + 1) |-> IF i = 0 THEN x ELSE HoldBlock(h[i - 1], s[i])]
    BY <2>3, <2>4
  <2>6. \E g0 : Rec(g0, m + 1)
    BY <2>5
  <2> QED
    BY <2>6
<1> HIDE DEF P
<1>3. n \in P
  <2>1. \A i \in 0 .. n : i \in P
    BY <1>1, <1>2, UpTo
  <2> QED
    BY <2>1
<1>4. PICK f : f = (CHOOSE g : Rec(g, n)) /\ Rec(f, n)
  <2>1. \E g : Rec(g, n)
    BY <1>3 DEF P
  <2> HIDE DEF Rec
  <2> QED
    BY <2>1
<1>5. HoldAll(x, s) = f[n]
  BY <1>4 DEF Each, HoldAll
<1>6. f[0] = x /\ \A i \in 1 .. n : f[i] = HoldBlock(f[i - 1], s[i])
  <2>1. \A i \in 0 .. n : f[i] = IF i = 0 THEN x ELSE HoldBlock(f[i - 1], s[i])
    BY <1>4
  <2>2. 0 \in 0 .. n /\ \A i \in 1 .. n : i \in 0 .. n /\ i # 0
    OBVIOUS
  <2> HIDE DEF Rec, n
  <2> QED
    BY <2>1, <2>2
<1> QED
  BY <1>5, <1>6

MaterialiseAll(x, s) == Each(Materialised, x, s)

LEMMA MaterialisedWalk ==
  ASSUME NEW x,  NEW s, Len(s) \in Nat
  PROVE  \E f : /\ f[0] = x
                /\ \A i \in 1 .. Len(s) : f[i] = Materialised(f[i - 1], s[i])
                /\ MaterialiseAll(x, s) = f[Len(s)]
<1> DEFINE n == Len(s)
           Rec(g, m) == g = [i \in 0 .. m |-> IF i = 0 THEN x ELSE Materialised(g[i - 1], s[i])]
           P == {m \in 0 .. n : \E g : Rec(g, m)}
<1>1. 0 \in P
  <2>1. Rec([i \in 0 .. 0 |-> x], 0)
    OBVIOUS
  <2> HIDE DEF Rec
  <2> QED
    BY <2>1
<1>2. ASSUME NEW m \in 0 .. (n - 1), m \in P PROVE m + 1 \in P
  <2>1. PICK g : Rec(g, m)
    BY <1>2
  <2> DEFINE y == Materialised(g[m], s[m + 1])
             h == [i \in 0 .. (m + 1) |-> IF i = m + 1 THEN y ELSE g[i]]
  <2>2. \A i \in 0 .. m : g[i] = IF i = 0 THEN x ELSE Materialised(g[i - 1], s[i])
    BY <2>1
  <2>3. \A i \in 0 .. (m + 1) : h[i] = IF i = 0 THEN x ELSE Materialised(h[i - 1], s[i])
    <3> SUFFICES ASSUME NEW i \in 0 .. (m + 1)
                 PROVE  h[i] = IF i = 0 THEN x ELSE Materialised(h[i - 1], s[i])
      OBVIOUS
    <3>1. CASE i = m + 1
      <4>1. h[i] = y /\ h[i - 1] = g[m] /\ i # 0 /\ s[i] = s[m + 1]
        <5> HIDE DEF y
        <5> QED
          BY <3>1
      <4> HIDE DEF h
      <4> QED
        BY <4>1
    <3>2. CASE i # m + 1 /\ i # 0
      <4>1. h[i] = g[i] /\ h[i - 1] = g[i - 1] /\ i \in 0 .. m
        <5> HIDE DEF y
        <5> QED
          BY <3>2
      <4> HIDE DEF h
      <4> QED
        BY <2>2, <3>2, <4>1
    <3>3. CASE i = 0
      <4>1. h[0] = g[0] /\ g[0] = x
        <5> HIDE DEF y
        <5> QED
          BY <2>2
      <4> QED
        BY <3>3, <4>1
    <3> QED
      BY <3>1, <3>2, <3>3
  <2>4. h = [i \in 0 .. (m + 1) |-> h[i]]
    OBVIOUS
  <2> HIDE DEF h
  <2>5. h = [i \in 0 .. (m + 1) |-> IF i = 0 THEN x ELSE Materialised(h[i - 1], s[i])]
    BY <2>3, <2>4
  <2>6. \E g0 : Rec(g0, m + 1)
    BY <2>5
  <2> QED
    BY <2>6
<1> HIDE DEF P
<1>3. n \in P
  <2>1. \A i \in 0 .. n : i \in P
    BY <1>1, <1>2, UpTo
  <2> QED
    BY <2>1
<1>4. PICK f : f = (CHOOSE g : Rec(g, n)) /\ Rec(f, n)
  <2>1. \E g : Rec(g, n)
    BY <1>3 DEF P
  <2> HIDE DEF Rec
  <2> QED
    BY <2>1
<1>5. MaterialiseAll(x, s) = f[n]
  BY <1>4 DEF Each, MaterialiseAll
<1>6. f[0] = x /\ \A i \in 1 .. n : f[i] = Materialised(f[i - 1], s[i])
  <2>1. \A i \in 0 .. n : f[i] = IF i = 0 THEN x ELSE Materialised(f[i - 1], s[i])
    BY <1>4
  <2>2. 0 \in 0 .. n /\ \A i \in 1 .. n : i \in 0 .. n /\ i # 0
    OBVIOUS
  <2> HIDE DEF Rec, n
  <2> QED
    BY <2>1, <2>2
<1> QED
  BY <1>5, <1>6

LEMMA ReleaseWalk ==
  ASSUME NEW x, NEW t, NEW r, NEW c, NEW s, Len(s) \in Nat
  PROVE  \E f : /\ f[0] = x
                /\ \A i \in 1 .. Len(s) : f[i] = ReleaseBlock(f[i - 1], s[i], t, r, c)
                /\ ReleaseChain(x, s, t, r, c) = f[Len(s)]
<1> DEFINE n == Len(s)
           Rec(g, m) == g = [i \in 0 .. m |-> IF i = 0 THEN x ELSE ReleaseBlock(g[i - 1], s[i], t, r, c)]
           P == {m \in 0 .. n : \E g : Rec(g, m)}
<1>1. 0 \in P
  <2>1. Rec([i \in 0 .. 0 |-> x], 0)
    OBVIOUS
  <2> HIDE DEF Rec
  <2> QED
    BY <2>1
<1>2. ASSUME NEW m \in 0 .. (n - 1), m \in P PROVE m + 1 \in P
  <2>1. PICK g : Rec(g, m)
    BY <1>2
  <2> DEFINE y == ReleaseBlock(g[m], s[m + 1], t, r, c)
             h == [i \in 0 .. (m + 1) |-> IF i = m + 1 THEN y ELSE g[i]]
  <2>2. \A i \in 0 .. m : g[i] = IF i = 0 THEN x ELSE ReleaseBlock(g[i - 1], s[i], t, r, c)
    BY <2>1
  <2>3. \A i \in 0 .. (m + 1) : h[i] = IF i = 0 THEN x ELSE ReleaseBlock(h[i - 1], s[i], t, r, c)
    <3> SUFFICES ASSUME NEW i \in 0 .. (m + 1)
                 PROVE  h[i] = IF i = 0 THEN x ELSE ReleaseBlock(h[i - 1], s[i], t, r, c)
      OBVIOUS
    <3>1. CASE i = m + 1
      <4>1. h[i] = y /\ h[i - 1] = g[m] /\ i # 0 /\ s[i] = s[m + 1]
        <5> HIDE DEF y
        <5> QED
          BY <3>1
      <4> HIDE DEF h
      <4> QED
        BY <4>1
    <3>2. CASE i # m + 1 /\ i # 0
      <4>1. h[i] = g[i] /\ h[i - 1] = g[i - 1] /\ i \in 0 .. m
        <5> HIDE DEF y
        <5> QED
          BY <3>2
      <4> HIDE DEF h
      <4> QED
        BY <2>2, <3>2, <4>1
    <3>3. CASE i = 0
      <4>1. h[0] = g[0] /\ g[0] = x
        <5> HIDE DEF y
        <5> QED
          BY <2>2
      <4> QED
        BY <3>3, <4>1
    <3> QED
      BY <3>1, <3>2, <3>3
  <2>4. h = [i \in 0 .. (m + 1) |-> h[i]]
    OBVIOUS
  <2> HIDE DEF h
  <2>5. h = [i \in 0 .. (m + 1) |-> IF i = 0 THEN x ELSE ReleaseBlock(h[i - 1], s[i], t, r, c)]
    BY <2>3, <2>4
  <2>6. \E g0 : Rec(g0, m + 1)
    BY <2>5
  <2> QED
    BY <2>6
<1> HIDE DEF P
<1>3. n \in P
  <2>1. \A i \in 0 .. n : i \in P
    BY <1>1, <1>2, UpTo
  <2> QED
    BY <2>1
<1>4. PICK f : f = (CHOOSE g : Rec(g, n)) /\ Rec(f, n)
  <2>1. \E g : Rec(g, n)
    BY <1>3 DEF P
  <2> HIDE DEF Rec
  <2> QED
    BY <2>1
<1>5. ReleaseChain(x, s, t, r, c) = f[n]
  BY <1>4 DEF Each, ReleaseChain
<1>6. f[0] = x /\ \A i \in 1 .. n : f[i] = ReleaseBlock(f[i - 1], s[i], t, r, c)
  <2>1. \A i \in 0 .. n : f[i] = IF i = 0 THEN x ELSE ReleaseBlock(f[i - 1], s[i], t, r, c)
    BY <1>4
  <2>2. 0 \in 0 .. n /\ \A i \in 1 .. n : i \in 0 .. n /\ i # 0
    OBVIOUS
  <2> HIDE DEF Rec, n
  <2> QED
    BY <2>1, <2>2
<1> QED
  BY <1>5, <1>6

(***************************************************************************)
(* Lists without repetitions.                                              *)
(***************************************************************************)
IsList(C, s) == s \in Seq(C) /\ \A i, j \in 1 .. Len(s) : s[i] = s[j] => i = j

\* A sequence and the set of its elements.
LEMMA SeqFacts ==
  \A C : \A s \in Seq(C) :
    /\ Len(s) \in Nat /\ DOMAIN s = 1 .. Len(s) /\ \A i \in 1 .. Len(s) : s[i] \in C
    /\ ToSet(s) \in SUBSET C /\ ToSet(s) = {s[i] : i \in 1 .. Len(s)}
  BY DEF ToSet

\* A sequence with one more element.
LEMMA AppendFacts ==
  \A C : \A s \in Seq(C), c \in C :
    /\ Append(s, c) \in Seq(C) /\ Len(Append(s, c)) = Len(s) + 1
    /\ Append(s, c)[Len(s) + 1] = c
    /\ \A i \in 1 .. Len(s) : Append(s, c)[i] = s[i]
    /\ ToSet(Append(s, c)) = ToSet(s) \cup {c}
<1> SUFFICES ASSUME NEW C, NEW s \in Seq(C), NEW c \in C
             PROVE  /\ Append(s, c) \in Seq(C) /\ Len(Append(s, c)) = Len(s) + 1
                    /\ Append(s, c)[Len(s) + 1] = c
                    /\ \A i \in 1 .. Len(s) : Append(s, c)[i] = s[i]
                    /\ ToSet(Append(s, c)) = ToSet(s) \cup {c}
  OBVIOUS
<1> DEFINE t == Append(s, c)
<1>1. /\ t \in Seq(C) /\ Len(t) = Len(s) + 1 /\ t[Len(s) + 1] = c
      /\ \A i \in 1 .. Len(s) : t[i] = s[i]
  OBVIOUS
<1> HIDE DEF t
<1>2. Len(s) \in Nat
  OBVIOUS
<1>3. ToSet(t) = {t[i] : i \in 1 .. Len(t)} /\ ToSet(s) = {s[i] : i \in 1 .. Len(s)}
  BY <1>1, SeqFacts
<1>4. \A i : i \in 1 .. Len(s) + 1 <=> (i \in 1 .. Len(s) \/ i = Len(s) + 1)
  BY <1>2
<1>5. ToSet(t) = ToSet(s) \cup {c}
  BY <1>1, <1>3, <1>4
<1> QED
  BY <1>1, <1>5 DEF t

\* What a list keeps when elements are taken out, and in which order.
LEMMA WithoutFacts ==
  ASSUME NEW C, NEW s \in Seq(C), NEW K
  PROVE  LET w == Without(s, K)
         IN  /\ w \in Seq(C)
             /\ ToSet(w) = ToSet(s) \ K
             /\ \E at \in [1 .. Len(w) -> 1 .. Len(s)] :
                  \A i, j \in 1 .. Len(w) : w[i] = s[at[i]] /\ (i < j => at[i] < at[j])
<1> DEFINE n == Len(s)
<1>0. n \in Nat /\ \A i \in 1 .. n : s[i] \in C
  OBVIOUS
<1>1. PICK f : /\ f[0] = <<>>
               /\ \A i \in 1 .. n : f[i] = (IF s[i] \in K THEN f[i - 1] ELSE Append(f[i - 1], s[i]))
               /\ Without(s, K) = f[n]
  BY <1>0, WithoutWalk
<1> DEFINE Kept(w, m) ==
             /\ w \in Seq(C)
             /\ ToSet(w) = {s[i] : i \in 1 .. m} \ K
             /\ \E at \in [1 .. Len(w) -> 1 .. m] :
                  \A i, j \in 1 .. Len(w) : w[i] = s[at[i]] /\ (i < j => at[i] < at[j])
           P == {m \in 0 .. n : Kept(f[m], m)}
<1>2. Kept(<<>>, 0)
  <2>1. <<>> \in Seq(C) /\ ToSet(<<>>) = {}
    BY DEF ToSet
  <2>2. 1 .. 0 = {} /\ Len(<<>>) = 0
    OBVIOUS
  <2>3. {s[i] : i \in 1 .. 0} = {}
    BY <2>2
  <2>4. [x \in 1 .. 0 |-> x] \in [1 .. Len(<<>>) -> 1 .. 0]
    BY <2>2
  <2>5. \A i, j \in 1 .. Len(<<>>) :
          <<>>[i] = s[[x \in 1 .. 0 |-> x][i]]
            /\ (i < j => [x \in 1 .. 0 |-> x][i] < [x \in 1 .. 0 |-> x][j])
    BY <2>2
  <2> QED
    BY <2>1, <2>3, <2>4, <2>5
<1>3. 0 \in P
  <2> HIDE DEF Kept
  <2>1. Kept(f[0], 0) /\ 0 \in 0 .. n
    BY <1>0, <1>1, <1>2
  <2> QED
    BY <2>1
<1>4. ASSUME NEW m \in 0 .. (n - 1), m \in P PROVE m + 1 \in P
  <2> DEFINE w == f[m]
             c == s[m + 1]
  <2>1. w \in Seq(C) /\ ToSet(w) = {s[i] : i \in 1 .. m} \ K
    BY <1>4
  <2>2. PICK at \in [1 .. Len(w) -> 1 .. m] :
          \A i, j \in 1 .. Len(w) : w[i] = s[at[i]] /\ (i < j => at[i] < at[j])
    BY <1>4
  <2>3. m \in Nat /\ m + 1 \in 1 .. n /\ (m + 1) - 1 = m /\ m + 1 \in 0 .. n
    BY <1>0
  <2>4. f[m + 1] = (IF c \in K THEN w ELSE Append(w, c)) /\ c \in C
    BY <1>0, <1>1, <2>3
  <2>5. {s[i] : i \in 1 .. m + 1} = {s[i] : i \in 1 .. m} \cup {c}
    BY <2>3
  <2> HIDE DEF w, c, P
  <2>6. CASE c \in K
    <3>1. f[m + 1] = w
      BY <2>4, <2>6
    <3>2. ToSet(w) = {s[i] : i \in 1 .. m + 1} \ K
      BY <2>1, <2>5, <2>6
    <3>3. 1 .. m \subseteq 1 .. m + 1
      BY <2>3
    <3>4. at \in [1 .. Len(w) -> 1 .. m + 1]
      BY <3>3
    <3>5. Kept(w, m + 1)
      BY <2>1, <2>2, <3>2, <3>4
    <3> QED
      BY <2>3, <3>1, <3>5 DEF P
  <2>7. CASE c \notin K
    <3> DEFINE v == Append(w, c)
               l == Len(w)
               to == [i \in 1 .. l + 1 |-> IF i = l + 1 THEN m + 1 ELSE at[i]]
    <3>1. /\ v \in Seq(C) /\ Len(v) = l + 1 /\ v[l + 1] = c /\ l \in Nat
          /\ \A i \in 1 .. l : v[i] = w[i]
          /\ ToSet(v) = ToSet(w) \cup {c}
      BY <2>1, <2>4, AppendFacts
    <3>2. ToSet(v) = {s[i] : i \in 1 .. m + 1} \ K
      BY <2>1, <2>5, <2>7, <3>1
    <3>3. to \in [1 .. l + 1 -> 1 .. m + 1]
      BY <2>3, <3>1
    <3>4. \A i \in 1 .. l : to[i] = at[i] /\ at[i] \in 1 .. m
      BY <3>1
    <3>5. to[l + 1] = m + 1
      BY <3>1
    <3> HIDE DEF v, l, to
    <3>6. \A i, j \in 1 .. l + 1 : v[i] = s[to[i]] /\ (i < j => to[i] < to[j])
      <4> SUFFICES ASSUME NEW i \in 1 .. l + 1, NEW j \in 1 .. l + 1
                   PROVE  v[i] = s[to[i]] /\ (i < j => to[i] < to[j])
        OBVIOUS
      <4>1. CASE i = l + 1
        <5>1. ~(i < j)
          BY <3>1, <4>1
        <5> QED
          BY <3>1, <3>5, <4>1, <5>1 DEF c
      <4>2. CASE i # l + 1
        <5>1. i \in 1 .. l /\ i \in 1 .. Len(w)
          BY <3>1, <4>2 DEF l
        <5>2. v[i] = s[to[i]]
          BY <2>2, <3>1, <3>4, <5>1
        <5>3. i < j => to[i] < to[j]
          <6>1. CASE j = l + 1
            BY <2>3, <3>4, <3>5, <5>1, <6>1
          <6>2. CASE j # l + 1
            <7>1. j \in 1 .. l /\ j \in 1 .. Len(w)
              BY <3>1, <6>2 DEF l
            <7> QED
              BY <2>2, <3>4, <5>1, <7>1
          <6> QED
            BY <6>1, <6>2
        <5> QED
          BY <5>2, <5>3
      <4> QED
        BY <4>1, <4>2
    <3>7. Kept(v, m + 1)
      BY <3>1, <3>2, <3>3, <3>6
    <3> QED
      BY <2>3, <2>4, <2>7, <3>7 DEF P, v
  <2> QED
    BY <2>6, <2>7
<1>5. n \in P
  <2> HIDE DEF P
  <2>1. \A i \in 0 .. n : i \in P
    BY <1>0, <1>3, <1>4, UpTo
  <2> QED
    BY <1>0, <2>1
<1>6. ToSet(s) = {s[i] : i \in 1 .. n}
  BY SeqFacts
<1>7. Kept(f[n], n)
  BY <1>5
<1> QED
  BY <1>1, <1>6, <1>7

SameOrder(t, s) ==
  \A i, j \in 1 .. Len(t) : i < j =>
    \E a, b \in 1 .. Len(s) : a < b /\ t[i] = s[a] /\ t[j] = s[b]

\* Taking elements out of a list leaves a list, in the same order.
LEMMA WithoutList ==
  ASSUME NEW C, NEW s, IsList(C, s), NEW K
  PROVE  LET w == Without(s, K)
         IN  /\ IsList(C, w)
             /\ ToSet(w) = ToSet(s) \ K
             /\ SameOrder(w, s)
<1> DEFINE w == Without(s, K)
<1>0. s \in Seq(C) /\ \A i, j \in 1 .. Len(s) : s[i] = s[j] => i = j
  BY DEF IsList
<1>1. w \in Seq(C) /\ ToSet(w) = ToSet(s) \ K
  BY <1>0, WithoutFacts
<1>2. PICK at \in [1 .. Len(w) -> 1 .. Len(s)] :
        \A i, j \in 1 .. Len(w) : w[i] = s[at[i]] /\ (i < j => at[i] < at[j])
  BY <1>0, WithoutFacts
<1> HIDE DEF w
<1>3. \A i \in 1 .. Len(w) : at[i] \in 1 .. Len(s) /\ at[i] \in Int /\ i \in Int
  BY <1>0, <1>1
<1>4. \A i, j \in 1 .. Len(w) : w[i] = w[j] => i = j
  <2> SUFFICES ASSUME NEW i \in 1 .. Len(w), NEW j \in 1 .. Len(w), w[i] = w[j], i # j
               PROVE  FALSE
    OBVIOUS
  <2>1. at[i] = at[j]
    BY <1>0, <1>2, <1>3
  <2>2. i < j \/ j < i
    BY <1>3
  <2> QED
    BY <1>2, <1>3, <2>1, <2>2
<1>5. \A i, j \in 1 .. Len(w) : i < j =>
        \E a, b \in 1 .. Len(s) : a < b /\ w[i] = s[a] /\ w[j] = s[b]
  BY <1>2, <1>3
<1> QED
  BY <1>1, <1>4, <1>5 DEF IsList, SameOrder, w

\* A list has as many elements as places.
LEMMA ListLength ==
  ASSUME NEW C, NEW s, IsList(C, s)
  PROVE  IsFiniteSet(ToSet(s)) /\ Cardinality(ToSet(s)) = Len(s)
<1>1. Len(s) \in Nat /\ s \in [1 .. Len(s) -> C] /\ ToSet(s) = {s[i] : i \in 1 .. Len(s)}
  BY SeqFacts DEF IsList
<1>2. s \in Bijection(1 .. Len(s), ToSet(s))
  <2>1. s \in [1 .. Len(s) -> ToSet(s)]
    BY <1>1
  <2>2. \A k \in ToSet(s) : \E i \in 1 .. Len(s) : s[i] = k
    BY <1>1
  <2> QED
    BY <2>1, <2>2 DEF Bijection, Injection, Surjection, IsInjective, IsList
<1>3. IsFiniteSet(1 .. Len(s)) /\ Cardinality(1 .. Len(s)) = Len(s)
  BY <1>1, FS_Interval
<1>4. ExistsBijection(1 .. Len(s), ToSet(s))
  BY <1>2 DEF ExistsBijection
<1> QED
  BY <1>3, <1>4, FS_Bijection

Joined(a, b) == a \o b

\* Two lists with nothing in common, joined.
LEMMA ConcatList ==
  ASSUME NEW C, NEW a, NEW b, IsList(C, a), IsList(C, b), ToSet(a) \cap ToSet(b) = {},
         NEW c, c = Joined(a, b)
  PROVE  /\ IsList(C, c) /\ ToSet(c) = ToSet(a) \cup ToSet(b)
         /\ Len(c) = Len(a) + Len(b)
         /\ \A i \in 1 .. Len(a) : c[i] = a[i]
         /\ \A i \in 1 .. Len(b) : c[Len(a) + i] = b[i]
<1>1. a \in Seq(C) /\ b \in Seq(C)
  BY DEF IsList
<1>2. /\ c \in Seq(C) /\ Len(c) = Len(a) + Len(b)
      /\ \A i \in 1 .. Len(c) : c[i] = IF i <= Len(a) THEN a[i] ELSE b[i - Len(a)]
  BY <1>1 DEF Joined
<1>3. Len(a) \in Nat /\ Len(b) \in Nat
  BY <1>1
<1>4. /\ \A i \in 1 .. Len(a) : c[i] = a[i] /\ i \in 1 .. Len(c)
      /\ \A i \in 1 .. Len(b) : c[Len(a) + i] = b[i] /\ Len(a) + i \in 1 .. Len(c)
  <2>1. \A i \in 1 .. Len(a) : i \in 1 .. Len(c) /\ i <= Len(a)
    BY <1>2, <1>3
  <2>2. \A i \in 1 .. Len(b) : /\ Len(a) + i \in 1 .. Len(c) /\ ~(Len(a) + i <= Len(a))
                               /\ (Len(a) + i) - Len(a) = i
    BY <1>2, <1>3
  <2>3. \A i \in 1 .. Len(a) : c[i] = a[i]
    BY <1>2, <2>1
  <2>4. \A i \in 1 .. Len(b) : c[Len(a) + i] = b[i]
    <3> TAKE i \in 1 .. Len(b)
    <3> DEFINE j == Len(a) + i
    <3>1. j \in 1 .. Len(c) /\ ~(j <= Len(a)) /\ j - Len(a) = i
      BY <2>2
    <3> HIDE DEF j
    <3>2. c[j] = b[i]
      BY <1>2, <3>1
    <3> QED
      BY <3>2 DEF j
  <2> QED
    BY <2>1, <2>2, <2>3, <2>4
<1>5. \A i \in 1 .. Len(c) : i \in 1 .. Len(a) \/ \E j \in 1 .. Len(b) : i = Len(a) + j
  <2> SUFFICES ASSUME NEW i \in 1 .. Len(c), i \notin 1 .. Len(a)
               PROVE  \E j \in 1 .. Len(b) : i = Len(a) + j
    OBVIOUS
  <2>1. i - Len(a) \in 1 .. Len(b) /\ i = Len(a) + (i - Len(a))
    BY <1>2, <1>3
  <2> QED
    BY <2>1
<1>6. /\ ToSet(c) = {c[i] : i \in 1 .. Len(c)}
      /\ ToSet(a) = {a[i] : i \in 1 .. Len(a)}
      /\ ToSet(b) = {b[i] : i \in 1 .. Len(b)}
  <2>1. ToSet(c) = {c[i] : i \in 1 .. Len(c)}
    BY <1>2, SeqFacts
  <2>2. ToSet(a) = {a[i] : i \in 1 .. Len(a)}
    BY <1>1, SeqFacts
  <2>3. ToSet(b) = {b[i] : i \in 1 .. Len(b)}
    BY <1>1, SeqFacts
  <2> QED
    BY <2>1, <2>2, <2>3
<1>7. ToSet(c) = ToSet(a) \cup ToSet(b)
  <2>1. ASSUME NEW x \in ToSet(c) PROVE x \in ToSet(a) \cup ToSet(b)
    <3>1. PICK i \in 1 .. Len(c) : x = c[i]
      BY <1>6
    <3>2. CASE i \in 1 .. Len(a)
      BY <1>4, <1>6, <3>1, <3>2
    <3>3. CASE \E j \in 1 .. Len(b) : i = Len(a) + j
      BY <1>4, <1>6, <3>1, <3>3
    <3> QED
      BY <1>5, <3>2, <3>3
  <2>2. ASSUME NEW x \in ToSet(a) PROVE x \in ToSet(c)
    BY <1>4, <1>6
  <2>3. ASSUME NEW x \in ToSet(b) PROVE x \in ToSet(c)
    <3>1. PICK j \in 1 .. Len(b) : x = b[j]
      BY <1>6
    <3> QED
      BY <1>4, <1>6, <3>1
  <2> QED
    BY <2>1, <2>2, <2>3
<1>8. \A i, j \in 1 .. Len(c) : c[i] = c[j] => i = j
  <2> SUFFICES ASSUME NEW i \in 1 .. Len(c), NEW j \in 1 .. Len(c), c[i] = c[j]
               PROVE  i = j
    OBVIOUS
  <2>0. /\ \A x, y \in 1 .. Len(a) : a[x] = a[y] => x = y
        /\ \A x, y \in 1 .. Len(b) : b[x] = b[y] => x = y
    BY DEF IsList
  <2>00. \A x \in 1 .. Len(a), y \in 1 .. Len(b) : a[x] # b[y]
    BY <1>6
  <2>1. CASE i \in 1 .. Len(a) /\ j \in 1 .. Len(a)
    BY <1>4, <2>0, <2>1
  <2>2. CASE i \in 1 .. Len(a) /\ j \notin 1 .. Len(a)
    <3>1. PICK y \in 1 .. Len(b) : j = Len(a) + y
      BY <1>5, <2>2
    <3> QED
      BY <1>4, <2>00, <2>2, <3>1
  <2>3. CASE i \notin 1 .. Len(a) /\ j \in 1 .. Len(a)
    <3>1. PICK y \in 1 .. Len(b) : i = Len(a) + y
      BY <1>5, <2>3
    <3> QED
      BY <1>4, <2>00, <2>3, <3>1
  <2>4. CASE i \notin 1 .. Len(a) /\ j \notin 1 .. Len(a)
    <3>1. PICK x \in 1 .. Len(b) : i = Len(a) + x
      BY <1>5, <2>4
    <3>2. PICK y \in 1 .. Len(b) : j = Len(a) + y
      BY <1>5, <2>4
    <3>3. b[x] = b[y]
      BY <1>4, <3>1, <3>2
    <3> QED
      BY <2>0, <3>1, <3>2, <3>3
  <2> QED
    BY <2>1, <2>2, <2>3, <2>4
<1> QED
  BY <1>2, <1>4, <1>7, <1>8 DEF IsList

\* The first n elements of a list and the rest.
LEMMA SplitList ==
  ASSUME NEW C, NEW s, IsList(C, s), NEW n \in 0 .. Len(s)
  PROVE  LET a == SubSeq(s, 1, n)
             b == SubSeq(s, n + 1, Len(s))
         IN  /\ IsList(C, a) /\ Len(a) = n /\ \A i \in 1 .. n : a[i] = s[i]
             /\ IsList(C, b) /\ Len(b) = Len(s) - n
             /\ \A i \in 1 .. Len(s) - n : b[i] = s[n + i]
             /\ ToSet(a) = {s[i] : i \in 1 .. n}
             /\ ToSet(b) = {s[i] : i \in n + 1 .. Len(s)}
             /\ ToSet(a) \cap ToSet(b) = {}
             /\ ToSet(a) \cup ToSet(b) = ToSet(s)
<1> DEFINE a == SubSeq(s, 1, n)
           b == SubSeq(s, n + 1, Len(s))
           l == Len(s)
<1>0. s \in Seq(C) /\ l \in Nat /\ n \in Nat /\ n <= l /\ \A i \in 1 .. l : s[i] \in C
  BY DEF IsList
<1>1. a \in Seq(C) /\ Len(a) = n /\ \A i \in 1 .. n : a[i] = s[i]
  BY <1>0
<1>2. b \in Seq(C) /\ Len(b) = l - n /\ \A i \in 1 .. l - n : b[i] = s[n + i]
  <2>1. b = SubSeq(s, n + 1, l) /\ n + 1 \in 1 .. l + 1
    BY <1>0
  <2>2. \A D : \A t \in Seq(D) : \A m \in 1 .. Len(t) + 1 :
          /\ SubSeq(t, m, Len(t)) \in Seq(D)
          /\ Len(SubSeq(t, m, Len(t))) = Len(t) - m + 1
          /\ \A i \in 1 .. Len(t) - m + 1 : SubSeq(t, m, Len(t))[i] = t[m + i - 1]
    OBVIOUS
  <2>3. b \in Seq(C) /\ Len(b) = l - (n + 1) + 1 /\ \A i \in 1 .. l - (n + 1) + 1 : b[i] = s[(n + 1) + i - 1]
    <3> HIDE DEF b
    <3> QED
      BY <1>0, <2>1, <2>2
  <2>4. l - (n + 1) + 1 = l - n /\ \A i \in 1 .. l - n : (n + 1) + i - 1 = n + i
    BY <1>0
  <2> HIDE DEF b, l
  <2> QED
    BY <2>3, <2>4
<1> HIDE DEF a, b
<1>3. \A i, j \in 1 .. l : s[i] = s[j] => i = j
  BY DEF IsList
<1>4. \A i \in 1 .. l - n : n + i \in 1 .. l /\ n + i \in n + 1 .. l
  BY <1>0
<1>5. \A i \in 1 .. n : i \in 1 .. l
  BY <1>0
<1> HIDE DEF l
<1>6. IsList(C, a)
  BY <1>1, <1>3, <1>5 DEF IsList
<1>7. IsList(C, b)
  <2> SUFFICES ASSUME NEW i \in 1 .. l - n, NEW j \in 1 .. l - n, b[i] = b[j] PROVE i = j
    BY <1>2 DEF IsList
  <2>1. n + i = n + j
    BY <1>2, <1>3, <1>4
  <2> QED
    BY <1>0, <2>1
<1>8. ToSet(a) = {s[i] : i \in 1 .. n}
  BY <1>1, SeqFacts
<1>9. ToSet(b) = {s[i] : i \in n + 1 .. l}
  <2>1. ToSet(b) = {b[i] : i \in 1 .. l - n}
    BY <1>2, SeqFacts
  <2>2. \A i \in n + 1 .. l : i - n \in 1 .. l - n /\ n + (i - n) = i
    BY <1>0
  <2> QED
    BY <1>2, <1>4, <2>1, <2>2
<1>10. ToSet(s) = {s[i] : i \in 1 .. l}
  BY <1>0, SeqFacts DEF l
<1>11. \A i : i \in 1 .. l <=> (i \in 1 .. n \/ i \in n + 1 .. l)
  BY <1>0
<1>12. ToSet(a) \cup ToSet(b) = ToSet(s)
  BY <1>8, <1>9, <1>10, <1>11
<1>13. \A i \in 1 .. n, j \in n + 1 .. l : i # j
  BY <1>0
<1>14. ToSet(a) \cap ToSet(b) = {}
  BY <1>3, <1>8, <1>9, <1>11, <1>13
<1> QED
  BY <1>1, <1>2, <1>6, <1>7, <1>8, <1>9, <1>12, <1>14 DEF a, b, l

(***************************************************************************)
(* The order in which a heap gives up its entries.                         *)
(***************************************************************************)
IsOrdered(S) ==
  /\ IsFiniteSet(S)
  /\ \A e \in S : ~Before(e.order, e.order)
  /\ \A e, f \in S : e = f \/ Before(e.order, f.order) \/ Before(f.order, e.order)
  /\ \A e, f, g \in S : Before(e.order, f.order) /\ Before(f.order, g.order) => Before(e.order, g.order)

Earlier(S, e) == {f \in S : Before(f.order, e.order)}

\* An entry has its own number of earlier ones, and all numbers occur.
LEMMA Ranks ==
  ASSUME NEW S, IsOrdered(S), NEW n, n = Cardinality(S)
  PROVE  /\ n \in Nat
         /\ \A e \in S : Cardinality(Earlier(S, e)) \in 0 .. n - 1
         /\ \A e, f \in S : Before(e.order, f.order) <=>
              Cardinality(Earlier(S, e)) < Cardinality(Earlier(S, f))
         /\ \A e, f \in S : Cardinality(Earlier(S, e)) = Cardinality(Earlier(S, f)) => e = f
         /\ \A i \in 0 .. n - 1 : \E e \in S : Cardinality(Earlier(S, e)) = i
<1>0. IsFiniteSet(S) /\ n \in Nat
  BY FS_CardinalityType DEF IsOrdered
<1>1. \A e \in S : /\ Earlier(S, e) \in SUBSET S /\ e \notin Earlier(S, e)
                   /\ IsFiniteSet(Earlier(S, e)) /\ Cardinality(Earlier(S, e)) \in Nat
  <2> TAKE e \in S
  <2>1. Earlier(S, e) \in SUBSET S /\ e \notin Earlier(S, e)
    BY DEF Earlier, IsOrdered
  <2>2. IsFiniteSet(Earlier(S, e))
    BY <1>0, <2>1, FS_Subset
  <2> QED
    BY <2>1, <2>2, FS_CardinalityType
<1>2. \A e \in S : Cardinality(Earlier(S, e)) \in 0 .. n - 1
  <2> TAKE e \in S
  <2>1. /\ Cardinality(Earlier(S, e)) <= n
        /\ Cardinality(Earlier(S, e)) = n => Earlier(S, e) = S
    BY <1>0, <1>1, FS_Subset
  <2>2. Cardinality(Earlier(S, e)) # n
    BY <1>1, <2>1
  <2> QED
    BY <1>0, <1>1, <2>1, <2>2
<1>3. ASSUME NEW e \in S, NEW f \in S, Before(e.order, f.order)
      PROVE  Cardinality(Earlier(S, e)) < Cardinality(Earlier(S, f))
  <2>1. Earlier(S, e) \in SUBSET Earlier(S, f)
    BY <1>3 DEF Earlier, IsOrdered
  <2>2. e \in Earlier(S, f) /\ e \notin Earlier(S, e)
    BY <1>1, <1>3 DEF Earlier
  <2>3. /\ Cardinality(Earlier(S, e)) <= Cardinality(Earlier(S, f))
        /\ Cardinality(Earlier(S, f)) = Cardinality(Earlier(S, e)) => Earlier(S, f) = Earlier(S, e)
    BY <1>1, <2>1, FS_Subset
  <2> QED
    BY <1>1, <2>2, <2>3
<1>4. \A e, f \in S : /\ Before(e.order, f.order) <=>
                           Cardinality(Earlier(S, e)) < Cardinality(Earlier(S, f))
                      /\ Cardinality(Earlier(S, e)) = Cardinality(Earlier(S, f)) => e = f
  <2> TAKE e, f \in S
  <2>0. Cardinality(Earlier(S, e)) \in Nat /\ Cardinality(Earlier(S, f)) \in Nat
    BY <1>1
  <2>1. CASE e = f
    BY <2>0, <2>1 DEF IsOrdered
  <2>2. CASE Before(e.order, f.order)
    BY <1>3, <2>0, <2>2
  <2>3. CASE Before(f.order, e.order)
    <3>1. Cardinality(Earlier(S, f)) < Cardinality(Earlier(S, e))
      BY <1>3, <2>3
    <3>2. ~Before(e.order, f.order)
      BY <1>3, <2>0, <3>1
    <3> QED
      BY <2>0, <3>1, <3>2
  <2> QED
    BY <2>1, <2>2, <2>3 DEF IsOrdered
<1> DEFINE rank == [e \in S |-> Cardinality(Earlier(S, e))]
           All == 0 .. n - 1
<1>5. rank \in Injection(S, All)
  <2>1. rank \in [S -> All]
    BY <1>2
  <2>2. \A e, f \in S : rank[e] = rank[f] => e = f
    BY <1>4
  <2> HIDE DEF rank
  <2> QED
    BY <2>1, <2>2 DEF Injection, IsInjective
<1>6. IsFiniteSet(All) /\ Cardinality(All) = n
  <2>1. n - 1 \in Int /\ 0 \in Int /\ (0 > n - 1 => n = 0) /\ (n - 1) - 0 + 1 = n
    BY <1>0
  <2> QED
    BY <2>1, FS_Interval
<1>7. rank \in Surjection(S, All)
  <2> HIDE DEF rank, All
  <2> QED
    BY <1>5, <1>6, FS_Injection
<1>8. \A i \in All : \E e \in S : rank[e] = i
  <2> HIDE DEF rank
  <2> QED
    BY <1>7 DEF Surjection
<1>9. \A i \in 0 .. n - 1 : \E e \in S : Cardinality(Earlier(S, e)) = i
  <2> TAKE i \in 0 .. n - 1
  <2>1. PICK e \in S : rank[e] = i
    <3> HIDE DEF rank
    <3> QED
      BY <1>8
  <2> QED
    BY <2>1
<1> QED
  BY <1>0, <1>2, <1>4, <1>9

\* Popped is the list of the entries in their order.
LEMMA PoppedFacts ==
  ASSUME NEW S, IsOrdered(S), NEW n, n = Cardinality(S)
  PROVE  /\ n \in Nat /\ Len(Popped(S)) = n
         /\ \A i \in 1 .. n : Popped(S)[i] \in S
         /\ \A e \in S : \E i \in 1 .. n : Popped(S)[i] = e
         /\ \A i, j \in 1 .. n : Before(Popped(S)[i].order, Popped(S)[j].order) <=> i < j
         /\ \A i, j \in 1 .. n : Popped(S)[i] = Popped(S)[j] => i = j
<1> DEFINE q == Popped(S)
           At(e) == Cardinality(Earlier(S, e))
<1>1. /\ n \in Nat
      /\ \A e \in S : At(e) \in 0 .. n - 1
      /\ \A e, f \in S : Before(e.order, f.order) <=> At(e) < At(f)
      /\ \A e, f \in S : At(e) = At(f) => e = f
      /\ \A i \in 0 .. n - 1 : \E e \in S : At(e) = i
  BY Ranks
<1>2. q = [i \in 1 .. n |-> CHOOSE e \in S : At(e) = i - 1]
  BY DEF Popped, Earlier
<1> HIDE DEF q, At
<1>3. \A i \in 1 .. n : i - 1 \in 0 .. n - 1
  BY <1>1
<1>4. \A i \in 1 .. n : q[i] \in S /\ At(q[i]) = i - 1
  <2> TAKE i \in 1 .. n
  <2>1. \E e \in S : At(e) = i - 1
    BY <1>1, <1>3
  <2>2. q[i] = CHOOSE e \in S : At(e) = i - 1
    BY <1>2
  <2> QED
    BY <2>1, <2>2
<1>5. \A e \in S : \E i \in 1 .. n : q[i] = e
  <2> TAKE e \in S
  <2>1. At(e) + 1 \in 1 .. n /\ (At(e) + 1) - 1 = At(e)
    BY <1>1
  <2>2. q[At(e) + 1] = e
    BY <1>1, <1>4, <2>1
  <2> QED
    BY <2>1, <2>2
<1>6. \A i, j \in 1 .. n : Before(q[i].order, q[j].order) <=> i < j
  <2> TAKE i, j \in 1 .. n
  <2>1. Before(q[i].order, q[j].order) <=> i - 1 < j - 1
    BY <1>1, <1>4
  <2> QED
    BY <1>1, <2>1
<1>7. \A i, j \in 1 .. n : q[i] = q[j] => i = j
  <2> TAKE i, j \in 1 .. n
  <2>1. q[i] = q[j] => i - 1 = j - 1
    BY <1>4
  <2> QED
    BY <1>1, <2>1
<1>8. Len(q) = n
  BY <1>1, <1>2
<1> QED
  BY <1>1, <1>4, <1>5, <1>6, <1>7, <1>8 DEF q

\* The heaps: entries of n numbers, the last of which is a stamp that was given
\* out and is theirs alone.
IsHeap(h, n, top) ==
  /\ IsFiniteSet(h)
  /\ \A e \in h : e.order \in Seq(Int) /\ Len(e.order) = n /\ StampOf(e) <= top
  /\ \A e, f \in h : StampOf(e) = StampOf(f) => e = f

\* The entries of a heap are totally ordered, by their stamps at last.
LEMMA HeapOrdered ==
  ASSUME NEW h, NEW n \in {2, 3}, NEW top, IsHeap(h, n, top), NEW S \in SUBSET h
  PROVE  IsOrdered(S)
<1>0. IsFiniteSet(S)
  BY FS_Subset DEF IsHeap
<1>1. CASE n = 2
  <2>1. \A e \in S : /\ e.order[1] \in Int /\ e.order[2] \in Int /\ StampOf(e) = e.order[2]
                     /\ Len(e.order) = 2
    BY <1>1 DEF IsHeap, StampOf, Last
  <2>2. \A e, f \in S : Before(e.order, f.order) <=>
          \/ e.order[1] < f.order[1]
          \/ e.order[1] = f.order[1] /\ e.order[2] < f.order[2]
    <3> TAKE e, f \in S
    <3>1. Len(e.order) = 2
      BY <2>1
    <3>2. 1 .. 2 = {1, 2} /\ 1 .. 1 - 1 = {} /\ 1 .. 2 - 1 = {1}
      OBVIOUS
    <3> QED
      BY <3>1, <3>2 DEF Before
  <2>3. \A e, f \in S : e.order[2] = f.order[2] => e = f
    BY <2>1 DEF IsHeap
  <2>4. \A e \in S : ~Before(e.order, e.order)
    BY <2>1, <2>2
  <2>5. \A e, f \in S : e = f \/ Before(e.order, f.order) \/ Before(f.order, e.order)
    BY <2>1, <2>2, <2>3
  <2>6. \A e, f, g \in S : Before(e.order, f.order) /\ Before(f.order, g.order) => Before(e.order, g.order)
    BY <2>1, <2>2
  <2> QED
    BY <1>0, <2>4, <2>5, <2>6 DEF IsOrdered
<1>2. CASE n = 3
  <2>1. \A e \in S : /\ e.order[1] \in Int /\ e.order[2] \in Int /\ e.order[3] \in Int
                     /\ StampOf(e) = e.order[3] /\ Len(e.order) = 3
    BY <1>2 DEF IsHeap, StampOf, Last
  <2>2. \A e, f \in S : Before(e.order, f.order) <=>
          \/ e.order[1] < f.order[1]
          \/ e.order[1] = f.order[1] /\ e.order[2] < f.order[2]
          \/ e.order[1] = f.order[1] /\ e.order[2] = f.order[2] /\ e.order[3] < f.order[3]
    <3> TAKE e, f \in S
    <3>1. Len(e.order) = 3
      BY <2>1
    <3>2. /\ 1 .. 3 = {1, 2, 3} /\ 1 .. 1 - 1 = {} /\ 1 .. 2 - 1 = {1}
          /\ 1 .. 3 - 1 = {1, 2}
      OBVIOUS
    <3> QED
      BY <3>1, <3>2 DEF Before
  <2>3. \A e, f \in S : e.order[3] = f.order[3] => e = f
    BY <2>1 DEF IsHeap
  <2>4. \A e \in S : ~Before(e.order, e.order)
    BY <2>1, <2>2
  <2>5. \A e, f \in S : e = f \/ Before(e.order, f.order) \/ Before(f.order, e.order)
    BY <2>1, <2>2, <2>3
  <2>6. \A e, f, g \in S : Before(e.order, f.order) /\ Before(f.order, g.order) => Before(e.order, g.order)
    BY <2>1, <2>2
  <2> QED
    BY <1>0, <2>4, <2>5, <2>6 DEF IsOrdered
<1> QED
  BY <1>1, <1>2

(***************************************************************************)
(* What is true of a pool at a time now, between two calls.                *)
(***************************************************************************)
Fields == {"family", "index", "expired", "protected", "expiry", "evictable", "prio", "stamp"}

PoolBlock == [ref : Nat, full : BOOLEAN, ready : BOOLEAN, until : Int, stamp : Nat]

IndexOK(p) ==
  /\ DOMAIN p = Fields /\ p.family \in {"ttl", "priority"} /\ p.stamp \in Nat
  /\ DOMAIN p.index \in SUBSET Key /\ IsFiniteSet(DOMAIN p.index)
  /\ \A k \in DOMAIN p.index : p.index[k] \in PoolBlock /\ p.index[k].stamp <= p.stamp

QueuesOK(p) ==
  /\ IsList(Key, p.expired) /\ IsList(Key, p.protected)
  /\ ToSet(p.expired) \cap ToSet(p.protected) = {}
  /\ (ToSet(p.expired) \cup ToSet(p.protected)) \cup p.evictable = Resting(p)
  /\ p.family = "ttl" => p.evictable = {} /\ p.prio = {}
  /\ p.family = "priority" => p.expired = <<>> /\ p.protected = <<>> /\ p.expiry = {}

HeapsOK(p) ==
  /\ IsHeap(p.expiry, 2, p.stamp) /\ IsHeap(p.prio, 3, p.stamp)
  /\ \A k \in ToSet(p.protected) : \E e \in p.expiry : e.key = k /\ IsLive(p, e)
  /\ \A e \in p.expiry : IsLive(p, e) => e.order[1] = p.index[e.key].until
  /\ \A k \in p.evictable : \E e \in p.prio : e.key = k /\ IsLive(p, e)

\* Protected blocks are in the order of their release, expired ones have lapsed.
InOrder(p) ==
  \A i, j \in 1 .. Len(p.protected) :
    i < j => p.index[p.protected[i]].stamp < p.index[p.protected[j]].stamp

DuesOK(p, now_) ==
  InOrder(p) /\ \A k \in ToSet(p.expired) : p.index[k].until <= now_

PoolOK(p, now_) == IndexOK(p) /\ QueuesOK(p) /\ HeapsOK(p) /\ DuesOK(p, now_)

\* Nothing protected has lapsed.
Reaped(p, now_) == \A k \in ToSet(p.protected) : p.index[k].until > now_

(***************************************************************************)
(* Blocks that are taken out of the queues, or dropped, or made and held.  *)
(***************************************************************************)
SameClock(a, b) == a.ref = b.ref /\ a.until = b.until /\ a.stamp = b.stamp

\* q is p with the blocks of K held or gone.
Takes(p, q, K) ==
  /\ DOMAIN q = Fields /\ q.family = p.family /\ q.stamp \in Nat /\ p.stamp <= q.stamp
  /\ DOMAIN q.index \in SUBSET Key /\ IsFiniteSet(DOMAIN q.index)
  /\ DOMAIN q.index \ K = DOMAIN p.index \ K
  /\ \A k \in DOMAIN p.index \ K : q.index[k] \in PoolBlock /\ SameClock(q.index[k], p.index[k])
  /\ \A k \in DOMAIN q.index \cap K :
       q.index[k] \in PoolBlock /\ q.index[k].ref > 0 /\ q.index[k].stamp <= q.stamp
  /\ IsList(Key, q.expired) /\ ToSet(q.expired) = ToSet(p.expired) \ K
  /\ IsList(Key, q.protected) /\ ToSet(q.protected) = ToSet(p.protected) \ K
  /\ SameOrder(q.protected, p.protected)
  /\ q.evictable = p.evictable \ K
  /\ q.expiry = p.expiry /\ q.prio \in SUBSET p.prio
  /\ \A e \in p.prio \ q.prio : e.key \in K \/ ~IsLive(p, e)

\* When blocks are taken, the entries of the others go on counting.
LEMMA TakesLive ==
  ASSUME NEW p, NEW q, NEW K, Takes(p, q, K), NEW e
  PROVE  IsLive(q, e) <=> IsLive(p, e) /\ e.key \notin K
<1>1. CASE e.key \in K
  <2>1. e.key \in DOMAIN q.index => q.index[e.key].ref > 0 /\ q.index[e.key].ref \in Nat
    BY <1>1 DEF Takes, PoolBlock
  <2> QED
    BY <1>1, <2>1 DEF IsLive
<1>2. CASE e.key \notin K
  <2>1. e.key \in DOMAIN q.index <=> e.key \in DOMAIN p.index
    BY <1>2 DEF Takes
  <2>2. e.key \in DOMAIN p.index => /\ q.index[e.key].ref = p.index[e.key].ref
                                   /\ q.index[e.key].stamp = p.index[e.key].stamp
    BY <1>2 DEF Takes, SameClock
  <2> QED
    BY <1>2, <2>1, <2>2 DEF IsLive
<1> QED
  BY <1>1, <1>2

LEMMA EmptyList == \A s : s \in Seq(Key) /\ ToSet(s) = {} => s = <<>>
<1> SUFFICES ASSUME NEW s \in Seq(Key), ToSet(s) = {} PROVE s = <<>>
  OBVIOUS
<1>1. Len(s) \in Nat /\ ToSet(s) = {s[i] : i \in 1 .. Len(s)}
  BY SeqFacts
<1>2. 1 .. Len(s) = {}
  BY <1>1
<1>3. Len(s) = 0
  BY <1>1, <1>2
<1> QED
  BY <1>3

\* Blocks that are held or evicted and leave their queues leave a pool in order.
LEMMA TakesKeeps ==
  ASSUME NEW p, NEW t, PoolOK(p, t), NEW q, NEW K, Takes(p, q, K)
  PROVE  /\ PoolOK(q, t)
         /\ Resting(q) = Resting(p) \ K
         /\ Reaped(p, t) => Reaped(q, t)
<1>1. IndexOK(q)
  <2>1. \A k \in DOMAIN q.index : q.index[k] \in PoolBlock /\ q.index[k].stamp <= q.stamp
    <3> TAKE k \in DOMAIN q.index
    <3>1. CASE k \in K
      BY <3>1 DEF Takes
    <3>2. CASE k \notin K
      <4>1. k \in DOMAIN p.index /\ q.index[k] \in PoolBlock /\ q.index[k].stamp = p.index[k].stamp
        BY <3>2 DEF Takes, SameClock
      <4>2. p.index[k].stamp <= p.stamp /\ p.stamp <= q.stamp /\ p.stamp \in Nat /\ q.stamp \in Nat
        BY <4>1 DEF Takes, PoolOK, IndexOK
      <4>3. q.index[k].stamp \in Nat
        BY <4>1 DEF PoolBlock
      <4> QED
        BY <4>1, <4>2, <4>3
    <3> QED
      BY <3>1, <3>2
  <2>2. q.family \in {"ttl", "priority"}
    BY DEF Takes, PoolOK, IndexOK
  <2> QED
    BY <2>1, <2>2 DEF Takes, IndexOK
<1>2. Resting(q) = Resting(p) \ K
  <2>1. \A k \in DOMAIN q.index : k \in K => q.index[k].ref \in Nat /\ q.index[k].ref > 0
    BY DEF Takes, PoolBlock
  <2>2. \A k : k \notin K => (k \in DOMAIN q.index <=> k \in DOMAIN p.index)
    BY DEF Takes
  <2>3. \A k \in DOMAIN p.index : k \notin K => q.index[k].ref = p.index[k].ref
    BY DEF Takes, SameClock
  <2>4. \A k : k \in Resting(q) <=> k \in Resting(p) /\ k \notin K
    <3> SUFFICES ASSUME NEW k PROVE k \in Resting(q) <=> k \in Resting(p) /\ k \notin K
      OBVIOUS
    <3>1. CASE k \in K
      BY <2>1, <3>1 DEF Resting
    <3>2. CASE k \notin K
      BY <2>2, <2>3, <3>2 DEF Resting
    <3> QED
      BY <3>1, <3>2
  <2> QED
    BY <2>4
<1>3. QueuesOK(q)
  <2>1. /\ IsList(Key, q.expired) /\ ToSet(q.expired) = ToSet(p.expired) \ K
        /\ IsList(Key, q.protected) /\ ToSet(q.protected) = ToSet(p.protected) \ K
        /\ q.evictable = p.evictable \ K /\ q.expiry = p.expiry /\ q.prio \in SUBSET p.prio
        /\ q.family = p.family
    BY DEF Takes
  <2>2. /\ ToSet(p.expired) \cap ToSet(p.protected) = {}
        /\ (ToSet(p.expired) \cup ToSet(p.protected)) \cup p.evictable = Resting(p)
        /\ p.family = "ttl" => p.evictable = {} /\ p.prio = {}
        /\ p.family = "priority" => p.expired = <<>> /\ p.protected = <<>> /\ p.expiry = {}
    BY DEF PoolOK, QueuesOK
  <2>3. /\ ToSet(q.expired) \cap ToSet(q.protected) = {}
        /\ (ToSet(q.expired) \cup ToSet(q.protected)) \cup q.evictable = Resting(q)
    BY <1>2, <2>1, <2>2
  <2>4. q.family = "ttl" => q.evictable = {} /\ q.prio = {}
    BY <2>1, <2>2
  <2>5. q.family = "priority" => q.expired = <<>> /\ q.protected = <<>> /\ q.expiry = {}
    <3>1. ToSet(<<>>) = {}
      BY DEF ToSet
    <3>2. q.family = "priority" => ToSet(q.expired) = {} /\ ToSet(q.protected) = {}
      BY <2>1, <2>2, <3>1
    <3>3. q.expired \in Seq(Key) /\ q.protected \in Seq(Key)
      BY <2>1 DEF IsList
    <3> QED
      BY <2>1, <2>2, <3>2, <3>3, EmptyList
  <2> QED
    BY <2>1, <2>3, <2>4, <2>5 DEF QueuesOK
<1>4. HeapsOK(q)
  <2>0. /\ q.expiry = p.expiry /\ q.prio \in SUBSET p.prio
        /\ p.stamp \in Nat /\ q.stamp \in Nat /\ p.stamp <= q.stamp
    BY DEF Takes, PoolOK, IndexOK
  <2>1. ASSUME NEW h, NEW g \in SUBSET h, NEW n \in {2, 3}, IsHeap(h, n, p.stamp)
        PROVE  IsHeap(g, n, q.stamp)
    <3>1. IsFiniteSet(g)
      BY <2>1, FS_Subset DEF IsHeap
    <3>2. \A e \in g : StampOf(e) \in Int /\ StampOf(e) <= p.stamp
      BY <2>1 DEF IsHeap, StampOf, Last
    <3>3. \A e \in g : StampOf(e) <= q.stamp
      BY <2>0, <3>2
    <3> QED
      BY <2>1, <3>1, <3>3 DEF IsHeap
  <2>2. IsHeap(q.expiry, 2, q.stamp)
    BY <2>0, <2>1 DEF PoolOK, HeapsOK
  <2>3. IsHeap(q.prio, 3, q.stamp)
    BY <2>0, <2>1 DEF PoolOK, HeapsOK
  <2>4. \A k \in ToSet(q.protected) : \E e \in q.expiry : e.key = k /\ IsLive(q, e)
    <3> TAKE k \in ToSet(q.protected)
    <3>1. k \in ToSet(p.protected) /\ k \notin K
      BY DEF Takes
    <3>2. PICK e \in p.expiry : e.key = k /\ IsLive(p, e)
      BY <3>1 DEF PoolOK, HeapsOK
    <3> QED
      BY <2>0, <3>1, <3>2, TakesLive
  <2>5. \A e \in q.expiry : IsLive(q, e) => e.order[1] = q.index[e.key].until
    <3> SUFFICES ASSUME NEW e \in q.expiry, IsLive(q, e) PROVE e.order[1] = q.index[e.key].until
      OBVIOUS
    <3>1. IsLive(p, e) /\ e.key \notin K
      BY TakesLive
    <3>2. e.order[1] = p.index[e.key].until
      BY <2>0, <3>1 DEF PoolOK, HeapsOK
    <3>3. e.key \in DOMAIN p.index \ K
      BY <3>1 DEF IsLive
    <3> QED
      BY <3>2, <3>3 DEF Takes, SameClock
  <2>6. \A k \in q.evictable : \E e \in q.prio : e.key = k /\ IsLive(q, e)
    <3> TAKE k \in q.evictable
    <3>1. k \in p.evictable /\ k \notin K
      BY DEF Takes
    <3>2. PICK e \in p.prio : e.key = k /\ IsLive(p, e)
      BY <3>1 DEF PoolOK, HeapsOK
    <3>3. e \in q.prio
      BY <3>1, <3>2 DEF Takes
    <3> QED
      BY <3>1, <3>2, <3>3, TakesLive
  <2> QED
    BY <2>2, <2>3, <2>4, <2>5, <2>6 DEF HeapsOK
<1>5. /\ ToSet(q.expired) = ToSet(p.expired) \ K
      /\ ToSet(q.protected) = ToSet(p.protected) \ K
      /\ ToSet(p.expired) \in SUBSET DOMAIN p.index
      /\ ToSet(p.protected) \in SUBSET DOMAIN p.index
  BY DEF Takes, PoolOK, QueuesOK, Resting
<1>6. \A k \in DOMAIN p.index \ K : /\ q.index[k].until = p.index[k].until
                                    /\ q.index[k].stamp = p.index[k].stamp
  BY DEF Takes, SameClock
<1>7. InOrder(q)
  <2> SUFFICES ASSUME NEW i \in 1 .. Len(q.protected), NEW j \in 1 .. Len(q.protected), i < j
               PROVE  q.index[q.protected[i]].stamp < q.index[q.protected[j]].stamp
    BY DEF InOrder
  <2>1. q.protected[i] \in ToSet(q.protected) /\ q.protected[j] \in ToSet(q.protected)
    <3>1. q.protected \in Seq(Key)
      BY DEF Takes, IsList
    <3> QED
      BY <3>1, SeqFacts
  <2>2. PICK a \in 1 .. Len(p.protected), b \in 1 .. Len(p.protected) :
          a < b /\ q.protected[i] = p.protected[a] /\ q.protected[j] = p.protected[b]
    BY DEF Takes, SameOrder
  <2>3. p.index[p.protected[a]].stamp < p.index[p.protected[b]].stamp
    BY <2>2 DEF PoolOK, DuesOK, InOrder
  <2>4. p.protected[a] \in DOMAIN p.index \ K /\ p.protected[b] \in DOMAIN p.index \ K
    BY <1>5, <2>1, <2>2
  <2> QED
    BY <1>6, <2>2, <2>3, <2>4
<1>8. \A k \in ToSet(q.expired) : q.index[k].until <= t
  BY <1>5, <1>6 DEF PoolOK, DuesOK
<1>9. Reaped(p, t) => Reaped(q, t)
  BY <1>5, <1>6 DEF Reaped
<1> QED
  BY <1>1, <1>2, <1>3, <1>4, <1>7, <1>8, <1>9 DEF PoolOK, DuesOK

(***************************************************************************)
(* Holding blocks.                                                         *)
(***************************************************************************)
LEMMA SameOrderSelf == \A s \in Seq(Key) : SameOrder(s, s)
  BY DEF SameOrder

\* A block that is not evictable is in no queue.
LEMMA RestingQueues ==
  ASSUME NEW p, NEW t, PoolOK(p, t), NEW k, k \notin Resting(p)
  PROVE  k \notin ToSet(p.expired) /\ k \notin ToSet(p.protected) /\ k \notin p.evictable
  BY DEF PoolOK, QueuesOK

\* p with the blocks of K held once more is q.
Holds(p, q, K) ==
  /\ q.family = p.family /\ q.prio = p.prio
  /\ DOMAIN q.index = DOMAIN p.index
  /\ \A k \in DOMAIN p.index :
       /\ q.index[k].full = p.index[k].full /\ q.index[k].ready = p.index[k].ready
       /\ q.index[k].ref = p.index[k].ref + (IF k \in K THEN 1 ELSE 0)
       /\ k \notin K => SameClock(q.index[k], p.index[k])
  /\ Resting(q) = Resting(p) \ K
  /\ \A e : IsLive(q, e) <=> IsLive(p, e) /\ e.key \notin K

\* _hold takes one block out of the queues.
LEMMA HoldBlockKeeps ==
  ASSUME NEW p, NEW t, PoolOK(p, t), NEW k \in DOMAIN p.index, NEW q, q = HoldBlock(p, k)
  PROVE  /\ PoolOK(q, t)
         /\ Reaped(p, t) => Reaped(q, t)
         /\ Holds(p, q, {k})
<1>0. /\ DOMAIN p = Fields /\ p.stamp \in Nat /\ p.stamp + 1 \in Nat /\ p.stamp <= p.stamp + 1
      /\ p.index[k] \in PoolBlock /\ p.index[k].stamp <= p.stamp
      /\ DOMAIN p.index \in SUBSET Key /\ IsFiniteSet(DOMAIN p.index)
      /\ \A j \in DOMAIN p.index : p.index[j] \in PoolBlock
  BY DEF PoolOK, IndexOK
<1>00. IsList(Key, p.expired) /\ IsList(Key, p.protected)
  BY DEF PoolOK, QueuesOK
<1>1. CASE p.index[k].ref > 0
  <2>1. q = [p EXCEPT !.index[k].ref = @ + 1]
    BY <1>1 DEF HoldBlock
  <2> DEFINE b == [p.index[k] EXCEPT !.ref = p.index[k].ref + 1]
             I == [p.index EXCEPT ![k] = b]
  <2>2. q = [p EXCEPT !.index = I]
    BY <1>0, <2>1 DEF Fields
  <2>3. /\ b \in PoolBlock /\ b.ref = p.index[k].ref + 1 /\ b.ref > 0 /\ b.stamp = p.index[k].stamp
        /\ b.full = p.index[k].full /\ b.ready = p.index[k].ready
    BY <1>0, <1>1 DEF PoolBlock
  <2> HIDE DEF b
  <2>4. /\ DOMAIN I = DOMAIN p.index /\ I[k] = b
        /\ \A j \in DOMAIN p.index \ {k} : I[j] = p.index[j]
    OBVIOUS
  <2> HIDE DEF I
  <2>5. /\ DOMAIN q = Fields /\ q.family = p.family /\ q.index = I /\ q.stamp = p.stamp
        /\ q.expired = p.expired /\ q.protected = p.protected /\ q.evictable = p.evictable
        /\ q.expiry = p.expiry /\ q.prio = p.prio
    BY <1>0, <2>2 DEF Fields
  <2>6. k \notin ToSet(p.expired) /\ k \notin ToSet(p.protected) /\ k \notin p.evictable
    <3>1. k \notin Resting(p)
      BY <1>0, <1>1 DEF Resting, PoolBlock
    <3> QED
      BY <3>1, RestingQueues
  <2>7. SameOrder(p.protected, p.protected)
    BY <1>00, SameOrderSelf DEF IsList
  <2>8. Takes(p, q, {k})
    BY <1>0, <1>00, <2>3, <2>4, <2>5, <2>6, <2>7 DEF Takes, SameClock
  <2>9. \A j \in DOMAIN p.index :
          /\ q.index[j].full = p.index[j].full /\ q.index[j].ready = p.index[j].ready
          /\ q.index[j].ref = p.index[j].ref + (IF j \in {k} THEN 1 ELSE 0)
          /\ j \notin {k} => SameClock(q.index[j], p.index[j])
    BY <1>0, <2>3, <2>4, <2>5 DEF SameClock, PoolBlock
  <2> QED
    BY <2>4, <2>5, <2>8, <2>9, TakesKeeps, TakesLive DEF Holds
<1>2. CASE ~(p.index[k].ref > 0)
  <2>1. q = [p EXCEPT !.index[k] = [@ EXCEPT !.ref = 1, !.stamp = p.stamp + 1],
                      !.stamp = @ + 1,
                      !.expired = Without(@, {k}),
                      !.protected = Without(@, {k}),
                      !.evictable = @ \ {k}]
    BY <1>2 DEF HoldBlock
  <2> DEFINE n == p.stamp + 1
             b == [p.index[k] EXCEPT !.ref = 1, !.stamp = n]
             I == [p.index EXCEPT ![k] = b]
             X == Without(p.expired, {k})
             Y == Without(p.protected, {k})
             Z == p.evictable \ {k}
  <2>2. q = [p EXCEPT !.index = I, !.stamp = n, !.expired = X, !.protected = Y, !.evictable = Z]
    BY <1>0, <2>1 DEF Fields
  <2>3. /\ b \in PoolBlock /\ b.ref = 1 /\ b.stamp = n
        /\ b.full = p.index[k].full /\ b.ready = p.index[k].ready
    BY <1>0 DEF PoolBlock
  <2>4. n \in Nat /\ p.stamp <= n /\ p.index[k].ref = 0
    BY <1>0, <1>2 DEF PoolBlock
  <2> HIDE DEF b, n
  <2>5. /\ DOMAIN I = DOMAIN p.index /\ I[k] = b
        /\ \A j \in DOMAIN p.index \ {k} : I[j] = p.index[j]
    OBVIOUS
  <2>6. /\ IsList(Key, X) /\ ToSet(X) = ToSet(p.expired) \ {k}
        /\ IsList(Key, Y) /\ ToSet(Y) = ToSet(p.protected) \ {k}
        /\ SameOrder(Y, p.protected)
    <3>1. IsList(Key, X) /\ ToSet(X) = ToSet(p.expired) \ {k}
      BY <1>00, WithoutList
    <3>2. IsList(Key, Y) /\ ToSet(Y) = ToSet(p.protected) \ {k}
      BY <1>00, WithoutList
    <3>3. SameOrder(Y, p.protected)
      BY <1>00, WithoutList
    <3> QED
      BY <3>1, <3>2, <3>3
  <2>7. Z = p.evictable \ {k}
    OBVIOUS
  <2> HIDE DEF I, X, Y, Z
  <2>8. /\ DOMAIN q = Fields /\ q.family = p.family /\ q.index = I /\ q.stamp = n
        /\ q.expired = X /\ q.protected = Y /\ q.evictable = Z
        /\ q.expiry = p.expiry /\ q.prio = p.prio
    BY <1>0, <2>2 DEF Fields
  <2>9. Takes(p, q, {k})
    BY <1>0, <2>3, <2>4, <2>5, <2>6, <2>7, <2>8 DEF Takes, SameClock
  <2>10. \A j \in DOMAIN p.index :
          /\ q.index[j].full = p.index[j].full /\ q.index[j].ready = p.index[j].ready
          /\ q.index[j].ref = p.index[j].ref + (IF j \in {k} THEN 1 ELSE 0)
          /\ j \notin {k} => SameClock(q.index[j], p.index[j])
    BY <1>0, <2>3, <2>4, <2>5, <2>8 DEF SameClock, PoolBlock
  <2> QED
    BY <2>5, <2>8, <2>9, <2>10, TakesKeeps, TakesLive DEF Holds
<1> QED
  BY <1>1, <1>2

\* One loop after another.
LEMMA HoldsMore ==
  ASSUME NEW p, NEW q, NEW g, NEW K, NEW k, k \notin K, Holds(p, q, K), Holds(q, g, {k}),
         NEW t, PoolOK(p, t)
  PROVE  Holds(p, g, K \cup {k})
<1>1. \A j \in DOMAIN p.index : p.index[j].ref \in Nat
  BY DEF PoolOK, IndexOK, PoolBlock
<1>2. \A j \in DOMAIN p.index :
        /\ g.index[j].full = p.index[j].full /\ g.index[j].ready = p.index[j].ready
        /\ g.index[j].ref = p.index[j].ref + (IF j \in K \cup {k} THEN 1 ELSE 0)
        /\ j \notin K \cup {k} => SameClock(g.index[j], p.index[j])
  <2> TAKE j \in DOMAIN p.index
  <2>1. /\ q.index[j].full = p.index[j].full /\ q.index[j].ready = p.index[j].ready
        /\ q.index[j].ref = p.index[j].ref + (IF j \in K THEN 1 ELSE 0)
        /\ j \notin K => SameClock(q.index[j], p.index[j])
        /\ j \in DOMAIN q.index
    BY DEF Holds
  <2>2. /\ g.index[j].full = q.index[j].full /\ g.index[j].ready = q.index[j].ready
        /\ g.index[j].ref = q.index[j].ref + (IF j = k THEN 1 ELSE 0)
        /\ j # k => SameClock(g.index[j], q.index[j])
    BY <2>1 DEF Holds
  <2> QED
    BY <1>1, <2>1, <2>2 DEF SameClock
<1> QED
  BY <1>2 DEF Holds

\* The loop over the hits.
LEMMA HoldKeeps ==
  ASSUME NEW p, NEW t, PoolOK(p, t), NEW s, IsList(Key, s), ToSet(s) \in SUBSET DOMAIN p.index
  PROVE  LET q == HoldAll(p, s)
         IN  PoolOK(q, t) /\ (Reaped(p, t) => Reaped(q, t)) /\ Holds(p, q, ToSet(s))
<1> DEFINE n == Len(s)
           To(m) == {s[i] : i \in 1 .. m}
<1>0. n \in Nat /\ ToSet(s) = To(n) /\ \A i, j \in 1 .. n : s[i] = s[j] => i = j
  BY SeqFacts DEF IsList
<1>1. PICK f : /\ f[0] = p
               /\ \A i \in 1 .. n : f[i] = HoldBlock(f[i - 1], s[i])
               /\ HoldAll(p, s) = f[n]
  BY <1>0, HoldWalk
<1> DEFINE Good(q, m) == PoolOK(q, t) /\ (Reaped(p, t) => Reaped(q, t)) /\ Holds(p, q, To(m))
           P == {m \in 0 .. n : Good(f[m], m)}
<1> HIDE DEF n
<1>2. 0 \in P
  <2>1. To(0) = {}
    OBVIOUS
  <2>2. \A k \in DOMAIN p.index : p.index[k].ref \in Nat
    BY DEF PoolOK, IndexOK, PoolBlock
  <2>3. Holds(p, p, {})
    BY <2>2 DEF Holds, SameClock
  <2> QED
    BY <1>0, <1>1, <2>1, <2>3
<1>3. ASSUME NEW m \in 0 .. (n - 1), m \in P PROVE m + 1 \in P
  <2>1. Good(f[m], m)
    BY <1>3
  <2>2. m \in Nat /\ m + 1 \in 1 .. n /\ (m + 1) - 1 = m /\ m + 1 \in 0 .. n
    BY <1>0
  <2> DEFINE k == s[m + 1]
             q == f[m]
             g == f[m + 1]
  <2>3. g = HoldBlock(q, k)
    BY <1>1, <2>2
  <2>4. To(m + 1) = To(m) \cup {k}
    <3>1. 1 .. m + 1 = (1 .. m) \cup {m + 1}
      BY <2>2
    <3> QED
      BY <3>1
  <2>5. k \notin To(m)
    <3>1. \A i \in 1 .. m : i \in 1 .. n /\ i # m + 1
      BY <1>0, <2>2
    <3> QED
      BY <1>0, <2>2, <3>1
  <2>6. k \in DOMAIN p.index
    BY <1>0, <2>2
  <2>7. PoolOK(q, t) /\ (Reaped(p, t) => Reaped(q, t)) /\ Holds(p, q, To(m))
    BY <2>1
  <2> HIDE DEF To, k, q, g
  <2>8. k \in DOMAIN q.index
    BY <2>6, <2>7 DEF Holds
  <2>9. PoolOK(g, t) /\ (Reaped(q, t) => Reaped(g, t)) /\ Holds(q, g, {k})
    BY <2>3, <2>7, <2>8, HoldBlockKeeps
  <2>10. Holds(p, g, To(m + 1))
    BY <2>4, <2>5, <2>7, <2>9, HoldsMore
  <2>11. Good(g, m + 1)
    BY <2>7, <2>9, <2>10
  <2> QED
    BY <2>2, <2>11 DEF g
<1> HIDE DEF P
<1>4. n \in P
  <2>1. \A i \in 0 .. n : i \in P
    BY <1>0, <1>2, <1>3, UpTo
  <2> QED
    BY <1>0, <2>1
<1>5. Good(f[n], n)
  BY <1>4 DEF P
<1> QED
  BY <1>0, <1>1, <1>5

(***************************************************************************)
(* Making room.                                                            *)
(***************************************************************************)
LEMMA NEvictableExact ==
  ASSUME NEW p, NEW t, PoolOK(p, t)
  PROVE  /\ IsFiniteSet(Resting(p)) /\ Cardinality(Resting(p)) \in Nat
         /\ NEvictable(p) = Cardinality(Resting(p))
         /\ ToSet(Joined(p.expired, p.protected)) \cup p.evictable = Resting(p)
<1>0. IsFiniteSet(Resting(p))
  <2>1. IsFiniteSet(DOMAIN p.index) /\ Resting(p) \in SUBSET DOMAIN p.index
    BY DEF PoolOK, IndexOK, Resting
  <2> QED
    BY <2>1, FS_Subset
<1> DEFINE c == p.expired \o p.protected
<1>1. /\ IsList(Key, c) /\ ToSet(c) = ToSet(p.expired) \cup ToSet(p.protected)
      /\ Len(c) = Len(p.expired) + Len(p.protected)
  <2>1. /\ IsList(Key, p.expired) /\ IsList(Key, p.protected)
        /\ ToSet(p.expired) \cap ToSet(p.protected) = {}
    BY DEF PoolOK, QueuesOK
  <2>2. c = Joined(p.expired, p.protected)
    BY DEF Joined
  <2> HIDE DEF c
  <2>3. IsList(Key, c)
    BY <2>1, <2>2, ConcatList
  <2>4. ToSet(c) = ToSet(p.expired) \cup ToSet(p.protected)
    BY <2>1, <2>2, <2>3, ConcatList
  <2>5. Len(c) = Len(p.expired) + Len(p.protected)
    <3>1. p.expired \in Seq(Key) /\ p.protected \in Seq(Key)
      BY <2>1 DEF IsList
    <3> QED
      BY <3>1, <2>2 DEF Joined
  <2> QED
    BY <2>3, <2>4, <2>5
<1> HIDE DEF c
<1>2. ToSet(c) \cup p.evictable = Resting(p)
  BY <1>1 DEF PoolOK, QueuesOK
<1>3. ASSUME p.family = "ttl" PROVE NEvictable(p) = Cardinality(Resting(p))
  <2>1. p.evictable = {}
    BY <1>3 DEF PoolOK, QueuesOK
  <2>2. Cardinality(ToSet(c)) = Len(c)
    BY <1>1, ListLength
  <2> QED
    BY <1>0, <1>1, <1>2, <1>3, <2>1, <2>2, FS_CardinalityType DEF NEvictable
<1>4. ASSUME p.family = "priority" PROVE NEvictable(p) = Cardinality(Resting(p))
  <2>1. p.evictable = Resting(p)
    <3>1. p.expired = <<>> /\ p.protected = <<>> /\ ToSet(<<>>) = {}
      BY <1>4 DEF PoolOK, QueuesOK, ToSet
    <3> QED
      BY <3>1 DEF PoolOK, QueuesOK
  <2> QED
    BY <1>0, <1>2, <1>4, <2>1, FS_CardinalityType DEF NEvictable
<1> QED
  <2>1. Cardinality(Resting(p)) \in Nat
    BY <1>0, FS_CardinalityType
  <2>2. c = Joined(p.expired, p.protected)
    BY DEF Joined, c
  <2>3. NEvictable(p) = Cardinality(Resting(p))
    BY <1>3, <1>4 DEF PoolOK, IndexOK
  <2> QED
    BY <1>0, <1>2, <2>1, <2>2, <2>3

\* Blocks whose protection has lapsed change queues, and nothing else happens.
LEMMA ReapKeeps ==
  ASSUME NEW p, NEW u \in Int, NEW t \in Int, u <= t, PoolOK(p, u), p.family = "ttl",
         NEW q, q = Reap(p, t)
  PROVE  /\ PoolOK(q, t) /\ Reaped(q, t)
         /\ q.index = p.index /\ q.family = p.family /\ q.prio = p.prio
<1> DEFINE lapsed == {e \in p.expiry : e.order[1] <= t}
           moved == {e \in lapsed : IsLive(p, e) /\ Contains(p.protected, e.key)}
           m == Cardinality(moved)
           queue == [i \in 1 .. m |-> Popped(moved)[i].key]
           X == p.expired \o queue
           Y == Without(p.protected, ToSet(queue))
           H == p.expiry \ lapsed
<1>0. /\ DOMAIN p = Fields /\ DOMAIN p.index \in SUBSET Key
      /\ \A k \in DOMAIN p.index : p.index[k] \in PoolBlock
      /\ IsList(Key, p.expired) /\ IsList(Key, p.protected)
      /\ ToSet(p.expired) \cap ToSet(p.protected) = {}
      /\ ToSet(p.expired) \cup ToSet(p.protected) = Resting(p)
      /\ p.evictable = {} /\ p.prio = {}
      /\ IsHeap(p.expiry, 2, p.stamp)
  BY DEF PoolOK, IndexOK, QueuesOK, HeapsOK
<1>1. q = [p EXCEPT !.expiry = H, !.protected = Y, !.expired = X]
  BY <1>0 DEF Reap, Fields
<1>2. IsOrdered(moved)
  <2>1. moved \in SUBSET p.expiry
    OBVIOUS
  <2> HIDE DEF moved
  <2> QED
    BY <1>0, <2>1, HeapOrdered
<1>3. /\ m \in Nat
      /\ \A i \in 1 .. m : Popped(moved)[i] \in moved
      /\ \A e \in moved : \E i \in 1 .. m : Popped(moved)[i] = e
      /\ \A i, j \in 1 .. m : Popped(moved)[i] = Popped(moved)[j] => i = j
  <2> HIDE DEF moved
  <2> QED
    BY <1>2, PoppedFacts
<1>4. \A e \in moved : /\ e \in p.expiry /\ e.order[1] <= t /\ IsLive(p, e)
                       /\ e.key \in ToSet(p.protected)
  BY DEF ToSet, Contains
<1>5. \A k \in ToSet(p.protected) : Contains(p.protected, k)
  <2>1. DOMAIN p.protected = 1 .. Len(p.protected)
    BY <1>0, SeqFacts DEF IsList
  <2> QED
    BY <2>1 DEF ToSet, Contains
<1>6. \A e \in p.expiry : e.order[1] <= t /\ IsLive(p, e) /\ e.key \in ToSet(p.protected) => e \in moved
  BY <1>5
<1> HIDE DEF moved
<1>7. /\ IsList(Key, queue) /\ ToSet(queue) = {e.key : e \in moved}
      /\ ToSet(queue) \in SUBSET ToSet(p.protected)
  <2>1. \A e, f \in moved : e.key = f.key => e = f
    <3> TAKE e, f \in moved
    <3>1. IsLive(p, e) /\ IsLive(p, f) /\ e \in p.expiry /\ f \in p.expiry
      BY <1>4
    <3>2. e.key = f.key => StampOf(e) = StampOf(f)
      BY <3>1 DEF IsLive
    <3> QED
      BY <1>0, <3>1, <3>2 DEF IsHeap
  <2>2. \A e \in moved : e.key \in Key
    BY <1>0, <1>4 DEF IsLive
  <2>3. Len(queue) = m /\ queue \in Seq(Key) /\ \A i \in 1 .. m : queue[i] = Popped(moved)[i].key
    <3>1. \A i \in 1 .. m : Popped(moved)[i].key \in Key
      BY <1>3, <2>2
    <3> HIDE DEF m
    <3> QED
      BY <1>3, <3>1
  <2> HIDE DEF queue, m
  <2>4. \A i, j \in 1 .. Len(queue) : queue[i] = queue[j] => i = j
    BY <1>3, <2>1, <2>3
  <2>5. ToSet(queue) = {queue[i] : i \in 1 .. m}
    BY <2>3, SeqFacts
  <2>6. ToSet(queue) = {e.key : e \in moved}
    BY <1>3, <2>3, <2>5
  <2> QED
    BY <1>4, <2>3, <2>4, <2>6 DEF IsList
<1> HIDE DEF queue
<1>8. /\ IsList(Key, Y) /\ ToSet(Y) = ToSet(p.protected) \ ToSet(queue)
      /\ SameOrder(Y, p.protected)
  <2>1. IsList(Key, Y) /\ ToSet(Y) = ToSet(p.protected) \ ToSet(queue)
    BY <1>0, WithoutList
  <2>2. SameOrder(Y, p.protected)
    BY <1>0, WithoutList
  <2> QED
    BY <2>1, <2>2
<1>9. IsList(Key, X) /\ ToSet(X) = ToSet(p.expired) \cup ToSet(queue)
  <2>1. /\ ToSet(p.expired) \cap ToSet(queue) = {}
        /\ IsList(Key, p.expired) /\ IsList(Key, queue)
    BY <1>0, <1>7
  <2>2. X = Joined(p.expired, queue)
    BY DEF Joined
  <2> HIDE DEF X
  <2> QED
    BY <2>1, <2>2, ConcatList
<1>10. H \in SUBSET p.expiry /\ \A e \in p.expiry : e \in H <=> ~(e.order[1] <= t)
  OBVIOUS
<1> HIDE DEF X, Y, H, lapsed
<1>11. /\ DOMAIN q = Fields /\ q.family = p.family /\ q.index = p.index /\ q.stamp = p.stamp
       /\ q.expired = X /\ q.protected = Y /\ q.evictable = p.evictable
       /\ q.expiry = H /\ q.prio = p.prio
  BY <1>0, <1>1 DEF Fields
<1>12. IndexOK(q)
  BY <1>11 DEF PoolOK, IndexOK
<1>13. QueuesOK(q)
  <2>1. Resting(q) = Resting(p)
    BY <1>11 DEF Resting
  <2> QED
    BY <1>0, <1>7, <1>8, <1>9, <1>11, <2>1 DEF QueuesOK
<1>14. \A e : IsLive(q, e) <=> IsLive(p, e)
  BY <1>11 DEF IsLive
<1>15. \A k \in ToSet(Y) : \E e \in H : e.key = k /\ IsLive(p, e) /\ ~(e.order[1] <= t)
  <2> TAKE k \in ToSet(Y)
  <2>1. k \in ToSet(p.protected) /\ k \notin ToSet(queue)
    BY <1>8
  <2>2. PICK e \in p.expiry : e.key = k /\ IsLive(p, e)
    BY <2>1 DEF PoolOK, HeapsOK
  <2>3. e \notin moved
    BY <1>7, <2>1, <2>2
  <2>4. ~(e.order[1] <= t)
    BY <1>6, <2>1, <2>2, <2>3
  <2> QED
    BY <1>10, <2>2, <2>4
<1>16. \A e \in p.expiry : IsLive(p, e) => e.order[1] = p.index[e.key].until
  BY DEF PoolOK, HeapsOK
<1>17. HeapsOK(q)
  <2>1. IsHeap(q.expiry, 2, q.stamp)
    <3>1. IsFiniteSet(H)
      BY <1>0, <1>10, FS_Subset DEF IsHeap
    <3> QED
      BY <1>0, <1>10, <1>11, <3>1 DEF IsHeap
  <2>2. IsHeap(q.prio, 3, q.stamp)
    BY <1>11 DEF PoolOK, HeapsOK
  <2>3. \A k \in ToSet(q.protected) : \E e \in q.expiry : e.key = k /\ IsLive(q, e)
    BY <1>11, <1>14, <1>15
  <2>4. \A e \in q.expiry : IsLive(q, e) => e.order[1] = q.index[e.key].until
    BY <1>10, <1>11, <1>14, <1>16
  <2>5. \A k \in q.evictable : \E e \in q.prio : e.key = k /\ IsLive(q, e)
    BY <1>0, <1>11
  <2> QED
    BY <2>1, <2>2, <2>3, <2>4, <2>5 DEF HeapsOK
<1>18. Reaped(q, t)
  <2> SUFFICES ASSUME NEW k \in ToSet(Y) PROVE q.index[k].until > t
    BY <1>11 DEF Reaped
  <2>1. PICK e \in H : e.key = k /\ IsLive(p, e) /\ ~(e.order[1] <= t)
    BY <1>15
  <2>2. e.order[1] = p.index[k].until /\ k \in DOMAIN p.index
    BY <1>10, <1>16, <2>1 DEF IsLive
  <2>3. p.index[k].until \in Int
    BY <1>0, <2>2 DEF PoolBlock
  <2> QED
    BY <1>11, <2>1, <2>2, <2>3
<1>19. InOrder(q)
  <2> SUFFICES ASSUME NEW i \in 1 .. Len(Y), NEW j \in 1 .. Len(Y), i < j
               PROVE  p.index[Y[i]].stamp < p.index[Y[j]].stamp
    BY <1>11 DEF InOrder
  <2>1. PICK a \in 1 .. Len(p.protected), b \in 1 .. Len(p.protected) :
          a < b /\ Y[i] = p.protected[a] /\ Y[j] = p.protected[b]
    BY <1>8 DEF SameOrder
  <2> QED
    BY <2>1 DEF PoolOK, DuesOK, InOrder
<1>20. \A k \in ToSet(X) : p.index[k].until <= t
  <2> TAKE k \in ToSet(X)
  <2>1. CASE k \in ToSet(p.expired)
    <3>1. p.index[k].until <= u /\ k \in DOMAIN p.index
      BY <1>0, <2>1 DEF PoolOK, DuesOK, Resting
    <3>2. p.index[k].until \in Int
      BY <1>0, <3>1 DEF PoolBlock
    <3> QED
      BY <3>1, <3>2
  <2>2. CASE k \in ToSet(queue)
    <3>1. PICK e \in moved : e.key = k
      BY <1>7, <2>2
    <3> QED
      BY <1>4, <1>16, <3>1
  <2> QED
    BY <1>9, <2>1, <2>2
<1> QED
  BY <1>11, <1>12, <1>13, <1>17, <1>18, <1>19, <1>20 DEF PoolOK, DuesOK

LEMMA MinOfTwo ==
  ASSUME NEW a \in Int, NEW b \in Int
  PROVE  Min({a, b}) = IF a <= b THEN a ELSE b
<1> DEFINE m == IF a <= b THEN a ELSE b
<1>1. m \in {a, b} /\ \A y \in {a, b} : m <= y
  OBVIOUS
<1>2. \A x \in {a, b} : (\A y \in {a, b} : x <= y) => x = m
  OBVIOUS
<1> HIDE DEF m
<1>3. Min({a, b}) = m
  BY <1>1, <1>2 DEF Min
<1> QED
  BY <1>3 DEF m

LEMMA EmptySet == ToSet(<<>>) = {}
  BY DEF ToSet

\* q is p without the blocks of V.
Evicts(p, q, V) ==
  /\ q.family = p.family
  /\ DOMAIN q.index = DOMAIN p.index \ V
  /\ \A k \in DOMAIN p.index \ V : q.index[k] = p.index[k]

\* V are the blocks to take first: in the ttl family those whose protection has
\* lapsed and then the oldest, in the priority family those of the lowest rank.
Lowest(p, V, t) ==
  /\ p.family = "ttl" => \A e \in V, k \in Resting(p) \ V : p.index[e].until > t =>
       p.index[k].until > t /\ p.index[e].stamp < p.index[k].stamp
  /\ p.family = "priority" => \A e, f \in p.prio :
       IsLive(p, e) /\ IsLive(p, f) /\ e.key \in V /\ f.key \notin V => Before(e.order, f.order)

\* _evict of the ttl family: what it leaves, and that it evicts enough.
LEMMA QueuedRoom ==
  ASSUME NEW q, NEW t \in Int, PoolOK(q, t), Reaped(q, t), q.family = "ttl",
         NEW need \in Nat, need <= Len(q.expired) + Len(q.protected),
         NEW r, r = EvictQueued(q, need)
  PROVE  /\ r.ok
         /\ PoolOK(r.pool, t) /\ Reaped(r.pool, t)
         /\ \E V \in SUBSET Resting(q) :
              Cardinality(V) = need /\ Evicts(q, r.pool, V) /\ Lowest(q, V, t)
<1> DEFINE n == Min({need, Len(q.expired)})
           m == Min({need - n, Len(q.protected)})
           A == SubSeq(q.expired, 1, n)
           B == SubSeq(q.protected, 1, m)
           X == SubSeq(q.expired, n + 1, Len(q.expired))
           Y == SubSeq(q.protected, m + 1, Len(q.protected))
           gone == ToSet(A) \cup ToSet(B)
           I == [k \in DOMAIN q.index \ gone |-> q.index[k]]
<1>0. /\ DOMAIN q = Fields /\ q.stamp \in Nat
      /\ DOMAIN q.index \in SUBSET Key /\ IsFiniteSet(DOMAIN q.index)
      /\ \A k \in DOMAIN q.index : q.index[k] \in PoolBlock
      /\ IsList(Key, q.expired) /\ IsList(Key, q.protected)
      /\ ToSet(q.expired) \cap ToSet(q.protected) = {}
      /\ ToSet(q.expired) \cup ToSet(q.protected) = Resting(q)
      /\ q.evictable = {} /\ q.prio = {}
  BY DEF PoolOK, IndexOK, QueuesOK
<1>1. /\ Len(q.expired) \in Nat /\ Len(q.protected) \in Nat
  BY <1>0 DEF IsList
<1>2. /\ n \in 0 .. Len(q.expired) /\ m \in 0 .. Len(q.protected) /\ n + m = need
      /\ m > 0 => n = Len(q.expired)
  <2>1. n = IF need <= Len(q.expired) THEN need ELSE Len(q.expired)
    BY <1>1, MinOfTwo
  <2> HIDE DEF n
  <2>2. m = IF need - n <= Len(q.protected) THEN need - n ELSE Len(q.protected)
    <3>1. need - n \in Int
      BY <1>1, <2>1
    <3> QED
      BY <1>1, <3>1, MinOfTwo
  <2> HIDE DEF m
  <2> DEFINE l == Len(q.expired)
             u == Len(q.protected)
  <2>3. l \in Nat /\ u \in Nat /\ need <= l + u
    BY <1>1
  <2> HIDE DEF l, u
  <2>4. n = IF need <= l THEN need ELSE l
    BY <2>1 DEF l
  <2>5. m = IF need - n <= u THEN need - n ELSE u
    BY <2>2 DEF u
  <2>6. n \in 0 .. l /\ m \in 0 .. u /\ n + m = need /\ (m > 0 => n = l)
    BY <2>3, <2>4, <2>5
  <2> QED
    BY <2>6 DEF l, u
<1>3. /\ r.ok = (n + m >= need)
      /\ r.pool = [[q EXCEPT !.index = I] EXCEPT !.expired = X, !.protected = Y]
  <2>1. Dropped(q, gone).expired = q.expired /\ Dropped(q, gone).protected = q.protected
    BY <1>0 DEF Dropped, Fields
  <2>2. Dropped(q, gone) = [q EXCEPT !.index = I]
    BY <1>0 DEF Dropped, Fields
  <2> HIDE DEF n, m, gone, I
  <2>3. r.pool = [Dropped(q, gone) EXCEPT
                   !.expired = SubSeq(Dropped(q, gone).expired, n + 1, Len(Dropped(q, gone).expired)),
                   !.protected = SubSeq(Dropped(q, gone).protected, m + 1, Len(Dropped(q, gone).protected))]
    BY DEF EvictQueued, n, m, gone
  <2> QED
    BY <2>1, <2>2, <2>3 DEF EvictQueued, n, m
<1> HIDE DEF n, m
<1>4. /\ IsList(Key, A) /\ Len(A) = n
      /\ IsList(Key, X)
      /\ ToSet(A) \cap ToSet(X) = {} /\ ToSet(A) \cup ToSet(X) = ToSet(q.expired)
      /\ n = Len(q.expired) => Len(X) = 0
  BY <1>0, <1>2, SplitList
<1>5. /\ IsList(Key, B) /\ Len(B) = m /\ IsList(Key, Y) /\ Len(Y) = Len(q.protected) - m
      /\ \A i \in 1 .. m : B[i] = q.protected[i]
      /\ \A i \in 1 .. Len(q.protected) - m : Y[i] = q.protected[m + i]
      /\ ToSet(B) \cap ToSet(Y) = {} /\ ToSet(B) \cup ToSet(Y) = ToSet(q.protected)
      /\ ToSet(B) = {q.protected[i] : i \in 1 .. m}
      /\ ToSet(Y) = {q.protected[i] : i \in m + 1 .. Len(q.protected)}
  <2> DEFINE s == q.protected
  <2>1. IsList(Key, s) /\ m \in 0 .. Len(s)
    BY <1>0, <1>2
  <2>2. B = SubSeq(s, 1, m) /\ Y = SubSeq(s, m + 1, Len(s))
    OBVIOUS
  <2> HIDE DEF B, Y, s
  <2>3. IsList(Key, B) /\ Len(B) = m /\ IsList(Key, Y) /\ Len(Y) = Len(s) - m
    BY <2>1, <2>2, SplitList
  <2>4. /\ \A i \in 1 .. m : B[i] = s[i]
        /\ \A i \in 1 .. Len(s) - m : Y[i] = s[m + i]
    BY <2>1, <2>2, SplitList
  <2>5. /\ ToSet(B) \cap ToSet(Y) = {} /\ ToSet(B) \cup ToSet(Y) = ToSet(s)
        /\ ToSet(B) = {s[i] : i \in 1 .. m}
        /\ ToSet(Y) = {s[i] : i \in m + 1 .. Len(s)}
    BY <2>1, <2>2, SplitList
  <2> QED
    BY <2>3, <2>4, <2>5 DEF s
<1> HIDE DEF A, B, X, Y
<1>6. /\ gone \in SUBSET Resting(q)
      /\ ToSet(X) = ToSet(q.expired) \ gone /\ ToSet(Y) = ToSet(q.protected) \ gone
  BY <1>0, <1>4, <1>5
<1>7. Cardinality(gone) = need
  <2>1. IsFiniteSet(ToSet(A)) /\ Cardinality(ToSet(A)) = n
    BY <1>4, ListLength
  <2>2. IsFiniteSet(ToSet(B)) /\ Cardinality(ToSet(B)) = m
    BY <1>5, ListLength
  <2>3. ToSet(A) \cap ToSet(B) = {}
    BY <1>0, <1>4, <1>5
  <2>4. Cardinality(gone) = Cardinality(ToSet(A)) + Cardinality(ToSet(B)) - Cardinality(ToSet(A) \cap ToSet(B))
    BY <2>1, <2>2, FS_Union
  <2>5. Cardinality({}) = 0
    BY FS_EmptySet
  <2>6. n + m - 0 = need
    BY <1>2
  <2> QED
    BY <2>1, <2>2, <2>3, <2>4, <2>5, <2>6
<1>8. /\ DOMAIN I = DOMAIN q.index \ gone
      /\ \A k \in DOMAIN q.index \ gone : I[k] = q.index[k]
  OBVIOUS
<1> HIDE DEF gone, I
<1>9. /\ DOMAIN r.pool = Fields /\ r.pool.family = q.family /\ r.pool.index = I /\ r.pool.stamp = q.stamp
      /\ r.pool.expired = X /\ r.pool.protected = Y /\ r.pool.evictable = q.evictable
      /\ r.pool.expiry = q.expiry /\ r.pool.prio = q.prio
  <2> DEFINE d == [q EXCEPT !.index = I]
  <2>1. /\ DOMAIN d = Fields /\ d.family = q.family /\ d.index = I /\ d.stamp = q.stamp
        /\ d.evictable = q.evictable /\ d.expiry = q.expiry /\ d.prio = q.prio
    BY <1>0 DEF Fields
  <2>2. r.pool = [d EXCEPT !.expired = X, !.protected = Y]
    BY <1>3
  <2> HIDE DEF d
  <2> QED
    BY <2>1, <2>2 DEF Fields
<1>10. SameOrder(Y, q.protected)
  <2> SUFFICES ASSUME NEW i \in 1 .. Len(Y), NEW j \in 1 .. Len(Y), i < j
               PROVE  \E a, b \in 1 .. Len(q.protected) : a < b /\ Y[i] = q.protected[a] /\ Y[j] = q.protected[b]
    BY DEF SameOrder
  <2>0. i \in 1 .. Len(q.protected) - m /\ j \in 1 .. Len(q.protected) - m
    BY <1>5
  <2>1. m + i \in 1 .. Len(q.protected) /\ m + j \in 1 .. Len(q.protected) /\ m + i < m + j
    BY <1>1, <1>2, <2>0
  <2> QED
    BY <1>5, <2>1
<1>11. Takes(q, r.pool, gone)
  <2>1. IsFiniteSet(DOMAIN I) /\ DOMAIN I \in SUBSET Key
    BY <1>0, <1>8, FS_Subset
  <2>2. q.stamp <= q.stamp
    BY <1>0
  <2> QED
    BY <1>0, <1>4, <1>5, <1>6, <1>8, <1>9, <1>10, <2>1, <2>2 DEF Takes, SameClock
<1>12. PoolOK(r.pool, t) /\ Reaped(r.pool, t)
  BY <1>11, TakesKeeps
<1>13. Lowest(q, gone, t)
  <2> SUFFICES ASSUME NEW e \in gone, NEW k \in Resting(q) \ gone, q.index[e].until > t
               PROVE  q.index[k].until > t /\ q.index[e].stamp < q.index[k].stamp
    BY DEF Lowest
  <2>1. e \in ToSet(B)
    <3> SUFFICES ASSUME e \in ToSet(A) PROVE FALSE
      BY DEF gone
    <3>1. e \in ToSet(q.expired)
      BY <1>4
    <3>2. q.index[e].until <= t /\ q.index[e].until \in Int
      BY <1>0, <3>1 DEF PoolOK, DuesOK, Resting, PoolBlock
    <3> QED
      BY <3>2
  <2>2. PICK i \in 1 .. m : e = q.protected[i]
    BY <1>5, <2>1
  <2>3. X = <<>>
    <3>1. Len(X) = 0 /\ X \in Seq(Key)
      BY <1>2, <1>4, <2>2 DEF IsList
    <3> QED
      BY <3>1
  <2>4. k \in ToSet(Y)
    BY <1>0, <1>6, <2>3, EmptySet
  <2>5. PICK j \in m + 1 .. Len(q.protected) : k = q.protected[j]
    BY <1>5, <2>4
  <2>6. i \in 1 .. Len(q.protected) /\ j \in 1 .. Len(q.protected) /\ i < j
    BY <1>1, <1>2
  <2>7. q.index[e].stamp < q.index[k].stamp
    BY <2>2, <2>5, <2>6 DEF PoolOK, DuesOK, InOrder
  <2>8. q.index[k].until > t
    BY <1>5, <2>4 DEF Reaped
  <2> QED
    BY <2>7, <2>8
<1>14. Evicts(q, r.pool, gone)
  BY <1>8, <1>9 DEF Evicts
<1>15. r.ok
  <2>1. n + m >= need
    BY <1>2
  <2> QED
    BY <1>3, <2>1
<1> QED
  BY <1>6, <1>7, <1>12, <1>13, <1>14, <1>15

\* _evict of the priority family: what it leaves, and that it evicts enough.
LEMMA RankedRoom ==
  ASSUME NEW p, NEW t \in Int, PoolOK(p, t), p.family = "priority",
         NEW need \in Nat \ {0}, need <= Cardinality(p.evictable),
         NEW r, r = EvictRanked(p, need)
  PROVE  /\ r.ok
         /\ PoolOK(r.pool, t)
         /\ \E V \in SUBSET Resting(p) :
              Cardinality(V) = need /\ Evicts(p, r.pool, V) /\ Lowest(p, V, t)
<1> DEFINE S == {e \in p.prio : IsLive(p, e)}
           live == Popped(S)
           c == Cardinality(S)
           n == Min({need, Len(live)})
           gone == {live[i].key : i \in 1 .. n}
           H == {e \in p.prio : Before(live[n].order, e.order)}
           Z == p.evictable \ gone
           I == [k \in DOMAIN p.index \ gone |-> p.index[k]]
<1>0. /\ DOMAIN p = Fields /\ p.stamp \in Nat /\ p.stamp <= p.stamp
      /\ DOMAIN p.index \in SUBSET Key /\ IsFiniteSet(DOMAIN p.index)
      /\ \A k \in DOMAIN p.index : p.index[k] \in PoolBlock
      /\ p.expired = <<>> /\ p.protected = <<>> /\ p.expiry = {}
      /\ IsList(Key, p.expired) /\ IsList(Key, p.protected)
      /\ IsHeap(p.prio, 3, p.stamp)
      /\ \A k \in p.evictable : \E e \in p.prio : e.key = k /\ IsLive(p, e)
  BY DEF PoolOK, IndexOK, QueuesOK, HeapsOK
<1>1. p.evictable = Resting(p)
  BY <1>0, EmptySet DEF PoolOK, QueuesOK
<1>2. IsOrdered(S)
  <2>1. S \in SUBSET p.prio
    OBVIOUS
  <2> HIDE DEF S
  <2> QED
    BY <1>0, <2>1, HeapOrdered
<1>3. \A e : e \in S <=> e \in p.prio /\ IsLive(p, e)
  OBVIOUS
<1> HIDE DEF S
<1>4. /\ c \in Nat /\ Len(live) = c
      /\ \A i \in 1 .. c : live[i] \in S
      /\ \A e \in S : \E i \in 1 .. c : live[i] = e
      /\ \A i, j \in 1 .. c : Before(live[i].order, live[j].order) <=> i < j
      /\ \A i, j \in 1 .. c : live[i] = live[j] => i = j
  BY <1>2, PoppedFacts
<1>5. \A e, f \in S : e.key = f.key => e = f
  <2> TAKE e, f \in S
  <2>1. IsLive(p, e) /\ IsLive(p, f) /\ e \in p.prio /\ f \in p.prio
    BY <1>3
  <2>2. e.key = f.key => StampOf(e) = StampOf(f)
    BY <2>1 DEF IsLive
  <2> QED
    BY <1>0, <2>1, <2>2 DEF IsHeap
<1>6. \A e \in S : e.key \in p.evictable /\ e.key \in Key
  BY <1>0, <1>1, <1>3 DEF IsLive, Resting
<1> HIDE DEF c
\* There is a live entry for every resting block, and only one.
<1>7. c = Cardinality(p.evictable)
  <2> DEFINE keys == [i \in 1 .. c |-> live[i].key]
  <2>1. keys \in Seq(Key) /\ Len(keys) = c /\ \A i \in 1 .. c : keys[i] = live[i].key
    <3>1. \A i \in 1 .. c : live[i].key \in Key
      BY <1>4, <1>6
    <3> HIDE DEF live
    <3> QED
      BY <1>4, <3>1
  <2> HIDE DEF keys
  <2>2. IsList(Key, keys)
    BY <1>4, <1>5, <2>1 DEF IsList
  <2>3. ToSet(keys) = {keys[i] : i \in 1 .. c}
    BY <2>1, SeqFacts
  <2>4. ToSet(keys) = p.evictable
    <3>1. ASSUME NEW k \in p.evictable PROVE k \in ToSet(keys)
      <4>1. PICK e \in S : e.key = k
        BY <1>0, <1>3
      <4> QED
        BY <1>4, <2>1, <2>3, <4>1
    <3>2. ASSUME NEW k \in ToSet(keys) PROVE k \in p.evictable
      BY <1>4, <1>6, <2>1, <2>3
    <3> QED
      BY <3>1, <3>2
  <2> QED
    BY <2>1, <2>2, <2>4, ListLength
<1>8. n = need /\ need \in 1 .. c
  <2>1. need \in Int /\ c \in Int /\ need <= c
    BY <1>4, <1>7
  <2> HIDE DEF live
  <2> QED
    BY <1>4, <2>1, MinOfTwo
<1>9. /\ r.ok = (n >= need)
      /\ r.pool = [Dropped(p, gone) EXCEPT
                     !.prio = IF n < need THEN {}
                              ELSE {e \in Dropped(p, gone).prio : Before(live[n].order, e.order)},
                     !.evictable = Dropped(p, gone).evictable \ gone]
  <2> HIDE DEF gone, n
  <2> QED
    BY DEF EvictRanked, gone, n, live, S
<1> HIDE DEF n, live
<1>10. /\ \A k \in gone : \E i \in 1 .. need : k = live[i].key
       /\ \A i \in 1 .. need : live[i].key \in gone
  BY <1>8
<1>11. \A i \in 1 .. need : i \in 1 .. c /\ live[i] \in S
  BY <1>4, <1>8
<1>12. gone \in SUBSET Resting(p) /\ gone \in SUBSET Key
  <2> SUFFICES ASSUME NEW k \in gone PROVE k \in Resting(p) /\ k \in Key
    OBVIOUS
  <2>1. PICK i \in 1 .. need : k = live[i].key
    BY <1>10
  <2> QED
    BY <1>1, <1>6, <1>11, <2>1
<1>13. Cardinality(gone) = need
  <2> DEFINE keys == [i \in 1 .. need |-> live[i].key]
  <2>1. keys \in Seq(Key) /\ Len(keys) = need /\ \A i \in 1 .. need : keys[i] = live[i].key
    <3>1. \A i \in 1 .. need : live[i].key \in Key
      BY <1>6, <1>11
    <3> QED
      BY <3>1
  <2> HIDE DEF keys
  <2>2. IsList(Key, keys)
    BY <1>4, <1>5, <1>11, <2>1 DEF IsList
  <2>3. ToSet(keys) = {keys[i] : i \in 1 .. need}
    BY <2>1, SeqFacts
  <2>4. ToSet(keys) = gone
    BY <2>1, <2>3, <1>8
  <2> QED
    BY <2>1, <2>2, <2>4, ListLength
<1>14. /\ DOMAIN I = DOMAIN p.index \ gone
       /\ \A k \in DOMAIN p.index \ gone : I[k] = p.index[k]
       /\ H \in SUBSET p.prio
       /\ \A e \in p.prio : e \in H <=> Before(live[n].order, e.order)
  OBVIOUS
<1>15. r.pool = [[p EXCEPT !.index = I] EXCEPT !.prio = H, !.evictable = Z]
  <2>1. Dropped(p, gone).prio = p.prio /\ Dropped(p, gone).evictable = p.evictable
    BY <1>0 DEF Dropped, Fields
  <2>2. Dropped(p, gone) = [p EXCEPT !.index = I]
    BY <1>0 DEF Dropped, Fields
  <2>3. ~(n < need)
    BY <1>8
  <2> HIDE DEF gone, I
  <2> QED
    BY <1>9, <2>1, <2>2, <2>3
<1>16. Z = p.evictable \ gone
  OBVIOUS
<1> HIDE DEF gone, I, H, Z
<1>17. /\ DOMAIN r.pool = Fields /\ r.pool.family = p.family /\ r.pool.index = I /\ r.pool.stamp = p.stamp
       /\ r.pool.expired = p.expired /\ r.pool.protected = p.protected /\ r.pool.evictable = Z
       /\ r.pool.expiry = p.expiry /\ r.pool.prio = H
  <2> DEFINE d == [p EXCEPT !.index = I]
  <2>1. /\ DOMAIN d = Fields /\ d.family = p.family /\ d.index = I /\ d.stamp = p.stamp
        /\ d.expired = p.expired /\ d.protected = p.protected /\ d.expiry = p.expiry
    BY <1>0 DEF Fields
  <2>2. r.pool = [d EXCEPT !.prio = H, !.evictable = Z]
    BY <1>15
  <2> HIDE DEF d
  <2> QED
    BY <2>1, <2>2 DEF Fields
<1>18. \A e \in S : e.key \in gone <=> ~Before(live[need].order, e.order)
  <2> TAKE e \in S
  <2>1. PICK i \in 1 .. c : live[i] = e
    BY <1>4
  <2>2. Before(live[need].order, e.order) <=> need < i
    BY <1>4, <1>8, <2>1
  <2>3. e.key \in gone <=> i \in 1 .. need
    <3>1. ASSUME NEW j \in 1 .. need, e.key = live[j].key PROVE i = j
      BY <1>4, <1>5, <1>11, <2>1, <3>1
    <3> QED
      BY <1>10, <2>1, <3>1
  <2> QED
    BY <1>4, <1>8, <2>2, <2>3
<1>19. Takes(p, r.pool, gone)
  <2>1. IsFiniteSet(DOMAIN I) /\ DOMAIN I \in SUBSET Key
    BY <1>0, <1>14, FS_Subset
  <2>2. \A e \in p.prio \ H : e.key \in gone \/ ~IsLive(p, e)
    BY <1>3, <1>8, <1>14, <1>18
  <2>3. SameOrder(p.protected, p.protected)
    BY <1>0, SameOrderSelf DEF IsList
  <2>4. ToSet(p.expired) = {} /\ ToSet(p.protected) = {}
    BY <1>0, EmptySet
  <2> QED
    BY <1>0, <1>14, <1>16, <1>17, <2>1, <2>2, <2>3, <2>4 DEF Takes, SameClock
<1>20. PoolOK(r.pool, t)
  BY <1>19, TakesKeeps
<1>21. Lowest(p, gone, t)
  <2> SUFFICES ASSUME NEW e \in p.prio, NEW f \in p.prio, IsLive(p, e), IsLive(p, f),
                      e.key \in gone, f.key \notin gone
               PROVE  Before(e.order, f.order)
    BY DEF Lowest
  <2>1. e \in S /\ f \in S
    BY <1>3
  <2>2. ~Before(live[need].order, e.order) /\ Before(live[need].order, f.order)
    BY <1>18, <2>1
  <2>3. live[need] \in S
    BY <1>4, <1>8
  <2> QED
    BY <1>2, <2>1, <2>2, <2>3 DEF IsOrdered
<1>22. Evicts(p, r.pool, gone)
  BY <1>14, <1>17 DEF Evicts
<1>23. r.ok
  <2>1. n >= need
    BY <1>8
  <2> QED
    BY <1>9, <2>1
<1> QED
  BY <1>12, <1>13, <1>20, <1>21, <1>22, <1>23

\* _evict of either family succeeds when there are blocks enough.
LEMMA RoomKeeps ==
  ASSUME NEW p, NEW t \in Int, PoolOK(p, t), p.family = "ttl" => Reaped(p, t),
         NEW n \in Nat, n <= NFree(p) + NEvictable(p),
         NEW r, r = MakeRoom(p, n, t)
  PROVE  /\ r.ok
         /\ PoolOK(r.pool, t) /\ (p.family = "ttl" => Reaped(r.pool, t))
         /\ \E V \in SUBSET Resting(p) :
              /\ Cardinality(V) = IF n <= NFree(p) THEN 0 ELSE n - NFree(p)
              /\ Evicts(p, r.pool, V) /\ Lowest(p, V, t)
<1> DEFINE need == n - NFree(p)
<1>1. NFree(p) \in Int
  <2>1. IsFiniteSet(DOMAIN p.index)
    BY DEF PoolOK, IndexOK
  <2>2. Cardinality(DOMAIN p.index) \in Nat
    BY <2>1, FS_CardinalityType
  <2> QED
    BY <2>2, PoolAssumption DEF NFree
<1>2. NEvictable(p) = Cardinality(Resting(p)) /\ Cardinality(Resting(p)) \in Nat
  BY NEvictableExact
<1>3. need \in Int /\ need <= NEvictable(p)
  BY <1>1, <1>2
<1>4. CASE need <= 0
  <2>1. r = [ok |-> TRUE, pool |-> p]
    BY <1>4 DEF MakeRoom
  <2>2. Evicts(p, p, {}) /\ Lowest(p, {}, t) /\ {} \in SUBSET Resting(p)
    BY DEF Evicts, Lowest
  <2>3. Cardinality({}) = 0
    BY FS_EmptySet
  <2>4. n <= NFree(p)
    BY <1>1, <1>4
  <2> QED
    BY <2>1, <2>2, <2>3, <2>4
<1>5. CASE need > 0 /\ p.family = "ttl"
  <2> DEFINE q == Reap(p, t)
  <2>1. /\ PoolOK(q, t) /\ Reaped(q, t)
        /\ q.index = p.index /\ q.family = p.family
    <3>1. t <= t
      OBVIOUS
    <3> HIDE DEF q
    <3> QED
      BY <1>5, <3>1, ReapKeeps DEF q
  <2>2. r = EvictQueued(q, need)
    <3>1. ~(need <= 0) /\ ~(need > NEvictable(p))
      BY <1>2, <1>3, <1>5
    <3> QED
      BY <1>5, <3>1 DEF MakeRoom
  <2> HIDE DEF q
  <2>3. Resting(q) = Resting(p)
    BY <2>1 DEF Resting
  <2>4. need <= Len(q.expired) + Len(q.protected)
    <3>1. NEvictable(q) = Cardinality(Resting(q))
      BY <2>1, NEvictableExact
    <3> QED
      BY <1>2, <1>3, <1>5, <2>1, <2>3, <3>1 DEF NEvictable
  <2>5. need \in Nat
    BY <1>3, <1>5
  <2> HIDE DEF need
  <2>6. /\ r.ok /\ PoolOK(r.pool, t) /\ Reaped(r.pool, t)
        /\ \E V \in SUBSET Resting(q) :
              Cardinality(V) = need /\ Evicts(q, r.pool, V) /\ Lowest(q, V, t)
    BY <1>5, <2>1, <2>2, <2>4, <2>5, QueuedRoom
  <2>7. PICK V \in SUBSET Resting(q) : Cardinality(V) = need /\ Evicts(q, r.pool, V) /\ Lowest(q, V, t)
    BY <2>6
  <2>8. Evicts(p, r.pool, V) /\ V \in SUBSET Resting(p)
    BY <2>1, <2>3, <2>7 DEF Evicts
  <2>9. Lowest(p, V, t)
    BY <1>5, <2>1, <2>3, <2>7 DEF Lowest
  <2>10. ~(n <= NFree(p)) /\ need = n - NFree(p)
    BY <1>1, <1>5 DEF need
  <2> QED
    BY <2>6, <2>7, <2>8, <2>9, <2>10
<1>6. CASE need > 0 /\ p.family # "ttl"
  <2>0. p.family = "priority"
    BY <1>6 DEF PoolOK, IndexOK
  <2>1. r = EvictRanked(p, need)
    <3>1. ~(need <= 0) /\ ~(need > NEvictable(p))
      BY <1>2, <1>3, <1>6
    <3> QED
      BY <1>6, <3>1 DEF MakeRoom
  <2>2. need \in Nat \ {0} /\ need <= Cardinality(p.evictable)
    BY <1>3, <1>6 DEF NEvictable
  <2>3. ~(n <= NFree(p)) /\ need = n - NFree(p)
    BY <1>1, <1>6
  <2> HIDE DEF need
  <2>4. /\ r.ok /\ PoolOK(r.pool, t)
        /\ \E V \in SUBSET Resting(p) :
              Cardinality(V) = need /\ Evicts(p, r.pool, V) /\ Lowest(p, V, t)
    BY <2>0, <2>1, <2>2, RankedRoom
  <2> QED
    BY <1>6, <2>3, <2>4
<1> QED
  BY <1>3, <1>4, <1>5, <1>6

(***************************************************************************)
(* What PrefixCache sees.                                                  *)
(***************************************************************************)
IsCache(c) == c \in [DOMAIN c -> Block]

SameBlock(a, b) == a.ref = b.ref /\ a.full = b.full /\ a.ready = b.ready

LEMMA SameBlockIs ==
  ASSUME NEW a \in Block, NEW b \in Block, SameBlock(a, b)
  PROVE  a = b
  BY DEF Block, SameBlock

\* Two caches with the same blocks are the same.
LEMMA SameCacheIs ==
  ASSUME NEW c, NEW d, IsCache(c), IsCache(d), DOMAIN c = DOMAIN d,
         \A k \in DOMAIN c : SameBlock(c[k], d[k])
  PROVE  c = d
<1>1. \A k \in DOMAIN c : c[k] \in Block /\ d[k] \in Block
  BY DEF IsCache
<1>2. \A k \in DOMAIN c : c[k] = d[k]
  BY <1>1, SameBlockIs
<1>3. c = [k \in DOMAIN c |-> c[k]] /\ d = [k \in DOMAIN d |-> d[k]]
  BY DEF IsCache
<1> QED
  BY <1>2, <1>3

LEMMA CacheBlocks == \A c : IsCache(c) => \A k \in DOMAIN c : c[k] \in Block
  BY DEF IsCache

\* What PrefixCache sees of a pool is a cache.
LEMMA ContentsFacts ==
  ASSUME NEW p, NEW t, PoolOK(p, t), NEW c, c = Contents(p)
  PROVE  /\ IsCache(c) /\ DOMAIN c = DOMAIN p.index
         /\ \A k \in DOMAIN c : SameBlock(c[k], p.index[k])
         /\ Evictable(c) = Resting(p) /\ Free(c) = NFree(p)
<1>1. DOMAIN c = DOMAIN p.index
  BY DEF Contents
<1>2. ASSUME NEW k \in DOMAIN c PROVE SameBlock(c[k], p.index[k]) /\ c[k] \in Block
  <2>1. c[k] = [ref |-> p.index[k].ref, full |-> p.index[k].full, ready |-> p.index[k].ready]
    BY <1>1 DEF Contents
  <2>2. p.index[k] \in PoolBlock
    BY <1>1 DEF PoolOK, IndexOK
  <2>3. p.index[k].ref \in Nat /\ p.index[k].full \in BOOLEAN /\ p.index[k].ready \in BOOLEAN
    BY <2>2 DEF PoolBlock
  <2> QED
    BY <2>1, <2>3 DEF SameBlock, Block
<1>3. IsCache(c)
  <2>1. c = [k \in DOMAIN c |-> c[k]]
    BY DEF Contents
  <2> QED
    BY <1>2, <2>1 DEF IsCache
<1>4. Evictable(c) = Resting(p)
  BY <1>1, <1>2 DEF Evictable, Resting, SameBlock
<1>5. Free(c) = NFree(p)
  BY <1>1 DEF Free, NFree
<1> QED
  BY <1>1, <1>2, <1>3, <1>4, <1>5

\* The contents of a pool from the contents of its blocks.
LEMMA ContentsAre ==
  ASSUME NEW p, NEW t, PoolOK(p, t), NEW c, IsCache(c),
         DOMAIN c = DOMAIN p.index,
         \A k \in DOMAIN c : SameBlock(c[k], p.index[k])
  PROVE  Contents(p) = c
<1> DEFINE d == Contents(p)
<1>1. /\ IsCache(d) /\ DOMAIN d = DOMAIN p.index
      /\ \A k \in DOMAIN d : SameBlock(d[k], p.index[k])
  BY ContentsFacts
<1> HIDE DEF d
<1>2. \A k \in DOMAIN d : SameBlock(d[k], c[k])
  BY <1>1 DEF SameBlock
<1>3. d = c
  BY <1>1, <1>2, SameCacheIs
<1> QED
  BY <1>3 DEF d

\* b is a with r more references.
MoreRefs(b, a, r) == b.ref = a.ref + r /\ b.full = a.full /\ b.ready = a.ready

\* Hold of PrefixCache, block by block.
LEMMA HoldFacts ==
  ASSUME NEW c, NEW K, IsCache(c), NEW d, d = Hold(c, K)
  PROVE  /\ IsCache(d) /\ DOMAIN d = DOMAIN c
         /\ \A k \in DOMAIN d : /\ k \in K => MoreRefs(d[k], c[k], 1)
                                /\ k \notin K => d[k] = c[k]
<1>1. /\ DOMAIN d = DOMAIN c /\ d = [k \in DOMAIN d |-> d[k]]
      /\ \A k \in DOMAIN d : d[k] = IF k \in K THEN [c[k] EXCEPT !.ref = c[k].ref + 1] ELSE c[k]
  BY DEF Hold
<1>2. ASSUME NEW b \in Block
      PROVE  [b EXCEPT !.ref = b.ref + 1] \in Block /\ MoreRefs([b EXCEPT !.ref = b.ref + 1], b, 1)
  BY DEF Block, MoreRefs
<1>3. \A k \in DOMAIN c : c[k] \in Block
  BY CacheBlocks
<1>4. \A k \in DOMAIN d : /\ d[k] \in Block
                          /\ k \in K => MoreRefs(d[k], c[k], 1)
                          /\ k \notin K => d[k] = c[k]
  BY <1>1, <1>2, <1>3
<1>5. IsCache(d)
  BY <1>1, <1>4 DEF IsCache
<1> QED
  BY <1>1, <1>4, <1>5

\* The loop over the hits is Hold.
LEMMA HeldContents ==
  ASSUME NEW p, NEW t, PoolOK(p, t), NEW K, NEW q, PoolOK(q, t), Holds(p, q, K)
  PROVE  Contents(q) = Hold(Contents(p), K)
<1> DEFINE c == Contents(p)
           d == Hold(c, K)
<1>1. /\ IsCache(c) /\ DOMAIN c = DOMAIN p.index
      /\ \A k \in DOMAIN c : SameBlock(c[k], p.index[k])
  BY ContentsFacts
<1> HIDE DEF c
<1>2. /\ IsCache(d) /\ DOMAIN d = DOMAIN c
      /\ \A k \in DOMAIN d : /\ k \in K => MoreRefs(d[k], c[k], 1)
                             /\ k \notin K => d[k] = c[k]
  BY <1>1, HoldFacts
<1> HIDE DEF d
<1>3. DOMAIN d = DOMAIN q.index
  BY <1>1, <1>2 DEF Holds
<1>4. \A k \in DOMAIN d : SameBlock(d[k], q.index[k])
  <2> TAKE k \in DOMAIN d
  <2>1. SameBlock(c[k], p.index[k]) /\ k \in DOMAIN p.index /\ c[k] \in Block
    BY <1>1, <1>2, CacheBlocks
  <2>2. c[k].ref \in Nat
    BY <2>1 DEF Block
  <2>3. CASE k \in K
    BY <1>2, <2>1, <2>3 DEF Holds, SameBlock, MoreRefs
  <2>4. CASE k \notin K
    BY <1>2, <2>1, <2>2, <2>4 DEF Holds, SameBlock
  <2> QED
    BY <2>3, <2>4
<1>5. Contents(q) = d
  BY <1>2, <1>3, <1>4, ContentsAre
<1> QED
  BY <1>5 DEF d, c

Materialises(c, K, d) ==
  /\ IsCache(d) /\ DOMAIN d = DOMAIN c \cup K
  /\ \A k \in DOMAIN d :
       /\ k \in K /\ k \in DOMAIN c => MoreRefs(d[k], c[k], 1)
       /\ k \in K /\ k \notin DOMAIN c => d[k] = NewBlock
       /\ k \notin K => d[k] = c[k]

\* Materialise of PrefixCache, block by block.
LEMMA MaterialiseFacts ==
  ASSUME NEW c, NEW K, IsCache(c)
  PROVE  Materialises(c, K, Materialise(c, K))
<1> DEFINE d == Materialise(c, K)
<1>1. /\ DOMAIN d = DOMAIN c \cup K /\ d = [k \in DOMAIN d |-> d[k]]
      /\ \A k \in DOMAIN d : d[k] = IF k \notin K THEN c[k]
                                    ELSE IF k \in DOMAIN c THEN [c[k] EXCEPT !.ref = c[k].ref + 1]
                                    ELSE NewBlock
  BY DEF Materialise
<1>2. ASSUME NEW b \in Block
      PROVE  [b EXCEPT !.ref = b.ref + 1] \in Block /\ MoreRefs([b EXCEPT !.ref = b.ref + 1], b, 1)
  BY DEF Block, MoreRefs
<1>3. NewBlock \in Block
  BY DEF NewBlock, Block
<1>4. \A k \in DOMAIN c : c[k] \in Block
  BY CacheBlocks
<1>5. \A k \in DOMAIN d :
        /\ d[k] \in Block
        /\ k \in K /\ k \in DOMAIN c => MoreRefs(d[k], c[k], 1)
        /\ k \in K /\ k \notin DOMAIN c => d[k] = NewBlock
        /\ k \notin K => d[k] = c[k]
  <2> TAKE k \in DOMAIN d
  <2>1. d[k] = IF k \notin K THEN c[k]
               ELSE IF k \in DOMAIN c THEN [c[k] EXCEPT !.ref = c[k].ref + 1]
               ELSE NewBlock
    BY <1>1
  <2>2. CASE k \in DOMAIN c
    BY <1>2, <1>4, <2>1, <2>2
  <2>3. CASE k \notin DOMAIN c
    BY <1>1, <1>3, <2>1, <2>3
  <2> QED
    BY <2>2, <2>3
<1>6. IsCache(d)
  BY <1>1, <1>5 DEF IsCache
<1> HIDE DEF d
<1>7. Materialises(c, K, d)
  BY <1>1, <1>5, <1>6 DEF Materialises
<1> QED
  BY <1>7 DEF d

\* A new block disturbs no queue.
LEMMA CreateKeeps ==
  ASSUME NEW p, NEW t, PoolOK(p, t), NEW k \in Key \ DOMAIN p.index, NEW q, q = CreateBlock(p, k)
  PROVE  /\ PoolOK(q, t) /\ q.family = p.family
         /\ Reaped(p, t) => Reaped(q, t)
         /\ Resting(q) = Resting(p) \ {k}
         /\ Contents(q) = Materialise(Contents(p), {k})
<1> DEFINE b == [ref |-> 1, full |-> FALSE, ready |-> FALSE, until |-> 0, stamp |-> 0]
           I == [j \in DOMAIN p.index \cup {k} |-> IF j = k THEN b ELSE p.index[j]]
<1>0. /\ DOMAIN p = Fields /\ p.stamp \in Nat /\ p.stamp <= p.stamp
      /\ DOMAIN p.index \in SUBSET Key /\ IsFiniteSet(DOMAIN p.index)
      /\ \A j \in DOMAIN p.index : p.index[j] \in PoolBlock
      /\ IsList(Key, p.expired) /\ IsList(Key, p.protected)
  BY DEF PoolOK, IndexOK, QueuesOK
<1>1. q = [p EXCEPT !.index = I]
  BY <1>0 DEF CreateBlock, Fields
<1>2. /\ DOMAIN I = DOMAIN p.index \cup {k} /\ I[k] = b
      /\ \A j \in DOMAIN p.index : I[j] = p.index[j]
  OBVIOUS
<1>3. /\ b \in PoolBlock /\ b.ref = 1 /\ b.stamp = 0
      /\ SameBlock(NewBlock, b)
  BY DEF PoolBlock, NewBlock, SameBlock
<1> HIDE DEF b, I
<1>4. /\ DOMAIN q = Fields /\ q.family = p.family /\ q.index = I /\ q.stamp = p.stamp
      /\ q.expired = p.expired /\ q.protected = p.protected /\ q.evictable = p.evictable
      /\ q.expiry = p.expiry /\ q.prio = p.prio
  BY <1>0, <1>1 DEF Fields
<1>5. k \notin ToSet(p.expired) /\ k \notin ToSet(p.protected) /\ k \notin p.evictable
  <2>1. k \notin Resting(p)
    BY DEF Resting
  <2> QED
    BY <2>1, RestingQueues
<1>6. IsFiniteSet(DOMAIN I)
  BY <1>0, <1>2, FS_AddElement
<1>7. Takes(p, q, {k})
  <2>1. SameOrder(p.protected, p.protected)
    BY <1>0, SameOrderSelf DEF IsList
  <2>2. 1 > 0 /\ 0 <= p.stamp
    BY <1>0
  <2> QED
    BY <1>0, <1>2, <1>3, <1>4, <1>5, <1>6, <2>1, <2>2 DEF Takes, SameClock
<1>8. PoolOK(q, t) /\ Resting(q) = Resting(p) \ {k} /\ (Reaped(p, t) => Reaped(q, t))
  BY <1>7, TakesKeeps
<1>9. Contents(q) = Materialise(Contents(p), {k})
  <2> DEFINE c == Contents(p)
             d == Materialise(c, {k})
  <2>1. /\ IsCache(c) /\ DOMAIN c = DOMAIN p.index
        /\ \A j \in DOMAIN c : SameBlock(c[j], p.index[j])
    BY ContentsFacts
  <2> HIDE DEF c
  <2>2. /\ IsCache(d) /\ DOMAIN d = DOMAIN c \cup {k}
        /\ d[k] = NewBlock
        /\ \A j \in DOMAIN d : j # k => d[j] = c[j]
    <3>1. Materialises(c, {k}, d)
      BY <2>1, MaterialiseFacts
    <3> HIDE DEF d
    <3> QED
      BY <2>1, <3>1 DEF Materialises
  <2> HIDE DEF d
  <2>3. DOMAIN d = DOMAIN q.index
    BY <1>2, <1>4, <2>1, <2>2
  <2>4. \A j \in DOMAIN d : SameBlock(d[j], q.index[j])
    BY <1>2, <1>3, <1>4, <2>1, <2>2
  <2>5. Contents(q) = d
    BY <1>8, <2>2, <2>3, <2>4, ContentsAre
  <2> QED
    BY <2>5 DEF d, c
<1> QED
  BY <1>4, <1>8, <1>9

LEMMA MaterialisedKeeps ==
  ASSUME NEW p, NEW t, PoolOK(p, t), NEW k \in Key, NEW q, q = Materialised(p, k)
  PROVE  /\ PoolOK(q, t) /\ q.family = p.family
         /\ Reaped(p, t) => Reaped(q, t)
         /\ Resting(q) = Resting(p) \ {k}
         /\ Contents(q) = Materialise(Contents(p), {k})
<1>1. CASE k \notin DOMAIN p.index
  <2>1. q = CreateBlock(p, k)
    BY <1>1 DEF Materialised
  <2> QED
    BY <1>1, <2>1, CreateKeeps
<1>2. CASE k \in DOMAIN p.index
  <2>1. q = HoldBlock(p, k)
    BY <1>2 DEF Materialised
  <2>2. PoolOK(q, t) /\ (Reaped(p, t) => Reaped(q, t)) /\ Holds(p, q, {k})
    BY <1>2, <2>1, HoldBlockKeeps
  <2>3. Contents(q) = Hold(Contents(p), {k})
    BY <2>2, HeldContents
  <2>4. k \in DOMAIN Contents(p)
    BY <1>2, ContentsFacts
  <2>5. ASSUME NEW c, k \in DOMAIN c PROVE Hold(c, {k}) = Materialise(c, {k})
    <3>1. DOMAIN c \cup {k} = DOMAIN c
      BY <2>5
    <3> QED
      BY <2>5, <3>1 DEF Hold, Materialise
  <2>6. q.family = p.family /\ Resting(q) = Resting(p) \ {k}
    BY <2>2 DEF Holds
  <2> QED
    BY <2>2, <2>3, <2>4, <2>5, <2>6
<1> QED
  BY <1>1, <1>2

LEMMA MaterialiseMore ==
  ASSUME NEW c, IsCache(c), NEW K, NEW k, k \notin K
  PROVE  Materialise(Materialise(c, K), {k}) = Materialise(c, K \cup {k})
<1> DEFINE L == K \cup {k}
           d == Materialise(c, K)
           e == Materialise(d, {k})
           f == Materialise(c, L)
<1>1. Materialises(c, K, d)
  BY MaterialiseFacts
<1>2. Materialises(d, {k}, e)
  <2>1. IsCache(d)
    BY <1>1 DEF Materialises
  <2> HIDE DEF d
  <2> QED
    BY <2>1, MaterialiseFacts
<1>3. Materialises(c, L, f)
  BY MaterialiseFacts
<1>0. d = Materialise(c, K) /\ e = Materialise(d, {k}) /\ f = Materialise(c, L)
  OBVIOUS
<1> HIDE DEF d, e, f, L
<1>4. DOMAIN e = DOMAIN f
  BY <1>1, <1>2, <1>3 DEF L, Materialises
<1>5. \A j \in DOMAIN e : SameBlock(e[j], f[j])
  <2> TAKE j \in DOMAIN e
  <2>1. CASE j = k
    <3>1. k \in DOMAIN d <=> k \in DOMAIN c
      BY <1>1 DEF Materialises
    <3>2. k \in DOMAIN d => d[k] = c[k]
      BY <1>1 DEF Materialises
    <3>3. k \in L
      BY DEF L
    <3> QED
      BY <1>2, <1>3, <1>4, <2>1, <3>1, <3>2, <3>3 DEF SameBlock, MoreRefs, Materialises
  <2>2. CASE j # k
    <3>1. e[j] = d[j] /\ j \in DOMAIN d /\ (j \in L <=> j \in K)
      BY <1>2, <2>2 DEF L, Materialises
    <3> QED
      BY <1>1, <1>3, <1>4, <3>1 DEF SameBlock, MoreRefs, Materialises
  <2> QED
    BY <2>1, <2>2
<1>6. e = f
  BY <1>2, <1>3, <1>4, <1>5, SameCacheIs DEF Materialises
<1> QED
  BY <1>0, <1>6 DEF L

\* The loop over the misses is Materialise.
LEMMA MaterialiseKeeps ==
  ASSUME NEW p, NEW t, PoolOK(p, t), NEW s, IsList(Key, s)
  PROVE  LET q == MaterialiseAll(p, s)
         IN  /\ PoolOK(q, t) /\ q.family = p.family
             /\ Resting(q) = Resting(p) \ ToSet(s)
             /\ Contents(q) = Materialise(Contents(p), ToSet(s))
<1> DEFINE n == Len(s)
           To(m) == {s[i] : i \in 1 .. m}
           c == Contents(p)
<1>0. /\ n \in Nat /\ ToSet(s) = To(n) /\ \A i, j \in 1 .. n : s[i] = s[j] => i = j
      /\ \A i \in 1 .. n : s[i] \in Key
  BY SeqFacts DEF IsList
<1>1. PICK f : /\ f[0] = p
               /\ \A i \in 1 .. n : f[i] = Materialised(f[i - 1], s[i])
               /\ MaterialiseAll(p, s) = f[n]
  <2> HIDE DEF c, To
  <2> QED
    BY <1>0, MaterialisedWalk
<1>2. IsCache(c)
  BY ContentsFacts
<1> DEFINE Good(q, m) == /\ PoolOK(q, t) /\ q.family = p.family
                         /\ Resting(q) = Resting(p) \ To(m)
                         /\ Contents(q) = Materialise(c, To(m))
           P == {m \in 0 .. n : Good(f[m], m)}
<1>3. Contents(p) = c
  OBVIOUS
<1> HIDE DEF n, c
<1>4. 0 \in P
  <2>1. To(0) = {}
    OBVIOUS
  <2>2. Materialise(c, {}) = c
    <3>1. DOMAIN c \cup {} = DOMAIN c /\ c = [k \in DOMAIN c |-> c[k]]
      BY <1>2 DEF IsCache
    <3> QED
      BY <3>1 DEF Materialise
  <2>4. Good(p, 0)
    BY <1>3, <2>1, <2>2
  <2> QED
    BY <1>0, <1>1, <2>4
<1>5. ASSUME NEW m \in 0 .. (n - 1), m \in P PROVE m + 1 \in P
  <2>1. Good(f[m], m)
    BY <1>5
  <2>2. m \in Nat /\ m + 1 \in 1 .. n /\ (m + 1) - 1 = m /\ m + 1 \in 0 .. n
    BY <1>0
  <2> DEFINE k == s[m + 1]
             q == f[m]
             g == f[m + 1]
  <2>3. g = Materialised(q, k)
    BY <1>1, <2>2
  <2>4. To(m + 1) = To(m) \cup {k}
    <3>1. 1 .. m + 1 = (1 .. m) \cup {m + 1}
      BY <2>2
    <3> QED
      BY <3>1
  <2>5. k \notin To(m)
    <3>1. \A i \in 1 .. m : i \in 1 .. n /\ i # m + 1
      BY <1>0, <2>2
    <3> QED
      BY <1>0, <2>2, <3>1
  <2>6. k \in Key
    BY <1>0, <2>2
  <2>7. /\ PoolOK(q, t) /\ q.family = p.family
        /\ Resting(q) = Resting(p) \ To(m)
        /\ Contents(q) = Materialise(c, To(m))
    BY <2>1
  <2> HIDE DEF To, k, q, g
  <2>8. /\ PoolOK(g, t) /\ g.family = q.family
        /\ Resting(g) = Resting(q) \ {k}
        /\ Contents(g) = Materialise(Contents(q), {k})
    BY <2>3, <2>6, <2>7, MaterialisedKeeps
  <2>9. Contents(g) = Materialise(c, To(m + 1))
    BY <1>2, <2>4, <2>5, <2>7, <2>8, MaterialiseMore
  <2>10. Resting(g) = Resting(p) \ To(m + 1)
    BY <2>4, <2>7, <2>8
  <2>11. Good(g, m + 1)
    BY <2>7, <2>8, <2>9, <2>10
  <2> QED
    BY <2>2, <2>11 DEF g
<1> HIDE DEF P
<1>6. n \in P
  <2>1. \A i \in 0 .. n : i \in P
    BY <1>0, <1>4, <1>5, UpTo
  <2> QED
    BY <1>0, <2>1
<1>7. Good(f[n], n)
  BY <1>6 DEF P
<1> QED
  BY <1>0, <1>1, <1>3, <1>7

(***************************************************************************)
(* Releasing blocks.                                                       *)
(***************************************************************************)
Releases(c, K, f, d) ==
  /\ IsCache(d)
  /\ DOMAIN d = {k \in DOMAIN c : k \notin K \/ c[k].ref > 1 \/ (f /\ c[k].full /\ c[k].ready)}
  /\ \A k \in DOMAIN d :
       /\ k \notin K => d[k] = c[k]
       /\ k \in K => /\ d[k].full = c[k].full /\ d[k].ready = c[k].ready
                     /\ c[k].ref > 1 => d[k].ref = c[k].ref - 1
                     /\ ~(c[k].ref > 1) => d[k].ref = 0

\* Release of PrefixCache, block by block.
LEMMA ReleaseFacts ==
  ASSUME NEW c, NEW K, NEW f, IsCache(c)
  PROVE  Releases(c, K, f, Release(c, K, f))
<1> DEFINE d == Release(c, K, f)
           D == {k \in DOMAIN c : k \notin K \/ c[k].ref > 1 \/ (f /\ c[k].full /\ c[k].ready)}
<1>1. d = [k \in D |-> IF k \in K THEN [c[k] EXCEPT !.ref = IF c[k].ref > 1 THEN c[k].ref - 1 ELSE 0] ELSE c[k]]
  <2> DEFINE N == {j \in DOMAIN c : \/ j \notin K
                                    \/ c[j].ref > 1
                                    \/ f /\ c[j].full /\ c[j].ready}
             F(k) == IF k \in K THEN [c[k] EXCEPT !.ref = IF c[k].ref > 1 THEN c[k].ref - 1 ELSE 0] ELSE c[k]
  <2>1. N = D
    OBVIOUS
  <2>2. d = [k \in N |-> F(k)]
    BY DEF Release
  <2> HIDE DEF N, D, F
  <2>3. d = [k \in D |-> F(k)]
    BY <2>1, <2>2
  <2> QED
    BY <2>3 DEF F
<1>2. ASSUME NEW b \in Block, NEW g, g = [b EXCEPT !.ref = IF b.ref > 1 THEN b.ref - 1 ELSE 0]
      PROVE  /\ g \in Block /\ g.full = b.full /\ g.ready = b.ready
             /\ b.ref > 1 => g.ref = b.ref - 1
             /\ ~(b.ref > 1) => g.ref = 0
  BY <1>2 DEF Block
<1>3. \A k \in DOMAIN c : c[k] \in Block
  BY CacheBlocks
<1>4. D \in SUBSET DOMAIN c
  OBVIOUS
<1>5. d = [k \in DOMAIN d |-> d[k]] /\ DOMAIN d = D
  <2> HIDE DEF D, d
  <2> QED
    BY <1>1
<1>6. \A k \in D : d[k] = IF k \in K THEN [c[k] EXCEPT !.ref = IF c[k].ref > 1 THEN c[k].ref - 1 ELSE 0] ELSE c[k]
  <2> HIDE DEF D, d
  <2> QED
    BY <1>1
<1> HIDE DEF d
<1>7. ASSUME NEW k \in DOMAIN d
      PROVE  /\ d[k] \in Block
             /\ k \notin K => d[k] = c[k]
             /\ k \in K => /\ d[k].full = c[k].full /\ d[k].ready = c[k].ready
                           /\ c[k].ref > 1 => d[k].ref = c[k].ref - 1
                           /\ ~(c[k].ref > 1) => d[k].ref = 0
  <2>0. k \in D /\ k \in DOMAIN c
    BY <1>4, <1>5
  <2> HIDE DEF D
  <2>1. c[k] \in Block
    BY <1>3, <2>0
  <2>2. CASE k \notin K
    BY <1>6, <2>0, <2>1, <2>2
  <2>3. CASE k \in K
    <3>1. d[k] = [c[k] EXCEPT !.ref = IF c[k].ref > 1 THEN c[k].ref - 1 ELSE 0]
      BY <1>6, <2>0, <2>3
    <3> QED
      BY <1>2, <2>1, <2>3, <3>1
  <2> QED
    BY <2>2, <2>3
<1>8. IsCache(d)
  BY <1>5, <1>7 DEF IsCache
<1>9. Releases(c, K, f, d)
  BY <1>5, <1>7, <1>8 DEF Releases
<1> QED
  BY <1>9 DEF d

LEMMA ReleaseMore ==
  ASSUME NEW c, IsCache(c), NEW K, NEW k, k \notin K, NEW f
  PROVE  Release(Release(c, K, f), {k}, f) = Release(c, K \cup {k}, f)
<1> DEFINE L == K \cup {k}
           d == Release(c, K, f)
           e == Release(d, {k}, f)
           g == Release(c, L, f)
<1>1. Releases(c, K, f, d)
  BY ReleaseFacts
<1>2. Releases(d, {k}, f, e)
  <2>1. IsCache(d)
    BY <1>1 DEF Releases
  <2> HIDE DEF d
  <2> QED
    BY <2>1, ReleaseFacts
<1>3. Releases(c, L, f, g)
  BY ReleaseFacts
<1>0. d = Release(c, K, f) /\ e = Release(d, {k}, f) /\ g = Release(c, L, f)
  OBVIOUS
<1> HIDE DEF d, e, g
<1>4. \A j : j \in DOMAIN e <=> j \in DOMAIN g
  <2> SUFFICES ASSUME NEW j PROVE j \in DOMAIN e <=> j \in DOMAIN g
    OBVIOUS
  <2>1. CASE j = k
    <3>1. k \in DOMAIN d <=> k \in DOMAIN c
      BY <1>1 DEF Releases
    <3>2. k \in DOMAIN d => d[k] = c[k]
      BY <1>1 DEF Releases
    <3>3. k \in DOMAIN e <=> k \in DOMAIN d /\ (d[k].ref > 1 \/ (f /\ d[k].full /\ d[k].ready))
      BY <1>2 DEF Releases
    <3>4. k \in DOMAIN g <=> k \in DOMAIN c /\ (c[k].ref > 1 \/ (f /\ c[k].full /\ c[k].ready))
      BY <1>3 DEF Releases
    <3> QED
      BY <2>1, <3>1, <3>2, <3>3, <3>4
  <2>2. CASE j # k
    <3>1. j \in DOMAIN e <=> j \in DOMAIN d
      BY <1>2, <2>2 DEF Releases
    <3>2. j \in DOMAIN d <=> j \in DOMAIN g
      BY <1>1, <1>3, <2>2 DEF Releases
    <3> QED
      BY <3>1, <3>2
  <2> QED
    BY <2>1, <2>2
<1> HIDE DEF L
<1>5. \A j \in DOMAIN e : SameBlock(e[j], g[j])
  <2> TAKE j \in DOMAIN e
  <2>0. j \in DOMAIN g /\ j \in DOMAIN d /\ j \in DOMAIN c
    BY <1>1, <1>2, <1>4 DEF Releases
  <2>1. CASE j = k
    <3>1. d[k] = c[k]
      BY <1>1, <2>0, <2>1 DEF Releases
    <3>2. k \in L
      BY DEF L
    <3> QED
      BY <1>2, <1>3, <2>0, <2>1, <3>1, <3>2 DEF Releases, SameBlock
  <2>2. CASE j # k
    <3>1. e[j] = d[j] /\ (j \in L <=> j \in K)
      BY <1>2, <2>2 DEF Releases, L
    <3> QED
      BY <1>1, <1>3, <2>0, <3>1 DEF Releases, SameBlock
  <2> QED
    BY <2>1, <2>2
<1>6. e = g
  <2>1. DOMAIN e = DOMAIN g
    BY <1>4
  <2> QED
    BY <1>2, <1>3, <1>5, <2>1, SameCacheIs DEF Releases
<1> QED
  BY <1>0, <1>6 DEF L

LEMMA AppendList ==
  ASSUME NEW C, NEW s, IsList(C, s), NEW k \in C, k \notin ToSet(s)
  PROVE  IsList(C, Append(s, k))
<1> DEFINE u == Append(s, k)
<1>1. s \in Seq(C) /\ \A i, j \in 1 .. Len(s) : s[i] = s[j] => i = j
  BY DEF IsList
<1>2. /\ u \in Seq(C) /\ Len(u) = Len(s) + 1 /\ u[Len(s) + 1] = k
      /\ \A i \in 1 .. Len(s) : u[i] = s[i]
  BY <1>1, AppendFacts
<1>3. Len(s) \in Nat /\ \A i \in 1 .. Len(s) : s[i] # k
  BY <1>1, SeqFacts
<1> HIDE DEF u
<1>4. \A i \in 1 .. Len(u) : i \in 1 .. Len(s) \/ i = Len(s) + 1
  BY <1>2, <1>3
<1>5. \A i, j \in 1 .. Len(u) : u[i] = u[j] => i = j
  BY <1>1, <1>2, <1>3, <1>4
<1>6. IsList(C, u)
  BY <1>2, <1>5 DEF IsList
<1> QED
  BY <1>6 DEF u

\* A heap with an entry of a new stamp.
LEMMA HeapAdd ==
  ASSUME NEW h, NEW n \in {2, 3}, NEW top \in Nat, IsHeap(h, n, top),
         NEW e, e.order \in Seq(Int), Len(e.order) = n, StampOf(e) = top + 1
  PROVE  IsHeap(h \cup {e}, n, top + 1)
<1>1. IsFiniteSet(h \cup {e})
  BY FS_AddElement DEF IsHeap
<1>2. \A x \in h : StampOf(x) <= top /\ x.order \in Seq(Int) /\ Len(x.order) = n
  BY DEF IsHeap
<1> DEFINE E == h \cup {e}
<1>3. ASSUME NEW x \in h PROVE StampOf(x) \in Int
  <2>1. x.order \in Seq(Int) /\ Len(x.order) \in 1 .. Len(x.order)
    BY <1>2
  <2> QED
    BY <2>1 DEF StampOf, Last
<1>4. ASSUME NEW x \in h PROVE StampOf(x) <= top + 1 /\ StampOf(x) # top + 1
  BY <1>2, <1>3
<1>5. top + 1 <= top + 1
  OBVIOUS
<1>6. \A x \in E : x.order \in Seq(Int) /\ Len(x.order) = n /\ StampOf(x) <= top + 1
  BY <1>2, <1>4, <1>5
<1>7. \A x, y \in h : StampOf(x) = StampOf(y) => x = y
  BY DEF IsHeap
<1>8. \A x, y \in E : StampOf(x) = StampOf(y) => x = y
  BY <1>4, <1>7
<1> QED
  BY <1>1, <1>6, <1>8 DEF IsHeap

\* What release is told of a block's future, for a block that may stay: a time
\* to live, or a rank of two numbers.
RankOK(family, r, f) ==
  /\ family = "ttl" => r \in Int
  /\ family = "priority" /\ f => r \in Seq(Int) /\ Len(r) = 2

\* q is p with the block k in no hand, under a new stamp.
Restored(p, q, k) ==
  /\ DOMAIN q = Fields /\ q.family = p.family /\ q.stamp = p.stamp + 1
  /\ DOMAIN q.index = DOMAIN p.index
  /\ \A j \in DOMAIN p.index \ {k} : q.index[j] = p.index[j]
  /\ q.index[k] \in PoolBlock /\ q.index[k].ref = 0 /\ q.index[k].stamp = p.stamp + 1

\* A pool with a block that became evictable.
LEMMA RestoredFacts ==
  ASSUME NEW p, NEW t, PoolOK(p, t), NEW k \in DOMAIN p.index, p.index[k].ref > 0,
         NEW q, Restored(p, q, k)
  PROVE  /\ IndexOK(q)
         /\ Resting(q) = Resting(p) \cup {k} /\ k \notin Resting(p)
         /\ \A e \in p.expiry \cup p.prio : IsLive(q, e) <=> IsLive(p, e)
         /\ IsHeap(p.expiry, 2, q.stamp) /\ IsHeap(p.prio, 3, q.stamp)
<1>0. /\ DOMAIN p = Fields /\ p.stamp \in Nat /\ p.family \in {"ttl", "priority"}
      /\ DOMAIN p.index \in SUBSET Key /\ IsFiniteSet(DOMAIN p.index)
      /\ \A j \in DOMAIN p.index : p.index[j] \in PoolBlock /\ p.index[j].stamp <= p.stamp
      /\ IsHeap(p.expiry, 2, p.stamp) /\ IsHeap(p.prio, 3, p.stamp)
  BY DEF PoolOK, IndexOK, HeapsOK
<1>1. \A j \in DOMAIN p.index : p.index[j].ref \in Nat /\ p.index[j].stamp \in Nat
  BY <1>0 DEF PoolBlock
<1>2. IndexOK(q)
  <2>1. q.stamp \in Nat /\ q.stamp = p.stamp + 1
    BY <1>0 DEF Restored
  <2>2. \A j \in DOMAIN q.index : q.index[j] \in PoolBlock /\ q.index[j].stamp <= q.stamp
    <3> TAKE j \in DOMAIN q.index
    <3>1. CASE j = k
      BY <2>1, <3>1 DEF Restored
    <3>2. CASE j # k
      BY <1>0, <1>1, <2>1, <3>2 DEF Restored
    <3> QED
      BY <3>1, <3>2
  <2> QED
    BY <1>0, <2>1, <2>2 DEF Restored, IndexOK
<1>3. k \notin Resting(p)
  BY <1>1 DEF Resting
<1>4. Resting(q) = Resting(p) \cup {k}
  BY DEF Resting, Restored
<1>5. ASSUME NEW h, NEW n \in {2, 3}, IsHeap(h, n, p.stamp), NEW e \in h
      PROVE  StampOf(e) \in Int /\ StampOf(e) <= p.stamp
  BY <1>5 DEF IsHeap, StampOf, Last
<1>6. \A e \in p.expiry \cup p.prio : StampOf(e) \in Int /\ StampOf(e) <= p.stamp
  <2>1. \A e \in p.expiry : StampOf(e) \in Int /\ StampOf(e) <= p.stamp
    BY <1>0, <1>5
  <2>2. \A e \in p.prio : StampOf(e) \in Int /\ StampOf(e) <= p.stamp
    BY <1>0, <1>5
  <2> QED
    BY <2>1, <2>2
<1>7. \A e \in p.expiry \cup p.prio : IsLive(q, e) <=> IsLive(p, e)
  <2> TAKE e \in p.expiry \cup p.prio
  <2>1. CASE e.key = k
    <3>1. ~IsLive(p, e)
      BY <1>1, <2>1 DEF IsLive
    <3>2. StampOf(e) # p.stamp + 1
      BY <1>0, <1>6
    <3> QED
      BY <2>1, <3>1, <3>2 DEF IsLive, Restored
  <2>2. CASE e.key # k
    BY <2>2 DEF IsLive, Restored
  <2> QED
    BY <2>1, <2>2
<1>8. ASSUME NEW h, NEW n \in {2, 3}, IsHeap(h, n, p.stamp)
      PROVE  IsHeap(h, n, q.stamp)
  <2>1. \A e \in h : StampOf(e) <= q.stamp
    <3> TAKE e \in h
    <3>1. StampOf(e) \in Int /\ StampOf(e) <= p.stamp
      BY <1>5, <1>8
    <3> QED
      BY <1>0, <3>1 DEF Restored
  <2> QED
    BY <1>8, <2>1 DEF IsHeap
<1> QED
  BY <1>0, <1>2, <1>3, <1>4, <1>7, <1>8

\* A block whose protection has lapsed already joins the expired ones.
LEMMA RestoredExpired ==
  ASSUME NEW p, NEW t \in Int, PoolOK(p, t), p.family = "ttl",
         NEW k \in DOMAIN p.index, p.index[k].ref > 0,
         NEW q, Restored(p, q, k), q.index[k].until <= t,
         q.expired = Append(p.expired, k), q.protected = p.protected, q.evictable = p.evictable,
         q.expiry = p.expiry, q.prio = p.prio
  PROVE  PoolOK(q, t)
<1>0. /\ IsList(Key, p.expired) /\ IsList(Key, p.protected)
      /\ ToSet(p.expired) \cap ToSet(p.protected) = {}
      /\ ToSet(p.expired) \cup ToSet(p.protected) = Resting(p)
      /\ p.evictable = {} /\ p.prio = {} /\ DOMAIN p.index \in SUBSET Key
  BY DEF PoolOK, QueuesOK, IndexOK
<1>1. /\ IndexOK(q) /\ Resting(q) = Resting(p) \cup {k} /\ k \notin Resting(p)
      /\ \A e \in p.expiry \cup p.prio : IsLive(q, e) <=> IsLive(p, e)
      /\ IsHeap(p.expiry, 2, q.stamp) /\ IsHeap(p.prio, 3, q.stamp)
  BY RestoredFacts
<1>2. IsList(Key, q.expired) /\ ToSet(q.expired) = ToSet(p.expired) \cup {k}
  <2>1. k \in Key /\ k \notin ToSet(p.expired) /\ p.expired \in Seq(Key)
    BY <1>0, <1>1 DEF IsList
  <2> QED
    BY <1>0, <2>1, AppendList, AppendFacts
<1>3. QueuesOK(q)
  BY <1>0, <1>1, <1>2 DEF QueuesOK, Restored
<1>4. \A j \in ToSet(p.protected) \cup ToSet(p.expired) : q.index[j] = p.index[j]
  BY <1>0, <1>1 DEF Restored, Resting
<1>5. HeapsOK(q)
  <2>1. \A j \in ToSet(q.protected) : \E e \in q.expiry : e.key = j /\ IsLive(q, e)
    BY <1>1 DEF PoolOK, HeapsOK
  <2>2. \A e \in q.expiry : IsLive(q, e) => e.order[1] = q.index[e.key].until
    <3> SUFFICES ASSUME NEW e \in p.expiry, IsLive(p, e) PROVE e.order[1] = q.index[e.key].until
      BY <1>1
    <3>1. e.order[1] = p.index[e.key].until
      BY DEF PoolOK, HeapsOK
    <3>2. e.key \in Resting(p)
      BY DEF IsLive, Resting
    <3> QED
      BY <1>0, <1>4, <3>1, <3>2
  <2>3. \A j \in q.evictable : \E e \in q.prio : e.key = j /\ IsLive(q, e)
    BY <1>0
  <2> QED
    BY <1>1, <2>1, <2>2, <2>3 DEF HeapsOK
<1>6. InOrder(q)
  <2>1. p.protected \in Seq(Key)
    BY <1>0 DEF IsList
  <2>2. \A i \in 1 .. Len(p.protected) : p.protected[i] \in ToSet(p.protected)
    BY <2>1, SeqFacts
  <2> QED
    BY <1>4, <2>2 DEF PoolOK, DuesOK, InOrder
<1>7. \A j \in ToSet(q.expired) : q.index[j].until <= t
  BY <1>2, <1>4 DEF PoolOK, DuesOK
<1> QED
  BY <1>1, <1>3, <1>5, <1>6, <1>7 DEF PoolOK, DuesOK

\* A protected block joins the end of its queue.
LEMMA RestoredProtected ==
  ASSUME NEW p, NEW t \in Int, PoolOK(p, t), p.family = "ttl",
         NEW k \in DOMAIN p.index, p.index[k].ref > 0,
         NEW q, Restored(p, q, k),
         NEW e0, e0.order = <<q.index[k].until, p.stamp + 1>>, e0.key = k,
         q.expired = p.expired, q.protected = Append(p.protected, k), q.evictable = p.evictable,
         q.expiry = p.expiry \cup {e0}, q.prio = p.prio
  PROVE  PoolOK(q, t)
<1>0. /\ IsList(Key, p.expired) /\ IsList(Key, p.protected)
      /\ ToSet(p.expired) \cap ToSet(p.protected) = {}
      /\ ToSet(p.expired) \cup ToSet(p.protected) = Resting(p)
      /\ p.evictable = {} /\ p.prio = {} /\ DOMAIN p.index \in SUBSET Key
      /\ p.stamp \in Nat
      /\ \A j \in DOMAIN p.index : p.index[j] \in PoolBlock /\ p.index[j].stamp <= p.stamp
  BY DEF PoolOK, QueuesOK, IndexOK
<1>1. /\ IndexOK(q) /\ Resting(q) = Resting(p) \cup {k} /\ k \notin Resting(p)
      /\ \A e \in p.expiry \cup p.prio : IsLive(q, e) <=> IsLive(p, e)
      /\ IsHeap(p.expiry, 2, q.stamp) /\ IsHeap(p.prio, 3, q.stamp)
  BY RestoredFacts
<1>2. p.protected \in Seq(Key) /\ k \in Key /\ k \notin ToSet(p.protected)
  BY <1>0, <1>1 DEF IsList
<1>3. IsList(Key, q.protected) /\ ToSet(q.protected) = ToSet(p.protected) \cup {k}
  BY <1>0, <1>2, AppendList, AppendFacts
<1>4. QueuesOK(q)
  BY <1>0, <1>1, <1>3 DEF QueuesOK, Restored
<1>5. \A j \in ToSet(p.protected) \cup ToSet(p.expired) : q.index[j] = p.index[j]
  BY <1>0, <1>1 DEF Restored, Resting
<1>6. q.index[k].until \in Int /\ q.index[k].stamp = p.stamp + 1 /\ q.index[k].ref = 0
      /\ q.stamp = p.stamp + 1 /\ k \in DOMAIN q.index
  BY DEF Restored, PoolBlock
<1>7. /\ e0.order \in Seq(Int) /\ Len(e0.order) = 2 /\ e0.order[1] = q.index[k].until
      /\ StampOf(e0) = p.stamp + 1
  BY <1>0, <1>6 DEF StampOf, Last
<1>8. IsLive(q, e0)
  BY <1>6, <1>7 DEF IsLive
<1>9. HeapsOK(q)
  <2>0. IsHeap(p.expiry, 2, p.stamp)
    BY DEF PoolOK, HeapsOK
  <2>1. IsHeap(q.expiry, 2, q.stamp)
    <3>1. IsHeap(p.expiry \cup {e0}, 2, p.stamp + 1)
      BY <1>0, <1>7, <2>0, HeapAdd
    <3> QED
      BY <1>6, <3>1
  <2>2. \A j \in ToSet(q.protected) : \E e \in q.expiry : e.key = j /\ IsLive(q, e)
    <3> TAKE j \in ToSet(q.protected)
    <3>1. CASE j = k
      BY <1>8, <3>1
    <3>2. CASE j # k
      <4>1. j \in ToSet(p.protected)
        BY <1>3, <3>2
      <4>2. PICK e \in p.expiry : e.key = j /\ IsLive(p, e)
        BY <4>1 DEF PoolOK, HeapsOK
      <4> QED
        BY <1>1, <4>2
    <3> QED
      BY <3>1, <3>2
  <2>3. \A e \in q.expiry : IsLive(q, e) => e.order[1] = q.index[e.key].until
    <3> SUFFICES ASSUME NEW e \in q.expiry, IsLive(q, e) PROVE e.order[1] = q.index[e.key].until
      OBVIOUS
    <3>1. CASE e = e0
      BY <1>7, <3>1
    <3>2. CASE e # e0
      <4>0. e \in p.expiry /\ IsLive(p, e)
        BY <1>1, <3>2
      <4>1. e.order[1] = p.index[e.key].until
        BY <4>0 DEF PoolOK, HeapsOK
      <4>2. e.key \in Resting(p)
        BY <4>0 DEF IsLive, Resting
      <4> QED
        BY <1>0, <1>5, <4>1, <4>2
    <3> QED
      BY <3>1, <3>2
  <2>4. \A j \in q.evictable : \E e \in q.prio : e.key = j /\ IsLive(q, e)
    BY <1>0
  <2> QED
    BY <1>1, <2>1, <2>2, <2>3, <2>4 DEF HeapsOK
<1>10. InOrder(q)
  <2> DEFINE n == Len(p.protected)
             s == p.protected
             u == q.protected
  <2>0. s \in Seq(Key) /\ u = Append(s, k)
    BY <1>2
  <2>1. /\ n \in Nat /\ Len(u) = n + 1 /\ u[n + 1] = k
        /\ \A i \in 1 .. n : u[i] = s[i] /\ s[i] \in ToSet(s)
    <3> HIDE DEF u, s
    <3>1. /\ Len(u) = Len(s) + 1 /\ u[Len(s) + 1] = k
          /\ \A i \in 1 .. Len(s) : u[i] = s[i]
      BY <1>2, <2>0, AppendFacts
    <3>2. Len(s) \in Nat /\ \A i \in 1 .. Len(s) : s[i] \in ToSet(s)
      BY <2>0, SeqFacts
    <3> QED
      BY <3>1, <3>2 DEF s
  <2>2. \A i \in 1 .. n : /\ q.index[s[i]].stamp = p.index[s[i]].stamp
                          /\ p.index[s[i]].stamp \in Nat /\ p.index[s[i]].stamp <= p.stamp
    <3> TAKE i \in 1 .. n
    <3>1. s[i] \in DOMAIN p.index /\ q.index[s[i]] = p.index[s[i]]
      BY <1>0, <1>5, <2>1 DEF Resting
    <3> QED
      BY <1>0, <3>1 DEF PoolBlock
  <2>3. \A i, j \in 1 .. n : i < j => p.index[s[i]].stamp < p.index[s[j]].stamp
    BY DEF PoolOK, DuesOK, InOrder
  <2> HIDE DEF n, s, u
  <2>4. ASSUME NEW i \in 1 .. Len(u), NEW j \in 1 .. Len(u), i < j
        PROVE  q.index[u[i]].stamp < q.index[u[j]].stamp
    <3>1. i \in 1 .. n
      BY <2>1, <2>4
    <3>2. CASE j \in 1 .. n
      BY <2>1, <2>2, <2>3, <2>4, <3>1, <3>2
    <3>3. CASE j \notin 1 .. n
      <4>1. j = n + 1
        BY <2>1, <3>3
      <4>2. u[j] = k /\ q.index[u[j]].stamp = p.stamp + 1
        BY <1>6, <2>1, <4>1
      <4>3. u[i] = s[i]
        BY <2>1, <3>1
      <4>4. /\ q.index[u[i]].stamp = p.index[s[i]].stamp
            /\ p.index[s[i]].stamp \in Nat /\ p.index[s[i]].stamp <= p.stamp
        BY <2>2, <3>1, <4>3
      <4> QED
        BY <1>0, <4>2, <4>4
    <3> QED
      BY <3>2, <3>3
  <2> QED
    BY <2>4 DEF InOrder, u
<1>11. \A j \in ToSet(q.expired) : q.index[j].until <= t
  BY <1>5 DEF PoolOK, DuesOK
<1> QED
  BY <1>1, <1>4, <1>9, <1>10, <1>11 DEF PoolOK, DuesOK

\* A block of the priority family is evictable by its rank.
LEMMA RestoredRanked ==
  ASSUME NEW p, NEW t \in Int, PoolOK(p, t), p.family = "priority",
         NEW k \in DOMAIN p.index, p.index[k].ref > 0,
         NEW q, Restored(p, q, k),
         NEW e0, e0.order \in Seq(Int), Len(e0.order) = 3, e0.order[3] = p.stamp + 1, e0.key = k,
         q.expired = p.expired, q.protected = p.protected, q.evictable = p.evictable \cup {k},
         q.expiry = p.expiry, q.prio = p.prio \cup {e0}
  PROVE  PoolOK(q, t)
<1>0. /\ IsList(Key, p.expired) /\ IsList(Key, p.protected)
      /\ p.expired = <<>> /\ p.protected = <<>> /\ p.expiry = {}
      /\ (ToSet(p.expired) \cup ToSet(p.protected)) \cup p.evictable = Resting(p)
      /\ p.stamp \in Nat
  BY DEF PoolOK, QueuesOK, IndexOK
<1>1. /\ IndexOK(q) /\ Resting(q) = Resting(p) \cup {k} /\ k \notin Resting(p)
      /\ \A e \in p.expiry \cup p.prio : IsLive(q, e) <=> IsLive(p, e)
      /\ IsHeap(p.expiry, 2, q.stamp) /\ IsHeap(p.prio, 3, q.stamp)
  BY RestoredFacts
<1>2. ToSet(p.expired) = {} /\ ToSet(p.protected) = {}
  BY <1>0, EmptySet
<1>3. QueuesOK(q)
  BY <1>0, <1>1, <1>2 DEF QueuesOK, Restored
<1>4. /\ q.index[k].stamp = p.stamp + 1 /\ q.index[k].ref = 0
      /\ q.stamp = p.stamp + 1 /\ k \in DOMAIN q.index
  BY DEF Restored
<1>5. StampOf(e0) = p.stamp + 1
  BY DEF StampOf, Last
<1>6. IsLive(q, e0)
  BY <1>4, <1>5 DEF IsLive
<1>7. HeapsOK(q)
  <2>0. IsHeap(p.prio, 3, p.stamp)
    BY DEF PoolOK, HeapsOK
  <2>1. IsHeap(q.prio, 3, q.stamp)
    <3>1. IsHeap(p.prio \cup {e0}, 3, p.stamp + 1)
      BY <1>0, <1>5, <2>0, HeapAdd
    <3> QED
      BY <1>4, <3>1
  <2>2. \A j \in q.evictable : \E e \in q.prio : e.key = j /\ IsLive(q, e)
    <3> TAKE j \in q.evictable
    <3>1. CASE j = k
      BY <1>6, <3>1
    <3>2. CASE j # k
      <4>1. j \in p.evictable
        BY <3>2
      <4>2. PICK e \in p.prio : e.key = j /\ IsLive(p, e)
        BY <4>1 DEF PoolOK, HeapsOK
      <4> QED
        BY <1>1, <4>2
    <3> QED
      BY <3>1, <3>2
  <2>3. \A j \in ToSet(q.protected) : \E e \in q.expiry : e.key = j /\ IsLive(q, e)
    BY <1>2
  <2>4. \A e \in q.expiry : IsLive(q, e) => e.order[1] = q.index[e.key].until
    BY <1>0
  <2> QED
    BY <1>1, <2>1, <2>2, <2>3, <2>4 DEF HeapsOK
<1>8. InOrder(q)
  <2>1. Len(q.protected) = 0
    BY <1>0
  <2> QED
    BY <2>1 DEF InOrder
<1>9. \A j \in ToSet(q.expired) : q.index[j].until <= t
  BY <1>2
<1> QED
  BY <1>1, <1>3, <1>7, <1>8, <1>9 DEF PoolOK, DuesOK

\* The block of an index that one reference was dropped from.
OneLess(p, q, k, f) ==
  /\ DOMAIN q.index = IF p.index[k].ref > 1 \/ (f /\ p.index[k].full /\ p.index[k].ready)
                      THEN DOMAIN p.index ELSE DOMAIN p.index \ {k}
  /\ \A j \in DOMAIN p.index \ {k} : q.index[j] = p.index[j]
  /\ k \in DOMAIN q.index =>
       /\ q.index[k].full = p.index[k].full /\ q.index[k].ready = p.index[k].ready
       /\ p.index[k].ref > 1 => q.index[k].ref = p.index[k].ref - 1
       /\ ~(p.index[k].ref > 1) => q.index[k].ref = 0

LEMMA ReleasedContents ==
  ASSUME NEW p, NEW t, PoolOK(p, t), NEW k \in DOMAIN p.index, NEW f, NEW q, PoolOK(q, t),
         OneLess(p, q, k, f)
  PROVE  Contents(q) = Release(Contents(p), {k}, f)
<1> DEFINE c == Contents(p)
           d == Release(c, {k}, f)
<1>1. /\ IsCache(c) /\ DOMAIN c = DOMAIN p.index
      /\ \A j \in DOMAIN c : SameBlock(c[j], p.index[j])
  BY ContentsFacts
<1> HIDE DEF c
<1>2. Releases(c, {k}, f, d)
  BY <1>1, ReleaseFacts
<1> HIDE DEF d
<1>3. c[k].ref = p.index[k].ref /\ c[k].full = p.index[k].full /\ c[k].ready = p.index[k].ready
  BY <1>1 DEF SameBlock
<1>4. DOMAIN d = DOMAIN q.index
  <2>1. \A j : j \in DOMAIN d <=> j \in DOMAIN q.index
    <3> SUFFICES ASSUME NEW j PROVE j \in DOMAIN d <=> j \in DOMAIN q.index
      OBVIOUS
    <3>1. CASE j = k
      BY <1>1, <1>2, <1>3, <3>1 DEF Releases, OneLess
    <3>2. CASE j # k
      BY <1>1, <1>2, <3>2 DEF Releases, OneLess
    <3> QED
      BY <3>1, <3>2
  <2> QED
    BY <2>1
<1>5. \A j \in DOMAIN d : SameBlock(d[j], q.index[j])
  <2> TAKE j \in DOMAIN d
  <2>1. CASE j = k
    BY <1>2, <1>3, <1>4, <2>1 DEF Releases, SameBlock, OneLess
  <2>2. CASE j # k
    <3>1. d[j] = c[j] /\ j \in DOMAIN c
      BY <1>2, <2>2 DEF Releases
    <3> QED
      BY <1>1, <2>2, <3>1 DEF SameBlock, OneLess
  <2> QED
    BY <2>1, <2>2
<1>6. Contents(q) = d
  BY <1>2, <1>4, <1>5, ContentsAre DEF Releases
<1> QED
  BY <1>6 DEF c, d

IsEntry(C, c, n) == c \in Seq(C) /\ Len(c) = 3 /\ c[3] = n

IsJoin(C, a, b, c) ==
  /\ c \in Seq(C) /\ Len(c) = Len(a) + Len(b)
  /\ \A i \in 1 .. Len(c) : c[i] = IF i <= Len(a) THEN a[i] ELSE b[i - Len(a)]

LEMMA JoinedFacts ==
  ASSUME NEW C, NEW a \in Seq(C), NEW b \in Seq(C), NEW c, c = Joined(a, b)
  PROVE  IsJoin(C, a, b, c)
<1>1. /\ c \in Seq(C) /\ Len(c) = Len(a) + Len(b)
      /\ \A i \in 1 .. Len(c) : c[i] = IF i <= Len(a) THEN a[i] ELSE b[i - Len(a)]
  BY DEF Joined
<1> QED
  BY <1>1 DEF IsJoin

LEMMA RankEntry ==
  ASSUME NEW C, NEW r \in Seq(C), Len(r) = 2, NEW y \in Seq(C), Len(y) = 1
  PROVE  IsEntry(C, Joined(r, y), y[1])
<1> DEFINE c == Joined(r, y)
<1>0. IsJoin(C, r, y, c)
  BY JoinedFacts
<1>1. /\ c \in Seq(C) /\ Len(c) = Len(r) + Len(y)
      /\ \A i \in 1 .. Len(c) : c[i] = IF i <= Len(r) THEN r[i] ELSE y[i - Len(r)]
  <2> HIDE DEF c
  <2> QED
    BY <1>0 DEF IsJoin
<1> HIDE DEF c
<1>2. Len(c) = 3 /\ 3 \in 1 .. Len(c) /\ ~(3 <= Len(r)) /\ 3 - Len(r) = 1
  BY <1>1
<1>3. c[3] = y[1]
  BY <1>1, <1>2
<1>4. IsEntry(C, c, y[1])
  BY <1>1, <1>2, <1>3 DEF IsEntry
<1> QED
  BY <1>4 DEF c

\* _release_one, of a block that is held: in the ttl family, and by rank.
LEMMA ReleaseBlockKeeps ==
  ASSUME NEW p, NEW t \in Int, PoolOK(p, t), NEW k \in DOMAIN p.index, p.index[k].ref > 0,
         NEW r, NEW f \in BOOLEAN, RankOK(p.family, r, f),
         NEW q, q = ReleaseBlock(p, k, t, r, f)
  PROVE  PoolOK(q, t) /\ q.family = p.family /\ Contents(q) = Release(Contents(p), {k}, f)
<1>0. /\ DOMAIN p = Fields /\ p.stamp \in Nat /\ p.stamp <= p.stamp
      /\ DOMAIN p.index \in SUBSET Key /\ IsFiniteSet(DOMAIN p.index)
      /\ \A j \in DOMAIN p.index : p.index[j] \in PoolBlock /\ p.index[j].stamp <= p.stamp
      /\ IsList(Key, p.expired) /\ IsList(Key, p.protected)
  BY DEF PoolOK, IndexOK, QueuesOK
<1> DEFINE b == p.index[k]
<1>1. b \in PoolBlock /\ b.ref \in Nat /\ b.ref > 0 /\ b.full \in BOOLEAN /\ b.ready \in BOOLEAN
      /\ b.stamp \in Nat /\ b.until \in Int
  BY <1>0 DEF PoolBlock
<1>2. k \notin ToSet(p.expired) /\ k \notin ToSet(p.protected) /\ k \notin p.evictable
  <2>1. k \notin Resting(p)
    BY <1>1 DEF Resting
  <2> QED
    BY <2>1, RestingQueues
<1>3. SameOrder(p.protected, p.protected)
  BY <1>0, SameOrderSelf DEF IsList
<1>4. CASE b.ref > 1
  <2>1. q = [p EXCEPT !.index[k].ref = @ - 1]
    BY <1>4 DEF ReleaseBlock
  <2> DEFINE g == [b EXCEPT !.ref = b.ref - 1]
             I == [p.index EXCEPT ![k] = g]
  <2>2. q = [p EXCEPT !.index = I]
    BY <1>0, <2>1 DEF Fields
  <2>3. /\ g \in PoolBlock /\ g.ref = b.ref - 1 /\ g.ref > 0 /\ g.stamp = b.stamp
        /\ g.full = b.full /\ g.ready = b.ready
    BY <1>1, <1>4 DEF PoolBlock
  <2> HIDE DEF g
  <2>4. /\ DOMAIN I = DOMAIN p.index /\ I[k] = g
        /\ \A j \in DOMAIN p.index \ {k} : I[j] = p.index[j]
    OBVIOUS
  <2> HIDE DEF I
  <2>5. /\ DOMAIN q = Fields /\ q.family = p.family /\ q.index = I /\ q.stamp = p.stamp
        /\ q.expired = p.expired /\ q.protected = p.protected /\ q.evictable = p.evictable
        /\ q.expiry = p.expiry /\ q.prio = p.prio
    BY <1>0, <2>2 DEF Fields
  <2>6. Takes(p, q, {k})
    BY <1>0, <1>2, <1>3, <2>3, <2>4, <2>5 DEF Takes, SameClock
  <2>7. PoolOK(q, t)
    BY <2>6, TakesKeeps
  <2>8. Contents(q) = Release(Contents(p), {k}, f)
    <3>1. DOMAIN q.index = IF p.index[k].ref > 1 \/ (f /\ p.index[k].full /\ p.index[k].ready)
                           THEN DOMAIN p.index ELSE DOMAIN p.index \ {k}
      BY <1>4, <2>4, <2>5
    <3>2. \A j \in DOMAIN p.index \ {k} : q.index[j] = p.index[j]
      BY <2>4, <2>5
    <3>3. k \in DOMAIN q.index =>
           /\ q.index[k].full = p.index[k].full /\ q.index[k].ready = p.index[k].ready
           /\ p.index[k].ref > 1 => q.index[k].ref = p.index[k].ref - 1
           /\ ~(p.index[k].ref > 1) => q.index[k].ref = 0
      BY <1>4, <2>3, <2>4, <2>5
    <3> HIDE DEF b
    <3> QED
      <4>1. OneLess(p, q, k, f)
        BY <3>1, <3>2, <3>3 DEF OneLess
      <4> QED
        BY <2>7, <4>1, ReleasedContents
  <2> QED
    BY <2>5, <2>7, <2>8
<1>5. CASE ~(b.ref > 1) /\ ~Keeps(b, f)
  <2>1. q = Dropped(p, {k})
    BY <1>5 DEF ReleaseBlock
  <2> DEFINE I == [j \in DOMAIN p.index \ {k} |-> p.index[j]]
  <2>2. q = [p EXCEPT !.index = I]
    BY <1>0, <2>1 DEF Dropped, Fields
  <2>3. /\ DOMAIN I = DOMAIN p.index \ {k}
        /\ \A j \in DOMAIN p.index \ {k} : I[j] = p.index[j]
    OBVIOUS
  <2> HIDE DEF I
  <2>4. /\ DOMAIN q = Fields /\ q.family = p.family /\ q.index = I /\ q.stamp = p.stamp
        /\ q.expired = p.expired /\ q.protected = p.protected /\ q.evictable = p.evictable
        /\ q.expiry = p.expiry /\ q.prio = p.prio
    BY <1>0, <2>2 DEF Fields
  <2>5. IsFiniteSet(DOMAIN I)
    BY <1>0, <2>3, FS_Subset
  <2>6. Takes(p, q, {k})
    BY <1>0, <1>2, <1>3, <2>3, <2>4, <2>5 DEF Takes, SameClock
  <2>7. PoolOK(q, t)
    BY <2>6, TakesKeeps
  <2>8. ~(b.ref > 1 \/ (f /\ b.full /\ b.ready))
    BY <1>5 DEF Keeps
  <2>9. Contents(q) = Release(Contents(p), {k}, f)
    <3>1. OneLess(p, q, k, f)
      BY <2>3, <2>4, <2>8 DEF OneLess
    <3> QED
      BY <2>7, <3>1, ReleasedContents
  <2> QED
    BY <2>4, <2>7, <2>9
<1>6. CASE ~(b.ref > 1) /\ Keeps(b, f)
  <2> DEFINE n == p.stamp + 1
  <2>0. n \in Nat /\ f /\ b.full /\ b.ready
    BY <1>0, <1>6 DEF Keeps
  <2>1. ASSUME PoolOK(q, t), Restored(p, q, k), q.index[k].full = b.full, q.index[k].ready = b.ready
        PROVE  Contents(q) = Release(Contents(p), {k}, f)
    <3>1. DOMAIN q.index = IF p.index[k].ref > 1 \/ (f /\ p.index[k].full /\ p.index[k].ready)
                           THEN DOMAIN p.index ELSE DOMAIN p.index \ {k}
      BY <2>0, <2>1 DEF Restored
    <3>2. \A j \in DOMAIN p.index \ {k} : q.index[j] = p.index[j]
      BY <2>1 DEF Restored
    <3>3. k \in DOMAIN q.index =>
           /\ q.index[k].full = p.index[k].full /\ q.index[k].ready = p.index[k].ready
           /\ p.index[k].ref > 1 => q.index[k].ref = p.index[k].ref - 1
           /\ ~(p.index[k].ref > 1) => q.index[k].ref = 0
      BY <1>6, <2>1 DEF Restored
    <3> HIDE DEF b
    <3> QED
      <4>1. OneLess(p, q, k, f)
        BY <3>1, <3>2, <3>3 DEF OneLess
      <4> QED
        BY <2>1, <4>1, ReleasedContents
  <2>2. CASE p.family = "ttl"
    <3> DEFINE ttl == IF r > 0 THEN r ELSE 0
               u == t + ttl
               g == [b EXCEPT !.ref = 0, !.stamp = n, !.until = u]
               I == [p.index EXCEPT ![k] = g]
               X == IF ttl = 0 THEN Append(p.expired, k) ELSE p.expired
               Y == IF ttl > 0 THEN Append(p.protected, k) ELSE p.protected
               e0 == NewEntry(<<u, n>>, k)
               H == IF ttl > 0 THEN p.expiry \cup {e0} ELSE p.expiry
    <3>1. r \in Int
      BY <2>2 DEF RankOK
    <3>2. ttl \in Nat /\ u \in Int /\ (ttl = 0 => u <= t)
      BY <3>1
    <3>3. q = [p EXCEPT !.stamp = n, !.index = I, !.expired = X, !.protected = Y, !.expiry = H]
      <4>1. q = [p EXCEPT !.stamp = p.stamp + 1,
                     !.index[k] = [b EXCEPT !.ref = 0, !.stamp = p.stamp + 1, !.until = t + ttl],
                     !.expired = IF ttl = 0 THEN Append(@, k) ELSE @,
                     !.protected = IF ttl > 0 THEN Append(@, k) ELSE @,
                     !.expiry = IF ttl > 0 THEN @ \cup {NewEntry(<<t + ttl, p.stamp + 1>>, k)} ELSE @]
        <5> HIDE DEF ttl
        <5> QED
          BY <1>6, <2>2 DEF ReleaseBlock, ttl
      <4> HIDE DEF ttl
      <4>2. q = [p EXCEPT !.stamp = n,
                     !.index = I,
                     !.expired = IF ttl = 0 THEN Append(@, k) ELSE @,
                     !.protected = IF ttl > 0 THEN Append(@, k) ELSE @,
                     !.expiry = IF ttl > 0 THEN @ \cup {e0} ELSE @]
        BY <1>0, <4>1 DEF Fields
      <4> HIDE DEF I, e0, n
      <4> QED
        BY <1>0, <4>2 DEF Fields
    <3> HIDE DEF ttl, u
    <3>4. /\ g \in PoolBlock /\ g.ref = 0 /\ g.stamp = n /\ g.until = u
          /\ g.full = b.full /\ g.ready = b.ready
      BY <1>1, <2>0, <3>2 DEF PoolBlock
    <3>5. e0.order = <<u, n>> /\ e0.key = k
      BY DEF NewEntry
    <3> HIDE DEF g
    <3>6. /\ DOMAIN I = DOMAIN p.index /\ I[k] = g
          /\ \A j \in DOMAIN p.index \ {k} : I[j] = p.index[j]
      OBVIOUS
    <3>7. /\ ttl = 0 => X = Append(p.expired, k) /\ Y = p.protected /\ H = p.expiry
          /\ ttl > 0 => X = p.expired /\ Y = Append(p.protected, k) /\ H = p.expiry \cup {e0}
      BY <3>2
    <3> HIDE DEF I, X, Y, H, e0, n
    <3>8. /\ DOMAIN q = Fields /\ q.family = p.family /\ q.index = I /\ q.stamp = n
          /\ q.expired = X /\ q.protected = Y /\ q.evictable = p.evictable
          /\ q.expiry = H /\ q.prio = p.prio
      BY <1>0, <3>3 DEF Fields
    <3>9. Restored(p, q, k)
      BY <3>4, <3>6, <3>8 DEF Restored, n
    <3>10. q.index[k].until = u /\ q.index[k].full = b.full /\ q.index[k].ready = b.ready
      BY <3>4, <3>6, <3>8
    <3>11. CASE ttl = 0
      <4>1. PoolOK(q, t)
        BY <1>1, <2>2, <3>2, <3>7, <3>8, <3>9, <3>10, <3>11, RestoredExpired
      <4> QED
        BY <2>1, <3>8, <3>9, <3>10, <4>1
    <3>12. CASE ttl > 0
      <4>1. e0.order = <<q.index[k].until, p.stamp + 1>>
        BY <3>5, <3>10 DEF n
      <4>2. PoolOK(q, t)
        BY <1>1, <2>2, <3>5, <3>7, <3>8, <3>9, <3>12, <4>1, RestoredProtected
      <4> QED
        BY <2>1, <3>8, <3>9, <3>10, <4>2
    <3> QED
      BY <3>2, <3>11, <3>12
  <2>3. CASE p.family = "priority"
    <3> DEFINE g == [b EXCEPT !.ref = 0, !.stamp = n]
               I == [p.index EXCEPT ![k] = g]
               Z == p.evictable \cup {k}
               o == r \o <<n>>
               e0 == NewEntry(o, k)
               H == p.prio \cup {e0}
    <3>1. r \in Seq(Int) /\ Len(r) = 2
      BY <2>0, <2>3 DEF RankOK
    <3>2. o \in Seq(Int) /\ Len(o) = 3 /\ o[3] = n
      <4> DEFINE y == <<n>>
      <4>1. y \in Seq(Int) /\ Len(y) = 1 /\ y[1] = n
        BY <2>0
      <4>2. o = Joined(r, y)
        BY DEF Joined
      <4> HIDE DEF y, o
      <4>3. IsEntry(Int, Joined(r, y), y[1])
        BY <3>1, <4>1, RankEntry
      <4> QED
        BY <4>1, <4>2, <4>3 DEF IsEntry
    <3>3. q = [p EXCEPT !.stamp = n, !.index = I, !.evictable = Z, !.prio = H]
      <4>1. q = [p EXCEPT !.stamp = n, !.index[k] = g,
                     !.evictable = @ \cup {k}, !.prio = @ \cup {e0}]
        <5>1. p.family # "ttl"
          BY <2>3
        <5> HIDE DEF e0
        <5> QED
          BY <1>6, <5>1 DEF ReleaseBlock, e0
      <4> HIDE DEF g, e0, n
      <4> QED
        BY <1>0, <4>1 DEF Fields
    <3> HIDE DEF o
    <3>4. /\ g \in PoolBlock /\ g.ref = 0 /\ g.stamp = n
          /\ g.full = b.full /\ g.ready = b.ready
      BY <1>1, <2>0 DEF PoolBlock
    <3>5. e0.order = o /\ e0.key = k
      BY DEF NewEntry
    <3> HIDE DEF g
    <3>6. /\ DOMAIN I = DOMAIN p.index /\ I[k] = g
          /\ \A j \in DOMAIN p.index \ {k} : I[j] = p.index[j]
          /\ Z = p.evictable \cup {k} /\ H = p.prio \cup {e0}
      OBVIOUS
    <3> HIDE DEF I, Z, H, e0, n
    <3>7. /\ DOMAIN q = Fields /\ q.family = p.family /\ q.index = I /\ q.stamp = n
          /\ q.expired = p.expired /\ q.protected = p.protected /\ q.evictable = Z
          /\ q.expiry = p.expiry /\ q.prio = H
      BY <1>0, <3>3 DEF Fields
    <3>8. Restored(p, q, k)
      BY <3>4, <3>6, <3>7 DEF Restored, n
    <3>9. q.index[k].full = b.full /\ q.index[k].ready = b.ready
      BY <3>4, <3>6, <3>7
    <3>10. PoolOK(q, t)
      <4>1. e0.order \in Seq(Int) /\ Len(e0.order) = 3 /\ e0.order[3] = p.stamp + 1
        BY <3>2, <3>5 DEF n
      <4> QED
        BY <1>1, <2>3, <3>5, <3>6, <3>7, <3>8, <4>1, RestoredRanked
    <3> QED
      BY <2>1, <3>7, <3>8, <3>9, <3>10
  <2> QED
    BY <2>2, <2>3 DEF PoolOK, IndexOK
<1> QED
  BY <1>4, <1>5, <1>6

\* Releasing the blocks of a list, each held.
LEMMA ReleaseKeeps ==
  ASSUME NEW p, NEW t \in Int, PoolOK(p, t), NEW s, IsList(Key, s),
         ToSet(s) \in SUBSET DOMAIN p.index, \A k \in ToSet(s) : p.index[k].ref > 0,
         NEW r, NEW f \in BOOLEAN, RankOK(p.family, r, f)
  PROVE  LET q == ReleaseChain(p, s, t, r, f)
         IN  /\ PoolOK(q, t) /\ q.family = p.family
             /\ Contents(q) = Release(Contents(p), ToSet(s), f)
<1> DEFINE n == Len(s)
           To(m) == {s[i] : i \in 1 .. m}
           c == Contents(p)
<1>0. /\ n \in Nat /\ ToSet(s) = To(n) /\ \A i, j \in 1 .. n : s[i] = s[j] => i = j
      /\ \A i \in 1 .. n : s[i] \in DOMAIN p.index /\ p.index[s[i]].ref > 0
  BY SeqFacts DEF IsList
<1>1. PICK g : /\ g[0] = p
               /\ \A i \in 1 .. n : g[i] = ReleaseBlock(g[i - 1], s[i], t, r, f)
               /\ ReleaseChain(p, s, t, r, f) = g[n]
  <2> HIDE DEF c, To
  <2> QED
    BY <1>0, ReleaseWalk
<1>2. IsCache(c) /\ DOMAIN c = DOMAIN p.index /\ \A k \in DOMAIN c : SameBlock(c[k], p.index[k])
  BY ContentsFacts
<1> DEFINE Good(q, m) == /\ PoolOK(q, t) /\ q.family = p.family
                         /\ Contents(q) = Release(c, To(m), f)
           P == {m \in 0 .. n : Good(g[m], m)}
<1>3. Contents(p) = c
  OBVIOUS
<1> HIDE DEF n, c
<1>4. 0 \in P
  <2>1. To(0) = {}
    OBVIOUS
  <2>2. Release(c, {}, f) = c
    <3> DEFINE d == Release(c, {}, f)
    <3>1. Releases(c, {}, f, d)
      BY <1>2, ReleaseFacts
    <3> HIDE DEF d
    <3>2. DOMAIN d = DOMAIN c
      BY <3>1 DEF Releases
    <3>3. \A k \in DOMAIN d : SameBlock(d[k], c[k])
      BY <3>1 DEF Releases, SameBlock
    <3>4. d = c
      BY <1>2, <3>1, <3>2, <3>3, SameCacheIs DEF Releases
    <3> QED
      BY <3>4 DEF d
  <2>3. Good(p, 0)
    BY <1>3, <2>1, <2>2
  <2> QED
    BY <1>0, <1>1, <2>3
<1>5. ASSUME NEW m \in 0 .. (n - 1), m \in P PROVE m + 1 \in P
  <2>1. Good(g[m], m)
    BY <1>5
  <2>2. m \in Nat /\ m + 1 \in 1 .. n /\ (m + 1) - 1 = m /\ m + 1 \in 0 .. n
    BY <1>0
  <2> DEFINE k == s[m + 1]
             q == g[m]
             h == g[m + 1]
             d == Release(c, To(m), f)
  <2>3. h = ReleaseBlock(q, k, t, r, f)
    BY <1>1, <2>2
  <2>4. To(m + 1) = To(m) \cup {k}
    <3>1. 1 .. m + 1 = (1 .. m) \cup {m + 1}
      BY <2>2
    <3> QED
      BY <3>1
  <2>5. k \notin To(m)
    <3>1. \A i \in 1 .. m : i \in 1 .. n /\ i # m + 1
      BY <1>0, <2>2
    <3> QED
      BY <1>0, <2>2, <3>1
  <2>6. k \in DOMAIN p.index /\ p.index[k].ref > 0
    BY <1>0, <2>2
  <2>7. PoolOK(q, t) /\ q.family = p.family /\ Contents(q) = d
    BY <2>1
  <2> HIDE DEF To, k, q, h
  <2>8. Releases(c, To(m), f, d)
    BY <1>2, ReleaseFacts
  <2>9. k \in DOMAIN q.index /\ q.index[k].ref > 0
    <3>1. /\ DOMAIN Contents(q) = DOMAIN q.index
          /\ \A j \in DOMAIN Contents(q) : SameBlock(Contents(q)[j], q.index[j])
      BY <2>7, ContentsFacts
    <3>2. k \in DOMAIN c /\ c[k].ref > 0
      BY <1>2, <2>6 DEF SameBlock
    <3>3. k \in DOMAIN d /\ d[k] = c[k]
      BY <2>5, <2>8, <3>2 DEF Releases
    <3> HIDE DEF d
    <3> QED
      BY <2>7, <3>1, <3>2, <3>3 DEF SameBlock
  <2>10. PoolOK(h, t) /\ h.family = q.family /\ Contents(h) = Release(Contents(q), {k}, f)
    <3>1. RankOK(q.family, r, f) /\ PoolOK(q, t)
      BY <2>7
    <3> HIDE DEF Good, P, d
    <3> QED
      BY <2>3, <2>9, <3>1, ReleaseBlockKeeps
  <2>11. Contents(h) = Release(c, To(m + 1), f)
    BY <1>2, <2>4, <2>5, <2>7, <2>10, ReleaseMore
  <2>12. Good(h, m + 1)
    BY <2>7, <2>10, <2>11
  <2> QED
    BY <2>2, <2>12 DEF h
<1> HIDE DEF P
<1>6. n \in P
  <2>1. \A i \in 0 .. n : i \in P
    BY <1>0, <1>4, <1>5, UpTo
  <2> QED
    BY <1>0, <2>1
<1>7. Good(g[n], n)
  BY <1>6 DEF P
<1> QED
  BY <1>0, <1>1, <1>3, <1>7

(***************************************************************************)
(* Marking blocks.                                                         *)
(***************************************************************************)
\* q is p with some blocks marked.
Marked(p, q) ==
  /\ q.family = p.family /\ DOMAIN q.index = DOMAIN p.index
  /\ \A k \in DOMAIN p.index : SameClock(q.index[k], p.index[k])
  /\ Resting(q) = Resting(p) /\ q.prio = p.prio
  /\ \A e : IsLive(q, e) <=> IsLive(p, e)

\* Marks disturb no queue.
LEMMA MarkKeeps ==
  ASSUME NEW p, NEW t, PoolOK(p, t), NEW I,
         I = [k \in DOMAIN I |-> I[k]], DOMAIN I = DOMAIN p.index,
         \A k \in DOMAIN I : I[k] \in PoolBlock /\ SameClock(I[k], p.index[k]),
         NEW q, q = [p EXCEPT !.index = I]
  PROVE  PoolOK(q, t) /\ Marked(p, q) /\ (Reaped(p, t) => Reaped(q, t))
<1>0. /\ DOMAIN p = Fields /\ p.stamp \in Nat /\ p.stamp <= p.stamp
      /\ DOMAIN p.index \in SUBSET Key /\ IsFiniteSet(DOMAIN p.index)
      /\ IsList(Key, p.expired) /\ IsList(Key, p.protected)
  BY DEF PoolOK, IndexOK, QueuesOK
<1>1. /\ DOMAIN q = Fields /\ q.family = p.family /\ q.index = I /\ q.stamp = p.stamp
      /\ q.expired = p.expired /\ q.protected = p.protected /\ q.evictable = p.evictable
      /\ q.expiry = p.expiry /\ q.prio = p.prio
  BY <1>0 DEF Fields
<1>2. SameOrder(p.protected, p.protected)
  BY <1>0, SameOrderSelf DEF IsList
<1>3. Takes(p, q, {})
  BY <1>0, <1>1, <1>2 DEF Takes
<1>4. PoolOK(q, t) /\ Resting(q) = Resting(p) /\ (Reaped(p, t) => Reaped(q, t))
  BY <1>3, TakesKeeps
<1>5. \A e : IsLive(q, e) <=> IsLive(p, e)
  BY <1>3, TakesLive
<1> QED
  BY <1>1, <1>4, <1>5 DEF Marked

\* c with the blocks of K marked full, or ready, is d.
MarksFull(c, K, d) ==
  /\ IsCache(d) /\ DOMAIN d = DOMAIN c
  /\ \A k \in DOMAIN c : d[k].ref = c[k].ref /\ d[k].ready = c[k].ready
                         /\ d[k].full = (k \in K \/ c[k].full)

MarksReady(c, K, d) ==
  /\ IsCache(d) /\ DOMAIN d = DOMAIN c
  /\ \A k \in DOMAIN c : d[k].ref = c[k].ref /\ d[k].full = c[k].full
                         /\ d[k].ready = (k \in K \/ c[k].ready)

\* MarkFull and MarkReady of PrefixCache, block by block.
LEMMA MarkFacts ==
  ASSUME NEW c, IsCache(c), NEW K
  PROVE  MarksFull(c, K, MarkFull(c, K)) /\ MarksReady(c, K, MarkReady(c, K))
<1>0. \A k \in DOMAIN c : c[k] \in Block
  BY CacheBlocks
<1>1. MarksFull(c, K, MarkFull(c, K))
  <2> DEFINE d == MarkFull(c, K)
  <2>1. /\ DOMAIN d = DOMAIN c /\ d = [k \in DOMAIN d |-> d[k]]
        /\ \A k \in DOMAIN c : d[k] = IF k \in K THEN [c[k] EXCEPT !.full = TRUE] ELSE c[k]
    BY DEF MarkFull
  <2> HIDE DEF d
  <2>2. ASSUME NEW b \in Block, NEW g, g = [b EXCEPT !.full = TRUE]
        PROVE  g \in Block /\ g.ref = b.ref /\ g.ready = b.ready /\ g.full = TRUE
    BY <2>2 DEF Block
  <2>3. ASSUME NEW k \in DOMAIN c
        PROVE  /\ d[k] \in Block /\ d[k].ref = c[k].ref /\ d[k].ready = c[k].ready
               /\ d[k].full = (k \in K \/ c[k].full)
    <3>1. c[k] \in Block /\ c[k].full \in BOOLEAN
      BY <1>0 DEF Block
    <3>2. CASE k \in K
      <4>1. d[k] = [c[k] EXCEPT !.full = TRUE]
        BY <2>1, <3>2
      <4> QED
        BY <2>2, <3>1, <3>2, <4>1
    <3>3. CASE k \notin K
      <4>1. d[k] = c[k]
        BY <2>1, <3>3
      <4> QED
        BY <3>1, <3>3, <4>1
    <3> QED
      BY <3>2, <3>3
  <2>4. IsCache(d)
    BY <2>1, <2>3 DEF IsCache
  <2>5. MarksFull(c, K, d)
    BY <2>1, <2>3, <2>4 DEF MarksFull
  <2> QED
    BY <2>5 DEF d
<1>2. MarksReady(c, K, MarkReady(c, K))
  <2> DEFINE d == MarkReady(c, K)
  <2>1. /\ DOMAIN d = DOMAIN c /\ d = [k \in DOMAIN d |-> d[k]]
        /\ \A k \in DOMAIN c : d[k] = IF k \in K THEN [c[k] EXCEPT !.ready = TRUE] ELSE c[k]
    BY DEF MarkReady
  <2> HIDE DEF d
  <2>2. ASSUME NEW b \in Block, NEW g, g = [b EXCEPT !.ready = TRUE]
        PROVE  g \in Block /\ g.ref = b.ref /\ g.full = b.full /\ g.ready = TRUE
    BY <2>2 DEF Block
  <2>3. ASSUME NEW k \in DOMAIN c
        PROVE  /\ d[k] \in Block /\ d[k].ref = c[k].ref /\ d[k].full = c[k].full
               /\ d[k].ready = (k \in K \/ c[k].ready)
    <3>1. c[k] \in Block /\ c[k].ready \in BOOLEAN
      BY <1>0 DEF Block
    <3>2. CASE k \in K
      <4>1. d[k] = [c[k] EXCEPT !.ready = TRUE]
        BY <2>1, <3>2
      <4> QED
        BY <2>2, <3>1, <3>2, <4>1
    <3>3. CASE k \notin K
      <4>1. d[k] = c[k]
        BY <2>1, <3>3
      <4> QED
        BY <3>1, <3>3, <4>1
    <3> QED
      BY <3>2, <3>3
  <2>4. IsCache(d)
    BY <2>1, <2>3 DEF IsCache
  <2>5. MarksReady(c, K, d)
    BY <2>1, <2>3, <2>4 DEF MarksReady
  <2> QED
    BY <2>5 DEF d
<1> QED
  BY <1>1, <1>2

\* mark_full and mark_ready.
LEMMA SetKeeps ==
  ASSUME NEW p, NEW t, PoolOK(p, t), NEW K
  PROVE  /\ PoolOK(SetFull(p, K), t) /\ Marked(p, SetFull(p, K))
         /\ Contents(SetFull(p, K)) = MarkFull(Contents(p), K)
         /\ PoolOK(SetReady(p, K), t) /\ Marked(p, SetReady(p, K))
         /\ Contents(SetReady(p, K)) = MarkReady(Contents(p), K)
<1> DEFINE c == Contents(p)
<1>0. /\ IsCache(c) /\ DOMAIN c = DOMAIN p.index
      /\ \A k \in DOMAIN c : SameBlock(c[k], p.index[k])
  BY ContentsFacts
<1> HIDE DEF c
<1>1. MarksFull(c, K, MarkFull(c, K)) /\ MarksReady(c, K, MarkReady(c, K))
  BY <1>0, MarkFacts
<1>2. /\ DOMAIN p = Fields
      /\ \A k \in DOMAIN p.index : p.index[k] \in PoolBlock
  BY DEF PoolOK, IndexOK
<1>3. /\ PoolOK(SetFull(p, K), t) /\ Marked(p, SetFull(p, K))
      /\ Contents(SetFull(p, K)) = MarkFull(c, K)
  <2> DEFINE I == MarkFull(p.index, K)
             q == SetFull(p, K)
             d == MarkFull(c, K)
  <2>1. q = [p EXCEPT !.index = I]
    <3> HIDE DEF I
    <3>1. q = [p EXCEPT !.index = MarkFull(p.index, K)]
      BY <1>2 DEF SetFull, Fields
    <3> QED
      BY <3>1 DEF I
  <2>2. /\ DOMAIN I = DOMAIN p.index /\ I = [k \in DOMAIN I |-> I[k]]
        /\ \A k \in DOMAIN I : I[k] = IF k \in K THEN [p.index[k] EXCEPT !.full = TRUE] ELSE p.index[k]
    BY DEF MarkFull
  <2>3. ASSUME NEW b \in PoolBlock, NEW g, g = [b EXCEPT !.full = TRUE]
        PROVE  g \in PoolBlock /\ SameClock(g, b) /\ g.ready = b.ready /\ g.full = TRUE
    BY <2>3 DEF PoolBlock, SameClock
  <2> HIDE DEF I, q, d
  <2>4. ASSUME NEW k \in DOMAIN I
        PROVE  /\ I[k] \in PoolBlock /\ SameClock(I[k], p.index[k])
               /\ I[k].ready = p.index[k].ready /\ I[k].full = (k \in K \/ p.index[k].full)
    <3>1. p.index[k] \in PoolBlock /\ p.index[k].full \in BOOLEAN
      BY <1>2, <2>2 DEF PoolBlock
    <3>2. CASE k \in K
      <4>1. I[k] = [p.index[k] EXCEPT !.full = TRUE]
        BY <2>2, <3>2
      <4> QED
        BY <2>3, <3>1, <3>2, <4>1
    <3>3. CASE k \notin K
      <4>1. I[k] = p.index[k]
        BY <2>2, <3>3
      <4> QED
        BY <3>1, <3>3, <4>1 DEF SameClock
    <3> QED
      BY <3>2, <3>3
  <2>5. PoolOK(q, t) /\ Marked(p, q)
    BY <2>1, <2>2, <2>4, MarkKeeps
  <2>6. q.index = I
    BY <1>2, <2>1 DEF Fields
  <2>7. IsCache(d) /\ DOMAIN d = DOMAIN q.index
    BY <1>0, <1>1, <2>2, <2>6 DEF MarksFull, d
  <2>8. \A k \in DOMAIN d : SameBlock(d[k], q.index[k])
    <3> TAKE k \in DOMAIN d
    <3>1. k \in DOMAIN c /\ k \in DOMAIN I /\ SameBlock(c[k], p.index[k])
      BY <1>0, <2>2, <2>6, <2>7
    <3> QED
      BY <1>1, <2>4, <2>6, <3>1 DEF MarksFull, SameBlock, SameClock, d
  <2>9. Contents(q) = d
    BY <2>5, <2>7, <2>8, ContentsAre
  <2> QED
    BY <2>5, <2>9 DEF q, d
<1>4. /\ PoolOK(SetReady(p, K), t) /\ Marked(p, SetReady(p, K))
      /\ Contents(SetReady(p, K)) = MarkReady(c, K)
  <2> DEFINE I == MarkReady(p.index, K)
             q == SetReady(p, K)
             d == MarkReady(c, K)
  <2>1. q = [p EXCEPT !.index = I]
    <3> HIDE DEF I
    <3>1. q = [p EXCEPT !.index = MarkReady(p.index, K)]
      BY <1>2 DEF SetReady, Fields
    <3> QED
      BY <3>1 DEF I
  <2>2. /\ DOMAIN I = DOMAIN p.index /\ I = [k \in DOMAIN I |-> I[k]]
        /\ \A k \in DOMAIN I : I[k] = IF k \in K THEN [p.index[k] EXCEPT !.ready = TRUE] ELSE p.index[k]
    BY DEF MarkReady
  <2>3. ASSUME NEW b \in PoolBlock, NEW g, g = [b EXCEPT !.ready = TRUE]
        PROVE  g \in PoolBlock /\ SameClock(g, b) /\ g.full = b.full /\ g.ready = TRUE
    BY <2>3 DEF PoolBlock, SameClock
  <2> HIDE DEF I, q, d
  <2>4. ASSUME NEW k \in DOMAIN I
        PROVE  /\ I[k] \in PoolBlock /\ SameClock(I[k], p.index[k])
               /\ I[k].full = p.index[k].full /\ I[k].ready = (k \in K \/ p.index[k].ready)
    <3>1. p.index[k] \in PoolBlock /\ p.index[k].ready \in BOOLEAN
      BY <1>2, <2>2 DEF PoolBlock
    <3>2. CASE k \in K
      <4>1. I[k] = [p.index[k] EXCEPT !.ready = TRUE]
        BY <2>2, <3>2
      <4> QED
        BY <2>3, <3>1, <3>2, <4>1
    <3>3. CASE k \notin K
      <4>1. I[k] = p.index[k]
        BY <2>2, <3>3
      <4> QED
        BY <3>1, <3>3, <4>1 DEF SameClock
    <3> QED
      BY <3>2, <3>3
  <2>5. PoolOK(q, t) /\ Marked(p, q)
    BY <2>1, <2>2, <2>4, MarkKeeps
  <2>6. q.index = I
    BY <1>2, <2>1 DEF Fields
  <2>7. IsCache(d) /\ DOMAIN d = DOMAIN q.index
    BY <1>0, <1>1, <2>2, <2>6 DEF MarksReady, d
  <2>8. \A k \in DOMAIN d : SameBlock(d[k], q.index[k])
    <3> TAKE k \in DOMAIN d
    <3>1. k \in DOMAIN c /\ k \in DOMAIN I /\ SameBlock(c[k], p.index[k])
      BY <1>0, <2>2, <2>6, <2>7
    <3> QED
      BY <1>1, <2>4, <2>6, <3>1 DEF MarksReady, SameBlock, SameClock, d
  <2>9. Contents(q) = d
    BY <2>5, <2>7, <2>8, ContentsAre
  <2> QED
    BY <2>5, <2>9 DEF q, d
<1> QED
  BY <1>3, <1>4 DEF c

(***************************************************************************)
(* The order of eviction.                                                  *)
(***************************************************************************)
\* What the step from p to q evicts comes before what it spares.
Respects(p, q, t) ==
  /\ p.family = "ttl" => \A e \in Evicted(p, q), k \in Spared(p, q) : p.index[e].until > t =>
       p.index[k].until > t /\ p.index[e].stamp < p.index[k].stamp
  /\ p.family = "priority" => \A e, f \in p.prio :
       IsLive(p, e) /\ e.key \in Evicted(p, q) /\ IsLive(p, f) /\ f.key \in Spared(p, q) =>
         Before(e.order, f.order)

\* A step that evicts nothing is in no wrong order.
LEMMA RespectsNothing ==
  ASSUME NEW p, NEW q, NEW t, Resting(p) \in SUBSET DOMAIN q.index
  PROVE  Respects(p, q, t)
<1>1. Evicted(p, q) = {}
  BY DEF Evicted
<1> QED
  BY <1>1 DEF Respects

\* The order of eviction does not depend on marks set before it,
LEMMA RespectsMarked ==
  ASSUME NEW p, NEW m, NEW q, NEW t, Marked(p, m), Respects(m, q, t)
  PROVE  Respects(p, q, t)
<1>1. Evicted(p, q) = Evicted(m, q) /\ Spared(p, q) = Spared(m, q)
  BY DEF Evicted, Spared, Marked
<1>2. \A k \in DOMAIN p.index : m.index[k].until = p.index[k].until /\ m.index[k].stamp = p.index[k].stamp
  BY DEF Marked, SameClock
<1>3. Evicted(p, q) \in SUBSET DOMAIN p.index /\ Spared(p, q) \in SUBSET DOMAIN p.index
  BY DEF Evicted, Spared, Resting
<1>4. /\ m.family = p.family /\ m.prio = p.prio
      /\ \A e : IsLive(m, e) <=> IsLive(p, e)
  BY DEF Marked
<1> QED
  BY <1>1, <1>2, <1>3, <1>4 DEF Respects

\* nor on marks set after it.
LEMMA MarkedRespects ==
  ASSUME NEW p, NEW q, NEW m, NEW t, Respects(p, q, t), Marked(q, m)
  PROVE  Respects(p, m, t)
<1>1. Evicted(p, m) = Evicted(p, q) /\ Spared(p, m) = Spared(p, q)
  BY DEF Evicted, Spared, Marked
<1> QED
  BY <1>1 DEF Respects

(***************************************************************************)
(* Acquiring blocks.                                                       *)
(***************************************************************************)
LEMMA ReclaimedExact ==
  ASSUME NEW p, NEW s, IsList(Key, s)
  PROVE  Reclaimed(p, s) = Cardinality(ToSet(s) \cap Resting(p))
<1> DEFINE A == {i \in DOMAIN s : s[i] \in DOMAIN p.index /\ p.index[s[i]].ref = 0}
           B == ToSet(s) \cap Resting(p)
           g == [i \in A |-> s[i]]
<1>0. /\ Len(s) \in Nat /\ DOMAIN s = 1 .. Len(s)
      /\ ToSet(s) = {s[i] : i \in 1 .. Len(s)}
      /\ \A i, j \in 1 .. Len(s) : s[i] = s[j] => i = j
  BY SeqFacts DEF IsList
<1>1. g \in [A -> B] /\ \A i \in A : g[i] = s[i]
  BY <1>0 DEF Resting
<1>2. \A i, j \in A : g[i] = g[j] => i = j
  BY <1>0
<1>3. \A k \in B : \E i \in A : g[i] = k
  BY <1>0 DEF Resting
<1>4. A \in SUBSET (1 .. Len(s))
  BY <1>0
<1>5. Reclaimed(p, s) = Cardinality(A)
  BY DEF Reclaimed
<1> HIDE DEF A, B, g
<1>6. g \in Bijection(A, B)
  BY <1>1, <1>2, <1>3 DEF Bijection, Injection, Surjection, IsInjective
<1>7. IsFiniteSet(A)
  <2>1. IsFiniteSet(1 .. Len(s))
    BY <1>0, FS_Interval
  <2> QED
    BY <1>4, <2>1, FS_Subset
<1>8. Cardinality(A) = Cardinality(B)
  <2>1. ExistsBijection(A, B)
    BY <1>6 DEF ExistsBijection
  <2> QED
    BY <1>7, <2>1, FS_Bijection
<1> QED
  BY <1>5, <1>8 DEF B

\* What an eviction leaves is what Evict of PrefixCache leaves.
LEMMA EvictedContents ==
  ASSUME NEW p, NEW t, PoolOK(p, t), NEW q, PoolOK(q, t), NEW V, Evicts(p, q, V)
  PROVE  Contents(q) = Evict(Contents(p), V)
<1> DEFINE c == Contents(p)
           d == Evict(c, V)
<1>0. /\ IsCache(c) /\ DOMAIN c = DOMAIN p.index
      /\ \A k \in DOMAIN c : SameBlock(c[k], p.index[k])
  BY ContentsFacts
<1> HIDE DEF c
<1>1. /\ DOMAIN d = DOMAIN c \ V /\ d = [k \in DOMAIN d |-> d[k]]
      /\ \A k \in DOMAIN d : d[k] = c[k]
  BY DEF Evict
<1> HIDE DEF d
<1>2. IsCache(d)
  BY <1>0, <1>1, CacheBlocks DEF IsCache
<1>3. DOMAIN d = DOMAIN q.index
  BY <1>0, <1>1 DEF Evicts
<1>4. \A k \in DOMAIN d : SameBlock(d[k], q.index[k])
  BY <1>0, <1>1 DEF Evicts, SameBlock
<1>5. Contents(q) = d
  BY <1>2, <1>3, <1>4, ContentsAre
<1> QED
  BY <1>5 DEF d, c

\* How many blocks can be evicted once the hits are held.
LEMMA HeldCounts ==
  ASSUME NEW p, NEW t, PoolOK(p, t), NEW K, NEW q, PoolOK(q, t), Holds(p, q, K)
  PROVE  /\ NFree(q) = NFree(p) /\ NFree(p) \in Int /\ NEvictable(p) \in Nat
         /\ NEvictable(q) = NEvictable(p) - Cardinality(K \cap Resting(p))
         /\ Cardinality(K \cap Resting(p)) \in Nat
<1>1. NFree(q) = NFree(p)
  BY DEF NFree, Holds
<1>2. Cardinality(DOMAIN p.index) \in Nat
  BY FS_CardinalityType DEF PoolOK, IndexOK
<1>3. NFree(p) \in Int
  BY <1>2, PoolAssumption DEF NFree
<1>4. /\ IsFiniteSet(Resting(p)) /\ Cardinality(Resting(p)) \in Nat
      /\ NEvictable(p) = Cardinality(Resting(p))
  BY NEvictableExact
<1>5. NEvictable(q) = Cardinality(Resting(q))
  BY NEvictableExact
<1>6. Resting(q) = Resting(p) \ K
  BY DEF Holds
<1>7. Cardinality(Resting(p) \ K) = Cardinality(Resting(p)) - Cardinality(Resting(p) \cap K)
  BY <1>4, FS_Difference
<1>8. K \cap Resting(p) = Resting(p) \cap K
  OBVIOUS
<1>9. Cardinality(Resting(p) \cap K) \in Nat
  <2>1. IsFiniteSet(Resting(p) \cap K)
    BY <1>4, FS_Intersection
  <2> QED
    BY <2>1, FS_CardinalityType
<1> QED
  BY <1>1, <1>3, <1>4, <1>5, <1>6, <1>7, <1>8, <1>9

\* What goes first in the order of the heap has the lowest rank.
LEMMA LowestRespects ==
  ASSUME NEW p, NEW h, NEW K, Holds(p, h, K), NEW t,
         NEW V \in SUBSET Resting(h), NEW r, Evicts(h, r, V), Lowest(h, V, t),
         NEW g, Resting(g) \in SUBSET Resting(r), DOMAIN r.index \in SUBSET DOMAIN g.index
  PROVE  Respects(p, g, t)
<1>1. /\ DOMAIN h.index = DOMAIN p.index /\ Resting(h) = Resting(p) \ K
      /\ h.family = p.family /\ h.prio = p.prio
      /\ \A e : IsLive(h, e) <=> IsLive(p, e) /\ e.key \notin K
      /\ \A k \in DOMAIN p.index \ K : SameClock(h.index[k], p.index[k])
  BY DEF Holds
<1>2. /\ DOMAIN r.index = DOMAIN h.index \ V
      /\ \A k \in DOMAIN r.index : r.index[k] = h.index[k]
  BY DEF Evicts
<1>3. ASSUME NEW e \in Evicted(p, g) PROVE e \in V /\ e \notin K /\ e \in DOMAIN p.index
  BY <1>1, <1>2 DEF Evicted, Resting
<1>4. ASSUME NEW k \in Spared(p, g) PROVE k \in Resting(h) \ V /\ k \notin K /\ k \in DOMAIN p.index
  <2>1. k \in Resting(p) /\ k \in Resting(r)
    BY DEF Spared
  <2>2. k \in DOMAIN r.index /\ r.index[k].ref = 0
    BY <2>1 DEF Resting
  <2>3. k \in Resting(h)
    BY <1>2, <2>2 DEF Resting
  <2> QED
    BY <1>1, <1>2, <2>1, <2>2, <2>3 DEF Resting
<1>5. CASE p.family = "ttl"
  <2>1. \A e \in V, k \in Resting(h) \ V : h.index[e].until > t =>
          h.index[k].until > t /\ h.index[e].stamp < h.index[k].stamp
    BY <1>1, <1>5 DEF Lowest
  <2>2. ASSUME NEW e \in Evicted(p, g), NEW k \in Spared(p, g), p.index[e].until > t
        PROVE  p.index[k].until > t /\ p.index[e].stamp < p.index[k].stamp
    <3>1. SameClock(h.index[e], p.index[e]) /\ SameClock(h.index[k], p.index[k])
      BY <1>1, <1>3, <1>4
    <3> QED
      BY <1>3, <1>4, <2>1, <2>2, <3>1 DEF SameClock
  <2> QED
    BY <1>5, <2>2 DEF Respects
<1>6. CASE p.family = "priority"
  <2>1. \A e, f \in p.prio :
          IsLive(h, e) /\ IsLive(h, f) /\ e.key \in V /\ f.key \notin V => Before(e.order, f.order)
    BY <1>1, <1>6 DEF Lowest
  <2>2. ASSUME NEW e \in p.prio, NEW f \in p.prio, IsLive(p, e), e.key \in Evicted(p, g),
               IsLive(p, f), f.key \in Spared(p, g)
        PROVE  Before(e.order, f.order)
    <3>1. e.key \in V /\ e.key \notin K /\ f.key \notin V /\ f.key \notin K
      BY <1>3, <1>4, <2>2
    <3> QED
      BY <1>1, <2>1, <2>2, <3>1
  <2> QED
    BY <1>6, <2>2 DEF Respects
<1> QED
  BY <1>5, <1>6 DEF Respects

\* What acquire answers, and does.
Acquires(p, H, N, t, a) ==
  /\ PoolOK(a.pool, t) /\ a.pool.family = p.family
  /\ a.result = IF CanAcquire(Contents(p), H, N) THEN "done" ELSE "refused"
  /\ ~CanAcquire(Contents(p), H, N) => Contents(a.pool) = Contents(p)
  /\ CanAcquire(Contents(p), H, N) => Contents(a.pool) \in Acquired(Contents(p), H, N)
  /\ Respects(p, a.pool, t)

\* acquire once the lapsed blocks have changed queues.
AcquireReaped(p, hits, news, t) ==
  LET room == MakeRoom(HoldAll(p, hits), Len(news), t)
  IN  IF Len(news) > NFree(p) + NEvictable(p) - Reclaimed(p, hits)
      THEN [result |-> "refused", pool |-> p]
      ELSE IF ~room.ok THEN [result |-> "raised", pool |-> room.pool]
      ELSE [result |-> "done", pool |-> MaterialiseAll(room.pool, news)]

\* acquire of a pool that is up to date.
LEMMA AcquireReapedKeeps ==
  ASSUME NEW p, NEW t \in Int, PoolOK(p, t), p.family = "ttl" => Reaped(p, t),
         NEW hits, IsList(Key, hits), ToSet(hits) \in SUBSET DOMAIN p.index,
         NEW news, IsList(Key, news)
  PROVE  Acquires(p, ToSet(hits), ToSet(news), t, AcquireReaped(p, hits, news, t))
<1> DEFINE c == Contents(p)
           H == ToSet(hits)
           N == ToSet(news)
           n == Len(news)
           h == HoldAll(p, hits)
           r == MakeRoom(h, n, t)
           g == MaterialiseAll(r.pool, news)
           a == AcquireReaped(p, hits, news, t)
<1>0. n \in Nat /\ Cardinality(N) = n
  BY ListLength, SeqFacts DEF IsList
<1>1. Evictable(c) = Resting(p) /\ Free(c) = NFree(p)
  BY ContentsFacts
<1>2. Reclaimed(p, hits) = Cardinality(H \cap Resting(p))
  BY ReclaimedExact
<1>3. NEvictable(p) = Cardinality(Resting(p))
  BY NEvictableExact
<1>4. PoolOK(h, t) /\ (Reaped(p, t) => Reaped(h, t)) /\ Holds(p, h, H)
  BY HoldKeeps
<1>5. a = IF n > NFree(p) + NEvictable(p) - Reclaimed(p, hits)
          THEN [result |-> "refused", pool |-> p]
          ELSE IF ~r.ok THEN [result |-> "raised", pool |-> r.pool]
          ELSE [result |-> "done", pool |-> g]
  BY DEF AcquireReaped
<1> HIDE DEF c, H, N, n, h, r, g, a
<1>6. /\ NFree(h) = NFree(p) /\ NFree(p) \in Int /\ NEvictable(p) \in Nat
      /\ NEvictable(h) = NEvictable(p) - Cardinality(H \cap Resting(p))
      /\ Cardinality(H \cap Resting(p)) \in Nat
  BY <1>4, HeldCounts
<1>7. CanAcquire(c, H, N) <=> ~(n > NFree(p) + NEvictable(p) - Reclaimed(p, hits))
  BY <1>0, <1>1, <1>2, <1>3, <1>6 DEF CanAcquire
<1>8. CASE ~CanAcquire(c, H, N)
  <2>1. a.result = "refused" /\ a.pool = p
    BY <1>5, <1>7, <1>8
  <2>2. Respects(p, p, t)
    BY RespectsNothing DEF Resting
  <2> QED
    BY <1>8, <2>1, <2>2 DEF Acquires, c, H, N, a
<1>9. CASE CanAcquire(c, H, N)
  <2>1. n <= NFree(h) + NEvictable(h)
    BY <1>0, <1>2, <1>6, <1>7, <1>9
  <2>2. h.family = p.family
    BY <1>4 DEF Holds
  <2>3. /\ r.ok /\ PoolOK(r.pool, t)
        /\ \E V \in SUBSET Resting(h) :
             /\ Cardinality(V) = IF n <= NFree(h) THEN 0 ELSE n - NFree(h)
             /\ Evicts(h, r.pool, V) /\ Lowest(h, V, t)
    BY <1>0, <1>4, <2>1, <2>2, RoomKeeps DEF r
  <2>4. PICK V \in SUBSET Resting(h) :
             /\ Cardinality(V) = IF n <= NFree(h) THEN 0 ELSE n - NFree(h)
             /\ Evicts(h, r.pool, V) /\ Lowest(h, V, t)
    BY <2>3
  <2> DEFINE q == r.pool
  <2>5. /\ PoolOK(g, t) /\ g.family = q.family
        /\ Resting(g) = Resting(q) \ N
        /\ Contents(g) = Materialise(Contents(q), N)
    BY <2>3, MaterialiseKeeps DEF g, N
  <2>6. a.result = "done" /\ a.pool = g
    BY <1>5, <1>7, <1>9, <2>3
  <2>7. Contents(h) = Hold(c, H)
    BY <1>4, HeldContents DEF c
  <2>8. Contents(q) = Evict(Hold(c, H), V)
    <3>1. Contents(q) = Evict(Contents(h), V)
      BY <1>4, <2>3, <2>4, EvictedContents
    <3> QED
      BY <2>7, <3>1
  <2>9. V \in Victims(Hold(c, H), Cardinality(N))
    <3>1. Evictable(Contents(h)) = Resting(h) /\ Free(Contents(h)) = NFree(h)
      BY <1>4, ContentsFacts
    <3>2. V \in Victims(Contents(h), n)
      BY <2>4, <3>1 DEF Victims
    <3> QED
      BY <1>0, <2>7, <3>2
  <2>10. Contents(g) \in Acquired(c, H, N)
    BY <1>9, <2>5, <2>8, <2>9 DEF Acquired
  <2>11. g.family = p.family
    BY <2>2, <2>4, <2>5 DEF Evicts
  <2>12. Respects(p, g, t)
    <3>1. DOMAIN q.index \in SUBSET DOMAIN g.index
      <4>1. IsCache(Contents(q)) /\ DOMAIN Contents(q) = DOMAIN q.index /\ DOMAIN Contents(g) = DOMAIN g.index
        BY <2>3, <2>5, ContentsFacts
      <4>2. Materialises(Contents(q), N, Contents(g))
        BY <2>5, <4>1, MaterialiseFacts
      <4> QED
        BY <4>1, <4>2 DEF Materialises
    <3>2. Resting(g) \in SUBSET Resting(q)
      BY <2>5
    <3> HIDE DEF q
    <3>3. Evicts(h, q, V) /\ Lowest(h, V, t)
      BY <2>4 DEF q
    <3> QED
      BY <1>4, <3>1, <3>2, <3>3, LowestRespects
  <2> QED
    BY <1>9, <2>5, <2>6, <2>10, <2>11, <2>12 DEF Acquires, c, H, N, a
<1> QED
  BY <1>8, <1>9 DEF a, H, N

\* acquire, done or refused; it is never anything else.
LEMMA AcquireKeeps ==
  ASSUME NEW p, NEW t \in Int, PoolOK(p, t),
         NEW hits, IsList(Key, hits), ToSet(hits) \in SUBSET DOMAIN p.index,
         NEW news, IsList(Key, news)
  PROVE  Acquires(p, ToSet(hits), ToSet(news), t, Acquire(p, hits, news, t))
<1> DEFINE m == IF p.family = "ttl" THEN Reap(p, t) ELSE p
<1>1. Acquire(p, hits, news, t) = AcquireReaped(m, hits, news, t)
  BY DEF Acquire, AcquireReaped, HoldAll, MaterialiseAll
<1>2. /\ PoolOK(m, t) /\ (m.family = "ttl" => Reaped(m, t))
      /\ m.index = p.index /\ m.family = p.family /\ m.prio = p.prio
  <2>1. CASE p.family = "ttl"
    <3>1. t <= t
      OBVIOUS
    <3> QED
      BY <2>1, <3>1, ReapKeeps
  <2>2. CASE p.family # "ttl"
    BY <2>2
  <2> QED
    BY <2>1, <2>2
<1> HIDE DEF m
<1>3. Contents(m) = Contents(p)
  BY <1>2 DEF Contents
<1>4. Marked(p, m)
  BY <1>2 DEF Marked, SameClock, Resting, IsLive
<1> DEFINE a == AcquireReaped(m, hits, news, t)
           H == ToSet(hits)
           N == ToSet(news)
<1>5. Acquires(m, H, N, t, a)
  BY <1>2, AcquireReapedKeeps
<1> HIDE DEF a, H, N
<1>6. Respects(p, a.pool, t)
  BY <1>4, <1>5, RespectsMarked DEF Acquires
<1>7. Acquires(p, H, N, t, a)
  BY <1>2, <1>3, <1>5, <1>6 DEF Acquires
<1> QED
  BY <1>1, <1>7 DEF a, H, N

\* Time alone puts nothing out of order.
LEMMA LaterOK ==
  ASSUME NEW p, NEW t \in Int, NEW u \in Int, t <= u, PoolOK(p, t)
  PROVE  PoolOK(p, u)
<1>1. ToSet(p.expired) \in SUBSET DOMAIN p.index
  <2>1. \A k \in ToSet(p.expired) : k \in Resting(p)
    BY DEF PoolOK, QueuesOK
  <2> QED
    BY <2>1 DEF Resting
<1>2. \A k \in DOMAIN p.index : p.index[k].until \in Int
  BY DEF PoolOK, IndexOK, PoolBlock
<1>3. \A k \in ToSet(p.expired) : p.index[k].until <= u
  BY <1>1, <1>2 DEF PoolOK, DuesOK
<1> QED
  BY <1>3 DEF PoolOK, DuesOK

(***************************************************************************)
(* What is promised of a pool.                                             *)
(***************************************************************************)
QueuesMatch(p) ==
  /\ ToSet(p.expired \o p.protected) \cup p.evictable = Resting(p)
  /\ NEvictable(p) = Cardinality(Resting(p))

HeapFinds(p) ==
  /\ \A k \in ToSet(p.protected) : \E e \in p.expiry :
       e.key = k /\ IsLive(p, e) /\ e.order[1] = p.index[k].until
  /\ \A k \in p.evictable :
       Cardinality({e \in p.prio : e.key = k /\ IsLive(p, e)}) = 1

\* A pool in order keeps what the properties promise.
LEMMA PoolPromises ==
  ASSUME NEW p, NEW t, PoolOK(p, t)
  PROVE  QueuesMatch(p) /\ HeapFinds(p)
<1>1. QueuesMatch(p)
  BY NEvictableExact DEF QueuesMatch, Joined
<1>2. ASSUME NEW k \in ToSet(p.protected)
      PROVE  \E e \in p.expiry : e.key = k /\ IsLive(p, e) /\ e.order[1] = p.index[k].until
  BY DEF PoolOK, HeapsOK
<1>3. ASSUME NEW k \in p.evictable
      PROVE  Cardinality({e \in p.prio : e.key = k /\ IsLive(p, e)}) = 1
  <2>1. PICK e \in p.prio : e.key = k /\ IsLive(p, e)
    BY DEF PoolOK, HeapsOK
  <2>2. \A x, y \in p.prio : StampOf(x) = StampOf(y) => x = y
    BY DEF PoolOK, HeapsOK, IsHeap
  <2>3. \A f \in p.prio : f.key = k /\ IsLive(p, f) => f = e
    BY <2>1, <2>2 DEF IsLive
  <2>4. {f \in p.prio : f.key = k /\ IsLive(p, f)} = {e}
    BY <2>1, <2>3
  <2> QED
    BY <2>4, FS_Singleton
<1> QED
  BY <1>1, <1>2, <1>3 DEF HeapFinds

(***************************************************************************)
(* Who holds what.  C[s] is the set of keys that session s holds.          *)
(***************************************************************************)
HeldBy(C, k) == {s \in Clients : k \in C[s]}

RefsOK(c, C) ==
  /\ IsCache(c)
  /\ \A k \in DOMAIN c : c[k].ref = Cardinality(HeldBy(C, k))
  /\ \A s \in Clients : C[s] \in SUBSET DOMAIN c

\* D is C except that s holds K.
Reholds(C, D, s, K) ==
  /\ D[s] = K
  /\ \A x \in Clients \ {s} : D[x] = C[x]

\* Finitely many sessions hold a block.
LEMMA HoldersFinite ==
  ASSUME NEW C, NEW k
  PROVE  /\ IsFiniteSet(HeldBy(C, k)) /\ Cardinality(HeldBy(C, k)) \in Nat
         /\ Cardinality(HeldBy(C, k)) = 0 <=> HeldBy(C, k) = {}
<1>1. IsFiniteSet(HeldBy(C, k))
  <2>1. HeldBy(C, k) \in SUBSET Clients
    BY DEF HeldBy
  <2>2. IsFiniteSet(1 .. Len(Work))
    <3>1. Len(Work) \in Nat
      BY WorkAssumption
    <3> QED
      BY <3>1, FS_Interval
  <2> QED
    BY <2>1, <2>2, FS_Subset DEF Clients
<1> QED
  BY <1>1, FS_CardinalityType, FS_EmptySet

\* One more holder.
LEMMA HolderAdded ==
  ASSUME NEW C, NEW D, NEW s \in Clients, \A x \in Clients \ {s} : D[x] = C[x],
         NEW k, k \notin C[s], k \in D[s]
  PROVE  Cardinality(HeldBy(D, k)) = Cardinality(HeldBy(C, k)) + 1
<1>1. HeldBy(D, k) = HeldBy(C, k) \cup {s} /\ s \notin HeldBy(C, k)
  BY DEF HeldBy
<1> QED
  BY <1>1, HoldersFinite, FS_AddElement

\* Marks hold and release nothing.
LEMMA RefsMarks ==
  ASSUME NEW c, NEW C, RefsOK(c, C), NEW K
  PROVE  RefsOK(MarkFull(c, K), C) /\ RefsOK(MarkReady(c, K), C)
<1> DEFINE d == MarkFull(c, K)
           e == MarkReady(c, K)
<1>1. MarksFull(c, K, d) /\ MarksReady(c, K, e)
  BY MarkFacts DEF RefsOK
<1> HIDE DEF d, e
<1>2. RefsOK(d, C)
  BY <1>1 DEF MarksFull, RefsOK
<1>3. RefsOK(e, C)
  BY <1>1 DEF MarksReady, RefsOK
<1> QED
  BY <1>2, <1>3 DEF d, e

\* What an acquire does to the references.
RefsAfter(c, K, g) ==
  /\ IsCache(g) /\ K \in SUBSET DOMAIN g
  /\ \A k \in DOMAIN c \ DOMAIN g : c[k].ref = 0
  /\ \A k \in DOMAIN g :
       g[k].ref = (IF k \in DOMAIN c THEN c[k].ref ELSE 0) + (IF k \in K THEN 1 ELSE 0)

\* An acquire adds a reference to each key it was given, and to no other.
LEMMA AcquiredRefs ==
  ASSUME NEW c, IsCache(c), NEW H, NEW N, H \in SUBSET DOMAIN c, H \cap N = {},
         NEW g \in Acquired(c, H, N)
  PROVE  RefsAfter(c, H \cup N, g)
<1> DEFINE h == Hold(c, H)
<1>1. PICK V \in Victims(h, Cardinality(N)) : g = Materialise(Evict(h, V), N)
  BY DEF Acquired
<1>2. /\ IsCache(h) /\ DOMAIN h = DOMAIN c
      /\ \A k \in DOMAIN h : /\ k \in H => MoreRefs(h[k], c[k], 1)
                             /\ k \notin H => h[k] = c[k]
  BY HoldFacts
<1>3. V \in SUBSET Evictable(h)
  BY DEF Victims
<1> HIDE DEF h
<1> DEFINE e == Evict(h, V)
<1>4. /\ DOMAIN e = DOMAIN h \ V /\ e = [k \in DOMAIN e |-> e[k]]
      /\ \A k \in DOMAIN e : e[k] = h[k]
  BY DEF Evict
<1> HIDE DEF e
<1>5. IsCache(e)
  BY <1>2, <1>4, CacheBlocks DEF IsCache
<1>6. Materialises(e, N, g)
  BY <1>1, <1>5, MaterialiseFacts DEF e
<1>7. \A k \in DOMAIN c : c[k].ref \in Nat
  BY CacheBlocks DEF Block
<1>8. \A k \in V : k \in DOMAIN c /\ k \notin H /\ c[k].ref = 0
  <2> TAKE k \in V
  <2>1. k \in DOMAIN h /\ h[k].ref = 0
    BY <1>3 DEF Evictable
  <2>2. k \in H => h[k].ref = c[k].ref + 1
    BY <1>2, <2>1 DEF MoreRefs
  <2> QED
    BY <1>2, <1>7, <2>1, <2>2
<1>9. IsCache(g) /\ DOMAIN g = (DOMAIN c \ V) \cup N
  BY <1>2, <1>4, <1>6 DEF Materialises
<1>10. \A k \in DOMAIN g :
         g[k].ref = (IF k \in DOMAIN c THEN c[k].ref ELSE 0) + (IF k \in H \cup N THEN 1 ELSE 0)
  <2> TAKE k \in DOMAIN g
  <2>1. CASE k \in N /\ k \in DOMAIN e
    <3>1. MoreRefs(g[k], e[k], 1)
      BY <1>6, <2>1 DEF Materialises
    <3>2. e[k] = c[k] /\ k \in DOMAIN c
      BY <1>2, <1>4, <2>1
    <3> QED
      BY <2>1, <3>1, <3>2 DEF MoreRefs
  <2>2. CASE k \in N /\ k \notin DOMAIN e
    <3>1. g[k].ref = 1
      BY <1>6, <2>2 DEF Materialises, NewBlock
    <3>2. k \in DOMAIN c => c[k].ref = 0
      BY <1>2, <1>4, <1>8, <2>2
    <3> QED
      BY <2>2, <3>1, <3>2
  <2>3. CASE k \notin N
    <3>1. g[k] = e[k] /\ k \in DOMAIN e
      BY <1>6, <2>3 DEF Materialises
    <3>2. e[k] = h[k] /\ k \in DOMAIN h /\ k \in DOMAIN c
      BY <1>2, <1>4, <3>1
    <3> QED
      BY <1>2, <1>7, <2>3, <3>1, <3>2 DEF MoreRefs
  <2> QED
    BY <2>1, <2>2, <2>3
<1>11. H \cup N \in SUBSET DOMAIN g
  BY <1>8, <1>9
<1>12. \A k \in DOMAIN c \ DOMAIN g : c[k].ref = 0
  BY <1>8, <1>9
<1> QED
  BY <1>9, <1>10, <1>11, <1>12 DEF RefsAfter

\* What s acquires is counted once more.
LEMMA RefsAcquire ==
  ASSUME NEW c, NEW C, RefsOK(c, C), NEW s \in Clients,
         NEW H, NEW N, H \in SUBSET DOMAIN c, H \cap N = {}, (H \cup N) \cap C[s] = {},
         NEW g \in Acquired(c, H, N),
         NEW D, Reholds(C, D, s, C[s] \cup (H \cup N))
  PROVE  RefsOK(g, D)
<1> DEFINE asked == H \cup N
<1>0. /\ IsCache(c) /\ \A k \in DOMAIN c : c[k].ref = Cardinality(HeldBy(C, k))
      /\ \A x \in Clients : C[x] \in SUBSET DOMAIN c
      /\ D[s] = C[s] \cup asked /\ \A x \in Clients \ {s} : D[x] = C[x]
      /\ asked \cap C[s] = {}
  BY DEF RefsOK, Reholds
<1>1. RefsAfter(c, asked, g)
  BY <1>0, AcquiredRefs
<1> HIDE DEF asked
<1>2. /\ IsCache(g)
      /\ asked \in SUBSET DOMAIN g
      /\ \A k \in DOMAIN c \ DOMAIN g : c[k].ref = 0
      /\ \A k \in DOMAIN g :
           g[k].ref = (IF k \in DOMAIN c THEN c[k].ref ELSE 0)
                        + (IF k \in asked THEN 1 ELSE 0)
  BY <1>1 DEF RefsAfter
<1>3. \A k \in DOMAIN g :
        (IF k \in DOMAIN c THEN c[k].ref ELSE 0) = Cardinality(HeldBy(C, k))
  <2> TAKE k \in DOMAIN g
  <2>1. CASE k \in DOMAIN c
    BY <1>0, <2>1
  <2>2. CASE k \notin DOMAIN c
    <3>1. HeldBy(C, k) = {}
      BY <1>0, <2>2 DEF HeldBy
    <3> QED
      BY <2>2, <3>1, FS_EmptySet
  <2> QED
    BY <2>1, <2>2
<1>4. \A k \in DOMAIN g : g[k].ref = Cardinality(HeldBy(D, k))
  <2> TAKE k \in DOMAIN g
  <2>0. Cardinality(HeldBy(C, k)) \in Nat
    BY HoldersFinite
  <2>1. CASE k \in asked
    <3>1. g[k].ref = Cardinality(HeldBy(C, k)) + 1
      BY <1>2, <1>3, <2>1
    <3>2. k \notin C[s] /\ k \in D[s] /\ \A x \in Clients \ {s} : D[x] = C[x]
      BY <1>0, <2>1
    <3>3. Cardinality(HeldBy(D, k)) = Cardinality(HeldBy(C, k)) + 1
      BY <3>2, HolderAdded
    <3> QED
      BY <3>1, <3>3
  <2>2. CASE k \notin asked
    <3>1. g[k].ref = Cardinality(HeldBy(C, k))
      BY <1>2, <1>3, <2>0, <2>2
    <3>2. \A x \in Clients : k \in D[x] <=> k \in C[x]
      BY <1>0, <2>2
    <3>3. HeldBy(D, k) = HeldBy(C, k)
      BY <3>2 DEF HeldBy
    <3> QED
      BY <3>1, <3>3
  <2> QED
    BY <2>1, <2>2
<1>5. \A x \in Clients : C[x] \in SUBSET DOMAIN g
  <2>1. SUFFICES ASSUME NEW x \in Clients, NEW k \in C[x], k \notin DOMAIN g PROVE FALSE
    OBVIOUS
  <2>2. k \in DOMAIN c /\ Cardinality(HeldBy(C, k)) = 0
    BY <1>0, <1>2, <2>1
  <2>3. x \in HeldBy(C, k)
    BY DEF HeldBy
  <2> QED
    BY <2>2, <2>3, HoldersFinite
<1>6. \A x \in Clients : D[x] \in SUBSET DOMAIN g
  BY <1>0, <1>2, <1>5
<1> QED
  BY <1>2, <1>4, <1>6 DEF RefsOK

\* What s releases is counted once less, and no block that another session
\* holds is dropped.
LEMMA RefsRelease ==
  ASSUME NEW c, NEW C, RefsOK(c, C), NEW s \in Clients, NEW f \in BOOLEAN,
         NEW D, Reholds(C, D, s, {})
  PROVE  RefsOK(Release(c, C[s], f), D)
<1> DEFINE g == Release(c, C[s], f)
           K == C[s]
<1>0. /\ IsCache(c) /\ \A k \in DOMAIN c : c[k].ref = Cardinality(HeldBy(C, k))
      /\ \A x \in Clients : C[x] \in SUBSET DOMAIN c
      /\ D[s] = {} /\ \A x \in Clients \ {s} : D[x] = C[x]
  BY DEF RefsOK, Reholds
<1>1. Releases(c, K, f, g)
  BY <1>0, ReleaseFacts
<1> HIDE DEF g
<1>2. /\ IsCache(g) /\ DOMAIN g \in SUBSET DOMAIN c
      /\ \A k \in DOMAIN c \ DOMAIN g : k \in K /\ ~(c[k].ref > 1)
      /\ \A k \in DOMAIN g :
           /\ k \notin K => g[k].ref = c[k].ref
           /\ k \in K => g[k].ref = IF c[k].ref > 1 THEN c[k].ref - 1 ELSE 0
  BY <1>1 DEF Releases
<1>3. \A k \in K : c[k].ref = Cardinality(HeldBy(D, k)) + 1
  <2> TAKE k \in K
  <2>1. k \in DOMAIN c /\ c[k].ref = Cardinality(HeldBy(C, k))
    BY <1>0
  <2>2. Cardinality(HeldBy(C, k)) = Cardinality(HeldBy(D, k)) + 1
    <3>1. k \notin D[s] /\ \A x \in Clients \ {s} : C[x] = D[x]
      BY <1>0
    <3> QED
      BY <3>1, HolderAdded
  <2> QED
    BY <2>1, <2>2
<1>4. \A k \in DOMAIN g : g[k].ref = Cardinality(HeldBy(D, k))
  <2> TAKE k \in DOMAIN g
  <2>0. Cardinality(HeldBy(D, k)) \in Nat /\ k \in DOMAIN c
    BY <1>2, HoldersFinite
  <2>1. CASE k \in K
    BY <1>2, <1>3, <2>0, <2>1
  <2>2. CASE k \notin K
    <3>1. \A x \in Clients : k \in D[x] <=> k \in C[x]
      BY <1>0, <2>2
    <3>2. HeldBy(D, k) = HeldBy(C, k)
      BY <3>1 DEF HeldBy
    <3> QED
      BY <1>0, <1>2, <2>0, <2>2, <3>2
  <2> QED
    BY <2>1, <2>2
<1>5. \A x \in Clients : D[x] \in SUBSET DOMAIN g
  <2>1. SUFFICES ASSUME NEW x \in Clients, NEW k \in D[x], k \notin DOMAIN g PROVE FALSE
    OBVIOUS
  <2>2. k \in K /\ ~(c[k].ref > 1)
    BY <1>0, <1>2, <2>1
  <2>3. x \in HeldBy(D, k) /\ Cardinality(HeldBy(D, k)) \in Nat
    BY HoldersFinite DEF HeldBy
  <2>4. Cardinality(HeldBy(D, k)) = 0
    BY <1>3, <2>2, <2>3
  <2> QED
    BY <2>3, <2>4, HoldersFinite
<1> QED
  BY <1>2, <1>4, <1>5 DEF RefsOK, g

(***************************************************************************)
(* Chains of keys.                                                         *)
(***************************************************************************)
Spots(s, m, n) == {KeyAt(s, i) : i \in m .. n - 1}

\* Keys of different positions differ.
LEMMA KeyFacts ==
  ASSUME NEW s \in Nat
  PROVE  /\ \A i \in Nat : KeyAt(s, i) \in Key
         /\ \A i, j : KeyAt(s, i) = KeyAt(s, j) => i = j
  BY DEF KeyAt, Key, Sys

\* A chain lists its keys once.
LEMMA ChainFacts ==
  ASSUME NEW s \in Nat, NEW n \in Nat, NEW l, l = ChainSeq(s, n)
  PROVE  /\ IsList(Key, l) /\ Len(l) = n /\ ToSet(l) = BlockKeys(s, n)
         /\ \A i \in 1 .. n : l[i] = KeyAt(s, i - 1)
<1>1. \A i \in 1 .. n : i - 1 \in Nat /\ i - 1 \in 0 .. n - 1
  OBVIOUS
<1>2. l \in [1 .. n -> Key] /\ \A i \in 1 .. n : l[i] = KeyAt(s, i - 1)
  BY <1>1, KeyFacts DEF ChainSeq
<1>3. l \in Seq(Key) /\ Len(l) = n
  BY <1>2
<1>4. \A i, j \in 1 .. Len(l) : l[i] = l[j] => i = j
  <2> SUFFICES ASSUME NEW i \in 1 .. n, NEW j \in 1 .. n, l[i] = l[j] PROVE i = j
    BY <1>3
  <2>1. i - 1 = j - 1
    BY <1>2, KeyFacts
  <2> QED
    BY <2>1
<1>5. ToSet(l) = {l[i] : i \in 1 .. n}
  BY <1>3, SeqFacts
<1>6. ToSet(l) = BlockKeys(s, n)
  <2>1. ASSUME NEW k \in ToSet(l) PROVE k \in BlockKeys(s, n)
    BY <1>1, <1>2, <1>5 DEF BlockKeys
  <2>2. ASSUME NEW i \in 0 .. n - 1 PROVE KeyAt(s, i) \in ToSet(l)
    <3>1. i + 1 \in 1 .. n /\ (i + 1) - 1 = i
      OBVIOUS
    <3> QED
      BY <1>2, <1>5, <3>1
  <2>3. \A k \in BlockKeys(s, n) : k \in ToSet(l)
    BY <2>2 DEF BlockKeys
  <2> QED
    BY <2>1, <2>3
<1> QED
  BY <1>2, <1>3, <1>4, <1>6 DEF IsList

\* What is left of a chain after its first h keys.
LEMMA RestFacts ==
  ASSUME NEW s \in Nat, NEW n \in Nat, NEW h \in 0 .. n, NEW l, l = SubSeq(ChainSeq(s, n), h + 1, n)
  PROVE  IsList(Key, l) /\ ToSet(l) = Spots(s, h, n)
<1> DEFINE a == ChainSeq(s, n)
<1>1. IsList(Key, a) /\ Len(a) = n /\ \A i \in 1 .. n : a[i] = KeyAt(s, i - 1)
  BY ChainFacts
<1>2. l = SubSeq(a, h + 1, Len(a))
  BY <1>1
<1> HIDE DEF a
<1>3. h \in 0 .. Len(a)
  BY <1>1
<1>4. IsList(Key, l) /\ ToSet(l) = {a[i] : i \in h + 1 .. Len(a)}
  <2> DEFINE b == SubSeq(a, h + 1, Len(a))
  <2>1. IsList(Key, b)
    BY <1>1, <1>3, SplitList
  <2>2. ToSet(b) = {a[i] : i \in h + 1 .. Len(a)}
    BY <1>1, <1>3, SplitList
  <2> QED
    BY <1>2, <2>1, <2>2
<1>5. \A k \in ToSet(l) : k \in Spots(s, h, n)
  <2> SUFFICES ASSUME NEW i \in h + 1 .. n PROVE a[i] \in Spots(s, h, n)
    BY <1>1, <1>4
  <2>1. i - 1 \in h .. n - 1 /\ i \in 1 .. n
    OBVIOUS
  <2> QED
    BY <1>1, <2>1 DEF Spots
<1>6. ASSUME NEW i \in h .. n - 1 PROVE KeyAt(s, i) \in ToSet(l)
  <2>1. i + 1 \in h + 1 .. Len(a) /\ i + 1 \in 1 .. n /\ (i + 1) - 1 = i
    BY <1>1
  <2> QED
    BY <1>1, <1>4, <2>1
<1>7. \A k \in Spots(s, h, n) : k \in ToSet(l)
  BY <1>6 DEF Spots
<1> QED
  BY <1>4, <1>5, <1>7

\* The hits and the misses share no key.
LEMMA SpotFacts ==
  ASSUME NEW s \in Nat, NEW n \in Nat, NEW h \in 0 .. n
  PROVE  /\ Spots(s, 0, h) = BlockKeys(s, h)
         /\ Spots(s, 0, h) \cup Spots(s, h, n) = BlockKeys(s, n)
         /\ Spots(s, 0, h) \cap Spots(s, h, n) = {}
<1>1. Spots(s, 0, h) = BlockKeys(s, h)
  BY DEF Spots, BlockKeys
<1>2. 0 .. n - 1 = (0 .. h - 1) \cup (h .. n - 1) /\ (0 .. h - 1) \cap (h .. n - 1) = {}
  OBVIOUS
<1>3. Spots(s, 0, h) \cup Spots(s, h, n) = BlockKeys(s, n)
  BY <1>2 DEF Spots, BlockKeys
<1>4. Spots(s, 0, h) \cap Spots(s, h, n) = {}
  BY <1>2, KeyFacts DEF Spots
<1> QED
  BY <1>1, <1>3, <1>4

\* A key of a chain is not the next one.
LEMMA NextKey ==
  ASSUME NEW s \in Nat, NEW n \in Nat
  PROVE  /\ KeyAt(s, n) \notin BlockKeys(s, n) /\ KeyAt(s, n) \in Key
         /\ BlockKeys(s, n + 1) = BlockKeys(s, n) \cup {KeyAt(s, n)}
<1>1. n \in 0 .. n + 1 /\ n .. (n + 1) - 1 = {n} /\ n + 1 \in Nat
  OBVIOUS
<1>2. Spots(s, n, n + 1) = {KeyAt(s, n)}
  BY <1>1 DEF Spots
<1>3. /\ Spots(s, 0, n) = BlockKeys(s, n)
      /\ Spots(s, 0, n) \cup Spots(s, n, n + 1) = BlockKeys(s, n + 1)
      /\ Spots(s, 0, n) \cap Spots(s, n, n + 1) = {}
  BY <1>1, SpotFacts
<1> QED
  BY <1>2, <1>3, KeyFacts

LEMMA NoKeys == \A s : BlockKeys(s, 0) = {}
<1>1. 0 .. 0 - 1 = {}
  OBVIOUS
<1> QED
  BY <1>1 DEF BlockKeys

\* The walk of lookup_prefix ends where it should.
LEMMA HitsFacts ==
  ASSUME NEW p, NEW t, PoolOK(p, t), NEW s \in Nat, NEW n \in Nat,
         NEW h, h = PrefixHits(p, ChainSeq(s, n))
  PROVE  /\ h \in 0 .. n
         /\ IsPrefixHit(Contents(p), s, n, h)
         /\ BlockKeys(s, h) \in SUBSET DOMAIN p.index
<1> DEFINE l == ChainSeq(s, n)
           c == Contents(p)
<1>1. Len(l) = n /\ \A i \in 1 .. n : l[i] = KeyAt(s, i - 1)
  BY ChainFacts
<1>2. /\ DOMAIN c = DOMAIN p.index
      /\ \A k \in DOMAIN c : SameBlock(c[k], p.index[k])
  BY ContentsFacts
<1>3. h = PrefixHits(p, l) /\ c = Contents(p)
  OBVIOUS
<1> HIDE DEF l, c
<1>4. \A k : Usable(p.index, k) <=> Usable(c, k)
  BY <1>2 DEF Usable, SameBlock
<1>5. CASE ~PrefixCaching
  <2>1. h = 0
    BY <1>3, <1>5 DEF PrefixHits
  <2> QED
    BY <1>3, <1>5, <2>1, NoKeys DEF IsPrefixHit
<1>6. CASE PrefixCaching
  <2> DEFINE Stops(m) == m < n => ~Usable(p.index, l[m + 1])
             M == {m \in 0 .. n : Stops(m)}
             Ends(m) == /\ \A i \in 1 .. m : Usable(p.index, l[i])
                        /\ m < Len(l) => ~Usable(p.index, l[m + 1])
  <2>1. n \in M
    OBVIOUS
  <2>2. PICK m \in M : \A i \in M : m <= i
    <3>1. M \in SUBSET (0 .. n)
      OBVIOUS
    <3> HIDE DEF M
    <3> QED
      BY <2>1, <3>1, LeastBelow
  <2>3. m \in 0 .. n /\ Ends(m)
    <3>1. \A i \in 1 .. m : Usable(p.index, l[i])
      <4> SUFFICES ASSUME NEW i \in 1 .. m, ~Usable(p.index, l[i]) PROVE FALSE
        OBVIOUS
      <4>1. i - 1 \in 0 .. n /\ (i - 1) + 1 = i /\ ~(m <= i - 1)
        OBVIOUS
      <4>2. i - 1 \in M
        BY <4>1
      <4> QED
        BY <2>2, <4>1, <4>2
    <3> QED
      BY <1>1, <3>1
  <2>4. h = CHOOSE x \in 0 .. Len(l) : Ends(x)
    BY <1>3, <1>6 DEF PrefixHits
  <2> HIDE DEF Ends
  <2>5. h \in 0 .. n /\ Ends(h)
    BY <1>1, <2>3, <2>4
  <2>6. ASSUME NEW i \in 0 .. h - 1 PROVE Usable(c, KeyAt(s, i)) /\ KeyAt(s, i) \in DOMAIN p.index
    <3>1. i + 1 \in 1 .. h /\ i + 1 \in 1 .. n /\ (i + 1) - 1 = i
      BY <2>5
    <3>2. Usable(p.index, l[i + 1]) /\ l[i + 1] = KeyAt(s, i)
      BY <1>1, <2>5, <3>1 DEF Ends
    <3> QED
      BY <1>4, <3>2 DEF Usable
  <2>7. ASSUME h < n PROVE ~Usable(c, KeyAt(s, h))
    <3>1. h + 1 \in 1 .. n /\ (h + 1) - 1 = h
      BY <2>5, <2>7
    <3>2. ~Usable(p.index, l[h + 1]) /\ l[h + 1] = KeyAt(s, h)
      BY <1>1, <2>5, <2>7, <3>1 DEF Ends
    <3> QED
      BY <1>4, <3>2
  <2>8. IsPrefixHit(c, s, n, h)
    BY <1>6, <2>6, <2>7 DEF IsPrefixHit
  <2>9. BlockKeys(s, h) \in SUBSET DOMAIN p.index
    BY <2>6 DEF BlockKeys
  <2> QED
    BY <1>3, <2>5, <2>8, <2>9
<1> QED
  BY <1>5, <1>6

(***************************************************************************)
(* The client.                                                             *)
(***************************************************************************)
\* Who runs holds the blocks of its turn and those its output added; nobody else
\* holds any.
ClientOK ==
  /\ phase \in [Clients -> {"out", "prefill", "decode"}]
  /\ turn \in [Clients -> Nat \ {0}]
  /\ chain \in [Clients -> Nat] /\ grown \in [Clients -> Nat] /\ back \in [Clients -> Nat]
  /\ now \in Nat
  /\ IsList(Clients, running)
  /\ ToSet(running) = {s \in Clients : phase[s] # "out"}
  /\ \A s \in Clients :
       /\ phase[s] = "out" => chain[s] = 0 /\ grown[s] = 0
       /\ phase[s] # "out" => turn[s] <= Len(Work[s]) /\ chain[s] = W(s).blocks + grown[s]

Held(c) == [s \in Clients |-> BlockKeys(s, c[s])]

\* The numbers of the current turn.
LEMMA TurnFacts ==
  ASSUME ClientOK, NEW s \in Clients, turn[s] <= Len(Work[s])
  PROVE  /\ W(s) \in WorkTurn /\ s \in Nat
         /\ W(s).blocks \in Nat /\ W(s).full \in 0 .. W(s).blocks /\ W(s).grow \in Nat
         /\ W(s).pause \in Nat /\ W(s).guess \in Nat
         /\ W(s).ends \in BOOLEAN /\ W(s).whole \in BOOLEAN
<1>1. s \in 1 .. Len(Work) /\ Len(Work) \in Nat /\ Work[s] \in Seq(WorkTurn)
  BY WorkAssumption DEF Clients
<1>2. turn[s] \in Nat \ {0} /\ Len(Work[s]) \in Nat
  BY <1>1 DEF ClientOK
<1>3. turn[s] \in 1 .. Len(Work[s])
  BY <1>2
<1> DEFINE l == Work[s]
           i == turn[s]
<1>4. l \in Seq(WorkTurn) /\ i \in 1 .. Len(l)
  BY <1>1, <1>3
<1> HIDE DEF l, i
<1>5. l[i] \in WorkTurn
  BY <1>4
<1>6. W(s) \in WorkTurn
  BY <1>5 DEF W, l, i
<1>7. W(s).full \in {W(s).blocks, W(s).blocks - 1}
  BY <1>1, <1>3, WorkAssumption DEF W
<1>8. /\ W(s).blocks \in Nat \ {0} /\ W(s).full \in Nat /\ W(s).grow \in Nat
      /\ W(s).pause \in Nat /\ W(s).guess \in Nat
      /\ W(s).ends \in BOOLEAN /\ W(s).whole \in BOOLEAN
  BY <1>6 DEF WorkTurn
<1> HIDE DEF W
<1>9. W(s).full \in 0 .. W(s).blocks
  BY <1>7, <1>8
<1> QED
  BY <1>1, <1>6, <1>8, <1>9

LEMMA HeldFacts ==
  ASSUME NEW c, NEW s \in Clients
  PROVE  Held(c)[s] = BlockKeys(s, c[s])
  BY DEF Held

\* q is what a call leaves of p.
Serves(p, q, C, t) ==
  /\ PoolOK(q, t) /\ q.family = p.family
  /\ RefsOK(Contents(q), C)
  /\ Respects(p, q, t)

(***************************************************************************)
(* An admission.                                                           *)
(***************************************************************************)
Prompt(c, s, h) ==
  h \in 0 .. W(s).full /\ IsPrefixHit(c, s, W(s).full, h)

Fits(c, s) ==
  \E h : Prompt(c, s, h) /\ CanAcquire(c, Spots(s, 0, h), Spots(s, h, W(s).blocks))

Admits(c, s, d) ==
  \E h : /\ Prompt(c, s, h)
         /\ \E g \in Acquired(c, Spots(s, 0, h), Spots(s, h, W(s).blocks)) :
              d = MarkFull(g, Spots(s, h, W(s).full))

\* There is one answer to lookup_prefix.
LEMMA PromptUnique ==
  ASSUME ClientOK, NEW s \in Clients, turn[s] <= Len(Work[s]),
         NEW c, NEW h, NEW g, Prompt(c, s, h), Prompt(c, s, g)
  PROVE  h = g
<1> DEFINE n == W(s).full
<1>1. n \in Nat
  BY TurnFacts
<1>2. h \in 0 .. n /\ g \in 0 .. n /\ IsPrefixHit(c, s, n, h) /\ IsPrefixHit(c, s, n, g)
  BY DEF Prompt
<1> HIDE DEF n
<1>3. CASE ~PrefixCaching
  BY <1>2, <1>3 DEF IsPrefixHit
<1>4. CASE PrefixCaching
  <2>1. ASSUME NEW i \in 0 .. n, NEW j \in 0 .. n, IsPrefixHit(c, s, n, i), IsPrefixHit(c, s, n, j)
        PROVE  ~(i < j)
    <3>1. SUFFICES ASSUME i < j PROVE FALSE
      OBVIOUS
    <3>2. i < n /\ i \in 0 .. j - 1
      BY <1>1, <2>1, <3>1
    <3> QED
      BY <1>4, <2>1, <3>2 DEF IsPrefixHit
  <2>2. ~(h < g) /\ ~(g < h)
    BY <1>2, <2>1
  <2> QED
    BY <1>1, <1>2, <2>2
<1> QED
  BY <1>3, <1>4

\* The hits and misses of an admission are what acquire expects.
LEMMA AdmissionFacts ==
  ASSUME ClientOK, NEW s \in Clients, turn[s] <= Len(Work[s]), NEW p, PoolOK(p, now),
         NEW h, h = Hits(p, s)
  PROVE  /\ Prompt(Contents(p), s, h)
         /\ Acquires(p, Spots(s, 0, h), Spots(s, h, W(s).blocks), now, Admission(p, s))
<1> DEFINE n == W(s).full
           b == W(s).blocks
           hits == ChainSeq(s, h)
           news == SubSeq(ChainSeq(s, b), h + 1, b)
<1>0. n \in 0 .. b /\ b \in Nat /\ s \in Nat /\ now \in Int
  BY TurnFacts DEF ClientOK
<1>1. h = PrefixHits(p, ChainSeq(s, n))
  BY DEF Hits
<1>2. Admission(p, s) = Acquire(p, hits, news, now)
  BY DEF Admission
<1> HIDE DEF n, b
<1>3. /\ h \in 0 .. n /\ IsPrefixHit(Contents(p), s, n, h)
      /\ BlockKeys(s, h) \in SUBSET DOMAIN p.index
  <2>1. n \in Nat
    BY <1>0
  <2> QED
    BY <1>0, <1>1, <2>1, HitsFacts
<1>4. h \in Nat /\ h \in 0 .. b
  BY <1>0, <1>3
<1>5. IsList(Key, hits) /\ ToSet(hits) = BlockKeys(s, h)
  BY <1>0, <1>4, ChainFacts
<1>6. IsList(Key, news) /\ ToSet(news) = Spots(s, h, b)
  BY <1>0, <1>4, RestFacts
<1>7. Spots(s, 0, h) = BlockKeys(s, h)
  BY <1>0, <1>4, SpotFacts
<1> HIDE DEF hits, news
<1>8. Acquires(p, ToSet(hits), ToSet(news), now, Acquire(p, hits, news, now))
  BY <1>0, <1>3, <1>5, <1>6, AcquireKeeps
<1>9. Prompt(Contents(p), s, h)
  BY <1>3 DEF Prompt, n
<1>10. Acquires(p, Spots(s, 0, h), Spots(s, h, b), now, Admission(p, s))
  BY <1>2, <1>5, <1>6, <1>7, <1>8
<1> QED
  BY <1>9, <1>10 DEF b

\* An admission is decided by what is cached.
LEMMA AdmitDecided ==
  ASSUME ClientOK, NEW s \in Clients, turn[s] <= Len(Work[s]), NEW p, PoolOK(p, now)
  PROVE  Admission(p, s).result = IF Fits(Contents(p), s) THEN "done" ELSE "refused"
<1> DEFINE h == Hits(p, s)
           c == Contents(p)
           a == Admission(p, s)
           can == CanAcquire(c, Spots(s, 0, h), Spots(s, h, W(s).blocks))
<1>1. Prompt(c, s, h) /\ Acquires(p, Spots(s, 0, h), Spots(s, h, W(s).blocks), now, a)
  BY AdmissionFacts
<1>2. a.result = IF can THEN "done" ELSE "refused"
  BY <1>1 DEF Acquires
<1> HIDE DEF h, c, a
<1>3. Fits(c, s) <=> can
  <2>1. can => Fits(c, s)
    BY <1>1 DEF Fits
  <2>2. ASSUME Fits(c, s) PROVE can
    <3>1. PICK g : Prompt(c, s, g) /\ CanAcquire(c, Spots(s, 0, g), Spots(s, g, W(s).blocks))
      BY <2>2 DEF Fits
    <3>2. g = h
      BY <1>1, <3>1, PromptUnique
    <3> QED
      BY <3>1, <3>2
  <2> QED
    BY <2>1, <2>2
<1> QED
  BY <1>2, <1>3 DEF c, a

\* An admission that does not fit changes nothing that PrefixCache sees.
LEMMA AdmitRefused ==
  ASSUME ClientOK, NEW s \in Clients, turn[s] <= Len(Work[s]), NEW p, PoolOK(p, now),
         NEW C, RefsOK(Contents(p), C), ~Fits(Contents(p), s),
         NEW q, q = Admission(p, s).pool
  PROVE  Serves(p, q, C, now) /\ Contents(q) = Contents(p)
<1> DEFINE h == Hits(p, s)
           a == Admission(p, s)
<1>1. Prompt(Contents(p), s, h) /\ Acquires(p, Spots(s, 0, h), Spots(s, h, W(s).blocks), now, a)
  BY AdmissionFacts
<1> HIDE DEF h
<1>2. ~CanAcquire(Contents(p), Spots(s, 0, h), Spots(s, h, W(s).blocks))
  BY <1>1 DEF Fits
<1>3. PoolOK(q, now) /\ q.family = p.family /\ Contents(q) = Contents(p) /\ Respects(p, q, now)
  BY <1>1, <1>2 DEF Acquires
<1> QED
  BY <1>3 DEF Serves

\* One that fits is an Acquired of PrefixCache.
LEMMA AdmitDone ==
  ASSUME ClientOK, NEW s \in Clients, turn[s] <= Len(Work[s]), phase[s] = "out",
         NEW p, PoolOK(p, now),
         NEW C, RefsOK(Contents(p), C), C[s] = {}, Fits(Contents(p), s),
         NEW q, q = SetFull(Admission(p, s).pool, {KeyAt(s, j) : j \in Hits(p, s) .. W(s).full - 1}),
         NEW D, Reholds(C, D, s, BlockKeys(s, W(s).blocks))
  PROVE  Serves(p, q, D, now) /\ Admits(Contents(p), s, Contents(q))
<1> DEFINE h == Hits(p, s)
           a == Admission(p, s)
           n == W(s).full
           b == W(s).blocks
           c == Contents(p)
           H == Spots(s, 0, h)
           N == Spots(s, h, b)
           F == Spots(s, h, n)
<1>0. n \in 0 .. b /\ b \in Nat /\ s \in Nat
  BY TurnFacts
<1>1. Prompt(c, s, h) /\ Acquires(p, H, N, now, a)
  BY AdmissionFacts
<1>2. a.result = IF Fits(c, s) THEN "done" ELSE "refused"
  BY AdmitDecided
<1>3. q = SetFull(a.pool, F)
  BY DEF Spots
<1>4. h \in 0 .. b
  BY <1>0, <1>1 DEF Prompt
<1>5. /\ H = BlockKeys(s, h) /\ H \cup N = BlockKeys(s, b) /\ H \cap N = {}
  BY <1>0, <1>4, SpotFacts
<1> DEFINE g == Contents(a.pool)
<1> HIDE DEF h, a, c, b, H, N, F, g
<1>6. CanAcquire(c, H, N)
  BY <1>1, <1>2 DEF Acquires, c
<1>7. PoolOK(a.pool, now) /\ a.pool.family = p.family /\ g \in Acquired(c, H, N) /\ Respects(p, a.pool, now)
  BY <1>1, <1>6 DEF Acquires, c, g
<1>8. /\ PoolOK(q, now) /\ Marked(a.pool, q) /\ Contents(q) = MarkFull(g, F)
  BY <1>3, <1>7, SetKeeps DEF g
<1>9. Respects(p, q, now) /\ q.family = p.family
  <2>1. Respects(p, q, now)
    BY <1>7, <1>8, MarkedRespects
  <2> QED
    BY <1>7, <1>8, <2>1 DEF Marked
<1>10. H \in SUBSET DOMAIN c
  <2>1. BlockKeys(s, h) \in SUBSET DOMAIN p.index
    <3>1. n \in Nat
      BY <1>0
    <3>2. h = PrefixHits(p, ChainSeq(s, n))
      BY DEF Hits, h
    <3> HIDE DEF n
    <3> QED
      BY <1>0, <3>1, <3>2, HitsFacts
  <2>2. DOMAIN c = DOMAIN p.index
    BY ContentsFacts DEF c
  <2> QED
    BY <1>5, <2>1, <2>2
<1>11. RefsOK(g, D)
  <2>1. Reholds(C, D, s, C[s] \cup (H \cup N))
    <3>1. C[s] \cup (H \cup N) = BlockKeys(s, b)
      BY <1>5
    <3> QED
      BY <3>1 DEF b
  <2>2. (H \cup N) \cap C[s] = {}
    OBVIOUS
  <2>3. RefsOK(c, C)
    BY DEF c
  <2> QED
    BY <1>5, <1>7, <1>10, <2>1, <2>2, <2>3, RefsAcquire
<1>12. RefsOK(Contents(q), D)
  BY <1>8, <1>11, RefsMarks
<1>13. Serves(p, q, D, now)
  BY <1>8, <1>9, <1>12 DEF Serves
<1>14. Admits(c, s, Contents(q))
  <2>1. Contents(q) = MarkFull(g, Spots(s, h, W(s).full))
    BY <1>8 DEF F, n
  <2>2. g \in Acquired(c, Spots(s, 0, h), Spots(s, h, W(s).blocks))
    BY <1>7 DEF H, N, b
  <2> QED
    BY <1>1, <2>1, <2>2 DEF Admits
<1> QED
  BY <1>13, <1>14 DEF c

(***************************************************************************)
(* Growth and the end of a turn.                                           *)
(***************************************************************************)
SealedAs(c, s) ==
  MarkReady(MarkFull(c, {KeyAt(s, chain[s] - 1)}), {KeyAt(s, chain[s] - 1)})

MayGrow(c, s) == CanAcquire(SealedAs(c, s), {}, {KeyAt(s, chain[s])})

LEMMA MarkedTwice ==
  ASSUME NEW p, NEW m, NEW q, Marked(p, m), Marked(m, q)
  PROVE  Marked(p, q)
<1>1. \A k \in DOMAIN p.index : SameClock(q.index[k], p.index[k])
  BY DEF Marked, SameClock
<1> QED
  BY <1>1 DEF Marked

\* _grow_one_block seals the tail.
LEMMA SealKeeps ==
  ASSUME NEW p, NEW t, PoolOK(p, t), NEW s, NEW q, q = SealTail(p, s)
  PROVE  /\ PoolOK(q, t) /\ Marked(p, q) /\ Contents(q) = SealedAs(Contents(p), s)
         /\ \A C : RefsOK(Contents(p), C) => RefsOK(Contents(q), C)
<1> DEFINE K == {KeyAt(s, chain[s] - 1)}
           m == SetFull(p, K)
<1>1. PoolOK(m, t) /\ Marked(p, m) /\ Contents(m) = MarkFull(Contents(p), K)
  BY SetKeeps
<1>2. q = SetReady(m, K)
  BY DEF SealTail
<1>3. SealedAs(Contents(p), s) = MarkReady(MarkFull(Contents(p), K), K)
  BY DEF SealedAs
<1> HIDE DEF K, m
<1>4. PoolOK(q, t) /\ Marked(m, q) /\ Contents(q) = MarkReady(Contents(m), K)
  BY <1>1, <1>2, SetKeeps
<1>5. Marked(p, q)
  BY <1>1, <1>4, MarkedTwice
<1>6. ASSUME NEW C, RefsOK(Contents(p), C) PROVE RefsOK(Contents(q), C)
  <2>1. RefsOK(Contents(m), C)
    BY <1>1, <1>6, RefsMarks
  <2> QED
    BY <1>4, <2>1, RefsMarks
<1> QED
  BY <1>1, <1>3, <1>4, <1>5, <1>6

LEMMA OneKey ==
  ASSUME NEW k \in Key
  PROVE  /\ IsList(Key, <<>>) /\ ToSet(<<>>) = {}
         /\ IsList(Key, <<k>>) /\ ToSet(<<k>>) = {k}
<1>1. <<>> \in Seq(Key) /\ Len(<<>>) = 0 /\ 1 .. 0 = {}
  OBVIOUS
<1>2. IsList(Key, <<>>)
  BY <1>1 DEF IsList
<1> DEFINE l == <<k>>
<1>3. l \in Seq(Key) /\ Len(l) = 1 /\ l[1] = k /\ 1 .. 1 = {1}
  OBVIOUS
<1> HIDE DEF l
<1>4. IsList(Key, l)
  BY <1>3 DEF IsList
<1>5. ToSet(l) = {l[i] : i \in 1 .. Len(l)}
  BY <1>3, SeqFacts
<1>6. ToSet(l) = {k}
  BY <1>3, <1>5
<1> QED
  BY <1>2, <1>4, <1>6, EmptySet DEF l

\* The new block of a growth is one acquire may be asked for.
LEMMA GrowthFacts ==
  ASSUME ClientOK, NEW s \in Clients, NEW p, PoolOK(p, now),
         NEW m, m = SealTail(p, s),
         NEW a, a = Acquire(m, <<>>, <<KeyAt(s, chain[s])>>, now)
  PROVE  Acquires(m, {}, {KeyAt(s, chain[s])}, now, a)
<1> DEFINE k == KeyAt(s, chain[s])
<1>0. s \in Nat /\ chain[s] \in Nat /\ now \in Int
  BY DEF ClientOK, Clients
<1>1. k \in Key
  BY <1>0, NextKey
<1>2. PoolOK(m, now)
  BY SealKeeps
<1> HIDE DEF k
<1> DEFINE x == <<>>
           y == <<k>>
<1>3. IsList(Key, x) /\ ToSet(x) = {} /\ IsList(Key, y) /\ ToSet(y) = {k}
  BY <1>1, OneKey
<1>4. a = Acquire(m, x, y, now)
  BY DEF k
<1> HIDE DEF x, y
<1>5. ToSet(x) \in SUBSET DOMAIN m.index
  BY <1>3
<1>6. Acquires(m, ToSet(x), ToSet(y), now, a)
  BY <1>0, <1>2, <1>3, <1>4, <1>5, AcquireKeeps
<1> QED
  BY <1>3, <1>6 DEF k

\* A growth is decided by what is cached.
LEMMA GrowDecided ==
  ASSUME ClientOK, NEW s \in Clients, NEW p, PoolOK(p, now),
         NEW a, a = Acquire(SealTail(p, s), <<>>, <<KeyAt(s, chain[s])>>, now)
  PROVE  a.result = IF MayGrow(Contents(p), s) THEN "done" ELSE "refused"
<1> DEFINE m == SealTail(p, s)
<1>1. Acquires(m, {}, {KeyAt(s, chain[s])}, now, a)
  BY GrowthFacts
<1>2. Contents(m) = SealedAs(Contents(p), s)
  BY SealKeeps
<1> HIDE DEF m
<1> QED
  BY <1>1, <1>2 DEF Acquires, MayGrow

\* A growth that fits is an Acquired of PrefixCache.
LEMMA GrowDone ==
  ASSUME ClientOK, NEW s \in Clients, NEW p, PoolOK(p, now),
         NEW C, RefsOK(Contents(p), C), C[s] = BlockKeys(s, chain[s]), MayGrow(Contents(p), s),
         NEW a, a = Acquire(SealTail(p, s), <<>>, <<KeyAt(s, chain[s])>>, now),
         NEW D, Reholds(C, D, s, BlockKeys(s, chain[s] + 1))
  PROVE  /\ Serves(p, a.pool, D, now)
         /\ Contents(a.pool) \in Acquired(SealedAs(Contents(p), s), {}, {KeyAt(s, chain[s])})
<1> DEFINE m == SealTail(p, s)
           N == {KeyAt(s, chain[s])}
           c == Contents(m)
           q == a.pool
<1>0. s \in Nat /\ chain[s] \in Nat
  BY DEF ClientOK, Clients
<1>1. Acquires(m, {}, N, now, a)
  BY GrowthFacts
<1>2. Marked(p, m) /\ c = SealedAs(Contents(p), s) /\ RefsOK(c, C)
  BY SealKeeps
<1>3. N \cap C[s] = {} /\ BlockKeys(s, chain[s] + 1) = C[s] \cup N
  BY <1>0, NextKey
<1> HIDE DEF m, N, c, q
<1>4. CanAcquire(c, {}, N)
  BY <1>2 DEF MayGrow, N
<1>5. PoolOK(q, now) /\ q.family = m.family /\ Contents(q) \in Acquired(c, {}, N) /\ Respects(m, q, now)
  BY <1>1, <1>4 DEF Acquires, c, q
<1>6. Respects(p, q, now) /\ q.family = p.family
  <2>1. Respects(p, q, now)
    BY <1>2, <1>5, RespectsMarked
  <2> QED
    BY <1>2, <1>5, <2>1 DEF Marked
<1>7. RefsOK(Contents(q), D)
  <2> DEFINE H == {}
             g == Contents(q)
  <2>1. H \in SUBSET DOMAIN c /\ H \cap N = {} /\ (H \cup N) \cap C[s] = {}
        /\ C[s] \cup (H \cup N) = BlockKeys(s, chain[s] + 1)
    BY <1>3
  <2>2. g \in Acquired(c, H, N)
    BY <1>5
  <2> HIDE DEF H, g
  <2>3. Reholds(C, D, s, C[s] \cup (H \cup N))
    BY <2>1
  <2>4. RefsOK(g, D)
    BY <1>2, <2>1, <2>2, <2>3, RefsAcquire
  <2> QED
    BY <2>4 DEF g
<1>8. Serves(p, q, D, now)
  BY <1>5, <1>6, <1>7 DEF Serves
<1> QED
  BY <1>2, <1>5, <1>8 DEF N, q

\* Giving back the blocks of a session.
LEMMA ReleaseServes ==
  ASSUME ClientOK, NEW s \in Clients, NEW p, PoolOK(p, now),
         NEW C, RefsOK(Contents(p), C), C[s] = BlockKeys(s, chain[s]),
         NEW r, NEW f \in BOOLEAN, RankOK(p.family, r, f),
         NEW q, q = ReleaseChain(p, ChainSeq(s, chain[s]), now, r, f),
         NEW D, Reholds(C, D, s, {})
  PROVE  /\ PoolOK(q, now) /\ q.family = p.family
         /\ Contents(q) = Release(Contents(p), BlockKeys(s, chain[s]), f)
         /\ RefsOK(Contents(q), D)
         /\ Resting(p) \in SUBSET DOMAIN q.index
<1> DEFINE l == ChainSeq(s, chain[s])
           K == BlockKeys(s, chain[s])
           c == Contents(p)
<1>0. s \in Nat /\ chain[s] \in Nat /\ now \in Int
  BY DEF ClientOK, Clients
<1>1. IsList(Key, l) /\ ToSet(l) = K
  BY <1>0, ChainFacts
<1>2. /\ IsCache(c) /\ DOMAIN c = DOMAIN p.index
      /\ \A k \in DOMAIN c : SameBlock(c[k], p.index[k])
      /\ Evictable(c) = Resting(p)
  BY ContentsFacts
<1>3. /\ C[s] = K /\ q = ReleaseChain(p, l, now, r, f) /\ RefsOK(c, C)
  OBVIOUS
<1> HIDE DEF l, K, c
<1>4. ASSUME NEW k \in K PROVE k \in DOMAIN p.index /\ p.index[k].ref > 0
  <2>1. k \in DOMAIN c /\ c[k].ref = Cardinality(HeldBy(C, k))
    BY <1>3 DEF RefsOK
  <2>2. s \in HeldBy(C, k)
    BY <1>3 DEF HeldBy
  <2>3. Cardinality(HeldBy(C, k)) \in Nat /\ Cardinality(HeldBy(C, k)) # 0
    BY <2>2, HoldersFinite
  <2> QED
    BY <1>2, <2>1, <2>3 DEF SameBlock
<1>5. PoolOK(q, now) /\ q.family = p.family /\ Contents(q) = Release(c, K, f)
  <2>1. ToSet(l) \in SUBSET DOMAIN p.index /\ \A k \in ToSet(l) : p.index[k].ref > 0
    BY <1>1, <1>4
  <2>2. /\ PoolOK(q, now) /\ q.family = p.family
        /\ Contents(q) = Release(Contents(p), ToSet(l), f)
    BY <1>0, <1>1, <1>3, <2>1, ReleaseKeeps
  <2> QED
    BY <1>1, <2>2 DEF c
<1>6. RefsOK(Contents(q), D)
  BY <1>3, <1>5, RefsRelease
<1>7. Resting(p) \in SUBSET DOMAIN q.index
  <2>1. DOMAIN Contents(q) = DOMAIN q.index
    BY <1>5, ContentsFacts
  <2>2. Releases(c, K, f, Contents(q))
    BY <1>2, <1>5, ReleaseFacts
  <2>3. \A k \in Resting(p) : k \notin K /\ k \in DOMAIN c
    BY <1>2, <1>4 DEF Resting
  <2> QED
    BY <2>1, <2>2, <2>3 DEF Releases
<1> QED
  BY <1>5, <1>6, <1>7 DEF c, K

\* The newest gives up its blocks if there is no room.
LEMMA GrowRefused ==
  ASSUME ClientOK, NEW s \in Clients, NEW v \in Clients, NEW p, PoolOK(p, now),
         NEW C, RefsOK(Contents(p), C), C[v] = BlockKeys(v, chain[v]), ~MayGrow(Contents(p), s),
         NEW a, a = Acquire(SealTail(p, s), <<>>, <<KeyAt(s, chain[s])>>, now),
         NEW q, q = ReleaseChain(a.pool, ChainSeq(v, chain[v]), now, 0, FALSE),
         NEW D, Reholds(C, D, v, {})
  PROVE  /\ Serves(p, q, D, now)
         /\ Contents(q) = Release(SealedAs(Contents(p), s), BlockKeys(v, chain[v]), FALSE)
<1> DEFINE m == SealTail(p, s)
           c == Contents(m)
           g == a.pool
<1>1. Acquires(m, {}, {KeyAt(s, chain[s])}, now, a)
  BY GrowthFacts
<1>2. PoolOK(m, now) /\ Marked(p, m) /\ c = SealedAs(Contents(p), s) /\ RefsOK(c, C)
  BY SealKeeps
<1> HIDE DEF m, c, g
<1>3. ~CanAcquire(c, {}, {KeyAt(s, chain[s])})
  BY <1>2 DEF MayGrow
<1>4. PoolOK(g, now) /\ g.family = m.family /\ Contents(g) = c
  BY <1>1, <1>3 DEF Acquires, c, g
<1>5. Resting(g) = Resting(p)
  <2>1. Resting(g) = Evictable(Contents(g))
    BY <1>4, ContentsFacts
  <2>2. Resting(m) = Evictable(c)
    BY <1>2, ContentsFacts DEF c
  <2> QED
    BY <1>2, <1>4, <2>1, <2>2 DEF Marked
<1>6. RankOK(g.family, 0, FALSE)
  BY DEF RankOK
<1>7. RefsOK(Contents(g), C) /\ q = ReleaseChain(g, ChainSeq(v, chain[v]), now, 0, FALSE)
  BY <1>2, <1>4 DEF g
<1>8. /\ PoolOK(q, now) /\ q.family = g.family
      /\ Contents(q) = Release(Contents(g), BlockKeys(v, chain[v]), FALSE)
      /\ RefsOK(Contents(q), D)
      /\ Resting(g) \in SUBSET DOMAIN q.index
  BY <1>4, <1>6, <1>7, ReleaseServes
<1>9. Respects(p, q, now)
  BY <1>5, <1>8, RespectsNothing
<1>10. q.family = p.family
  BY <1>2, <1>4, <1>8 DEF Marked
<1> QED
  BY <1>2, <1>4, <1>8, <1>9, <1>10 DEF Serves

\* The release of a request that is done.
LEMMA FinishServes ==
  ASSUME ClientOK, NEW s \in Clients, NEW p, PoolOK(p, now),
         NEW C, RefsOK(Contents(p), C), C[s] = BlockKeys(s, chain[s]),
         NEW r, RankOK(p.family, r, TRUE),
         NEW q, q = ReleaseChain(IF W(s).whole THEN SealTail(p, s) ELSE p,
                                 ChainSeq(s, chain[s]), now, r, TRUE),
         NEW D, Reholds(C, D, s, {})
  PROVE  /\ Serves(p, q, D, now)
         /\ Contents(q) = Release(IF W(s).whole THEN SealedAs(Contents(p), s) ELSE Contents(p),
                                  BlockKeys(s, chain[s]), TRUE)
<1> DEFINE m == IF W(s).whole THEN SealTail(p, s) ELSE p
           c == IF W(s).whole THEN SealedAs(Contents(p), s) ELSE Contents(p)
<1>1. PoolOK(m, now) /\ Resting(m) = Resting(p) /\ m.family = p.family
      /\ Contents(m) = c /\ RefsOK(Contents(m), C)
  <2>1. CASE W(s).whole
    <3>1. m = SealTail(p, s) /\ c = SealedAs(Contents(p), s)
      BY <2>1
    <3> HIDE DEF m, c
    <3>2. /\ PoolOK(m, now) /\ Marked(p, m) /\ Contents(m) = SealedAs(Contents(p), s)
          /\ RefsOK(Contents(m), C)
      BY <3>1, SealKeeps
    <3> QED
      BY <3>1, <3>2 DEF Marked
  <2>2. CASE ~W(s).whole
    BY <2>2
  <2> QED
    BY <2>1, <2>2
<1>2. q = ReleaseChain(m, ChainSeq(s, chain[s]), now, r, TRUE)
  OBVIOUS
<1> HIDE DEF m, c
<1>3. RankOK(m.family, r, TRUE)
  BY <1>1
<1>4. /\ PoolOK(q, now) /\ q.family = m.family
      /\ Contents(q) = Release(Contents(m), BlockKeys(s, chain[s]), TRUE)
      /\ RefsOK(Contents(q), D)
      /\ Resting(m) \in SUBSET DOMAIN q.index
  BY <1>1, <1>2, <1>3, ReleaseServes
<1>5. Respects(p, q, now)
  BY <1>1, <1>4, RespectsNothing
<1>6. Serves(p, q, D, now)
  BY <1>1, <1>4, <1>5 DEF Serves
<1> QED
  BY <1>1, <1>4, <1>6 DEF c

(***************************************************************************)
(* The rank of an arm suits its family.                                    *)
(***************************************************************************)
LEMMA InfoFacts ==
  ASSUME ClientOK, NEW s \in Clients, turn[s] <= Len(Work[s]), NEW v \in ArmView
  PROVE  /\ Info(v, s).last \in BOOLEAN /\ Info(v, s).pause \in Int
         /\ Info(v, s).ends \in BOOLEAN /\ Info(v, s).guess \in Int
<1> DEFINE w == W(s)
<1>1. /\ w.pause \in Nat /\ w.guess \in Nat /\ w.ends \in BOOLEAN /\ MaxTime \in Nat
  BY TurnFacts, WorkAssumption
<1> DEFINE l == IsFinal(s)
           i == Info(v, s)
<1>2. l \in BOOLEAN
  BY DEF IsFinal
<1> HIDE DEF l, w
<1>3. MaxTime + 1 - w.pause \in Int /\ (~l) \in BOOLEAN
  <2>1. MaxTime + 1 - w.pause \in Int
    BY <1>1
  <2>2. (~l) \in BOOLEAN
    BY <1>2
  <2> QED
    BY <2>1, <2>2
<1>4. v.told \in {"given", "truth", "flat", "false"}
  BY DEF ArmView
<1>5. CASE v.told = "given"
  <2>1. i = [last |-> l, pause |-> w.pause, ends |-> w.ends, guess |-> w.guess]
    BY <1>5 DEF Info, w, l
  <2> HIDE DEF i
  <2> QED
    BY <1>1, <1>2, <2>1 DEF i
<1>6. CASE v.told = "truth"
  <2>1. i = [last |-> l, pause |-> w.pause, ends |-> l, guess |-> w.pause]
    BY <1>6 DEF Info, w, l
  <2> HIDE DEF i
  <2> QED
    BY <1>1, <1>2, <2>1 DEF i
<1>7. CASE v.told = "flat"
  <2>1. i = [last |-> l, pause |-> w.pause, ends |-> FALSE, guess |-> 1]
    BY <1>7 DEF Info, w, l
  <2> HIDE DEF i
  <2> QED
    BY <1>1, <1>2, <2>1 DEF i
<1>8. CASE v.told = "false"
  <2>1. i = [last |-> ~l, pause |-> MaxTime + 1 - w.pause, ends |-> w.ends, guess |-> w.guess]
    BY <1>8 DEF Info, w, l
  <2> HIDE DEF i
  <2> QED
    BY <1>1, <1>3, <2>1 DEF i
<1> QED
  BY <1>4, <1>5, <1>6, <1>7, <1>8

\* The rank of each arm is one of its family.
LEMMA RankFacts ==
  ASSUME ClientOK, NEW s \in Clients, turn[s] <= Len(Work[s]), NEW v \in ArmView
  PROVE  RankOK(Family(v.arm), Rank(v.arm, Info(v, s), now), TRUE)
<1> DEFINE i == Info(v, s)
           a == v.arm
           r == Rank(a, i, now)
<1>1. i.last \in BOOLEAN /\ i.pause \in Int /\ i.ends \in BOOLEAN /\ i.guess \in Int
  BY InfoFacts
<1>2. now \in Int /\ ConstTtl \in Int /\ OracleScale \in Int
  BY PolicyAssumption DEF ClientOK
<1> HIDE DEF i
<1>3. i.pause * OracleScale \in Int
  BY <1>1, <1>2
<1>4. a \in TtlArms \cup PriorityArms
  BY DEF ArmView
<1> HIDE DEF a
<1>5. CASE a \in TtlArms
  <2>1. r \in Int
    BY <1>1, <1>2, <1>3, <1>5 DEF TtlArms, Rank
  <2>2. Family(a) = "ttl"
    BY <1>5 DEF Family
  <2> HIDE DEF r
  <2> QED
    BY <2>1, <2>2 DEF RankOK, r, a, i
<1>6. CASE a \in PriorityArms /\ a \notin TtlArms
  <2>1. ASSUME NEW n \in Int PROVE Live(n) \in Seq(Int) /\ Len(Live(n)) = 2
    BY DEF Live
  <2>2. Dead \in Seq(Int) /\ Len(Dead) = 2
    BY DEF Dead
  <2>3. /\ now \in Int /\ -(now + i.pause * OracleScale) \in Int /\ -(i.pause * OracleScale) \in Int
        /\ -(now + i.guess) \in Int /\ -i.guess \in Int
    <3> DEFINE n == i.pause * OracleScale
    <3> HIDE DEF n
    <3>1. n \in Int
      BY <1>3 DEF n
    <3>2. -(now + n) \in Int /\ -n \in Int
      BY <1>2, <3>1
    <3>3. -(now + i.guess) \in Int /\ -i.guess \in Int
      BY <1>1, <1>2
    <3> QED
      BY <1>2, <3>2, <3>3 DEF n
  <2>4. \/ r = Dead \/ r = Live(now) \/ r = Live(-(now + i.pause * OracleScale))
        \/ r = Live(-(i.pause * OracleScale)) \/ r = Live(-(now + i.guess)) \/ r = Live(-i.guess)
    <3> HIDE DEF Live, Dead
    <3> QED
      BY <1>6, Zenon DEF PriorityArms, Rank
  <2>5. r \in Seq(Int) /\ Len(r) = 2
    <3> HIDE DEF r
    <3> QED
      BY <2>1, <2>2, <2>3, <2>4
  <2>6. Family(a) = "priority"
    BY <1>6 DEF Family
  <2> HIDE DEF r
  <2> QED
    BY <2>5, <2>6 DEF RankOK, r, a, i
<1> QED
  BY <1>4, <1>5, <1>6

(***************************************************************************)
(* The steps of the client.                                                *)
(***************************************************************************)
LEMMA EnterKeeps ==
  ASSUME ClientOK, NEW s \in Clients, CanEnter(s), Enter(s)
  PROVE  /\ ClientOK' /\ turn[s] <= Len(Work[s]) /\ phase[s] = "out"
         /\ Held(chain)[s] = {}
         /\ Reholds(Held(chain), Held(chain'), s, BlockKeys(s, W(s).blocks))
<1>0. /\ phase[s] = "out" /\ turn[s] <= Len(Work[s]) /\ chain[s] = 0 /\ grown[s] = 0
  BY DEF CanEnter, ClientOK
<1>1. W(s).blocks \in Nat
  BY <1>0, TurnFacts
<1>2. /\ phase' = [phase EXCEPT ![s] = "prefill"] /\ chain' = [chain EXCEPT ![s] = W(s).blocks]
      /\ running' = Append(running, s)
      /\ turn' = turn /\ grown' = grown /\ back' = back /\ now' = now
  BY DEF Enter
<1> DEFINE b == W(s).blocks
           ps == phase'
           cs == chain'
<1>3. /\ ps \in [Clients -> {"out", "prefill", "decode"}] /\ cs \in [Clients -> Nat]
      /\ ps[s] = "prefill" /\ cs[s] = b
      /\ \A x \in Clients \ {s} : ps[x] = phase[x] /\ cs[x] = chain[x]
  BY <1>1, <1>2 DEF ClientOK
<1>4. IsList(Clients, running') /\ ToSet(running') = {x \in Clients : ps[x] # "out"}
  <2>1. IsList(Clients, running) /\ running \in Seq(Clients)
        /\ ToSet(running) = {x \in Clients : phase[x] # "out"}
    BY DEF ClientOK, IsList
  <2>2. s \notin ToSet(running)
    BY <1>0, <2>1
  <2>3. IsList(Clients, running')
    BY <1>2, <2>1, <2>2, AppendList
  <2>4. ToSet(running') = ToSet(running) \cup {s}
    BY <1>2, <2>1, AppendFacts
  <2>5. \A x \in Clients : ps[x] # "out" <=> (phase[x] # "out" \/ x = s)
    BY <1>3
  <2> HIDE DEF ps
  <2> QED
    BY <2>1, <2>3, <2>4, <2>5
<1>5. \A x \in Clients : W(x)' = W(x)
  BY <1>2 DEF W
<1>6. \A x \in Clients :
        /\ ps[x] = "out" => cs[x] = 0 /\ grown[x] = 0
        /\ ps[x] # "out" => turn[x] <= Len(Work[x]) /\ cs[x] = W(x).blocks + grown[x]
  <2> TAKE x \in Clients
  <2>1. CASE x = s
    BY <1>0, <1>1, <1>3, <2>1
  <2>2. CASE x # s
    <3>1. ps[x] = phase[x] /\ cs[x] = chain[x]
      BY <1>3, <2>2
    <3> HIDE DEF ps, cs
    <3> QED
      BY <3>1 DEF ClientOK
  <2> QED
    BY <2>1, <2>2
<1>7. ClientOK'
  BY <1>2, <1>3, <1>4, <1>5, <1>6 DEF ClientOK
<1>8. Held(chain)[s] = {}
  BY <1>0, HeldFacts, NoKeys
<1>9. Reholds(Held(chain), Held(chain'), s, BlockKeys(s, b))
  <2> HIDE DEF b
  <2> QED
    BY <1>3 DEF Reholds, Held
<1> QED
  BY <1>0, <1>7, <1>8, <1>9

\* Prefill holds what it held.
LEMMA PrefilledKeeps ==
  ASSUME ClientOK, NEW s \in Clients, Prefilled(s)
  PROVE  ClientOK' /\ chain' = chain
<1>1. /\ phase[s] = "prefill" /\ phase' = [phase EXCEPT ![s] = "decode"]
      /\ turn' = turn /\ chain' = chain /\ grown' = grown /\ back' = back
      /\ running' = running /\ now' = now
  BY DEF Prefilled
<1> DEFINE ps == phase'
<1>2. /\ ps \in [Clients -> {"out", "prefill", "decode"}]
      /\ \A x \in Clients : ps[x] = "out" <=> phase[x] = "out"
  BY <1>1 DEF ClientOK
<1>3. \A x \in Clients : W(x)' = W(x)
  BY <1>1 DEF W
<1>4. {x \in Clients : ps[x] # "out"} = {x \in Clients : phase[x] # "out"}
  BY <1>2
<1>5. ClientOK'
  BY <1>1, <1>2, <1>3, <1>4 DEF ClientOK
<1> QED
  BY <1>1, <1>5

\* A growth holds one block more.
LEMMA GrownKeeps ==
  ASSUME ClientOK, NEW s \in Clients, CanGrow(s), Grown(s)
  PROVE  /\ ClientOK'
         /\ Reholds(Held(chain), Held(chain'), s, BlockKeys(s, chain[s] + 1))
<1>1. /\ phase[s] = "decode" /\ chain' = [chain EXCEPT ![s] = chain[s] + 1]
      /\ grown' = [grown EXCEPT ![s] = grown[s] + 1]
      /\ turn' = turn /\ phase' = phase /\ back' = back
      /\ running' = running /\ now' = now
  BY DEF CanGrow, Grown
<1>2. /\ chain[s] \in Nat /\ grown[s] \in Nat
      /\ turn[s] <= Len(Work[s]) /\ chain[s] = W(s).blocks + grown[s]
  BY <1>1 DEF ClientOK
<1>3. W(s).blocks \in Nat
  BY <1>2, TurnFacts
<1> DEFINE cs == chain'
           gs == grown'
<1>4. /\ cs \in [Clients -> Nat] /\ gs \in [Clients -> Nat]
      /\ cs[s] = chain[s] + 1 /\ gs[s] = grown[s] + 1
      /\ \A x \in Clients \ {s} : cs[x] = chain[x] /\ gs[x] = grown[x]
  BY <1>1, <1>2 DEF ClientOK
<1>5. \A x \in Clients : W(x)' = W(x)
  BY <1>1 DEF W
<1>6. \A x \in Clients :
        /\ phase[x] = "out" => cs[x] = 0 /\ gs[x] = 0
        /\ phase[x] # "out" => turn[x] <= Len(Work[x]) /\ cs[x] = W(x).blocks + gs[x]
  <2> TAKE x \in Clients
  <2>1. CASE x = s
    <3>1. cs[x] = W(x).blocks + gs[x]
      BY <1>2, <1>3, <1>4, <2>1
    <3> QED
      BY <1>1, <1>2, <2>1, <3>1
  <2>2. CASE x # s
    <3>1. cs[x] = chain[x] /\ gs[x] = grown[x]
      BY <1>4, <2>2
    <3> HIDE DEF gs, cs
    <3> QED
      BY <3>1 DEF ClientOK
  <2> QED
    BY <2>1, <2>2
<1>7. ClientOK'
  BY <1>1, <1>4, <1>5, <1>6 DEF ClientOK
<1>8. Reholds(Held(chain), Held(chain'), s, BlockKeys(s, chain[s] + 1))
  BY <1>4 DEF Reholds, Held
<1> QED
  BY <1>7, <1>8

\* A session stops running, and the others run on.
LEMMA StoppedKeeps ==
  ASSUME ClientOK, NEW s \in Clients,
         phase' = [phase EXCEPT ![s] = "out"],
         chain' = [chain EXCEPT ![s] = 0], grown' = [grown EXCEPT ![s] = 0],
         turn' \in [Clients -> Nat \ {0}], \A x \in Clients \ {s} : turn'[x] = turn[x],
         back' \in [Clients -> Nat], now' = now,
         IsList(Clients, running'), ToSet(running') = ToSet(running) \ {s}
  PROVE  ClientOK' /\ Reholds(Held(chain), Held(chain'), s, {})
<1> DEFINE ps == phase'
           cs == chain'
           gs == grown'
<1>1. /\ ps \in [Clients -> {"out", "prefill", "decode"}]
      /\ cs \in [Clients -> Nat] /\ gs \in [Clients -> Nat]
      /\ ps[s] = "out" /\ cs[s] = 0 /\ gs[s] = 0
      /\ \A x \in Clients \ {s} : ps[x] = phase[x] /\ cs[x] = chain[x] /\ gs[x] = grown[x]
  BY DEF ClientOK
<1>2. \A x \in Clients \ {s} : W(x)' = W(x)
  BY DEF W
<1>3. ToSet(running') = {x \in Clients : ps[x] # "out"}
  <2>1. ToSet(running) = {x \in Clients : phase[x] # "out"}
    BY DEF ClientOK
  <2>2. \A x \in Clients : ps[x] # "out" <=> (phase[x] # "out" /\ x # s)
    BY <1>1
  <2> HIDE DEF ps
  <2> QED
    BY <2>1, <2>2
<1>4. \A x \in Clients :
        /\ ps[x] = "out" => cs[x] = 0 /\ gs[x] = 0
        /\ ps[x] # "out" => turn'[x] <= Len(Work[x]) /\ cs[x] = W(x)'.blocks + gs[x]
  <2> TAKE x \in Clients
  <2>1. CASE x = s
    BY <1>1, <2>1
  <2>2. CASE x # s
    <3>1. ps[x] = phase[x] /\ cs[x] = chain[x] /\ gs[x] = grown[x] /\ turn'[x] = turn[x] /\ W(x)' = W(x)
      BY <1>1, <1>2, <2>2
    <3> HIDE DEF ps, gs, cs
    <3> QED
      BY <3>1 DEF ClientOK
  <2> QED
    BY <2>1, <2>2
<1>5. ClientOK'
  BY <1>1, <1>3, <1>4 DEF ClientOK
<1>6. Reholds(Held(chain), Held(chain'), s, {})
  BY <1>1, NoKeys DEF Reholds, Held
<1> QED
  BY <1>5, <1>6

\* A list without its last element.
LEMMA AllButLast ==
  ASSUME NEW C, NEW l, IsList(C, l), NEW n, n = Len(l), n # 0
  PROVE  /\ l[n] \in C
         /\ IsList(C, SubSeq(l, 1, n - 1)) /\ ToSet(SubSeq(l, 1, n - 1)) = ToSet(l) \ {l[n]}
<1>0. /\ n \in Nat /\ ToSet(l) = {l[i] : i \in 1 .. n} /\ \A i \in 1 .. n : l[i] \in C
      /\ \A i, j \in 1 .. n : l[i] = l[j] => i = j
  BY SeqFacts DEF IsList
<1> DEFINE a == SubSeq(l, 1, n - 1)
           m == n - 1
<1>1. m \in 0 .. Len(l) /\ n \in 1 .. n
  BY <1>0
<1>2. a = SubSeq(l, 1, m)
  OBVIOUS
<1> HIDE DEF m, a
<1>3. IsList(C, a)
  BY <1>1, <1>2, SplitList
<1>4. ToSet(a) = {l[i] : i \in 1 .. m}
  BY <1>1, <1>2, SplitList
<1>5. \A i : i \in 1 .. n <=> (i \in 1 .. m \/ i = n)
  BY <1>0, <1>1 DEF m
<1>6. \A i \in 1 .. m : i \in 1 .. n /\ i # n
  BY <1>0 DEF m
<1>7. ToSet(a) = ToSet(l) \ {l[n]}
  BY <1>0, <1>1, <1>4, <1>5, <1>6
<1> QED
  BY <1>0, <1>1, <1>3, <1>7 DEF a

\* Who is preempted holds nothing.
LEMMA PreemptedKeeps ==
  ASSUME ClientOK, NEW s \in Clients, phase[s] = "decode", Preempted
  PROVE  /\ Newest \in Clients /\ ClientOK'
         /\ Reholds(Held(chain), Held(chain'), Newest, {})
<1> DEFINE n == Len(running)
           v == Newest
<1>0. /\ IsList(Clients, running)
      /\ ToSet(running) = {x \in Clients : phase[x] # "out"}
  BY DEF ClientOK
<1>1. ToSet(running) = {running[i] : i \in 1 .. n} /\ n \in Nat
  BY <1>0, SeqFacts DEF IsList
<1>2. n # 0
  <2>1. s \in ToSet(running)
    BY <1>0
  <2> QED
    BY <1>1, <2>1
<1>3. v = running[n] /\ running' = SubSeq(running, 1, n - 1)
  BY DEF Newest, Preempted
<1> HIDE DEF n, v
<1>4. v \in Clients /\ IsList(Clients, running') /\ ToSet(running') = ToSet(running) \ {v}
  BY <1>0, <1>2, <1>3, AllButLast DEF n
<1>5. /\ phase' = [phase EXCEPT ![v] = "out"]
      /\ chain' = [chain EXCEPT ![v] = 0] /\ grown' = [grown EXCEPT ![v] = 0]
      /\ turn' = turn /\ back' = back /\ now' = now
  BY DEF Preempted, v
<1>6. turn \in [Clients -> Nat \ {0}] /\ back \in [Clients -> Nat]
  BY DEF ClientOK
<1>7. ClientOK' /\ Reholds(Held(chain), Held(chain'), v, {})
  BY <1>4, <1>5, <1>6, StoppedKeeps
<1> QED
  BY <1>4, <1>7 DEF v

\* Who is done holds nothing.
LEMMA LeaveKeeps ==
  ASSUME ClientOK, NEW s \in Clients, CanLeave(s), Leave(s)
  PROVE  /\ turn[s] <= Len(Work[s]) /\ ClientOK'
         /\ Reholds(Held(chain), Held(chain'), s, {})
<1>1. /\ phase[s] = "decode" /\ phase' = [phase EXCEPT ![s] = "out"]
      /\ turn' = [turn EXCEPT ![s] = turn[s] + 1]
      /\ chain' = [chain EXCEPT ![s] = 0] /\ grown' = [grown EXCEPT ![s] = 0]
      /\ back' = [back EXCEPT ![s] = now + W(s).pause]
      /\ running' = Without(running, {s}) /\ now' = now
  BY DEF CanLeave, Leave
<1>2. turn[s] <= Len(Work[s]) /\ turn \in [Clients -> Nat \ {0}] /\ back \in [Clients -> Nat] /\ now \in Nat
  BY <1>1 DEF ClientOK
<1>3. W(s).pause \in Nat
  BY <1>2, TurnFacts
<1>4. turn' \in [Clients -> Nat \ {0}] /\ \A x \in Clients \ {s} : turn'[x] = turn[x]
  BY <1>1, <1>2
<1>5. back' \in [Clients -> Nat]
  <2> DEFINE d == now + W(s).pause
  <2>1. d \in Nat
    BY <1>2, <1>3
  <2>2. back' = [back EXCEPT ![s] = d]
    BY <1>1
  <2> HIDE DEF d
  <2> QED
    BY <1>2, <2>1, <2>2
<1>6. IsList(Clients, running') /\ ToSet(running') = ToSet(running) \ {s}
  <2>1. IsList(Clients, running)
    BY DEF ClientOK
  <2> QED
    BY <1>1, <2>1, WithoutList
<1>7. ClientOK' /\ Reholds(Held(chain), Held(chain'), s, {})
  BY <1>1, <1>4, <1>5, <1>6, StoppedKeeps
<1> QED
  BY <1>2, <1>7

LEMMA TickKeeps ==
  ASSUME ClientOK, ClockTicks
  PROVE  ClientOK' /\ chain' = chain /\ now \in Int /\ now' = now + 1
<1>1. /\ now' = now + 1 /\ phase' = phase /\ turn' = turn /\ chain' = chain /\ grown' = grown
      /\ back' = back /\ running' = running /\ now \in Nat
  BY DEF ClockTicks, ClientOK
<1>2. \A x \in Clients : W(x)' = W(x)
  BY <1>1 DEF W
<1>3. now' \in Nat
  BY <1>1
<1>4. ClientOK'
  BY <1>1, <1>2, <1>3 DEF ClientOK
<1> QED
  BY <1>1, <1>4

(***************************************************************************)
(* The steps of the system, for one of its pools.                          *)
(***************************************************************************)
ViewsOK ==
  /\ views \in Seq(ArmView) \ {<<>>}
  /\ DOMAIN pools = DOMAIN views

SessionPool(i) ==
  /\ i \in DOMAIN pools
  /\ PoolOK(pools[i], now) /\ pools[i].family = Family(views[i].arm)
  /\ RefsOK(Contents(pools[i]), Held(chain))

Agrees(i) == Contents(pools[i]) = Contents(pools[1])

StepOK(i) == SessionPool(i)' /\ Respects(pools[i], pools'[i], now)

\* A run has a first pool.
LEMMA ViewFacts ==
  ASSUME ViewsOK
  PROVE  1 \in DOMAIN pools /\ \A i \in DOMAIN pools : views[i] \in ArmView
<1>1. views \in Seq(ArmView) /\ views # <<>> /\ DOMAIN pools = DOMAIN views
  BY DEF ViewsOK
<1> DEFINE l == views
<1>2. l \in Seq(ArmView) /\ l # <<>> /\ DOMAIN pools = DOMAIN l
  BY <1>1
<1> HIDE DEF l
<1>3. Len(l) \in Nat /\ DOMAIN l = 1 .. Len(l) /\ \A i \in 1 .. Len(l) : l[i] \in ArmView
  BY <1>2, SeqFacts
<1>4. Len(l) # 0
  BY <1>2
<1> QED
  BY <1>2, <1>3, <1>4 DEF l

LEMMA ServesStep ==
  ASSUME NEW i, SessionPool(i), now' = now, views' = views, i \in DOMAIN pools',
         Serves(pools[i], pools'[i], Held(chain'), now)
  PROVE  StepOK(i)
  BY DEF SessionPool, StepOK, Serves

LEMMA SamePoolStep ==
  ASSUME NEW i, SessionPool(i), now' = now, views' = views, chain' = chain, pools' = pools
  PROVE  StepOK(i)
<1>1. Respects(pools[i], pools'[i], now)
  <2>1. Resting(pools[i]) \in SUBSET DOMAIN pools'[i].index
    BY DEF Resting
  <2> QED
    BY <2>1, RespectsNothing
<1> QED
  BY <1>1 DEF SessionPool, StepOK

\* _admit, for a pool that agrees with the first.
LEMMA AdmitStep ==
  ASSUME ClientOK, ViewsOK, SessionPool(1), NEW i, SessionPool(i), Agrees(i),
         NEW s \in Clients, Admit(s)
  PROVE  /\ ClientOK' /\ ViewsOK' /\ StepOK(i)
         /\ \/ CanEnter(s) /\ Enter(s) /\ Admits(Contents(pools[i]), s, Contents(pools'[i]))
            \/ client' = client /\ Contents(pools'[i]) = Contents(pools[i])
<1> DEFINE a == [j \in DOMAIN pools |-> Admission(pools[j], s)]
           q == SetFull(a[i].pool, {KeyAt(s, j) : j \in Hits(pools[i], s) .. W(s).full - 1})
<1>0. /\ CanEnter(s) /\ turn[s] <= Len(Work[s])
      /\ 1 \in DOMAIN pools /\ i \in DOMAIN pools /\ PoolOK(pools[1], now) /\ PoolOK(pools[i], now)
      /\ views' = views
  BY DEF Admit, CanEnter, SessionPool
<1>1. a[1].result = (IF Fits(Contents(pools[i]), s) THEN "done" ELSE "refused")
  <2>1. a[1] = Admission(pools[1], s)
    BY <1>0
  <2> HIDE DEF a
  <2> QED
    BY <1>0, <2>1, AdmitDecided DEF Agrees
<1>2. a[i] = Admission(pools[i], s)
  BY <1>0
<1>3. CASE Fits(Contents(pools[i]), s)
  <2>1. /\ pools' = [j \in DOMAIN pools |->
              SetFull(a[j].pool, {KeyAt(s, k) : k \in Hits(pools[j], s) .. W(s).full - 1})]
        /\ Enter(s)
    BY <1>1, <1>3 DEF Admit
  <2>2. DOMAIN pools' = DOMAIN pools /\ pools'[i] = q
    BY <1>0, <2>1
  <2>3. /\ ClientOK' /\ phase[s] = "out"
        /\ Held(chain)[s] = {}
        /\ Reholds(Held(chain), Held(chain'), s, BlockKeys(s, W(s).blocks))
    BY <1>0, <2>1, EnterKeeps
  <2>4. now' = now
    BY <2>1 DEF Enter
  <2> DEFINE p == pools[i]
             C == Held(chain)
             D == Held(chain')
  <2>5. /\ PoolOK(p, now) /\ RefsOK(Contents(p), C) /\ C[s] = {} /\ Fits(Contents(p), s)
        /\ Reholds(C, D, s, BlockKeys(s, W(s).blocks))
    BY <1>3, <2>3 DEF SessionPool
  <2>6. q = SetFull(Admission(p, s).pool, {KeyAt(s, j) : j \in Hits(p, s) .. W(s).full - 1})
    BY <1>2
  <2> HIDE DEF a, q, p, C, D
  <2>7. Serves(p, q, D, now) /\ Admits(Contents(p), s, Contents(q))
    BY <1>0, <2>3, <2>5, <2>6, AdmitDone
  <2>8. StepOK(i)
    BY <1>0, <2>2, <2>4, <2>7, ServesStep DEF p, D
  <2>9. ViewsOK'
    BY <1>0, <2>2 DEF ViewsOK
  <2> QED
    BY <1>0, <2>1, <2>2, <2>3, <2>7, <2>8, <2>9 DEF p
<1>4. CASE ~Fits(Contents(pools[i]), s)
  <2>1. /\ pools' = [j \in DOMAIN pools |-> a[j].pool]
        /\ client' = client
    BY <1>1, <1>4 DEF Admit
  <2>2. DOMAIN pools' = DOMAIN pools /\ pools'[i] = a[i].pool
    BY <1>0, <2>1
  <2> HIDE DEF a
  <2>3. Serves(pools[i], pools'[i], Held(chain), now) /\ Contents(pools'[i]) = Contents(pools[i])
    BY <1>0, <1>2, <1>4, <2>2, AdmitRefused DEF SessionPool
  <2>4. now' = now /\ chain' = chain
    BY <2>1 DEF client
  <2>5. StepOK(i)
    BY <1>0, <2>2, <2>3, <2>4, ServesStep
  <2>6. ClientOK'
    BY <2>1 DEF client, ClientOK, W
  <2>7. ViewsOK'
    BY <1>0, <2>2 DEF ViewsOK
  <2> QED
    BY <2>1, <2>3, <2>5, <2>6, <2>7
<1> QED
  BY <1>3, <1>4

\* A prefill that ends.
LEMMA PrefillStep ==
  ASSUME ClientOK, ViewsOK, NEW i, SessionPool(i), NEW s \in Clients, FinishPrefill(s)
  PROVE  /\ ClientOK' /\ ViewsOK' /\ StepOK(i)
         /\ Contents(pools'[i]) = MarkReady(Contents(pools[i]), BlockKeys(s, chain[s]))
<1> DEFINE K == BlockKeys(s, chain[s])
           p == pools[i]
           q == SetReady(p, K)
<1>1. /\ Prefilled(s) /\ views' = views
      /\ pools' = [j \in DOMAIN pools |-> SetReady(pools[j], K)]
  BY DEF FinishPrefill
<1>2. ClientOK' /\ chain' = chain /\ now' = now
  BY <1>1, PrefilledKeeps DEF Prefilled
<1>3. DOMAIN pools' = DOMAIN pools /\ i \in DOMAIN pools' /\ pools'[i] = q
  BY <1>1 DEF SessionPool
<1>4. PoolOK(p, now) /\ RefsOK(Contents(p), Held(chain))
  BY DEF SessionPool
<1> HIDE DEF K, p
<1>5. PoolOK(q, now) /\ Marked(p, q) /\ Contents(q) = MarkReady(Contents(p), K)
  BY <1>4, SetKeeps
<1> HIDE DEF q
<1>6. RefsOK(Contents(q), Held(chain))
  BY <1>4, <1>5, RefsMarks
<1>7. Resting(p) \in SUBSET DOMAIN q.index
  <2>1. Resting(p) \in SUBSET DOMAIN p.index
    BY DEF Resting
  <2> QED
    BY <1>5, <2>1 DEF Marked
<1>8. Respects(p, q, now)
  BY <1>7, RespectsNothing
<1>9. Serves(p, q, Held(chain'), now)
  BY <1>2, <1>5, <1>6, <1>8 DEF Serves, Marked
<1>10. StepOK(i)
  BY <1>1, <1>2, <1>3, <1>9, ServesStep DEF p
<1>11. ViewsOK'
  BY <1>1, <1>3 DEF ViewsOK
<1> QED
  BY <1>2, <1>3, <1>5, <1>10, <1>11 DEF p, K

\* _grow_one_block and _preempt_one, for a pool that agrees with the first.
LEMMA GrowStep ==
  ASSUME ClientOK, ViewsOK, SessionPool(1), NEW i, SessionPool(i), Agrees(i),
         NEW s \in Clients, Grow(s)
  PROVE  /\ ClientOK' /\ ViewsOK' /\ StepOK(i)
         /\ \/ /\ CanGrow(s) /\ Grown(s)
               /\ Contents(pools'[i]) \in
                    Acquired(SealedAs(Contents(pools[i]), s), {}, {KeyAt(s, chain[s])})
            \/ /\ CanGrow(s) /\ Preempted /\ ~MayGrow(Contents(pools[i]), s)
               /\ Contents(pools'[i]) =
                    Release(SealedAs(Contents(pools[i]), s), BlockKeys(Newest, chain[Newest]), FALSE)
<1> DEFINE a == [j \in DOMAIN pools |->
                  Acquire(SealTail(pools[j], s), <<>>, <<KeyAt(s, chain[s])>>, now)]
           p == pools[i]
           C == Held(chain)
           D == Held(chain')
<1>0. /\ CanGrow(s) /\ phase[s] = "decode" /\ views' = views
      /\ 1 \in DOMAIN pools /\ i \in DOMAIN pools /\ PoolOK(pools[1], now) /\ PoolOK(p, now)
      /\ RefsOK(Contents(p), C) /\ C[s] = BlockKeys(s, chain[s])
  BY HeldFacts DEF Grow, CanGrow, SessionPool
<1>1. a[1].result = (IF MayGrow(Contents(p), s) THEN "done" ELSE "refused")
  <2>1. a[1] = Acquire(SealTail(pools[1], s), <<>>, <<KeyAt(s, chain[s])>>, now)
    BY <1>0
  <2> HIDE DEF a
  <2> QED
    BY <1>0, <2>1, GrowDecided DEF Agrees
<1>2. a[i] = Acquire(SealTail(p, s), <<>>, <<KeyAt(s, chain[s])>>, now)
  BY <1>0
<1> DEFINE x == a[1].result
           kept == [j \in DOMAIN pools |-> a[j].pool]
           left == [j \in DOMAIN pools |->
                     ReleaseChain(a[j].pool, ChainSeq(Newest, chain[Newest]), now, 0, FALSE)]
<1>g. (CASE x = "done" -> pools' = kept /\ Grown(s)
         [] x = "refused" -> pools' = left /\ Preempted
         [] OTHER -> pools' = kept /\ UNCHANGED client)
  BY DEF Grow
<1>h. x = (IF MayGrow(Contents(p), s) THEN "done" ELSE "refused")
  BY <1>1
<1>k. DOMAIN kept = DOMAIN pools /\ kept[i] = a[i].pool
  BY <1>0
<1>l. DOMAIN left = DOMAIN pools
      /\ left[i] = ReleaseChain(a[i].pool, ChainSeq(Newest, chain[Newest]), now, 0, FALSE)
  BY <1>0
<1> HIDE DEF a, x, kept, left, p, C, D
<1>3. CASE MayGrow(Contents(p), s)
  <2>1. pools' = kept /\ Grown(s)
    BY <1>g, <1>h, <1>3
  <2>2. DOMAIN pools' = DOMAIN pools /\ pools'[i] = a[i].pool
    BY <1>k, <2>1
  <2>3. ClientOK' /\ Reholds(C, D, s, BlockKeys(s, chain[s] + 1))
    BY <1>0, <2>1, GrownKeeps DEF C, D
  <2>4. now' = now
    BY <2>1 DEF Grown
  <2>5. /\ Serves(p, a[i].pool, D, now)
        /\ Contents(a[i].pool) \in Acquired(SealedAs(Contents(p), s), {}, {KeyAt(s, chain[s])})
    BY <1>0, <1>2, <1>3, <2>3, GrowDone
  <2>6. StepOK(i)
    BY <1>0, <2>2, <2>4, <2>5, ServesStep DEF p, D
  <2>7. ViewsOK'
    BY <1>0, <2>2 DEF ViewsOK
  <2> QED
    BY <1>0, <2>1, <2>2, <2>3, <2>5, <2>6, <2>7 DEF p
<1>4. CASE ~MayGrow(Contents(p), s)
  <2>1. pools' = left /\ Preempted
    BY <1>g, <1>h, <1>4
  <2> DEFINE q == ReleaseChain(a[i].pool, ChainSeq(Newest, chain[Newest]), now, 0, FALSE)
  <2>2. DOMAIN pools' = DOMAIN pools /\ pools'[i] = q
    BY <1>l, <2>1
  <2>3. Newest \in Clients /\ ClientOK' /\ Reholds(C, D, Newest, {})
    BY <1>0, <2>1, PreemptedKeeps DEF C, D
  <2>4. now' = now
    BY <2>1 DEF Preempted
  <2>5. C[Newest] = BlockKeys(Newest, chain[Newest])
    BY <2>3, HeldFacts DEF C
  <2>6. q = ReleaseChain(a[i].pool, ChainSeq(Newest, chain[Newest]), now, 0, FALSE)
    OBVIOUS
  <2> HIDE DEF q
  <2>7. /\ Serves(p, q, D, now)
        /\ Contents(q) = Release(SealedAs(Contents(p), s), BlockKeys(Newest, chain[Newest]), FALSE)
    BY <1>0, <1>2, <1>4, <2>3, <2>5, <2>6, GrowRefused
  <2>8. StepOK(i)
    BY <1>0, <2>2, <2>4, <2>7, ServesStep DEF p, D
  <2>9. ViewsOK'
    BY <1>0, <2>2 DEF ViewsOK
  <2> QED
    BY <1>0, <1>4, <2>1, <2>2, <2>3, <2>7, <2>8, <2>9 DEF p
<1> QED
  BY <1>3, <1>4

\* _finish.
LEMMA FinishStep ==
  ASSUME ClientOK, ViewsOK, NEW i, SessionPool(i), NEW s \in Clients, Finish(s)
  PROVE  /\ ClientOK' /\ ViewsOK' /\ StepOK(i)
         /\ CanLeave(s) /\ Leave(s)
         /\ Contents(pools'[i]) =
              Release(IF W(s).whole THEN SealedAs(Contents(pools[i]), s) ELSE Contents(pools[i]),
                      BlockKeys(s, chain[s]), TRUE)
<1> DEFINE p == pools[i]
           C == Held(chain)
           D == Held(chain')
           r == Rank(views[i].arm, Info(views[i], s), now)
           q == ReleaseChain(IF W(s).whole THEN SealTail(p, s) ELSE p, ChainSeq(s, chain[s]), now, r, TRUE)
<1>0. /\ CanLeave(s) /\ Leave(s) /\ views' = views /\ i \in DOMAIN pools
      /\ PoolOK(p, now) /\ RefsOK(Contents(p), C) /\ C[s] = BlockKeys(s, chain[s])
      /\ p.family = Family(views[i].arm)
  BY HeldFacts DEF Finish, SessionPool
<1>1. pools' = [j \in DOMAIN pools |->
         ReleaseChain(IF W(s).whole THEN SealTail(pools[j], s) ELSE pools[j],
                      ChainSeq(s, chain[s]), now,
                      Rank(views[j].arm, Info(views[j], s), now), TRUE)]
  BY DEF Finish
<1>2. DOMAIN pools' = DOMAIN pools /\ pools'[i] = q
  BY <1>0, <1>1
<1>3. turn[s] <= Len(Work[s]) /\ ClientOK' /\ Reholds(C, D, s, {})
  BY <1>0, LeaveKeeps
<1>4. now' = now
  BY <1>0 DEF Leave
<1>5. RankOK(p.family, r, TRUE)
  <2>1. views[i] \in ArmView
    BY <1>0, ViewFacts
  <2> HIDE DEF p
  <2> QED
    BY <1>0, <1>3, <2>1, RankFacts
<1>6. q = ReleaseChain(IF W(s).whole THEN SealTail(p, s) ELSE p, ChainSeq(s, chain[s]), now, r, TRUE)
  OBVIOUS
<1> HIDE DEF p, C, D, r, q
<1>7. /\ Serves(p, q, D, now)
      /\ Contents(q) = Release(IF W(s).whole THEN SealedAs(Contents(p), s) ELSE Contents(p),
                               BlockKeys(s, chain[s]), TRUE)
  BY <1>0, <1>3, <1>5, <1>6, FinishServes
<1>8. StepOK(i)
  BY <1>0, <1>2, <1>4, <1>7, ServesStep DEF p, D
<1>9. ViewsOK'
  BY <1>0, <1>2 DEF ViewsOK
<1> QED
  BY <1>0, <1>2, <1>3, <1>7, <1>8, <1>9 DEF p

\* The clock.
LEMMA TickStep ==
  ASSUME ClientOK, ViewsOK, NEW i, SessionPool(i), Tick
  PROVE  ClientOK' /\ ViewsOK' /\ StepOK(i) /\ pools' = pools
<1>0. ClockTicks /\ views' = views /\ pools' = pools
  BY DEF Tick
<1>1. ClientOK' /\ chain' = chain /\ now \in Int /\ now' = now + 1
  BY <1>0, TickKeeps
<1> DEFINE u == now'
           p == pools[i]
<1>2. now <= u /\ u \in Int
  BY <1>1
<1>3. PoolOK(p, now)
  BY DEF SessionPool
<1> HIDE DEF u, p
<1>4. PoolOK(p, u)
  BY <1>1, <1>2, <1>3, LaterOK
<1>5. SessionPool(i)'
  BY <1>0, <1>1, <1>4 DEF SessionPool, p, u
<1>6. Respects(pools[i], pools'[i], now)
  <2>1. Resting(pools[i]) \in SUBSET DOMAIN pools'[i].index
    BY <1>0 DEF Resting
  <2> QED
    BY <2>1, RespectsNothing
<1>7. ViewsOK'
  BY <1>0 DEF ViewsOK
<1> QED
  BY <1>0, <1>1, <1>5, <1>6, <1>7 DEF StepOK

(***************************************************************************)
(* The start.                                                              *)
(***************************************************************************)
LEMMA NewPoolFacts ==
  ASSUME NEW f \in {"ttl", "priority"}
  PROVE  /\ PoolOK(NewPool(f), 0) /\ NewPool(f).family = f
         /\ DOMAIN NewPool(f).index = {} /\ Contents(NewPool(f)) = [k \in {} |-> NewBlock]
<1> DEFINE p == NewPool(f)
           none == [k \in {} |-> 0]
<1>1. /\ DOMAIN p = Fields /\ p.family = f /\ p.index = none /\ p.stamp = 0
      /\ p.expired = <<>> /\ p.protected = <<>> /\ p.expiry = {}
      /\ p.evictable = {} /\ p.prio = {}
  BY DEF NewPool, Fields
<1>2. DOMAIN none = {}
  OBVIOUS
<1>3. Contents(p) = [k \in {} |-> NewBlock]
  <2>1. DOMAIN p.index = {}
    BY <1>1, <1>2
  <2> HIDE DEF p
  <2> QED
    BY <2>1 DEF Contents
<1> HIDE DEF p, none
<1>4. DOMAIN p.index = {} /\ Resting(p) = {} /\ IsFiniteSet({})
  BY <1>1, <1>2, FS_EmptySet DEF Resting
<1>5. IndexOK(p)
  BY <1>1, <1>4 DEF IndexOK
<1>6. /\ IsList(Key, <<>>) /\ Len(<<>>) = 0
      /\ ToSet(<<>>) = {}
  BY DEF IsList, ToSet
<1>7. QueuesOK(p)
  BY <1>1, <1>4, <1>6 DEF QueuesOK
<1>8. HeapsOK(p)
  BY <1>1, <1>4, <1>6 DEF HeapsOK, IsHeap
<1>9. DuesOK(p, 0)
  BY <1>1, <1>6 DEF DuesOK, InOrder
<1> QED
  BY <1>1, <1>3, <1>4, <1>5, <1>7, <1>8, <1>9 DEF PoolOK, p

LEMMA ClientStarts ==
  ASSUME ClientInit
  PROVE  ClientOK /\ \A s \in Clients : Held(chain)[s] = {}
<1>1. /\ phase = [s \in Clients |-> "out"] /\ turn = [s \in Clients |-> 1]
      /\ chain = [s \in Clients |-> 0] /\ grown = [s \in Clients |-> 0]
      /\ back = [s \in Clients |-> 0] /\ running = <<>> /\ now = 0
  BY DEF ClientInit
<1>2. IsList(Clients, running) /\ ToSet(running) = {}
  BY <1>1 DEF IsList, ToSet
<1>3. ToSet(running) = {s \in Clients : phase[s] # "out"}
  BY <1>1, <1>2
<1>4. ClientOK
  BY <1>1, <1>2, <1>3 DEF ClientOK
<1>5. \A s \in Clients : Held(chain)[s] = {}
  BY <1>1, HeldFacts, NoKeys
<1> QED
  BY <1>4, <1>5

\* The system starts in order.
LEMMA Starts ==
  ASSUME Init
  PROVE  ClientOK /\ ViewsOK /\ raised = FALSE /\ \A i \in DOMAIN pools : SessionPool(i)
<1>1. /\ ClientInit /\ raised = FALSE /\ now = 0 /\ views \in ViewLists
      /\ pools = [i \in DOMAIN views |-> NewPool(Family(views[i].arm))]
  BY DEF Init, ClientInit
<1>2. ClientOK /\ \A s \in Clients : Held(chain)[s] = {}
  BY <1>1, ClientStarts
<1>3. ViewsOK
  BY <1>1, ViewAssumption DEF ViewsOK
<1>4. ASSUME NEW i \in DOMAIN pools
      PROVE  SessionPool(i)
  <2> DEFINE f == Family(views[i].arm)
  <2>1. f \in {"ttl", "priority"}
    BY DEF Family
  <2>2. pools[i] = NewPool(f)
    BY <1>1
  <2> HIDE DEF f
  <2>3. /\ PoolOK(pools[i], now) /\ pools[i].family = f
        /\ DOMAIN Contents(pools[i]) = {} /\ Contents(pools[i]) = [k \in {} |-> NewBlock]
    BY <1>1, <2>1, <2>2, NewPoolFacts
  <2>4. RefsOK(Contents(pools[i]), Held(chain))
    BY <1>2, <2>3 DEF RefsOK, IsCache
  <2> QED
    BY <2>3, <2>4 DEF SessionPool, f
<1> QED
  BY <1>1, <1>2, <1>3, <1>4

(***************************************************************************)
(* Every step.                                                             *)
(***************************************************************************)
LEMMA StillFacts ==
  ASSUME UNCHANGED vars
  PROVE  /\ phase' = phase /\ turn' = turn /\ chain' = chain /\ grown' = grown /\ back' = back
         /\ running' = running /\ now' = now /\ views' = views /\ pools' = pools /\ raised' = raised
  BY DEF vars, client

\* A step keeps a pool in order while it agrees with the first.
LEMMA AnyStep ==
  ASSUME ClientOK, ViewsOK, SessionPool(1), NEW i, SessionPool(i), Agrees(i), [Next]_vars
  PROVE  ClientOK' /\ ViewsOK' /\ StepOK(i)
<1>1. ASSUME NEW s \in Clients, Admit(s)
      PROVE  ClientOK' /\ ViewsOK' /\ StepOK(i)
  BY <1>1, AdmitStep
<1>2. ASSUME NEW s \in Clients, FinishPrefill(s)
      PROVE  ClientOK' /\ ViewsOK' /\ StepOK(i)
  BY <1>2, PrefillStep
<1>3. ASSUME NEW s \in Clients, Grow(s)
      PROVE  ClientOK' /\ ViewsOK' /\ StepOK(i)
  BY <1>3, GrowStep
<1>4. ASSUME NEW s \in Clients, Finish(s)
      PROVE  ClientOK' /\ ViewsOK' /\ StepOK(i)
  BY <1>4, FinishStep
<1>5. CASE Tick
  BY <1>5, TickStep
<1>6. CASE UNCHANGED vars
  <2>1. StepOK(i)
    BY <1>6, StillFacts, SamePoolStep
  <2>2. ClientOK' /\ ViewsOK'
    BY <1>6, StillFacts DEF ClientOK, ViewsOK, W
  <2> QED
    BY <2>1, <2>2
<1> QED
  BY <1>1, <1>2, <1>3, <1>4, <1>5, <1>6 DEF Next, Horizon

\* No eviction that the feasibility check promised fails.
LEMMA NeverFails ==
  ASSUME ClientOK, \A i \in DOMAIN pools : SessionPool(i), raised = FALSE, [Next]_vars
  PROVE  raised' = FALSE
<1>1. ASSUME NEW s \in Clients, Admit(s)
      PROVE  raised' = FALSE
  <2> DEFINE a == [i \in DOMAIN pools |-> Admission(pools[i], s)]
  <2>1. raised' = (\E i \in DOMAIN pools : a[i].result = "raised")
    BY <1>1 DEF Admit
  <2>2. ASSUME NEW i \in DOMAIN pools
        PROVE  a[i].result # "raised"
    <3>1. a[i] = Admission(pools[i], s)
      OBVIOUS
    <3>2. turn[s] <= Len(Work[s]) /\ PoolOK(pools[i], now)
      BY <1>1 DEF Admit, CanEnter, SessionPool
    <3> HIDE DEF a
    <3>3. a[i].result = IF Fits(Contents(pools[i]), s) THEN "done" ELSE "refused"
      BY <3>1, <3>2, AdmitDecided
    <3> QED
      BY <3>3
  <2> HIDE DEF a
  <2> QED
    BY <2>1, <2>2
<1>2. ASSUME NEW s \in Clients, Grow(s)
      PROVE  raised' = FALSE
  <2> DEFINE a == [i \in DOMAIN pools |->
                    Acquire(SealTail(pools[i], s), <<>>, <<KeyAt(s, chain[s])>>, now)]
  <2>1. raised' = (\E i \in DOMAIN pools : a[i].result = "raised")
    BY <1>2 DEF Grow
  <2>2. ASSUME NEW i \in DOMAIN pools
        PROVE  a[i].result # "raised"
    <3>1. a[i] = Acquire(SealTail(pools[i], s), <<>>, <<KeyAt(s, chain[s])>>, now)
      OBVIOUS
    <3>2. PoolOK(pools[i], now)
      BY DEF SessionPool
    <3> DEFINE x == a[i]
    <3> HIDE DEF a
    <3>3. x = Acquire(SealTail(pools[i], s), <<>>, <<KeyAt(s, chain[s])>>, now)
      BY <3>1
    <3> HIDE DEF x
    <3>4. x.result = IF MayGrow(Contents(pools[i]), s) THEN "done" ELSE "refused"
      BY <3>2, <3>3, GrowDecided
    <3> QED
      BY <3>4 DEF x
  <2> HIDE DEF a
  <2> QED
    BY <2>1, <2>2
<1> QED
  BY <1>1, <1>2 DEF Next, FinishPrefill, Finish, Tick, Horizon, vars

SystemOK ==
  /\ ClientOK /\ ViewsOK /\ raised = FALSE
  /\ \A i \in DOMAIN pools : SessionPool(i)

\* A step keeps all of them in order while they agree.
LEMMA SystemStep ==
  ASSUME SystemOK, SameCache, [Next]_vars
  PROVE  /\ SystemOK'
         /\ \A i \in DOMAIN pools : Respects(pools[i], pools'[i], now)
<1>1. /\ ClientOK /\ ViewsOK /\ raised = FALSE /\ 1 \in DOMAIN pools
      /\ \A i \in DOMAIN pools : SessionPool(i) /\ Agrees(i)
  BY ViewFacts DEF SystemOK, SameCache, Agrees
<1>2. \A i \in DOMAIN pools : ClientOK' /\ ViewsOK' /\ StepOK(i)
  BY <1>1, AnyStep
<1>3. raised' = FALSE
  BY <1>1, NeverFails
<1>4. DOMAIN pools' = DOMAIN pools
  <2>1. views' = views
    BY DEF Next, Admit, FinishPrefill, Grow, Finish, Tick, Horizon, vars
  <2> QED
    BY <1>1, <1>2, <2>1 DEF ViewsOK
<1>5. \A i \in DOMAIN pools' : SessionPool(i)'
  BY <1>2, <1>4 DEF StepOK
<1> QED
  BY <1>1, <1>2, <1>3, <1>5 DEF SystemOK, StepOK

(***************************************************************************)
(* Theorems.  A comparison of two runs ends when they part, so that        *)
(* SameCache is an assumption here; of one run it says nothing.            *)
(***************************************************************************)
\* Of a run, or of two for as long as they are the same run, the pools stay as
\* BlockPool means to keep them and no eviction fails.
LEMMA SystemAlways == Spec /\ []SameCache => []SystemOK
<1>1. Init => SystemOK
  BY Starts DEF SystemOK
<1>2. SystemOK /\ SameCache /\ [Next]_vars => SystemOK'
  BY SystemStep
<1> QED
  BY <1>1, <1>2, PTL DEF Spec

\* The queues hold the evictable blocks, each once, and nothing else
\* (BlockPool._hold, _release_one, _evict and _reap), in every pool, with every
\* arm, for any work.
THEOREM QueuesAlwaysMatch == Spec /\ []SameCache => []QueuesMatchRefs
<1>1. SystemOK => QueuesMatchRefs
  BY PoolPromises DEF SystemOK, SessionPool, QueuesMatchRefs, QueuesMatch
<1> QED
  BY <1>1, SystemAlways, PTL

\* A protected block has an entry that lapses with its protection, and an
\* evictable one of the priority family exactly one that counts.
THEOREM HeapAlwaysFinds == Spec /\ []SameCache => []HeapFindsEvictable
<1>1. SystemOK => HeapFindsEvictable
  BY PoolPromises DEF SystemOK, SessionPool, HeapFindsEvictable, HeapFinds
<1> QED
  BY <1>1, SystemAlways, PTL

\* The AssertionError of BlockPool.acquire is unreachable.
THEOREM NoEvictionFails == Spec /\ []SameCache => []NeverRaises
<1>1. SystemOK => NeverRaises
  BY DEF SystemOK, NeverRaises
<1> QED
  BY <1>1, SystemAlways, PTL

\* No step evicts a protected block and spares one whose protection has lapsed
\* or that was released before it.
THEOREM ProtectionAlwaysRespected == Spec /\ []SameCache => ProtectionRespected
<1> DEFINE A == \A i \in DOMAIN pools : pools[i].family = "ttl" =>
                  \A e \in Evicted(pools[i], pools'[i]), k \in Spared(pools[i], pools'[i]) :
                    LET x == pools[i].index[e]  y == pools[i].index[k]
                    IN  x.until > now => y.until > now /\ x.stamp < y.stamp
<1>1. ASSUME SystemOK, SameCache, [Next]_vars
      PROVE  A
  BY <1>1, SystemStep DEF Respects
<1>2. ProtectionRespected <=> [][A]_vars
  BY PTL DEF ProtectionRespected
<1>3. SystemOK /\ SameCache /\ [Next]_vars => [A]_vars
  BY <1>1
<1> HIDE DEF A
<1> QED
  BY <1>2, <1>3, SystemAlways, PTL DEF Spec

\* The priority family evicts the lowest (rank, release stamp) first.
THEOREM LowestRankAlwaysFirst == Spec /\ []SameCache => LowestRankFirst
<1> DEFINE A == \A i \in DOMAIN pools : pools[i].family = "priority" =>
                  LET p == pools[i]
                  IN  \A e \in {x \in p.prio : IsLive(p, x) /\ x.key \in Evicted(p, pools'[i])},
                         f \in {x \in p.prio : IsLive(p, x) /\ x.key \in Spared(p, pools'[i])} :
                           Before(e.order, f.order)
<1>1. ASSUME SystemOK, SameCache, [Next]_vars
      PROVE  A
  BY <1>1, SystemStep DEF Respects
<1>2. LowestRankFirst <=> [][A]_vars
  BY PTL DEF LowestRankFirst
<1>3. SystemOK /\ SameCache /\ [Next]_vars => [A]_vars
  BY <1>1
<1> HIDE DEF A
<1> QED
  BY <1>2, <1>3, SystemAlways, PTL DEF Spec

(***************************************************************************)
(* Implementation of the pool of PrefixCache.                              *)
(***************************************************************************)
LEMMA SameOperators ==
  /\ \A s, m, n : Cache!Positions(s, m, n) = Spots(s, m, n)
  /\ \A s, n : Cache!BlockKeys(s, n) = BlockKeys(s, n)
  /\ \A s, i : Cache!KeyAt(s, i) = KeyAt(s, i)
  /\ \A s : Cache!W(s) = W(s)
  /\ Cache!Clients = Clients /\ Cache!Newest = Newest
  BY DEF Cache!Positions, Spots, Cache!BlockKeys, BlockKeys, Cache!KeyAt, KeyAt, Cache!W, W,
         Cache!Clients, Clients, Cache!Newest, Newest, Cache!Sys, Sys

LEMMA SameMarks ==
  /\ \A p, K : Cache!MarkFull(p, K) = MarkFull(p, K)
  /\ \A p, K : Cache!MarkReady(p, K) = MarkReady(p, K)
  BY DEF Cache!MarkFull, MarkFull, Cache!MarkReady, MarkReady

LEMMA SameRelease ==
  \A p, K, f : Cache!Release(p, K, f) = Release(p, K, f)
  BY DEF Cache!Release, Release

LEMMA SameHits ==
  \A p, s, n, h : Cache!IsPrefixHit(p, s, n, h) = IsPrefixHit(p, s, n, h)
  BY DEF Cache!IsPrefixHit, IsPrefixHit, Cache!Usable, Usable, Cache!KeyAt, KeyAt, Cache!Sys, Sys

\* Operators that CacheSystem has its own copies of.
LEMMA SameCount ==
  \A S : Cache!Cardinality(S) = Cardinality(S)
  BY Zenon DEF Cache!Cardinality, Cardinality

LEMMA SameAcquires ==
  /\ \A p, H, N : Cache!CanAcquire(p, H, N) = CanAcquire(p, H, N)
  /\ \A p, H, N : Cache!Acquired(p, H, N) = Acquired(p, H, N)
<1>1. ASSUME NEW p, NEW H, NEW N
      PROVE  Cache!CanAcquire(p, H, N) = CanAcquire(p, H, N)
  BY SameCount DEF Cache!CanAcquire, CanAcquire, Cache!Free, Free, Cache!Evictable, Evictable
<1>2. ASSUME NEW p, NEW H, NEW N
      PROVE  Cache!Acquired(p, H, N) = Acquired(p, H, N)
  <2>1. Cache!Hold(p, H) = Hold(p, H)
    BY DEF Cache!Hold, Hold
  <2>2. ASSUME NEW q, NEW n PROVE Cache!Victims(q, n) = Victims(q, n)
    BY SameCount DEF Cache!Victims, Victims, Cache!Free, Free, Cache!Evictable, Evictable
  <2>3. ASSUME NEW q, NEW V PROVE Cache!Evict(q, V) = Evict(q, V)
    BY DEF Cache!Evict, Evict
  <2>4. ASSUME NEW q PROVE Cache!Materialise(q, N) = Materialise(q, N)
    BY DEF Cache!Materialise, Materialise, Cache!NewBlock, NewBlock
  <2>5. Cache!CanAcquire(p, H, N) = CanAcquire(p, H, N)
    BY <1>1
  <2> QED
    BY <2>1, <2>2, <2>3, <2>4, <2>5, SameCount DEF Cache!Acquired, Acquired
<1> QED
  BY <1>1, <1>2

LEMMA SameClient ==
  /\ Cache!ClientInit <=> ClientInit
  /\ Cache!ClockTicks <=> ClockTicks
  /\ \A s : /\ Cache!CanEnter(s) <=> CanEnter(s)
            /\ Cache!Prefilled(s) <=> Prefilled(s)
            /\ Cache!CanGrow(s) <=> CanGrow(s)
            /\ Cache!CanLeave(s) <=> CanLeave(s)
<1>1. Cache!ClientInit <=> ClientInit
  BY DEF Cache!ClientInit, ClientInit, Cache!Clients, Clients
<1>2. Cache!ClockTicks <=> ClockTicks
  BY DEF Cache!ClockTicks, ClockTicks
<1>3. ASSUME NEW s
      PROVE  /\ Cache!CanEnter(s) <=> CanEnter(s)
             /\ Cache!Prefilled(s) <=> Prefilled(s)
             /\ Cache!CanGrow(s) <=> CanGrow(s)
             /\ Cache!CanLeave(s) <=> CanLeave(s)
  BY DEF Cache!CanEnter, CanEnter, Cache!Prefilled, Prefilled, Cache!CanGrow, CanGrow,
         Cache!CanLeave, CanLeave, Cache!W, W
<1> QED
  BY <1>1, <1>2, <1>3

LEMMA SameMoves ==
  /\ Cache!Preempted <=> Preempted
  /\ \A s : /\ Cache!Enter(s) <=> Enter(s)
            /\ Cache!Grown(s) <=> Grown(s)
            /\ Cache!Leave(s) <=> Leave(s)
<1>1. Cache!Preempted <=> Preempted
  BY DEF Cache!Preempted, Preempted, Cache!Newest, Newest
<1>2. ASSUME NEW s
      PROVE  (Cache!Enter(s) <=> Enter(s)) /\ (Cache!Grown(s) <=> Grown(s))
  BY DEF Cache!Enter, Enter, Cache!Grown, Grown, Cache!W, W
<1>3. ASSUME NEW s
      PROVE  Cache!Leave(s) <=> Leave(s)
  <2>1. Cache!Without(running, {s}) = Without(running, {s})
    BY DEF Cache!Without, Without, Cache!Each, Each
  <2> QED
    BY <2>1 DEF Cache!Leave, Leave, Cache!W, W
<1> QED
  BY <1>1, <1>2, <1>3

(***************************************************************************)
(* The first pool of a list, which decides, agrees with itself.            *)
(***************************************************************************)
LeadOK == ClientOK /\ ViewsOK /\ SessionPool(1)

\* A step keeps the first pool in order.
LEMMA LeadStep ==
  ASSUME LeadOK, [Next]_vars
  PROVE  LeadOK'
  BY AnyStep DEF LeadOK, Agrees, StepOK

\* A refused admission is a stutter.
LEMMA AdmitImplements ==
  ASSUME LeadOK, NEW s \in Clients, Admit(s)
  PROVE  Cache!CAdmit(s) \/ UNCHANGED Cache!cvars
<1> DEFINE c == Contents(pools[1])
           d == Contents(pools'[1])
<1>1. \/ CanEnter(s) /\ Enter(s) /\ Admits(c, s, d)
      \/ client' = client /\ d = c
  BY AdmitStep DEF LeadOK, Agrees
<1>2. c' = d
  OBVIOUS
<1>3. CASE CanEnter(s) /\ Enter(s) /\ Admits(c, s, d)
  <2>1. PICK h : /\ Prompt(c, s, h)
                 /\ \E g \in Acquired(c, Spots(s, 0, h), Spots(s, h, W(s).blocks)) :
                      d = MarkFull(g, Spots(s, h, W(s).full))
    BY <1>3 DEF Admits
  <2>2. h \in 0 .. W(s).full /\ IsPrefixHit(c, s, W(s).full, h)
    BY <2>1 DEF Prompt
  <2> HIDE DEF c, d
  <2>3. h \in 0 .. Cache!W(s).full /\ Cache!IsPrefixHit(c, s, Cache!W(s).full, h)
    BY <2>2, SameHits, SameOperators
  <2>4. \E g \in Cache!Acquired(c, Cache!Positions(s, 0, h), Cache!Positions(s, h, Cache!W(s).blocks)) :
          d = Cache!MarkFull(g, Cache!Positions(s, h, Cache!W(s).full))
    BY <2>1, SameAcquires, SameMarks, SameOperators
  <2>5. Cache!CanEnter(s) /\ Cache!Enter(s)
    BY <1>3, SameClient, SameMoves
  <2> USE DEF c, d
  <2> QED
    BY <2>3, <2>4, <2>5 DEF Cache!CAdmit
<1>4. CASE client' = client /\ d = c
  BY <1>4 DEF Cache!cvars, Cache!client, client
<1> QED
  BY <1>1, <1>3, <1>4

LEMMA PrefillImplements ==
  ASSUME LeadOK, NEW s \in Clients, FinishPrefill(s)
  PROVE  Cache!CPrefilled(s)
<1>1. Prefilled(s) /\ Contents(pools'[1]) = MarkReady(Contents(pools[1]), BlockKeys(s, chain[s]))
  BY PrefillStep DEF LeadOK, FinishPrefill
<1> QED
  BY <1>1, SameClient, SameMarks, SameOperators DEF Cache!CPrefilled

LEMMA SameSealed == \A s : Cache!Sealed(s) = SealedAs(Contents(pools[1]), s)
  BY SameMarks, SameOperators DEF Cache!Sealed, SealedAs

\* A growth is one, or a preemption where PrefixCache would refuse.
LEMMA GrowImplements ==
  ASSUME LeadOK, NEW s \in Clients, Grow(s)
  PROVE  Cache!CGrow(s)
<1> DEFINE c == Contents(pools[1])
           d == Contents(pools'[1])
<1>1. \/ /\ CanGrow(s) /\ Grown(s)
         /\ d \in Acquired(SealedAs(c, s), {}, {KeyAt(s, chain[s])})
      \/ /\ CanGrow(s) /\ Preempted /\ ~MayGrow(c, s)
         /\ d = Release(SealedAs(c, s), BlockKeys(Newest, chain[Newest]), FALSE)
  BY GrowStep DEF LeadOK, Agrees
<1>2. Cache!Sealed(s) = SealedAs(c, s)
  BY SameSealed
<1> HIDE DEF c
<1>3. CASE /\ CanGrow(s) /\ Grown(s)
           /\ d \in Acquired(SealedAs(c, s), {}, {KeyAt(s, chain[s])})
  BY <1>2, <1>3, SameClient, SameMoves, SameAcquires, SameOperators DEF Cache!CGrow
<1>4. CASE /\ CanGrow(s) /\ Preempted /\ ~MayGrow(c, s)
           /\ d = Release(SealedAs(c, s), BlockKeys(Newest, chain[Newest]), FALSE)
  BY <1>2, <1>4, SameClient, SameMoves, SameAcquires, SameRelease, SameOperators
     DEF Cache!CGrow, MayGrow
<1> QED
  BY <1>1, <1>3, <1>4

LEMMA FinishImplements ==
  ASSUME LeadOK, NEW s \in Clients, Finish(s)
  PROVE  Cache!CFinish(s)
<1> DEFINE c == Contents(pools[1])
           d == Contents(pools'[1])
<1>1. /\ CanLeave(s) /\ Leave(s)
      /\ d = Release(IF W(s).whole THEN SealedAs(c, s) ELSE c, BlockKeys(s, chain[s]), TRUE)
  BY FinishStep DEF LeadOK
<1>2. Cache!Sealed(s) = SealedAs(c, s)
  BY SameSealed
<1> QED
  BY <1>1, <1>2, SameClient, SameMoves, SameRelease, SameOperators DEF Cache!CFinish

\* Both families implement the pool of PrefixCache, with every arm and for any
\* work: the requests are admitted and refused as PrefixCache says, and what a
\* call does to the index is one of the outcomes it allows.  Engine leaves the
\* victims open in the same way, so that its runs include those of all ten arms.
THEOREM PoolImplementsCache == Spec => ImplementsCache
<1>1. Init => LeadOK
  BY Starts, ViewFacts DEF LeadOK
<1>2. LeadOK /\ [Next]_vars => LeadOK'
  BY LeadStep
<1>3. Init => Cache!CInit
  <2> SUFFICES ASSUME Init PROVE Cache!CInit
    OBVIOUS
  <2>1. ClientInit /\ pools = [i \in DOMAIN views |-> NewPool(Family(views[i].arm))]
    BY DEF Init
  <2>2. 1 \in DOMAIN pools
    BY Starts, ViewFacts
  <2> DEFINE f == Family(views[1].arm)
  <2>3. f \in {"ttl", "priority"}
    BY DEF Family
  <2>4. pools[1] = NewPool(f)
    BY <2>1, <2>2
  <2> HIDE DEF f
  <2>5. Contents(pools[1]) = [k \in {} |-> NewBlock]
    BY <2>3, <2>4, NewPoolFacts
  <2> QED
    BY <2>1, <2>5, SameClient DEF Cache!CInit, Cache!NewBlock, NewBlock
<1>4. LeadOK /\ [Next]_vars => [Cache!CNext]_(Cache!cvars)
  <2> SUFFICES ASSUME LeadOK, [Next]_vars
               PROVE  Cache!CNext \/ UNCHANGED Cache!cvars
    OBVIOUS
  <2>1. ASSUME NEW s \in Clients, Admit(s) \/ FinishPrefill(s) \/ Grow(s) \/ Finish(s)
        PROVE  Cache!CNext \/ UNCHANGED Cache!cvars
    BY <2>1, AdmitImplements, PrefillImplements, GrowImplements, FinishImplements, SameOperators
       DEF Cache!CNext
  <2>2. CASE Tick
    BY <2>2, SameClient DEF Tick, Cache!CNext
  <2>3. CASE UNCHANGED vars
    BY <2>3 DEF vars, client, Cache!cvars, Cache!client
  <2> QED
    BY <2>1, <2>2, <2>3 DEF Next, Horizon
<1> QED
  BY <1>1, <1>2, <1>3, <1>4, PTL DEF Spec, ImplementsCache, Cache!CSpec

(***************************************************************************)
(* Views that rank alike.                                                  *)
(***************************************************************************)
\* Arms that may not look at what really happens, the truth or a false one, and
\* arms whose predictor is right.
Blind == {"lru", "const_ttl", "lru_priority", "predict", "predict_guarded", "predict_terminal"}

Foresees == {<<"belady", "predict">>, <<"belady_pause", "predict_guarded">>,
             <<"oracle_terminal", "predict_terminal">>}

RankAlike(v, u) ==
  \/ v = u
  \/ v.arm = u.arm /\ v.arm \in Blind /\ v.told \in {"given", "false"} /\ u.told \in {"given", "false"}
  \/ /\ <<v.arm, u.arm>> \in Foresees /\ v.told = "given" /\ u.told = "truth"
     /\ v.arm = "oracle_terminal" \/ OracleScale = 1

LEMMA AlikeFacts ==
  ASSUME ClientOK, NEW s \in Clients, turn[s] <= Len(Work[s]),
         NEW v, NEW u, RankAlike(v, u)
  PROVE  /\ Family(v.arm) = Family(u.arm)
         /\ Rank(v.arm, Info(v, s), now) = Rank(u.arm, Info(u, s), now)
<1> DEFINE i == Info(v, s)
           j == Info(u, s)
<1>1. CASE v = u
  BY <1>1
<1>2. CASE /\ v.arm = u.arm /\ v.arm \in Blind
           /\ v.told \in {"given", "false"} /\ u.told \in {"given", "false"}
  <2>1. i.ends = j.ends /\ i.guess = j.guess
    BY <1>2 DEF Info
  <2> HIDE DEF i, j
  <2>2. Rank(v.arm, i, now) = Rank(u.arm, j, now)
    BY <1>2, <2>1 DEF Blind, Rank
  <2> QED
    BY <1>2, <2>2 DEF i, j
<1>3. CASE /\ <<v.arm, u.arm>> \in Foresees /\ v.told = "given" /\ u.told = "truth"
           /\ v.arm = "oracle_terminal" \/ OracleScale = 1
  <2>1. i.last = j.ends /\ i.pause = j.guess
    BY <1>3 DEF Info
  <2>2. i.pause \in Int
    <3>1. i.pause = W(s).pause
      BY <1>3 DEF Info
    <3> QED
      BY <3>1, TurnFacts
  <2> HIDE DEF i, j
  <2>3. OracleScale = 1 => i.pause * OracleScale = j.guess
    BY <2>1, <2>2
  <2>4. Rank(v.arm, i, now) = Rank(u.arm, j, now)
    <3>1. CASE v.arm = "oracle_terminal"
      BY <1>3, <2>1, <3>1 DEF Foresees, Rank
    <3>2. CASE OracleScale = 1
      BY <1>3, <2>1, <2>3, <3>2 DEF Foresees, Rank
    <3> QED
      BY <1>3, <3>1, <3>2
  <2>5. Family(v.arm) = Family(u.arm)
    BY <1>3 DEF Foresees, Family, TtlArms
  <2> QED
    BY <2>4, <2>5 DEF i, j
<1> QED
  BY <1>1, <1>2, <1>3 DEF RankAlike

AllAlike == \A i, j \in DOMAIN views : RankAlike(views[i], views[j]) \/ RankAlike(views[j], views[i])

\* Their pools are one pool, not only in what is cached.
Twins ==
  /\ AllAlike /\ DOMAIN pools = DOMAIN views
  /\ \A i, j \in DOMAIN pools : pools[i] = pools[j]

LEMMA TwinsStep ==
  ASSUME ClientOK, Twins, [Next]_vars
  PROVE  Twins'
<1>1. views' = views /\ AllAlike'
  BY DEF Next, Admit, FinishPrefill, Grow, Finish, Tick, Horizon, vars, Twins, AllAlike
<1>2. DOMAIN pools = DOMAIN views /\ \A i, j \in DOMAIN pools : pools[i] = pools[j]
  BY DEF Twins
<1>3. ASSUME NEW s \in Clients, Admit(s)
      PROVE  DOMAIN pools' = DOMAIN pools /\ \A i, j \in DOMAIN pools : pools'[i] = pools'[j]
  <2> DEFINE a == [i \in DOMAIN pools |-> Admission(pools[i], s)]
             K(i) == {KeyAt(s, j) : j \in Hits(pools[i], s) .. W(s).full - 1}
             full == [i \in DOMAIN pools |-> SetFull(a[i].pool, K(i))]
             kept == [i \in DOMAIN pools |-> a[i].pool]
  <2>1. pools' = full \/ pools' = kept
    BY <1>3 DEF Admit
  <2>2. \A i, j \in DOMAIN pools : a[i] = a[j] /\ K(i) = K(j)
    BY <1>2
  <2> HIDE DEF a, K
  <2>3. /\ DOMAIN full = DOMAIN pools /\ \A i, j \in DOMAIN pools : full[i] = full[j]
        /\ DOMAIN kept = DOMAIN pools /\ \A i, j \in DOMAIN pools : kept[i] = kept[j]
    BY <2>2
  <2> HIDE DEF full, kept
  <2> QED
    BY <2>1, <2>3
<1>4. ASSUME NEW s \in Clients, FinishPrefill(s)
      PROVE  DOMAIN pools' = DOMAIN pools /\ \A i, j \in DOMAIN pools : pools'[i] = pools'[j]
  BY <1>2, <1>4 DEF FinishPrefill
<1>5. ASSUME NEW s \in Clients, Grow(s)
      PROVE  DOMAIN pools' = DOMAIN pools /\ \A i, j \in DOMAIN pools : pools'[i] = pools'[j]
  <2> DEFINE a == [i \in DOMAIN pools |->
                    Acquire(SealTail(pools[i], s), <<>>, <<KeyAt(s, chain[s])>>, now)]
             x == a[1].result
             left == [i \in DOMAIN pools |->
                       ReleaseChain(a[i].pool, ChainSeq(Newest, chain[Newest]), now, 0, FALSE)]
             kept == [i \in DOMAIN pools |-> a[i].pool]
  <2>1. (CASE x = "done" -> pools' = kept /\ Grown(s)
           [] x = "refused" -> pools' = left /\ Preempted
           [] OTHER -> pools' = kept /\ UNCHANGED client)
    BY <1>5 DEF Grow
  <2>2. \A i, j \in DOMAIN pools : a[i] = a[j]
    BY <1>2
  <2> HIDE DEF a, x
  <2>3. /\ DOMAIN left = DOMAIN pools /\ \A i, j \in DOMAIN pools : left[i] = left[j]
        /\ DOMAIN kept = DOMAIN pools /\ \A i, j \in DOMAIN pools : kept[i] = kept[j]
    BY <2>2
  <2> HIDE DEF left, kept
  <2>4. pools' = kept \/ pools' = left
    BY <2>1
  <2> QED
    BY <2>3, <2>4
<1>6. ASSUME NEW s \in Clients, Finish(s)
      PROVE  DOMAIN pools' = DOMAIN pools /\ \A i, j \in DOMAIN pools : pools'[i] = pools'[j]
  <2>1. turn[s] <= Len(Work[s])
    BY <1>6 DEF Finish, CanLeave, ClientOK
  <2> DEFINE r(i) == Rank(views[i].arm, Info(views[i], s), now)
  <2>2. \A i, j \in DOMAIN pools : r(i) = r(j)
    BY <1>2, <2>1, AlikeFacts DEF Twins, AllAlike
  <2>3. pools' = [i \in DOMAIN pools |->
           ReleaseChain(IF W(s).whole THEN SealTail(pools[i], s) ELSE pools[i],
                        ChainSeq(s, chain[s]), now, r(i), TRUE)]
    BY <1>6 DEF Finish
  <2> HIDE DEF r
  <2> QED
    BY <1>2, <2>2, <2>3
<1>7. CASE pools' = pools
  BY <1>1, <1>2, <1>7 DEF Twins
<1> QED
  BY <1>1, <1>2, <1>3, <1>4, <1>5, <1>6, <1>7 DEF Next, Tick, Horizon, vars, Twins

\* A perfect prediction is the oracle, and an arm that may not look at the truth
\* decides the same whatever the truth is: such runs keep the same blocks
\* throughout (test_predict_with_perfect_input_equals_belady, and the rule stated
\* in _make_rank_fn).  The oracles scale the pause and the predictors do not, so
\* that two of them need a scale of one.
THEOREM AlikeArmsAgree ==
  ASSUME \A l \in ViewLists : \A i, j \in DOMAIN l : RankAlike(l[i], l[j]) \/ RankAlike(l[j], l[i])
  PROVE  Spec => []SameCache
<1>1. Init => LeadOK /\ Twins
  <2> SUFFICES ASSUME Init PROVE LeadOK /\ Twins
    OBVIOUS
  <2>1. LeadOK
    BY Starts, ViewFacts DEF LeadOK
  <2>2. AllAlike
    BY DEF Init, AllAlike
  <2>3. pools = [i \in DOMAIN views |-> NewPool(Family(views[i].arm))]
    BY DEF Init
  <2>4. \A i, j \in DOMAIN views : Family(views[i].arm) = Family(views[j].arm)
    <3>1. \A v, u : RankAlike(v, u) => Family(v.arm) = Family(u.arm)
      BY DEF RankAlike, Foresees, Family, TtlArms
    <3> QED
      BY <2>2, <3>1 DEF AllAlike
  <2> QED
    BY <2>1, <2>2, <2>3, <2>4 DEF Twins
<1>2. LeadOK /\ Twins /\ [Next]_vars => LeadOK' /\ Twins'
  BY LeadStep, TwinsStep DEF LeadOK
<1>3. Twins => SameCache
  BY DEF Twins, SameCache
<1> QED
  BY <1>1, <1>2, <1>3, PTL DEF Spec

\* In a run of one arm, which is what the program is, there is nothing to agree
\* with: all of this holds of every such run, with any arm, work and capacity.
THEOREM OneRunIsSound ==
  ASSUME \A l \in ViewLists : Len(l) = 1
  PROVE  Spec => /\ []QueuesMatchRefs /\ []HeapFindsEvictable /\ []NeverRaises
                 /\ ProtectionRespected /\ LowestRankFirst
<1>1. ASSUME NEW l \in ViewLists, NEW i \in DOMAIN l, NEW j \in DOMAIN l
      PROVE  RankAlike(l[i], l[j])
  <2>1. l \in Seq(ArmView) /\ Len(l) = 1
    BY ViewAssumption
  <2>2. DOMAIN l = 1 .. 1
    BY <2>1, SeqFacts
  <2> QED
    BY <2>2 DEF RankAlike
<1>2. Spec => []SameCache
  BY <1>1, AlikeArmsAgree
<1> QED
  BY <1>2, QueuesAlwaysMatch, HeapAlwaysFinds, NoEvictionFails, ProtectionAlwaysRespected,
     LowestRankAlwaysFirst, PTL
=============================================================================
