---------------------------- MODULE ReplayProofs ----------------------------
(***************************************************************************)
(* Theorems about Replay, for every workload the generator can return, cut *)
(* at any limit, any number of threads, failures and preemptions: what is  *)
(* sent and counted, and by how much the replay inflates the blocks it     *)
(* reports.                                                                *)
(***************************************************************************)
EXTENDS Replay, FiniteSetTheorems, TLAPS

(***************************************************************************)
(* Numbers and recursive functions                                         *)
(***************************************************************************)

\* A set of numbers below a bound has a least one.
LEMMA LeastBelow ==
  ASSUME NEW n \in Nat, NEW S \in SUBSET (0 .. n), S # {}
  PROVE  \E m \in S : \A i \in S : m <= i
<1> DEFINE All == 0 .. n
           Downs == {0 .. m : m \in S}
<1>1. IsFiniteSet(All)
  BY FS_Interval
<1>2. IsWellFoundedOn(StrictSubsetOrdering(All), SUBSET All)
  BY <1>1, FS_FiniteSubsetsOfFinite, FS_StrictSubsetOrderingWellFounded
<1>3. Downs \subseteq SUBSET All
  OBVIOUS
<1>4. PICK D \in Downs : TRUE
  OBVIOUS
<1> HIDE DEF Downs, All
<1>5. PICK M \in Downs : \A T \in Downs : ~(<<T, M>> \in StrictSubsetOrdering(All))
  BY <1>2, <1>3, <1>4, WFMin
<1> USE DEF Downs, All
<1>6. PICK m \in S : M = 0 .. m
  OBVIOUS
<1>7. ASSUME NEW i \in S, ~(m <= i)
      PROVE  FALSE
  <2>1. 0 .. i \in Downs
    OBVIOUS
  <2>2. /\ 0 .. i \subseteq M /\ 0 .. i # M
        /\ M \in SUBSET All /\ 0 .. i \in SUBSET All
    BY <1>6, <1>7
  <2> QED
    BY <1>5, <2>1, <2>2 DEF StrictSubsetOrdering
<1> QED
  BY <1>7

\* Induction up to a bound, for a set of numbers.
LEMMA UpTo ==
  ASSUME NEW n \in Nat, NEW P, 0 \in P, \A i \in 0 .. (n - 1) : i \in P => i + 1 \in P
  PROVE  \A i \in 0 .. n : i \in P
<1> DEFINE Bad == (0 .. n) \ P
<1>1. SUFFICES ASSUME Bad # {} PROVE FALSE
  OBVIOUS
<1>2. PICK m \in Bad : \A i \in Bad : m <= i
  <2>1. Bad \in SUBSET (0 .. n)
    OBVIOUS
  <2> HIDE DEF Bad
  <2> QED
    BY <1>1, <2>1, LeastBelow
<1>3. m # 0 /\ m \in 1 .. n
  BY <1>2
<1>4. m - 1 \notin Bad /\ m - 1 \in 0 .. (n - 1)
  BY <1>2, <1>3
<1>5. m - 1 \in P /\ (m - 1) + 1 = m
  BY <1>3, <1>4
<1> QED
  BY <1>2, <1>4, <1>5

\* The greatest of them.
LEMMA GreatestBelow ==
  ASSUME NEW n \in Nat, NEW S \in SUBSET (0 .. n), S # {}
  PROVE  \E m \in S : \A i \in S : i <= m
<1> DEFINE T == {n - i : i \in S}
<1>1. T \in SUBSET (0 .. n) /\ T # {}
  OBVIOUS
<1>2. PICK k \in T : \A j \in T : k <= j
  <2> HIDE DEF T
  <2> QED
    BY <1>1, LeastBelow
<1>3. PICK m \in S : k = n - m
  BY <1>2
<1>4. \A i \in S : n - m <= n - i
  BY <1>2, <1>3
<1>5. \A i \in S : i <= m
  BY <1>4
<1> QED
  BY <1>5

\* A function defined by recursion on the numbers up to n exists.
Recursion(f, n, base, G) ==
  f = [i \in 0 .. n |-> IF i = 0 THEN base ELSE G[<<i, f[i - 1]>>]]

LEMMA RecursionUpTo ==
  ASSUME NEW n \in Nat, NEW base, NEW G
  PROVE  \E f : Recursion(f, n, base, G)
<1> DEFINE Rec(f, m) == f = [i \in 0 .. m |-> IF i = 0 THEN base ELSE G[<<i, f[i - 1]>>]]
           P == {m \in 0 .. n : \E f : Rec(f, m)}
<1>1. 0 \in P
  <2>1. Rec([i \in 0 .. 0 |-> base], 0)
    OBVIOUS
  <2> HIDE DEF Rec
  <2> QED
    BY <2>1
<1>2. ASSUME NEW m \in 0 .. (n - 1), m \in P PROVE m + 1 \in P
  <2>1. PICK f : Rec(f, m)
    BY <1>2
  <2> DEFINE g == [i \in 0 .. (m + 1) |-> IF i = m + 1 THEN G[<<m + 1, f[m]>>] ELSE f[i]]
  <2>2. Rec(g, m + 1)
    <3>1. \A i \in 0 .. (m + 1) : g[i] = IF i = 0 THEN base ELSE G[<<i, g[i - 1]>>]
      <4> SUFFICES ASSUME NEW i \in 0 .. (m + 1)
                   PROVE  g[i] = IF i = 0 THEN base ELSE G[<<i, g[i - 1]>>]
        OBVIOUS
      <4>1. CASE i = m + 1
        <5>1. i - 1 = m /\ i # 0 /\ m \in 0 .. (m + 1) /\ m # m + 1
          BY <4>1
        <5>2. g[m] = f[m] /\ g[i] = G[<<m + 1, f[m]>>]
          BY <4>1, <5>1
        <5> HIDE DEF g
        <5> QED
          BY <4>1, <5>1, <5>2
      <4>2. CASE i # m + 1
        <5>1. i \in 0 .. m /\ g[i] = f[i]
          BY <4>2
        <5>2. i # 0 => i - 1 \in 0 .. (m + 1) /\ g[i - 1] = f[i - 1]
          BY <4>2
        <5>3. f[i] = IF i = 0 THEN base ELSE G[<<i, f[i - 1]>>]
          BY <2>1, <5>1
        <5> HIDE DEF g
        <5> QED
          BY <5>1, <5>2, <5>3
      <4> QED
        BY <4>1, <4>2
    <3>2. g = [i \in 0 .. (m + 1) |-> g[i]]
      OBVIOUS
    <3> HIDE DEF g
    <3> QED
      BY <3>1, <3>2
  <2>3. m + 1 \in 0 .. n
    OBVIOUS
  <2> HIDE DEF Rec, g
  <2> QED
    BY <2>2, <2>3
<1>3. n \in P
  <2> HIDE DEF P
  <2> QED
    BY <1>1, <1>2, UpTo
<1> QED
  BY <1>3 DEF Recursion

LEMMA RecursionSteps ==
  ASSUME NEW f, NEW n \in Nat, NEW base, NEW G, Recursion(f, n, base, G)
  PROVE  f[0] = base /\ \A i \in 0 .. (n - 1) : f[i + 1] = G[<<i + 1, f[i]>>]
<1>1. \A i \in 0 .. n : f[i] = IF i = 0 THEN base ELSE G[<<i, f[i - 1]>>]
  BY DEF Recursion
<1>2. ASSUME NEW i \in 0 .. (n - 1) PROVE f[i + 1] = G[<<i + 1, f[i]>>]
  <2>1. i + 1 \in 0 .. n /\ i + 1 # 0 /\ (i + 1) - 1 = i
    OBVIOUS
  <2>2. f[i + 1] = G[<<i + 1, f[(i + 1) - 1]>>]
    BY <1>1, <2>1
  <2> QED
    BY <2>1, <2>2
<1>3. f[0] = base
  <2>1. 0 \in 0 .. n
    OBVIOUS
  <2> QED
    BY <1>1, <2>1
<1> QED
  BY <1>2, <1>3

(***************************************************************************)
(* The generator                                                           *)
(***************************************************************************)

Draw == [repeat : BOOLEAN, tool : Int, ends : BOOLEAN, out : Nat, shrunk : Nat,
         pause : Nat, result : Nat]

LEMMA OutputType ==
  ASSUME NEW d \in Draw, NEW signal \in BOOLEAN
  PROVE  Output(d, signal) \in Nat \ {0}
  BY DEF Draw, Output, AtLeastOne

\* The prompts are what the loop of generate_sessions adds up.
LEMMA PromptRecursion ==
  ASSUME NEW context \in Nat, NEW draws \in Seq(Draw), NEW signal \in BOOLEAN
  PROVE  LET p == PromptOf(context, draws, signal)
         IN  /\ p \in [1 .. Len(draws) -> Nat]
             /\ \A t \in 1 .. Len(draws) :
                  p[t] = IF t = 1 THEN context
                         ELSE p[t - 1] + Output(draws[t - 1], signal) + draws[t - 1].result
<1> DEFINE n == Len(draws)
           Add(t) == Output(draws[t], signal) + draws[t].result
           IsPrompt(p) == p = [t \in 1 .. n |->
                                 IF t = 1 THEN context
                                 ELSE p[t - 1] + Output(draws[t - 1], signal) + draws[t - 1].result]
           G == [x \in (1 .. n) \X Nat |-> x[2] + Add(x[1])]
<1>1. n \in Nat /\ \A t \in 1 .. n : Output(draws[t], signal) \in Nat /\ draws[t].result \in Nat
  <2>1. \A t \in 1 .. n : draws[t] \in Draw
    OBVIOUS
  <2>2. \A t \in 1 .. n : draws[t].result \in Nat
    BY <2>1 DEF Draw
  <2> QED
    BY <2>1, <2>2, OutputType
<1>2. PICK f : f[0] = context /\ \A i \in 0 .. (n - 1) : f[i + 1] = G[<<i + 1, f[i]>>]
  <2> HIDE DEF G, n
  <2>1. PICK f : Recursion(f, n, context, G)
    BY <1>1, RecursionUpTo
  <2>2. f[0] = context /\ \A i \in 0 .. (n - 1) : f[i + 1] = G[<<i + 1, f[i]>>]
    BY <1>1, <2>1, RecursionSteps
  <2> QED
    BY <2>2
<1>3. \A i \in 0 .. n : f[i] \in Nat
  <2> DEFINE P == {i \in 0 .. n : f[i] \in Nat}
  <2>1. 0 \in P
    BY <1>1, <1>2
  <2>2. ASSUME NEW i \in 0 .. (n - 1), i \in P PROVE i + 1 \in P
    <3>1. i + 1 \in 1 .. n /\ f[i] \in Nat /\ i + 1 # 0 /\ (i + 1) - 1 = i
      BY <1>1, <2>2
    <3>2. f[i + 1] = G[<<i + 1, f[i]>>]
      BY <1>2
    <3>3. G[<<i + 1, f[i]>>] = f[i] + Add(i + 1)
      BY <3>1
    <3> QED
      BY <1>1, <3>1, <3>2, <3>3
  <2> HIDE DEF P
  <2>3. \A i \in 0 .. n : i \in P
    BY <1>1, <2>1, <2>2, UpTo
  <2> QED
    BY <2>3 DEF P
<1> DEFINE g == [t \in 1 .. n |-> f[t - 1]]
<1>4. IsPrompt(g)
  <2>1. ASSUME NEW t \in 1 .. n
        PROVE  g[t] = IF t = 1 THEN context
                      ELSE g[t - 1] + Output(draws[t - 1], signal) + draws[t - 1].result
    <3>1. CASE t = 1
      BY <1>1, <1>2, <3>1
    <3>2. CASE t # 1
      <4>1. t - 1 \in 1 .. n /\ (t - 1) - 1 \in 0 .. n /\ t - 1 \in 0 .. n /\ t - 1 # 0
        BY <1>1, <3>2
      <4>2. f[t - 1] = G[<<t - 1, f[(t - 1) - 1]>>]
        <5>1. (t - 1) - 1 \in 0 .. (n - 1) /\ ((t - 1) - 1) + 1 = t - 1
          BY <1>1, <4>1
        <5> HIDE DEF G, n
        <5>2. f[((t - 1) - 1) + 1] = G[<<((t - 1) - 1) + 1, f[(t - 1) - 1]>>]
          BY <1>2, <5>1
        <5> QED
          BY <5>1, <5>2
      <4>3. f[(t - 1) - 1] \in Nat
        BY <1>3, <4>1
      <4>4. G[<<t - 1, f[(t - 1) - 1]>>] = f[(t - 1) - 1] + Add(t - 1)
        BY <4>1, <4>3
      <4>5. g[t] = f[t - 1] /\ g[t - 1] = f[(t - 1) - 1]
        BY <4>1
      <4>6. Output(draws[t - 1], signal) \in Nat /\ draws[t - 1].result \in Nat
        BY <1>1, <4>1
      <4> HIDE DEF g, G
      <4> QED
        BY <3>2, <4>2, <4>3, <4>4, <4>5, <4>6
    <3> QED
      BY <3>1, <3>2
  <2>2. g = [t \in 1 .. n |-> g[t]]
    OBVIOUS
  <2> HIDE DEF g
  <2> QED
    BY <2>1, <2>2
<1> DEFINE p == PromptOf(context, draws, signal)
<1>5. p = CHOOSE q : IsPrompt(q)
  BY DEF PromptOf
<1>6. IsPrompt(p)
  <2> HIDE DEF IsPrompt, p, g
  <2> QED
    BY <1>4, <1>5
<1> HIDE DEF p
<1>7. \A t \in 1 .. n : p[t] = IF t = 1 THEN context
                               ELSE p[t - 1] + Output(draws[t - 1], signal) + draws[t - 1].result
  BY <1>6
<1>8. \A t \in 1 .. n : p[t] \in Nat
  <2> DEFINE P == {i \in 0 .. n : i = 0 \/ p[i] \in Nat}
  <2>1. 0 \in P
    BY <1>1
  <2>2. ASSUME NEW i \in 0 .. (n - 1), i \in P PROVE i + 1 \in P
    <3>1. i + 1 \in 1 .. n /\ (i + 1) - 1 = i /\ (i + 1 # 1 => i \in 1 .. n /\ p[i] \in Nat)
      BY <1>1, <2>2
    <3>2. p[i + 1] = IF i + 1 = 1 THEN context
                     ELSE p[(i + 1) - 1] + Output(draws[(i + 1) - 1], signal) + draws[(i + 1) - 1].result
      BY <1>7, <3>1
    <3>3. p[i + 1] \in Nat
      <4>1. CASE i + 1 = 1
        BY <3>2, <4>1
      <4>2. CASE i + 1 # 1
        <5>1. p[i + 1] = p[i] + Output(draws[i], signal) + draws[i].result
          BY <3>1, <3>2, <4>2
        <5>2. Output(draws[i], signal) \in Nat /\ draws[i].result \in Nat /\ p[i] \in Nat
          BY <1>1, <3>1, <4>2
        <5> HIDE DEF Add, IsPrompt, n, G, g
        <5> QED
          BY <5>1, <5>2
      <4> QED
        BY <4>1, <4>2
    <3> QED
      BY <3>1, <3>3
  <2> HIDE DEF P
  <2>3. \A i \in 0 .. n : i \in P
    BY <1>1, <2>1, <2>2, UpTo
  <2> QED
    BY <1>1, <2>3 DEF P
<1>9. p \in [1 .. n -> Nat]
  BY <1>6, <1>8
<1> QED
  BY <1>7, <1>9 DEF p

\* Turns that every session has: each prompt contains the turn before it.
Grows(turns) ==
  /\ \E S : turns \in Seq(S)
  /\ \A t \in 1 .. Len(turns) :
       /\ turns[t].prompt \in Nat /\ turns[t].output \in Nat /\ turns[t].pause \in Nat
       /\ turns[t].prompt >= SharedBlocks * BlockSize
       /\ t > 1 => turns[t].prompt >= turns[t - 1].prompt + turns[t - 1].output

\* A session as generate_sessions makes it; sid counts from zero, a session has
\* a turn (turns_min is at least one), and the system prompt holds the shared
\* blocks.
IsGenerated(session, sid) ==
  \E system \in Nat, task \in Nat, first \in Int, draws \in Seq(Draw),
     signal \in BOOLEAN, finishing \in Int :
    /\ draws # <<>> /\ system >= SharedBlocks * BlockSize
    /\ session = GenerateSession(sid, system, task, first, draws, signal, finishing)

FromGenerator ==
  \A sessions \in Generated :
    /\ \E S : sessions \in Seq(S)
    /\ \A i \in 1 .. Len(sessions) : IsGenerated(sessions[i], i - 1)

\* What the generator puts in a session.
LEMMA GeneratedSession ==
  ASSUME NEW session, NEW sid, IsGenerated(session, sid)
  PROVE  /\ session.id = sid
         /\ Grows(session.turns) /\ Len(session.turns) \in Nat \ {0}
         /\ session.turns[Len(session.turns)].pause = 0
         /\ DOMAIN session = {"id", "turns"}
<1>1. PICK system \in Nat, task \in Nat, first \in Int, draws \in Seq(Draw),
           signal \in BOOLEAN, finishing \in Int :
         /\ draws # <<>> /\ system >= SharedBlocks * BlockSize
         /\ session = GenerateSession(sid, system, task, first, draws, signal, finishing)
  BY DEF IsGenerated
<1> DEFINE n == Len(draws)
           prompts == PromptOf(system + task, draws, signal)
           tools == ToolOf(first, draws, finishing)
           turns == [t \in 1 .. n |-> [prompt |-> prompts[t], output |-> Output(draws[t], signal),
                                       tool |-> tools[t], pause |-> Pause(draws, t)]]
<1>2. n \in Nat \ {0}
  BY <1>1
<1>3. session = [id |-> sid, turns |-> turns]
  BY <1>1 DEF GenerateSession
<1>4. /\ \A t \in 1 .. n : prompts[t] \in Nat /\ Output(draws[t], signal) \in Nat /\ draws[t].result \in Nat
      /\ prompts[1] = system + task
      /\ \A t \in 2 .. n : prompts[t] = prompts[t - 1] + Output(draws[t - 1], signal) + draws[t - 1].result
  <2>1. /\ prompts \in [1 .. n -> Nat]
        /\ \A t \in 1 .. n : prompts[t] = IF t = 1 THEN system + task
                                          ELSE prompts[t - 1] + Output(draws[t - 1], signal) + draws[t - 1].result
    BY PromptRecursion
  <2>2. \A t \in 1 .. n : draws[t] \in Draw
    OBVIOUS
  <2>3. \A t \in 1 .. n : draws[t].result \in Nat /\ Output(draws[t], signal) \in Nat
    BY <2>2, OutputType DEF Draw
  <2> HIDE DEF prompts, n
  <2>4. prompts[1] = system + task
    BY <1>2, <2>1
  <2>5. \A t \in 2 .. n : t \in 1 .. n /\ t # 1
    BY <1>2
  <2> QED
    BY <2>1, <2>3, <2>4, <2>5
<1>5. \A t \in 1 .. n : prompts[t] >= SharedBlocks * BlockSize
  <2> DEFINE P == {i \in 0 .. n : i = 0 \/ prompts[i] >= SharedBlocks * BlockSize}
  <2>1. SharedBlocks * BlockSize \in Nat
    BY ReplayAssumption
  <2> HIDE DEF prompts, n
  <2>2. 0 \in P
    BY <1>2
  <2>3. ASSUME NEW i \in 0 .. (n - 1), i \in P PROVE i + 1 \in P
    <3>1. i + 1 \in 1 .. n
      BY <1>2
    <3>2. CASE i = 0
      BY <1>1, <1>2, <1>4, <2>1, <3>1, <3>2
    <3>3. CASE i # 0
      <4>1. i \in 1 .. n /\ i + 1 \in 2 .. n /\ (i + 1) - 1 = i /\ prompts[i] >= SharedBlocks * BlockSize
        BY <1>2, <2>3, <3>3
      <4>2. prompts[i + 1] = prompts[i] + Output(draws[i], signal) + draws[i].result
        BY <1>4, <4>1
      <4>3. prompts[i] \in Nat /\ Output(draws[i], signal) \in Nat /\ draws[i].result \in Nat
        BY <1>4, <4>1
      <4>4. prompts[i + 1] >= SharedBlocks * BlockSize
        BY <2>1, <4>1, <4>2, <4>3
      <4> QED
        BY <3>1, <4>4
    <3> QED
      BY <3>2, <3>3
  <2> HIDE DEF P
  <2>4. \A i \in 0 .. n : i \in P
    BY <1>2, <2>2, <2>3, UpTo
  <2> QED
    BY <1>2, <2>4 DEF P
<1>6. \A t \in 1 .. n : Pause(draws, t) \in Nat /\ (t = n => Pause(draws, t) = 0)
  <2>1. \A t \in 1 .. n : draws[t] \in Draw
    OBVIOUS
  <2> QED
    BY <2>1 DEF Draw, Pause
<1>7. /\ Len(turns) = n /\ turns \in Seq({turns[t] : t \in 1 .. n})
      /\ \A t \in 1 .. n : /\ turns[t].prompt = prompts[t] /\ turns[t].output = Output(draws[t], signal)
                           /\ turns[t].pause = Pause(draws, t)
  <2>1. turns \in [1 .. n -> {turns[t] : t \in 1 .. n}]
    OBVIOUS
  <2>2. \A t \in 1 .. n : /\ turns[t].prompt = prompts[t] /\ turns[t].output = Output(draws[t], signal)
                          /\ turns[t].pause = Pause(draws, t)
    <3> HIDE DEF prompts, tools
    <3> QED
      OBVIOUS
  <2> HIDE DEF turns, n
  <2> QED
    BY <1>2, <2>1, <2>2
<1> HIDE DEF turns, prompts, n
<1>8. Grows(turns)
  <2>1. \A t \in 1 .. n : t > 1 => turns[t].prompt >= turns[t - 1].prompt + turns[t - 1].output
    <3> SUFFICES ASSUME NEW t \in 1 .. n, t > 1
                 PROVE  turns[t].prompt >= turns[t - 1].prompt + turns[t - 1].output
      OBVIOUS
    <3>1. t \in 2 .. n /\ t - 1 \in 1 .. n
      BY <1>2
    <3>2. prompts[t - 1] \in Nat /\ Output(draws[t - 1], signal) \in Nat /\ draws[t - 1].result \in Nat
      BY <1>4, <3>1
    <3>3. prompts[t] = prompts[t - 1] + Output(draws[t - 1], signal) + draws[t - 1].result
      BY <1>4, <3>1
    <3>4. /\ turns[t].prompt = prompts[t] /\ turns[t - 1].prompt = prompts[t - 1]
          /\ turns[t - 1].output = Output(draws[t - 1], signal)
      BY <1>7, <3>1
    <3> QED
      BY <3>2, <3>3, <3>4
  <2>2. \A t \in 1 .. n : /\ turns[t].prompt \in Nat /\ turns[t].output \in Nat /\ turns[t].pause \in Nat
                          /\ turns[t].prompt >= SharedBlocks * BlockSize
    BY <1>4, <1>5, <1>6, <1>7
  <2> QED
    BY <1>7, <2>1, <2>2 DEF Grows
<1>9. turns[n].pause = 0
  BY <1>2, <1>6, <1>7
<1> QED
  BY <1>2, <1>3, <1>7, <1>8, <1>9

(***************************************************************************)
(* The cut                                                                 *)
(***************************************************************************)

\* The prompts that are kept fit.
LEMMA KeepFits ==
  ASSUME NEW turns, NEW S, turns \in Seq(S)
  PROVE  /\ Keep(turns, Limit) \in 0 .. Len(turns)
         /\ \A t \in 1 .. Keep(turns, Limit) : turns[t].prompt <= Limit
<1> DEFINE fits == {n \in 0 .. Len(turns) : \A t \in 1 .. n : turns[t].prompt <= Limit}
<1>1. Len(turns) \in Nat
  OBVIOUS
<1>2. 0 \in fits
  BY <1>1
<1>3. \E n \in fits : \A k \in fits : k <= n
  <2>1. fits \in SUBSET (0 .. Len(turns)) /\ fits # {}
    BY <1>2
  <2> HIDE DEF fits
  <2> QED
    BY <1>1, <2>1, GreatestBelow
<1>4. Keep(turns, Limit) = CHOOSE n \in fits : \A k \in fits : k <= n
  BY DEF Keep
<1>5. Keep(turns, Limit) \in fits
  <2> HIDE DEF fits
  <2> QED
    BY <1>3, <1>4
<1> QED
  BY <1>5

\* A session of the replay is the beginning of one that was generated.
IsCut(cut, session) ==
  /\ cut.id = session.id
  /\ \E S : cut.turns \in Seq(S)
  /\ Len(cut.turns) \in 0 .. Len(session.turns)
  /\ \A t \in 1 .. Len(cut.turns) : cut.turns[t] = session.turns[t] /\ cut.turns[t].prompt <= Limit

LEMMA TruncatedIsCut ==
  ASSUME NEW session, NEW sid, IsGenerated(session, sid)
  PROVE  IsCut(Truncated(session, Limit), session)
<1> DEFINE turns == session.turns
           k == Keep(turns, Limit)
           cut == Truncated(session, Limit)
<1>1. DOMAIN session = {"id", "turns"} /\ Grows(turns)
  BY GeneratedSession
<1>2. PICK S : turns \in Seq(S)
  BY <1>1 DEF Grows
<1>3. k \in 0 .. Len(turns) /\ (\A t \in 1 .. k : turns[t].prompt <= Limit) /\ Len(turns) \in Nat
  BY <1>2, KeepFits
<1>4. cut.id = session.id /\ cut.turns = SubSeq(turns, 1, k)
  BY <1>1 DEF Truncated
<1> HIDE DEF turns, k, cut
<1>5. /\ SubSeq(turns, 1, k) \in Seq(S) /\ Len(SubSeq(turns, 1, k)) = k
      /\ \A t \in 1 .. k : SubSeq(turns, 1, k)[t] = turns[t]
  BY <1>2, <1>3
<1> QED
  BY <1>3, <1>4, <1>5 DEF IsCut, cut, turns

\* What the loop over the sessions has kept of the first n of them.
Kept(sessions, list, n) ==
  /\ \E S : list \in Seq(S)
  /\ \A p \in 1 .. Len(list) : \E i \in 1 .. n :
       list[p] = Truncated(sessions[i], Limit) /\ list[p].id = i - 1 /\ HasTurns(list[p])
  /\ \A p, q \in 1 .. Len(list) : p < q => list[p].id < list[q].id

\* A session that keeps a turn is added behind those of smaller ids.
LEMMA KeptGrows ==
  ASSUME NEW sessions, NEW n \in Nat, NEW list, Kept(sessions, list, n),
         NEW cut, cut = Truncated(sessions[n + 1], Limit), cut.id = n
  PROVE  Kept(sessions, IF HasTurns(cut) THEN Append(list, cut) ELSE list, n + 1)
<1>1. PICK S : list \in Seq(S)
  BY DEF Kept
<1>2. \A i \in 1 .. n : i \in 1 .. (n + 1) /\ i - 1 # n
  OBVIOUS
<1>3. \A p \in 1 .. Len(list) : list[p].id < n
  <2>1. \A i \in 1 .. n : i - 1 < n
    OBVIOUS
  <2> QED
    BY <2>1 DEF Kept
<1>4. CASE ~HasTurns(cut)
  BY <1>2, <1>4 DEF Kept
<1>5. CASE HasTurns(cut)
  <2> DEFINE new == Append(list, cut)
  <2>1. list \in Seq(S \cup {cut}) /\ cut \in S \cup {cut} /\ Len(list) \in Nat
    BY <1>1
  <2>2. new \in Seq(S \cup {cut})
    BY <2>1
  <2>3. /\ Len(new) = Len(list) + 1
        /\ \A p \in 1 .. Len(new) : new[p] = IF p = Len(list) + 1 THEN cut ELSE list[p]
        /\ \A p \in 1 .. Len(new) : p # Len(list) + 1 => p \in 1 .. Len(list)
    BY <2>1
  <2> HIDE DEF new
  <2>4. n + 1 \in 1 .. (n + 1) /\ (n + 1) - 1 = n
    OBVIOUS
  <2>5. \A p \in 1 .. Len(new) : \E i \in 1 .. (n + 1) :
          new[p] = Truncated(sessions[i], Limit) /\ new[p].id = i - 1 /\ HasTurns(new[p])
    <3> SUFFICES ASSUME NEW p \in 1 .. Len(new)
                 PROVE  \E i \in 1 .. (n + 1) :
                          new[p] = Truncated(sessions[i], Limit) /\ new[p].id = i - 1 /\ HasTurns(new[p])
      OBVIOUS
    <3>1. CASE p = Len(list) + 1
      BY <1>5, <2>3, <2>4, <3>1
    <3>2. CASE p # Len(list) + 1
      <4>1. p \in 1 .. Len(list) /\ new[p] = list[p]
        BY <2>3, <3>2
      <4> QED
        BY <1>2, <4>1 DEF Kept
    <3> QED
      BY <3>1, <3>2
  <2>6. ASSUME NEW p \in 1 .. Len(new), NEW q \in 1 .. Len(new), p < q
        PROVE  new[p].id < new[q].id
    <3>1. p \in 1 .. Len(list) /\ new[p] = list[p]
      BY <2>1, <2>3, <2>6
    <3>2. CASE q = Len(list) + 1
      BY <1>3, <2>3, <3>1, <3>2
    <3>3. CASE q # Len(list) + 1
      BY <2>3, <2>6, <3>1, <3>3 DEF Kept
    <3> QED
      BY <3>2, <3>3
  <2>7. Kept(sessions, new, n + 1)
    BY <2>2, <2>5, <2>6 DEF Kept
  <2> QED
    BY <1>5, <2>7 DEF new
<1> QED
  BY <1>4, <1>5

LEMMA TruncateKept ==
  ASSUME NEW sessions, NEW S, sessions \in Seq(S),
         \A i \in 1 .. Len(sessions) : IsGenerated(sessions[i], i - 1)
  PROVE  Kept(sessions, Truncate(sessions, Limit), Len(sessions))
<1> DEFINE n == Len(sessions)
           Cut(i) == Truncated(sessions[i], Limit)
           IsKept(f) == f = [i \in 0 .. n |->
                               IF i = 0 THEN <<>>
                               ELSE LET cut == Truncated(sessions[i], Limit)
                                    IN  IF HasTurns(cut) THEN Append(f[i - 1], cut) ELSE f[i - 1]]
           C == {Cut(i) : i \in 1 .. n}
           G == [x \in (1 .. n) \X Seq(C) |-> IF HasTurns(Cut(x[1])) THEN Append(x[2], Cut(x[1])) ELSE x[2]]
<1>1. n \in Nat /\ \A i \in 1 .. n : Cut(i).id = i - 1 /\ Cut(i) \in C
  <2>1. ASSUME NEW i \in 1 .. n PROVE Cut(i).id = i - 1
    BY TruncatedIsCut, GeneratedSession DEF IsCut
  <2> QED
    BY <2>1
<1>2. PICK f : Recursion(f, n, <<>>, G)
  <2> HIDE DEF G, n
  <2> QED
    BY <1>1, RecursionUpTo
<1>3. f[0] = <<>> /\ \A i \in 0 .. (n - 1) : f[i + 1] = G[<<i + 1, f[i]>>]
  <2> HIDE DEF G, n
  <2> QED
    BY <1>1, <1>2, RecursionSteps
<1> HIDE DEF C, Cut
<1>4. \A i \in 1 .. n, x \in Seq(C) :
        G[<<i, x>>] = (IF HasTurns(Cut(i)) THEN Append(x, Cut(i)) ELSE x) /\ G[<<i, x>>] \in Seq(C)
  <2> SUFFICES ASSUME NEW i \in 1 .. n, NEW x \in Seq(C)
               PROVE  G[<<i, x>>] = (IF HasTurns(Cut(i)) THEN Append(x, Cut(i)) ELSE x) /\ G[<<i, x>>] \in Seq(C)
    OBVIOUS
  <2>1. G[<<i, x>>] = IF HasTurns(Cut(i)) THEN Append(x, Cut(i)) ELSE x
    OBVIOUS
  <2>2. Append(x, Cut(i)) \in Seq(C)
    BY <1>1
  <2> QED
    BY <2>1, <2>2
<1> HIDE DEF G
<1>5. \A i \in 0 .. n : f[i] \in Seq(C)
  <2> DEFINE P == {i \in 0 .. n : f[i] \in Seq(C)}
  <2>1. 0 \in P
    <3>1. <<>> \in Seq(C)
      OBVIOUS
    <3>2. 0 \in 0 .. n
      BY <1>1
    <3> QED
      BY <1>3, <3>1, <3>2
  <2>2. ASSUME NEW i \in 0 .. (n - 1), i \in P PROVE i + 1 \in P
    <3>1. i + 1 \in 1 .. n /\ i + 1 \in 0 .. n
      BY <1>1
    <3> QED
      BY <1>3, <1>4, <2>2, <3>1
  <2> HIDE DEF P
  <2>3. \A i \in 0 .. n : i \in P
    BY <1>1, <2>1, <2>2, UpTo
  <2> QED
    BY <2>3 DEF P
<1>6. IsKept(f)
  <2>1. f = [i \in 0 .. n |-> f[i]]
    BY <1>2 DEF Recursion
  <2>2. \A i \in 0 .. n : f[i] = IF i = 0 THEN <<>>
                                 ELSE IF HasTurns(Cut(i)) THEN Append(f[i - 1], Cut(i)) ELSE f[i - 1]
    <3> SUFFICES ASSUME NEW i \in 0 .. n, i # 0
                 PROVE  f[i] = IF HasTurns(Cut(i)) THEN Append(f[i - 1], Cut(i)) ELSE f[i - 1]
      BY <1>3
    <3>1. i \in 1 .. n /\ i - 1 \in 0 .. (n - 1) /\ i - 1 \in 0 .. n /\ (i - 1) + 1 = i
      BY <1>1
    <3>2. f[i] = G[<<i, f[i - 1]>>]
      BY <1>3, <3>1
    <3> QED
      BY <1>4, <1>5, <3>1, <3>2
  <2> QED
    BY <2>1, <2>2 DEF Cut
<1> DEFINE kept == CHOOSE g : IsKept(g)
<1>7. IsKept(kept)
  <2> HIDE DEF IsKept
  <2> QED
    BY <1>6
<1>8. Truncate(sessions, Limit) = kept[n]
  BY DEF Truncate
<1> HIDE DEF kept
<1>9. \A i \in 0 .. n : kept[i] = IF i = 0 THEN <<>>
                                  ELSE IF HasTurns(Cut(i)) THEN Append(kept[i - 1], Cut(i)) ELSE kept[i - 1]
  BY <1>7 DEF Cut
<1>10. \A i \in 0 .. n : Kept(sessions, kept[i], i)
  <2> DEFINE P == {i \in 0 .. n : Kept(sessions, kept[i], i)}
  <2>1. 0 \in P
    <3>1. 0 \in 0 .. n
      BY <1>1
    <3>2. kept[0] = <<>>
      BY <1>9, <3>1
    <3>3. <<>> \in Seq({}) /\ Len(<<>>) = 0
      OBVIOUS
    <3>4. Kept(sessions, <<>>, 0)
      BY <3>3 DEF Kept
    <3> QED
      BY <3>1, <3>2, <3>4
  <2>2. ASSUME NEW i \in 0 .. (n - 1), i \in P PROVE i + 1 \in P
    <3>1. i + 1 \in 1 .. n /\ i + 1 \in 0 .. n /\ i + 1 # 0 /\ (i + 1) - 1 = i /\ i \in Nat
      BY <1>1
    <3>2. kept[i + 1] = IF HasTurns(Cut(i + 1)) THEN Append(kept[i], Cut(i + 1)) ELSE kept[i]
      BY <1>9, <3>1
    <3>3. Cut(i + 1).id = i /\ Cut(i + 1) = Truncated(sessions[i + 1], Limit)
      BY <1>1, <3>1 DEF Cut
    <3>4. Kept(sessions, kept[i], i)
      BY <2>2
    <3>5. Kept(sessions, kept[i + 1], i + 1)
      BY <3>1, <3>2, <3>3, <3>4, KeptGrows
    <3> QED
      BY <3>1, <3>5
  <2> HIDE DEF P
  <2>3. \A i \in 0 .. n : i \in P
    BY <1>1, <2>1, <2>2, UpTo
  <2> QED
    BY <2>3 DEF P
<1> QED
  BY <1>1, <1>8, <1>10

\* What the replay has of each session it kept.
LEMMA SessionsFacts ==
  ASSUME FromGenerator, generated \in Generated
  PROVE  /\ N \in Nat
         /\ \A p \in 1 .. N : \E i \in 1 .. Len(generated) :
              /\ Sessions[p].id = i - 1
              /\ IsCut(Sessions[p], generated[i]) /\ IsGenerated(generated[i], i - 1)
         /\ \A p \in 1 .. N : Len(Turns(p)) \in Nat \ {0} /\ \E S : Turns(p) \in Seq(S)
         /\ \A p, q \in 1 .. N : p < q => Sessions[p].id < Sessions[q].id
         /\ \A p, q \in 1 .. N : Sessions[p].id = Sessions[q].id => p = q
<1>1. PICK S : generated \in Seq(S)
  BY DEF FromGenerator
<1>2. \A i \in 1 .. Len(generated) : IsGenerated(generated[i], i - 1)
  BY DEF FromGenerator
<1>3. Kept(generated, Sessions, Len(generated))
  BY <1>1, <1>2, TruncateKept DEF Sessions
<1>4. N \in Nat
  <2>1. PICK T : Sessions \in Seq(T)
    BY <1>3 DEF Kept
  <2> QED
    BY <2>1 DEF N
<1>5. ASSUME NEW p \in 1 .. N
      PROVE  \E i \in 1 .. Len(generated) :
               /\ Sessions[p].id = i - 1 /\ HasTurns(Sessions[p])
               /\ IsCut(Sessions[p], generated[i]) /\ IsGenerated(generated[i], i - 1)
  <2>1. PICK i \in 1 .. Len(generated) :
          Sessions[p] = Truncated(generated[i], Limit) /\ Sessions[p].id = i - 1 /\ HasTurns(Sessions[p])
    BY <1>3 DEF Kept, N
  <2> QED
    BY <1>2, <2>1, TruncatedIsCut
<1>6. ASSUME NEW p \in 1 .. N
      PROVE  Len(Turns(p)) \in Nat \ {0} /\ \E T : Turns(p) \in Seq(T)
  <2>1. PICK T : Sessions[p].turns \in Seq(T)
    BY <1>5 DEF IsCut
  <2>2. Sessions[p].turns # <<>>
    BY <1>5 DEF HasTurns
  <2> QED
    BY <2>1, <2>2 DEF Turns
<1>7. \A p, q \in 1 .. N : p < q => Sessions[p].id < Sessions[q].id
  BY <1>3 DEF Kept, N
<1>8. \A p \in 1 .. N : Sessions[p].id \in Int
  BY <1>5
<1>9. \A p, q \in 1 .. N : Sessions[p].id = Sessions[q].id => p = q
  <2> SUFFICES ASSUME NEW p \in 1 .. N, NEW q \in 1 .. N, Sessions[p].id = Sessions[q].id, p # q
               PROVE  FALSE
    OBVIOUS
  <2>1. p < q \/ q < p
    BY <1>4
  <2> QED
    BY <1>7, <1>8, <2>1
<1> QED
  BY <1>4, <1>5, <1>6, <1>7, <1>9

LEMMA SameSessions ==
  ASSUME generated' = generated
  PROVE  Sessions' = Sessions /\ N' = N /\ \A p : Turns(p)' = Turns(p)
  BY DEF Sessions, N, Turns

LEMMA NextGenerated == [Next]_vars => generated' = generated
  BY DEF Next, ThreadStep, ServerStep, MainStep, Ended, Take, Post, Record, WakeUp, NextTurn, Schedule,
         Attempt, Answer, Preempt, Fail, Consume, Raise, Leave, Simulate, Write, SimTurn, SimPreempt, vars

\* The turns of a kept session are those of Grows, and fit the limit.
LEMMA TurnsGrow ==
  ASSUME FromGenerator, generated \in Generated, NEW p \in 1 .. N
  PROVE  /\ Turns(p) # <<>>
         /\ \A t \in 1 .. Len(Turns(p)) :
              /\ Turns(p)[t].prompt \in Nat /\ Turns(p)[t].output \in Nat /\ Turns(p)[t].pause \in Nat
              /\ Turns(p)[t].prompt >= SharedBlocks * BlockSize /\ Turns(p)[t].prompt <= Limit
              /\ t > 1 => Turns(p)[t].prompt >= Turns(p)[t - 1].prompt + Turns(p)[t - 1].output
<1>1. PICK i \in 1 .. Len(generated) :
         IsCut(Sessions[p], generated[i]) /\ IsGenerated(generated[i], i - 1)
  BY SessionsFacts
<1>2. Grows(generated[i].turns) /\ Len(generated[i].turns) \in Nat
  BY <1>1, GeneratedSession
<1>3. /\ Len(Turns(p)) \in 0 .. Len(generated[i].turns) /\ Len(Turns(p)) # 0
      /\ \A t \in 1 .. Len(Turns(p)) : Turns(p)[t] = generated[i].turns[t] /\ Turns(p)[t].prompt <= Limit
  BY <1>1, SessionsFacts DEF IsCut, Turns
<1>4. \A t \in 1 .. Len(Turns(p)) : /\ t \in 1 .. Len(generated[i].turns)
                                   /\ t > 1 => t - 1 \in 1 .. Len(Turns(p))
  BY <1>2, <1>3
<1>5. Turns(p) # <<>>
  BY <1>3
<1>6. ASSUME NEW t \in 1 .. Len(Turns(p))
      PROVE  /\ Turns(p)[t].prompt \in Nat /\ Turns(p)[t].output \in Nat /\ Turns(p)[t].pause \in Nat
             /\ Turns(p)[t].prompt >= SharedBlocks * BlockSize /\ Turns(p)[t].prompt <= Limit
             /\ t > 1 => Turns(p)[t].prompt >= Turns(p)[t - 1].prompt + Turns(p)[t - 1].output
  <2> DEFINE turns == generated[i].turns
  <2>1. t \in 1 .. Len(turns) /\ Turns(p)[t] = turns[t] /\ Turns(p)[t].prompt <= Limit
    BY <1>3, <1>4
  <2>2. t > 1 => Turns(p)[t - 1] = turns[t - 1]
    BY <1>3, <1>4
  <2>3. /\ turns[t].prompt \in Nat /\ turns[t].output \in Nat /\ turns[t].pause \in Nat
        /\ turns[t].prompt >= SharedBlocks * BlockSize
        /\ t > 1 => turns[t].prompt >= turns[t - 1].prompt + turns[t - 1].output
    BY <1>2, <2>1 DEF Grows
  <2> HIDE DEF turns
  <2> QED
    BY <2>1, <2>2, <2>3
<1> QED
  BY <1>5, <1>6

\* A trace of the generator, cut at any limit, has what the theorems about the
\* engine assume of one: no session is empty, prompts begin with the system
\* prompt and contain the whole turn before (generate_sessions and the cut).
THEOREM TraceFits == ASSUME FromGenerator PROVE Spec => []TraceFitsEngine
<1>1. Init => generated \in Generated
  BY DEF Init
<1>2. generated \in Generated /\ [Next]_vars => (generated \in Generated)'
  BY NextGenerated
<1>3. generated \in Generated => TraceFitsEngine
  BY TurnsGrow DEF TraceFitsEngine
<1> QED
  BY <1>1, <1>2, <1>3, PTL DEF Spec

(***************************************************************************)
(* The threads                                                             *)
(***************************************************************************)

\* The answer of the present turn is recorded.
Recorded(p) == at[p] \in {"asleep", "awake"} \/ future[p] = "ok"

\* Where the thread of a session is, and what it has recorded.
ThreadOK(p) ==
  /\ turn[p] \in 1 .. Len(Turns(p))
  /\ at[p] \in {"waiting", "scheduled", "answered", "asleep", "awake"} => future[p] = "running"
  /\ at[p] = "done" <=> future[p] \in {"ok", "failed"}
  /\ future[p] = "ok" => turn[p] = Len(Turns(p))
  /\ at[p] = "asleep" => Now(p).pause > 0
  /\ records[p] = [t \in 1 .. (IF Recorded(p) THEN turn[p] ELSE turn[p] - 1) |-> t]

\* The main thread has taken only results that are there, and goes on when it
\* has them all.
MainOK ==
  /\ consumed \in 0 .. N
  /\ \A p \in 1 .. consumed : future[p] = "ok"
  /\ phase \in {"replay", "raising", "simulate", "written", "failed"}
  /\ phase \in {"simulate", "written"} => consumed = N

ThreadInv ==
  /\ generated \in Generated
  /\ future \in [1 .. N -> {"pending", "running", "ok", "failed", "cancelled"}]
  /\ at \in [1 .. N -> {"build", "waiting", "scheduled", "answered", "asleep", "awake", "done"}]
  /\ turn \in [1 .. N -> Nat] /\ records = [p \in 1 .. N |-> records[p]]
  /\ \A p \in 1 .. N : ThreadOK(p)
  /\ MainOK

LEMMA InitThreads == FromGenerator /\ Init => ThreadInv
<1> SUFFICES ASSUME FromGenerator, Init PROVE ThreadInv
  OBVIOUS
<1>1. generated \in Generated
  BY DEF Init
<1>2. N \in Nat /\ \A p \in 1 .. N : Len(Turns(p)) \in Nat \ {0}
  BY <1>1, SessionsFacts
<1>3. \A p \in 1 .. N : /\ future[p] = "pending" /\ turn[p] = 1 /\ at[p] = "build" /\ records[p] = <<>>
  BY DEF Init
<1>4. \A p \in 1 .. N : ThreadOK(p)
  <2> SUFFICES ASSUME NEW p \in 1 .. N PROVE ThreadOK(p)
    OBVIOUS
  <2>1. records[p] = [t \in 1 .. 0 |-> t]
    BY <1>3
  <2> QED
    BY <1>2, <1>3, <2>1 DEF ThreadOK, Recorded
<1>5. MainOK
  BY <1>2 DEF Init, MainOK
<1> QED
  BY <1>1, <1>2, <1>4, <1>5 DEF Init, ThreadInv

Futures == {"pending", "running", "ok", "failed", "cancelled"}

Places == {"build", "waiting", "scheduled", "answered", "asleep", "awake", "done"}

\* A step of one thread, or of the server for it, which leaves it in order.
LEMMA OneThread ==
  ASSUME FromGenerator, ThreadInv, generated' = generated, consumed' = consumed, phase' = phase,
         NEW p \in 1 .. N, NEW f \in Futures, NEW a \in Places, NEW n \in 1 .. Len(Turns(p)), NEW r,
         future' = [future EXCEPT ![p] = f], at' = [at EXCEPT ![p] = a],
         turn' = [turn EXCEPT ![p] = n], records' = [records EXCEPT ![p] = r],
         future[p] # "ok",
         a \in {"waiting", "scheduled", "answered", "asleep", "awake"} => f = "running",
         a = "done" <=> f \in {"ok", "failed"},
         f = "ok" => n = Len(Turns(p)),
         a = "asleep" => Turns(p)[n].pause > 0,
         r = [t \in 1 .. (IF a \in {"asleep", "awake"} \/ f = "ok" THEN n ELSE n - 1) |-> t]
  PROVE  ThreadInv'
<1>1. Sessions' = Sessions /\ N' = N /\ \A q : Turns(q)' = Turns(q)
  BY SameSessions
<1>2. N \in Nat /\ \A q \in 1 .. N : Len(Turns(q)) \in Nat \ {0}
  BY SessionsFacts DEF ThreadInv
<1>3. /\ future' \in [1 .. N -> Futures] /\ at' \in [1 .. N -> Places]
      /\ turn' \in [1 .. N -> Nat] /\ records' = [q \in 1 .. N |-> records'[q]]
  <2>1. future' \in [1 .. N -> Futures]
    BY DEF ThreadInv, Futures
  <2>2. at' \in [1 .. N -> Places]
    BY DEF ThreadInv, Places
  <2>3. turn' \in [1 .. N -> Nat]
    <3>1. n \in Nat
      BY <1>2
    <3> QED
      BY <3>1 DEF ThreadInv
  <2>4. records' = [q \in 1 .. N |-> records'[q]]
    <3>1. records = [q \in 1 .. N |-> records[q]]
      BY DEF ThreadInv
    <3>2. records' = [q \in 1 .. N |-> IF q = p THEN r ELSE records[q]]
      BY <3>1
    <3> QED
      BY <3>2
  <2> QED
    BY <2>1, <2>2, <2>3, <2>4
<1>4. ASSUME NEW q \in 1 .. N PROVE ThreadOK(q)'
  <2>1. CASE q = p
    <3>1. future'[q] = f /\ at'[q] = a /\ turn'[q] = n /\ records'[q] = r
      BY <2>1 DEF ThreadInv
    <3> QED
      BY <1>1, <2>1, <3>1 DEF ThreadOK, Recorded, Now
  <2>2. CASE q # p
    <3>1. future'[q] = future[q] /\ at'[q] = at[q] /\ turn'[q] = turn[q] /\ records'[q] = records[q]
      BY <2>2 DEF ThreadInv
    <3>2. ThreadOK(q)
      BY DEF ThreadInv
    <3> QED
      BY <1>1, <3>1, <3>2 DEF ThreadOK, Recorded, Now
  <2> QED
    BY <2>1, <2>2
<1>5. MainOK'
  <2>1. MainOK
    BY DEF ThreadInv
  <2>2. ASSUME NEW q \in 1 .. consumed PROVE future'[q] = "ok"
    <3>1. q \in 1 .. N /\ future[q] = "ok" /\ q # p
      BY <1>2, <2>1 DEF MainOK
    <3> QED
      BY <3>1 DEF ThreadInv
  <2> QED
    BY <1>1, <2>1, <2>2 DEF MainOK
<1> QED
  BY <1>1, <1>3, <1>4, <1>5 DEF ThreadInv, Futures, Places

\* A step that leaves the threads alone.
LEMMA NoThread ==
  ASSUME ThreadInv, UNCHANGED <<generated, replay>>, MainOK'
  PROVE  ThreadInv'
<1>1. Sessions' = Sessions /\ N' = N /\ \A q : Turns(q)' = Turns(q)
  BY SameSessions
<1>2. ASSUME NEW q \in 1 .. N PROVE ThreadOK(q)'
  BY <1>1 DEF ThreadInv, ThreadOK, Recorded, Now, replay
<1> QED
  BY <1>1, <1>2 DEF ThreadInv, replay

\* The thread of a session before a step of it.
LEMMA ThreadFacts ==
  ASSUME FromGenerator, ThreadInv, NEW p \in 1 .. N
  PROVE  /\ future = [future EXCEPT ![p] = future[p]] /\ at = [at EXCEPT ![p] = at[p]]
         /\ turn = [turn EXCEPT ![p] = turn[p]] /\ records = [records EXCEPT ![p] = records[p]]
         /\ future[p] \in Futures /\ at[p] \in Places /\ turn[p] \in 1 .. Len(Turns(p))
         /\ Len(Turns(p)) \in Nat
         /\ ThreadOK(p)
         /\ at[p] # "done" => future[p] # "ok"
<1>1. Len(Turns(p)) \in Nat
  BY SessionsFacts DEF ThreadInv
<1>2. ThreadOK(p)
  BY DEF ThreadInv
<1>3. records = [records EXCEPT ![p] = records[p]]
  BY DEF ThreadInv
<1> QED
  BY <1>1, <1>2, <1>3 DEF ThreadInv, ThreadOK, Futures, Places

LEMMA StepThreads ==
  ASSUME FromGenerator, ThreadInv, NEW p \in 1 .. N,
         Take(p) \/ Post(p) \/ Record(p) \/ WakeUp(p) \/ NextTurn(p)
  PROVE  ThreadInv'
<1>0. /\ future = [future EXCEPT ![p] = future[p]] /\ at = [at EXCEPT ![p] = at[p]]
      /\ turn = [turn EXCEPT ![p] = turn[p]] /\ records = [records EXCEPT ![p] = records[p]]
      /\ future[p] \in Futures /\ at[p] \in Places /\ turn[p] \in 1 .. Len(Turns(p))
      /\ Len(Turns(p)) \in Nat /\ ThreadOK(p)
      /\ at[p] # "done" => future[p] # "ok"
  BY ThreadFacts
<1>1. CASE Take(p)
  <2>1. /\ generated' = generated /\ consumed' = consumed /\ phase' = phase
        /\ future' = [future EXCEPT ![p] = "running"] /\ at' = [at EXCEPT ![p] = at[p]]
        /\ turn' = [turn EXCEPT ![p] = turn[p]] /\ records' = [records EXCEPT ![p] = records[p]]
        /\ future[p] = "pending"
    BY <1>0, <1>1 DEF Take
  <2>2. at[p] = "build" /\ "running" \in Futures
    BY <1>0, <2>1 DEF ThreadOK, Places, Futures
  <2>3. records[p] = [t \in 1 .. (turn[p] - 1) |-> t]
    BY <1>0, <2>1, <2>2 DEF ThreadOK, Recorded
  <2> QED
    BY <1>0, <2>1, <2>2, <2>3, OneThread
<1>2. CASE Post(p)
  <2>1. /\ generated' = generated /\ consumed' = consumed /\ phase' = phase
        /\ future' = [future EXCEPT ![p] = "running"] /\ at' = [at EXCEPT ![p] = "waiting"]
        /\ turn' = [turn EXCEPT ![p] = turn[p]] /\ records' = [records EXCEPT ![p] = records[p]]
        /\ future[p] = "running" /\ at[p] = "build"
    BY <1>0, <1>2 DEF Post, Goto
  <2>2. "waiting" \in Places /\ "running" \in Futures
    BY DEF Places, Futures
  <2>3. records[p] = [t \in 1 .. (turn[p] - 1) |-> t]
    BY <1>0, <2>1 DEF ThreadOK, Recorded
  <2> QED
    BY <1>0, <2>1, <2>2, <2>3, OneThread
<1>3. CASE Record(p)
  <2> DEFINE a == IF Now(p).pause > 0 THEN "asleep" ELSE "awake"
             r == Append(records[p], turn[p])
  <2>1. /\ generated' = generated /\ consumed' = consumed /\ phase' = phase
        /\ future' = [future EXCEPT ![p] = "running"] /\ at' = [at EXCEPT ![p] = a]
        /\ turn' = [turn EXCEPT ![p] = turn[p]] /\ records' = [records EXCEPT ![p] = r]
        /\ at[p] = "answered" /\ future[p] = "running"
    BY <1>0, <1>3 DEF Record, Goto, ThreadOK
  <2>2. a \in {"asleep", "awake"} /\ a \in Places /\ "running" \in Futures
    BY DEF Places, Futures
  <2>3. r = [t \in 1 .. turn[p] |-> t]
    <3>1. records[p] = [t \in 1 .. (turn[p] - 1) |-> t]
      BY <1>0, <2>1 DEF ThreadOK, Recorded
    <3>2. turn[p] \in Nat \ {0}
      BY <1>0
    <3> QED
      BY <3>1, <3>2
  <2>4. a = "asleep" => Turns(p)[turn[p]].pause > 0
    BY DEF Now
  <2> HIDE DEF a, r
  <2> QED
    BY <1>0, <2>1, <2>2, <2>3, <2>4, OneThread
<1>4. CASE WakeUp(p)
  <2>1. /\ generated' = generated /\ consumed' = consumed /\ phase' = phase
        /\ future' = [future EXCEPT ![p] = "running"] /\ at' = [at EXCEPT ![p] = "awake"]
        /\ turn' = [turn EXCEPT ![p] = turn[p]] /\ records' = [records EXCEPT ![p] = records[p]]
        /\ future[p] = "running" /\ at[p] = "asleep"
    BY <1>0, <1>4 DEF WakeUp, Goto, ThreadOK
  <2>2. "awake" \in Places /\ "running" \in Futures
    BY DEF Places, Futures
  <2>3. records[p] = [t \in 1 .. turn[p] |-> t]
    BY <1>0, <2>1 DEF ThreadOK, Recorded
  <2> QED
    BY <1>0, <2>1, <2>2, <2>3, OneThread
<1>5. CASE NextTurn(p) /\ turn[p] < Len(Turns(p))
  <2>1. /\ generated' = generated /\ consumed' = consumed /\ phase' = phase
        /\ future' = [future EXCEPT ![p] = "running"] /\ at' = [at EXCEPT ![p] = "build"]
        /\ turn' = [turn EXCEPT ![p] = turn[p] + 1] /\ records' = [records EXCEPT ![p] = records[p]]
        /\ future[p] = "running" /\ at[p] = "awake"
    BY <1>0, <1>5 DEF NextTurn, Goto, ThreadOK
  <2>2. "build" \in Places /\ "running" \in Futures
    BY DEF Places, Futures
  <2>3. turn[p] + 1 \in 1 .. Len(Turns(p)) /\ (turn[p] + 1) - 1 = turn[p]
    BY <1>0, <1>5
  <2>4. records[p] = [t \in 1 .. ((turn[p] + 1) - 1) |-> t]
    BY <1>0, <2>1, <2>3 DEF ThreadOK, Recorded
  <2> QED
    BY <1>0, <2>1, <2>2, <2>3, <2>4, OneThread
<1>6. CASE NextTurn(p) /\ ~(turn[p] < Len(Turns(p)))
  <2>1. /\ generated' = generated /\ consumed' = consumed /\ phase' = phase
        /\ future' = [future EXCEPT ![p] = "ok"] /\ at' = [at EXCEPT ![p] = "done"]
        /\ turn' = [turn EXCEPT ![p] = turn[p]] /\ records' = [records EXCEPT ![p] = records[p]]
        /\ at[p] = "awake"
    BY <1>0, <1>6 DEF NextTurn, Goto
  <2>2. "done" \in Places /\ "ok" \in Futures
    BY DEF Places, Futures
  <2>3. turn[p] = Len(Turns(p))
    BY <1>0, <1>6
  <2>4. records[p] = [t \in 1 .. turn[p] |-> t]
    BY <1>0, <2>1 DEF ThreadOK, Recorded
  <2> QED
    BY <1>0, <2>1, <2>2, <2>3, <2>4, OneThread
<1> QED
  BY <1>1, <1>2, <1>3, <1>4, <1>5, <1>6

LEMMA StepServer ==
  ASSUME FromGenerator, ThreadInv, NEW p \in 1 .. N,
         Schedule(p) \/ Attempt(p) \/ Answer(p) \/ Preempt(p) \/ Fail(p)
  PROVE  ThreadInv'
<1>0. /\ future = [future EXCEPT ![p] = future[p]] /\ at = [at EXCEPT ![p] = at[p]]
      /\ turn = [turn EXCEPT ![p] = turn[p]] /\ records = [records EXCEPT ![p] = records[p]]
      /\ future[p] \in Futures /\ at[p] \in Places /\ turn[p] \in 1 .. Len(Turns(p))
      /\ Len(Turns(p)) \in Nat /\ ThreadOK(p)
      /\ at[p] # "done" => future[p] # "ok"
  BY ThreadFacts
<1>1. /\ at[p] \in {"waiting", "scheduled"}
      /\ generated' = generated /\ consumed' = consumed /\ phase' = phase
      /\ turn' = [turn EXCEPT ![p] = turn[p]] /\ records' = [records EXCEPT ![p] = records[p]]
  BY <1>0 DEF Schedule, Attempt, Answer, Preempt, Fail, replay
<1>2. future[p] = "running" /\ records[p] = [t \in 1 .. (turn[p] - 1) |-> t]
  BY <1>0, <1>1 DEF ThreadOK, Recorded
<1>3. CASE Schedule(p) \/ Attempt(p) \/ Answer(p) \/ Preempt(p)
  <2>1. PICK a \in {"waiting", "scheduled", "answered"} : at' = [at EXCEPT ![p] = a]
    <3>1. CASE Attempt(p)
      BY <1>0, <3>1 DEF Attempt, replay
    <3>2. CASE Schedule(p) \/ Answer(p) \/ Preempt(p)
      BY <3>2 DEF Schedule, Answer, Preempt, Goto
    <3> QED
      BY <1>3, <3>1, <3>2
  <2>2. future' = [future EXCEPT ![p] = "running"]
    BY <1>0, <1>2, <1>3 DEF Schedule, Attempt, Answer, Preempt, replay
  <2>3. a \in Places /\ "running" \in Futures
    BY DEF Places, Futures
  <2>4. records[p] = [t \in 1 .. (IF a \in {"asleep", "awake"} \/ "running" = "ok" THEN turn[p] ELSE turn[p] - 1) |-> t]
    BY <1>2
  <2> QED
    BY <1>0, <1>1, <1>2, <2>1, <2>2, <2>3, <2>4, OneThread
<1>4. CASE Fail(p)
  <2>1. future' = [future EXCEPT ![p] = "failed"] /\ at' = [at EXCEPT ![p] = "done"]
    BY <1>4 DEF Fail, Goto
  <2>2. "done" \in Places /\ "failed" \in Futures
    BY DEF Places, Futures
  <2> QED
    BY <1>0, <1>1, <1>2, <2>1, <2>2, OneThread
<1> QED
  BY <1>3, <1>4

LEMMA StepMain ==
  ASSUME FromGenerator, ThreadInv, MainStep
  PROVE  ThreadInv'
<1>1. Sessions' = Sessions /\ N' = N /\ \A q : Turns(q)' = Turns(q)
  BY SameSessions DEF MainStep, Consume, Raise, Leave, Simulate, Write, SimTurn, SimPreempt
<1>2. N \in Nat /\ MainOK
  BY SessionsFacts DEF ThreadInv
<1>3. CASE Raise
  <2>1. /\ generated' = generated /\ turn' = turn /\ at' = at /\ records' = records
        /\ consumed' = consumed /\ phase' = "raising"
        /\ future' = [p \in 1 .. N |-> IF future[p] = "pending" THEN "cancelled" ELSE future[p]]
    BY <1>3 DEF Raise
  <2>2. ASSUME NEW q \in 1 .. N PROVE ThreadOK(q)' /\ (future[q] = "ok" => future'[q] = "ok")
    <3>1. ThreadOK(q)
      BY DEF ThreadInv
    <3>2. future'[q] = IF future[q] = "pending" THEN "cancelled" ELSE future[q]
      BY <2>1
    <3> QED
      BY <1>1, <2>1, <3>1, <3>2 DEF ThreadOK, Recorded, Now
  <2>3. future' \in [1 .. N -> {"pending", "running", "ok", "failed", "cancelled"}]
    BY <2>1 DEF ThreadInv
  <2>4. MainOK'
    BY <1>1, <1>2, <2>1, <2>2 DEF MainOK
  <2> QED
    BY <1>1, <2>1, <2>2, <2>3, <2>4 DEF ThreadInv
<1>4. CASE Consume
  <2>1. MainOK'
    <3>1. consumed < N /\ future[consumed + 1] = "ok" /\ consumed' = consumed + 1
          /\ future' = future /\ phase' = phase /\ phase = "replay"
      BY <1>4 DEF Consume, replay
    <3>2. consumed' \in 0 .. N /\ \A p \in 1 .. consumed' : p \in 1 .. consumed \/ p = consumed + 1
      BY <1>2, <3>1 DEF MainOK
    <3> QED
      BY <1>1, <1>2, <3>1, <3>2 DEF MainOK
  <2> QED
    BY <1>4, <2>1, NoThread DEF Consume
<1>5. CASE Leave \/ Simulate \/ Write \/ \E r \in live : SimTurn(r) \/ SimPreempt(r)
  <2>1. UNCHANGED <<generated, replay>> /\ consumed' = consumed
    BY <1>5 DEF Leave, Simulate, Write, SimTurn, SimPreempt
  <2>2. /\ phase' \in {"replay", "raising", "simulate", "written", "failed"}
        /\ phase' \in {"simulate", "written"} => consumed = N
    BY <1>2, <1>5 DEF Leave, Simulate, Write, SimTurn, SimPreempt, MainOK
  <2>3. MainOK'
    BY <1>1, <1>2, <2>1, <2>2 DEF MainOK, replay
  <2> QED
    BY <2>1, <2>3, NoThread
<1> QED
  BY <1>3, <1>4, <1>5 DEF MainStep

LEMMA NextThreads == FromGenerator /\ ThreadInv /\ [Next]_vars => ThreadInv'
<1> SUFFICES ASSUME FromGenerator, ThreadInv, [Next]_vars PROVE ThreadInv'
  OBVIOUS
<1>1. CASE ThreadStep
  BY <1>1, StepThreads DEF ThreadStep
<1>2. CASE ServerStep
  BY <1>2, StepServer DEF ServerStep
<1>3. CASE MainStep
  BY <1>3, StepMain
<1>4. CASE UNCHANGED vars
  <2>1. UNCHANGED <<generated, replay>> /\ UNCHANGED <<consumed, phase>>
    BY <1>4 DEF vars
  <2>2. MainOK'
    BY <2>1, SameSessions DEF ThreadInv, MainOK, replay
  <2> QED
    BY <2>1, <2>2, NoThread
<1> QED
  BY <1>1, <1>2, <1>3, <1>4 DEF Next, Ended

LEMMA ThreadsInductive == ASSUME FromGenerator PROVE Spec => []ThreadInv
<1>1. Init => ThreadInv
  BY InitThreads
<1>2. ThreadInv /\ [Next]_vars => ThreadInv'
  BY NextThreads
<1> QED
  BY <1>1, <1>2, PTL DEF Spec

\* Whatever the order in which threads and server take their steps, and whoever
\* fails or is preempted, the script goes on to the simulation and the report
\* only when every turn of every kept session is recorded once, in order
\* (pool.map over run_session in validate_vs_vllm.py).
THEOREM EveryTurnRecorded == ASSUME FromGenerator PROVE Spec => []RecordsComplete
<1>1. ThreadInv => RecordsComplete
  <2> SUFFICES ASSUME ThreadInv, phase \in {"simulate", "written"}, NEW p \in 1 .. N
               PROVE  future[p] = "ok" /\ records[p] = AllTurns(p)
    BY DEF RecordsComplete
  <2>1. future[p] = "ok"
    BY DEF ThreadInv, MainOK
  <2>2. records[p] = [t \in 1 .. Len(Turns(p)) |-> t]
    BY <2>1 DEF ThreadInv, ThreadOK, Recorded
  <2> QED
    BY <2>1, <2>2 DEF AllTurns
<1> QED
  BY <1>1, ThreadsInductive, PTL

\* A thread sleeps after the last turn it has only in a session that the cut
\* shortened (generate_sessions gives the last turn no pause, truncate_sessions
\* leaves the pause of the turn it cuts after).
THEOREM LingersOnlyCut == ASSUME FromGenerator PROVE Spec => []OnlyCutSessionsLinger
<1>1. ThreadInv => OnlyCutSessionsLinger
  <2> SUFFICES ASSUME ThreadInv, NEW p \in 1 .. N, at[p] = "asleep", turn[p] = Len(Turns(p))
               PROVE  \E i \in DOMAIN generated :
                        generated[i].id = Sessions[p].id /\ Len(generated[i].turns) > Len(Turns(p))
    BY DEF OnlyCutSessionsLinger
  <2>1. PICK i \in 1 .. Len(generated) :
          /\ Sessions[p].id = i - 1
          /\ IsCut(Sessions[p], generated[i]) /\ IsGenerated(generated[i], i - 1)
    BY SessionsFacts DEF ThreadInv
  <2>2. /\ generated[i].id = i - 1 /\ Len(generated[i].turns) \in Nat \ {0}
        /\ generated[i].turns[Len(generated[i].turns)].pause = 0
    BY <2>1, GeneratedSession
  <2>3. Turns(p)[Len(Turns(p))].pause > 0
    BY DEF ThreadInv, ThreadOK, Now
  <2>4. /\ Len(Turns(p)) \in Nat \ {0} /\ Len(Turns(p)) \in 0 .. Len(generated[i].turns)
        /\ \A t \in 1 .. Len(Turns(p)) : Turns(p)[t] = generated[i].turns[t]
    BY <2>1, SessionsFacts DEF IsCut, Turns, ThreadInv
  <2>5. Turns(p)[Len(Turns(p))] = generated[i].turns[Len(Turns(p))]
    BY <2>4
  <2>6. Len(generated[i].turns) # Len(Turns(p))
    BY <2>2, <2>3, <2>5
  <2>7. i \in DOMAIN generated
    <3>1. PICK S : generated \in Seq(S)
      BY DEF FromGenerator, ThreadInv
    <3> QED
      BY <3>1
  <2> QED
    BY <2>1, <2>2, <2>4, <2>6, <2>7
<1> QED
  BY <1>1, ThreadsInductive, PTL

(***************************************************************************)
(* What the server finds                                                   *)
(***************************************************************************)

\* Blocks of more tokens are more blocks.
LEMMA DivMonotone ==
  ASSUME NEW a \in Nat, NEW b \in Nat, NEW d \in Nat \ {0}, a <= b
  PROVE  a \div d <= b \div d /\ a \div d \in Nat
<1> DEFINE x == a \div d
           y == b \div d
<1>1. x \in Nat /\ x * d <= a
  OBVIOUS
<1>2. y \in Nat /\ b < y * d + d
  OBVIOUS
<1>3. \A i, j \in Nat : i >= j + 1 => i * d >= j * d + d
  <2> SUFFICES ASSUME NEW i \in Nat, NEW j \in Nat, i >= j + 1
               PROVE  i * d >= j * d + d
    OBVIOUS
  <2>1. i - (j + 1) \in Nat
    OBVIOUS
  <2>2. \A k \in Nat : k * d \in Nat
    OBVIOUS
  <2>3. (i - (j + 1)) * d \in Nat
    BY <2>1, <2>2
  <2>4. i * d = (i - (j + 1)) * d + (j * d + d)
    OBVIOUS
  <2>5. j * d \in Nat
    BY <2>2
  <2> QED
    BY <2>3, <2>4, <2>5
<1> HIDE DEF x, y
<1>4. \A i, j \in Nat : i * d \in Nat
  OBVIOUS
<1>5. ~(x >= y + 1)
  BY <1>1, <1>2, <1>3, <1>4
<1> QED
  BY <1>1, <1>2, <1>5 DEF x, y

\* A prompt that begins with the system prompt has its blocks.
LEMMA DivShared ==
  ASSUME NEW n \in Nat, n >= SharedBlocks * BlockSize
  PROVE  SharedBlocks <= n \div BlockSize
<1>1. SharedBlocks \in Nat /\ BlockSize \in Nat \ {0}
  BY ReplayAssumption
<1>2. \A s \in Nat, d \in Nat \ {0} : (s * d) \div d = s /\ s * d \in Nat
  OBVIOUS
<1>3. (SharedBlocks * BlockSize) \div BlockSize = SharedBlocks /\ SharedBlocks * BlockSize \in Nat
  BY <1>1, <1>2
<1> QED
  BY <1>1, <1>3, DivMonotone

\* Full blocks of the prompt that a turn continues; of the first, the system's.
Most(p, t) == IF t = 1 THEN SharedBlocks ELSE Turns(p)[t - 1].prompt \div BlockSize

\* The last turn of a session that was answered.
Answered(p) == IF at[p] = "answered" \/ Recorded(p) THEN turn[p] ELSE turn[p] - 1

\* The prompt it was sent with.
Prior(p) == IF Answered(p) = 0 THEN 0 ELSE Turns(p)[Answered(p)].prompt

\* As long as nobody was tried twice, what the server has of a session is the
\* prompt of its last answer, and what it found is within the prompt before.
HitsOK(p) ==
  /\ at[p] = "build" => Len(hits[p]) = turn[p] - 1
  /\ at[p] \in {"scheduled", "answered", "asleep", "awake"} \/ future[p] = "ok" => Len(hits[p]) = turn[p]
  /\ Len(hits[p]) \in {turn[p] - 1, turn[p]}
  /\ requeries = Requeries => /\ \A t \in 1 .. Len(hits[p]) : hits[p][t] <= Most(p, t)
                              /\ computed[p] = Prior(p)

ServerInv ==
  /\ hits \in [1 .. N -> Seq(Nat)] /\ computed \in [1 .. N -> 0 .. Limit]
  /\ queries \in Nat /\ hitBlocks \in Nat /\ faults \in 0 .. Faults /\ requeries \in 0 .. Requeries
  /\ preempted \in 0 .. Requeries - requeries
  /\ \A p \in 1 .. N : HitsOK(p)

LEMMA InitServer == FromGenerator /\ Init => ServerInv
<1> SUFFICES ASSUME FromGenerator, Init PROVE ServerInv
  OBVIOUS
<1>1. generated \in Generated
  BY DEF Init
<1>2. N \in Nat /\ {Limit, Faults, Requeries} \subseteq Nat
  BY <1>1, SessionsFacts, ReplayAssumption
<1>3. <<>> \in Seq(Nat) /\ Len(<<>>) = 0
  OBVIOUS
<1>4. \A p \in 1 .. N : /\ future[p] = "pending" /\ turn[p] = 1 /\ at[p] = "build" /\ hits[p] = <<>>
                        /\ computed[p] = 0
  BY DEF Init
<1>5. \A p \in 1 .. N : HitsOK(p)
  BY <1>3, <1>4 DEF HitsOK, Prior, Answered, Recorded
<1>6. hits \in [1 .. N -> Seq(Nat)] /\ computed \in [1 .. N -> 0 .. Limit]
  BY <1>2, <1>3 DEF Init
<1> QED
  BY <1>2, <1>5, <1>6 DEF Init, ServerInv

\* A step for one session.
LEMMA OneServed ==
  ASSUME FromGenerator, ThreadInv, ServerInv, generated' = generated,
         NEW p \in 1 .. N, NEW h \in Seq(Nat), NEW c \in 0 .. Limit,
         \A q \in 1 .. N : q # p => /\ future'[q] = future[q] /\ at'[q] = at[q] /\ turn'[q] = turn[q],
         hits' = [hits EXCEPT ![p] = h], computed' = [computed EXCEPT ![p] = c],
         queries' \in Nat, hitBlocks' \in Nat, faults' \in 0 .. Faults, requeries' \in 0 .. Requeries,
         preempted' \in 0 .. Requeries - requeries', requeries' = Requeries => requeries = Requeries,
         at'[p] = "build" => Len(h) = turn'[p] - 1,
         at'[p] \in {"scheduled", "answered", "asleep", "awake"} \/ future'[p] = "ok" => Len(h) = turn'[p],
         Len(h) \in {turn'[p] - 1, turn'[p]},
         requeries' = Requeries => (\A t \in 1 .. Len(h) : h[t] <= Most(p, t)) /\ c = Prior(p)'
  PROVE  ServerInv'
<1>1. Sessions' = Sessions /\ N' = N /\ (\A q : Turns(q)' = Turns(q)) /\ \A q, t : Most(q, t)' = Most(q, t)
  BY SameSessions DEF Most
<1>2. hits' \in [1 .. N -> Seq(Nat)]
  BY DEF ServerInv
<1>3. computed' \in [1 .. N -> 0 .. Limit]
  BY DEF ServerInv
<1>4. ASSUME NEW q \in 1 .. N PROVE HitsOK(q)'
  <2>1. CASE q = p
    <3>1. hits'[q] = h /\ computed'[q] = c
      BY <2>1 DEF ServerInv
    <3> QED
      BY <1>1, <2>1, <3>1 DEF HitsOK, Prior
  <2>2. CASE q # p
    <3>1. hits'[q] = hits[q] /\ computed'[q] = computed[q]
      BY <2>2 DEF ServerInv
    <3>2. HitsOK(q) /\ future'[q] = future[q] /\ at'[q] = at[q] /\ turn'[q] = turn[q]
      BY <2>2 DEF ServerInv
    <3>3. Answered(q)' = Answered(q)
      BY <3>2 DEF Answered, Recorded
    <3> QED
      BY <1>1, <3>1, <3>2, <3>3 DEF HitsOK, Prior
  <2> QED
    BY <2>1, <2>2
<1> QED
  BY <1>1, <1>2, <1>3, <1>4 DEF ServerInv

\* A step that does not touch what the server knows.
LEMMA NoServed ==
  ASSUME ServerInv, generated' = generated, UNCHANGED <<at, turn, server>>,
         \A q \in 1 .. N : future'[q] = "ok" <=> future[q] = "ok"
  PROVE  ServerInv'
<1>1. Sessions' = Sessions /\ N' = N /\ (\A q : Turns(q)' = Turns(q)) /\ \A q, t : Most(q, t)' = Most(q, t)
  BY SameSessions DEF Most
<1>2. \A q \in 1 .. N : HitsOK(q)'
  BY <1>1 DEF ServerInv, HitsOK, Prior, Answered, Recorded, server
<1> QED
  BY <1>1, <1>2 DEF ServerInv, server

LEMMA ServedFacts ==
  ASSUME FromGenerator, ThreadInv, ServerInv, NEW p \in 1 .. N
  PROVE  /\ ThreadOK(p) /\ HitsOK(p)
         /\ hits[p] \in Seq(Nat) /\ computed[p] \in 0 .. Limit /\ Len(hits[p]) \in Nat
         /\ hits = [hits EXCEPT ![p] = hits[p]] /\ computed = [computed EXCEPT ![p] = computed[p]]
         /\ turn[p] \in 1 .. Len(Turns(p)) /\ Len(Turns(p)) \in Nat /\ turn[p] \in Nat
<1>1. ThreadOK(p) /\ Len(Turns(p)) \in Nat
  BY SessionsFacts DEF ThreadInv
<1>2. hits[p] \in Seq(Nat) /\ computed[p] \in 0 .. Limit
  BY DEF ServerInv
<1>3. hits = [hits EXCEPT ![p] = hits[p]] /\ computed = [computed EXCEPT ![p] = computed[p]]
  BY DEF ServerInv
<1> QED
  BY <1>1, <1>2, <1>3 DEF ServerInv, ThreadOK

\* Some number of blocks that no request can find.
Plenty == Limit + SharedBlocks

\* What a request finds is a number of blocks, and within what the turn before
\* has left as long as nobody was tried twice.
LEMMA FoundWithin ==
  ASSUME FromGenerator, ThreadInv, ServerInv, NEW p \in 1 .. N
  PROVE  /\ Found(p) \in Nat /\ Found(p) \in 0 .. Plenty
         /\ at[p] = "waiting" /\ requeries = Requeries => Found(p) <= Most(p, turn[p])
<1> DEFINE own == computed[p] \div BlockSize
           S == {own} \cup {Least(SharedBlocks, computed[q] \div BlockSize) : q \in 1 .. N}
<1>1. SharedBlocks \in Nat /\ BlockSize \in Nat \ {0} /\ Limit \in Nat
  BY ReplayAssumption
<1>2. ASSUME NEW q \in 1 .. N PROVE computed[q] \in Nat /\ computed[q] \div BlockSize \in Nat
  <2>1. computed[q] \in Nat
    BY <1>1 DEF ServerInv
  <2> QED
    BY <1>1, <2>1, DivMonotone
<1>3. ASSUME NEW q \in 1 .. N
      PROVE  Least(SharedBlocks, computed[q] \div BlockSize) \in 0 .. SharedBlocks
  <2>1. computed[q] \div BlockSize \in Nat
    BY <1>2
  <2> QED
    BY <1>1, <2>1 DEF Least
<1>4. own \in Nat
  BY <1>2
<1>5. \E m \in S : \A i \in S : i <= m
  <2>1. own + SharedBlocks \in Nat /\ own \in 0 .. (own + SharedBlocks)
        /\ 0 .. SharedBlocks \subseteq 0 .. (own + SharedBlocks)
    BY <1>1, <1>4
  <2>2. S \in SUBSET (0 .. (own + SharedBlocks)) /\ S # {}
    BY <1>3, <2>1
  <2> HIDE DEF S, own
  <2> QED
    BY <2>1, <2>2, GreatestBelow
<1>6. \A i \in S : i \in Nat
  BY <1>1, <1>3, <1>4
<1>7. Found(p) \in S
  <2>1. Found(p) = CHOOSE m \in S : \A i \in S : m >= i
    BY DEF Found, Max
  <2> HIDE DEF S
  <2>2. PICK m \in S : \A i \in S : m >= i
    BY <1>5, <1>6
  <2> QED
    BY <2>1, <2>2
<1>9. Found(p) \in 0 .. Plenty
  <2>1. own <= Limit
    <3>1. computed[p] \in 0 .. Limit
      BY DEF ServerInv
    <3>2. \A a \in Nat, d \in Nat \ {0} : a \div d <= a
      OBVIOUS
    <3>3. own <= computed[p]
      BY <1>1, <1>2, <3>2
    <3> QED
      BY <1>1, <1>4, <3>1, <3>3
  <2>2. \A i \in 0 .. SharedBlocks : i \in 0 .. Plenty
    BY <1>1 DEF Plenty
  <2>3. own \in 0 .. Plenty
    BY <1>1, <1>4, <2>1 DEF Plenty
  <2>4. \A i \in S : i \in 0 .. Plenty
    BY <1>3, <2>2, <2>3
  <2> HIDE DEF S
  <2> QED
    BY <1>7, <2>4
<1>8. ASSUME at[p] = "waiting", requeries = Requeries PROVE Found(p) <= Most(p, turn[p])
  <2>1. /\ turn[p] \in 1 .. Len(Turns(p)) /\ Len(Turns(p)) \in Nat /\ future[p] = "running"
        /\ computed[p] = Prior(p)
    BY <1>8, ServedFacts DEF ThreadOK, HitsOK
  <2>2. Answered(p) = turn[p] - 1
    BY <1>8, <2>1 DEF Answered, Recorded
  <2>3. SharedBlocks <= Most(p, turn[p]) /\ own <= Most(p, turn[p]) /\ Most(p, turn[p]) \in Nat
    <3>1. CASE turn[p] = 1
      <4>1. computed[p] = 0 /\ Most(p, turn[p]) = SharedBlocks
        BY <2>1, <2>2, <3>1 DEF Most, Prior
      <4>2. own = 0
        <5>1. \A d \in Nat \ {0} : 0 \div d = 0
          OBVIOUS
        <5> QED
          BY <1>1, <4>1, <5>1
      <4> QED
        BY <1>1, <4>1, <4>2
    <3>2. CASE turn[p] # 1
      <4>1. turn[p] - 1 \in 1 .. Len(Turns(p)) /\ turn[p] - 1 # 0
        BY <2>1, <3>2
      <4>2. /\ computed[p] = Turns(p)[turn[p] - 1].prompt
            /\ Turns(p)[turn[p] - 1].prompt >= SharedBlocks * BlockSize
        BY <2>1, <2>2, <4>1, TurnsGrow DEF ThreadInv, Prior
      <4>3. Most(p, turn[p]) = own
        BY <3>2, <4>2 DEF Most
      <4>4. SharedBlocks <= own
        BY <1>2, <4>2, DivShared
      <4> QED
        BY <1>4, <4>3, <4>4
    <3> QED
      BY <3>1, <3>2
  <2> DEFINE most == Most(p, turn[p])
  <2>4. own <= most /\ SharedBlocks <= most /\ most \in Nat
    BY <2>3
  <2> HIDE DEF most, own
  <2>5. \A i \in 0 .. SharedBlocks : i <= most
    BY <1>1, <2>4
  <2>6. \A i \in S : i <= most
    BY <1>3, <2>4, <2>5
  <2> HIDE DEF S
  <2>7. Found(p) <= most
    BY <1>7, <2>6
  <2> QED
    BY <2>7 DEF most
<1> QED
  BY <1>6, <1>7, <1>8, <1>9

LEMMA StepServed ==
  ASSUME FromGenerator, ThreadInv, ServerInv, NEW p \in 1 .. N,
         Schedule(p) \/ Attempt(p) \/ Answer(p) \/ Preempt(p) \/ Fail(p)
  PROVE  ServerInv'
<1>0. /\ ThreadOK(p) /\ HitsOK(p)
      /\ hits[p] \in Seq(Nat) /\ computed[p] \in 0 .. Limit /\ Len(hits[p]) \in Nat
      /\ hits = [hits EXCEPT ![p] = hits[p]] /\ computed = [computed EXCEPT ![p] = computed[p]]
      /\ turn[p] \in 1 .. Len(Turns(p)) /\ Len(Turns(p)) \in Nat /\ turn[p] \in Nat
  BY ServedFacts
<1>1. /\ at[p] \in {"waiting", "scheduled"} /\ future[p] = "running"
      /\ generated' = generated /\ turn' = turn
      /\ \A q \in 1 .. N : q # p => /\ future'[q] = future[q] /\ at'[q] = at[q] /\ turn'[q] = turn[q]
  <2>1. at[p] \in {"waiting", "scheduled"} /\ generated' = generated /\ turn' = turn
    BY DEF Schedule, Attempt, Answer, Preempt, Fail, replay
  <2>2. future[p] = "running"
    BY <1>0, <2>1 DEF ThreadOK
  <2>3. \A q \in 1 .. N : q # p => at'[q] = at[q]
    BY DEF Schedule, Attempt, Answer, Preempt, Fail, Goto, ThreadInv, replay
  <2>4. \A q \in 1 .. N : q # p => future'[q] = future[q]
    BY DEF Schedule, Attempt, Answer, Preempt, Fail, ThreadInv, replay
  <2> QED
    BY <2>1, <2>2, <2>3, <2>4
<1>2. /\ queries \in Nat /\ hitBlocks \in Nat /\ faults \in 0 .. Faults /\ requeries \in 0 .. Requeries
      /\ preempted \in 0 .. Requeries - requeries /\ Requeries \in Nat /\ Limit \in Nat
  BY ReplayAssumption DEF ServerInv
<1>3. Answered(p) = turn[p] - 1
  BY <1>1 DEF Answered, Recorded
<1>4. /\ Turns(p)[turn[p]].prompt \in Nat /\ Turns(p)[turn[p]].prompt <= Limit
  BY <1>0, TurnsGrow DEF ThreadInv
<1>5. Found(p) \in Nat /\ (at[p] = "waiting" /\ requeries = Requeries => Found(p) <= Most(p, turn[p]))
  BY FoundWithin
<1>6. /\ Len(hits[p]) \in {turn[p] - 1, turn[p]}
      /\ requeries = Requeries => (\A t \in 1 .. Len(hits[p]) : hits[p][t] <= Most(p, t)) /\ computed[p] = Prior(p)
  BY <1>0 DEF HitsOK
<1>7. CASE Schedule(p)
  <2> DEFINE h == Append(SubSeq(hits[p], 1, turn[p] - 1), Found(p))
  <2>1. /\ hits' = [hits EXCEPT ![p] = h] /\ computed' = [computed EXCEPT ![p] = computed[p]]
        /\ queries' = queries + Turns(p)[turn[p]].prompt /\ hitBlocks' = hitBlocks + Found(p)
        /\ faults' = faults /\ requeries' = requeries /\ preempted' = preempted
        /\ at'[p] = "scheduled" /\ future'[p] = "running" /\ turn'[p] = turn[p] /\ at[p] = "waiting"
    BY <1>0, <1>1, <1>7 DEF Schedule, Query, Goto, Now, ThreadInv
  <2>4. /\ SubSeq(hits[p], 1, turn[p] - 1) \in Seq(Nat) /\ Len(SubSeq(hits[p], 1, turn[p] - 1)) = turn[p] - 1
        /\ \A t \in 1 .. turn[p] - 1 : SubSeq(hits[p], 1, turn[p] - 1)[t] = hits[p][t]
    <3>1. \A s \in Seq(Nat), k \in Nat :
            k <= Len(s) => /\ SubSeq(s, 1, k) \in Seq(Nat) /\ Len(SubSeq(s, 1, k)) = k
                           /\ \A t \in 1 .. k : SubSeq(s, 1, k)[t] = s[t]
      OBVIOUS
    <3>2. turn[p] - 1 \in Nat /\ turn[p] - 1 <= Len(hits[p])
      BY <1>0, <1>6
    <3> QED
      BY <1>0, <3>1, <3>2
  <2>5. /\ h \in Seq(Nat) /\ Len(h) = turn[p]
        /\ h[turn[p]] = Found(p) /\ \A t \in 1 .. turn[p] - 1 : h[t] = hits[p][t]
    BY <1>0, <1>5, <2>4
  <2> HIDE DEF h
  <2>6. requeries = Requeries => \A t \in 1 .. Len(h) : h[t] <= Most(p, t)
    <3>1. \A t \in 1 .. turn[p] : t = turn[p] \/ t \in 1 .. turn[p] - 1
      BY <1>0
    <3>2. \A t \in 1 .. turn[p] - 1 : t \in 1 .. Len(hits[p])
      BY <1>0, <1>6
    <3> QED
      BY <1>5, <1>6, <2>1, <2>5, <3>1, <3>2
  <2>7. Answered(p)' = turn[p] - 1
    BY <2>1 DEF Answered, Recorded
  <2>8. queries' \in Nat /\ hitBlocks' \in Nat
    BY <1>2, <1>4, <1>5, <2>1
  <2>9. requeries = Requeries => computed[p] = Prior(p)'
    BY <1>1, <1>3, <1>6, <2>7, SameSessions DEF Prior
  <2> QED
    BY <1>0, <1>1, <1>2, <2>1, <2>5, <2>6, <2>8, <2>9, OneServed
<1>8. CASE Attempt(p)
  <2>1. /\ hits' = [hits EXCEPT ![p] = hits[p]] /\ computed' = [computed EXCEPT ![p] = computed[p]]
        /\ queries' = queries + Turns(p)[turn[p]].prompt /\ hitBlocks' = hitBlocks + Found(p)
        /\ faults' = faults /\ requeries' = requeries - 1 /\ requeries > 0 /\ preempted' = preempted
        /\ at'[p] = "waiting" /\ future'[p] = "running" /\ turn'[p] = turn[p]
    BY <1>0, <1>1, <1>8 DEF Attempt, Query, Now, ThreadInv, replay
  <2>2. queries' \in Nat /\ hitBlocks' \in Nat
    BY <1>2, <1>4, <1>5, <2>1
  <2>3. requeries' # Requeries /\ requeries' \in 0 .. Requeries /\ preempted' \in 0 .. Requeries - requeries'
    BY <1>2, <2>1
  <2> QED
    BY <1>0, <1>1, <1>2, <1>6, <2>1, <2>2, <2>3, OneServed
<1>9. CASE Answer(p)
  <2> DEFINE c == Turns(p)[turn[p]].prompt
  <2>1. /\ hits' = [hits EXCEPT ![p] = hits[p]] /\ computed' = [computed EXCEPT ![p] = c]
        /\ queries' = queries /\ hitBlocks' = hitBlocks /\ preempted' = preempted
        /\ faults' = faults /\ requeries' = requeries
        /\ at'[p] = "answered" /\ future'[p] = "running" /\ turn'[p] = turn[p] /\ at[p] = "scheduled"
    BY <1>0, <1>1, <1>9 DEF Answer, Goto, Now, ThreadInv
  <2>2. Answered(p)' = turn[p] /\ turn[p] # 0
    BY <1>0, <2>1 DEF Answered, Recorded
  <2>3. c \in 0 .. Limit /\ c = Prior(p)'
    BY <1>1, <1>2, <1>4, <2>2, SameSessions DEF Prior
  <2>4. Len(hits[p]) = turn[p]
    BY <1>0, <2>1 DEF HitsOK
  <2> HIDE DEF c
  <2> QED
    BY <1>0, <1>1, <1>2, <1>6, <2>1, <2>3, <2>4, OneServed
<1>10. CASE Preempt(p)
  <2>1. PICK c \in computed[p] .. Now(p).prompt : computed' = [computed EXCEPT ![p] = c]
    BY <1>10 DEF Preempt
  <2>2. /\ hits' = [hits EXCEPT ![p] = hits[p]] /\ queries' = queries /\ hitBlocks' = hitBlocks
        /\ faults' = faults /\ requeries' = requeries - 1 /\ requeries > 0 /\ preempted' = preempted + 1
        /\ at'[p] = "waiting" /\ future'[p] = "running" /\ turn'[p] = turn[p]
    BY <1>0, <1>1, <1>10 DEF Preempt, Goto, ThreadInv
  <2>3. c \in 0 .. Limit
    <3>1. computed[p] \in 0 .. Limit
      BY DEF ServerInv
    <3>2. c \in Int /\ computed[p] <= c /\ c <= Turns(p)[turn[p]].prompt
      BY <1>4, <2>1, <3>1 DEF Now
    <3> QED
      BY <1>2, <1>4, <3>1, <3>2
  <2>4. requeries' # Requeries /\ requeries' \in 0 .. Requeries /\ preempted' \in 0 .. Requeries - requeries'
    BY <1>2, <2>2
  <2> QED
    BY <1>0, <1>1, <1>2, <1>6, <2>1, <2>2, <2>3, <2>4, OneServed
<1>11. CASE Fail(p)
  <2>1. /\ hits' = [hits EXCEPT ![p] = hits[p]] /\ computed' = [computed EXCEPT ![p] = computed[p]]
        /\ queries' = queries /\ hitBlocks' = hitBlocks /\ preempted' = preempted
        /\ at'[p] = "done" /\ future'[p] = "failed" /\ turn'[p] = turn[p] /\ requeries' = requeries
    BY <1>0, <1>1, <1>11 DEF Fail, Goto, ThreadInv
  <2>2. faults' \in 0 .. Faults
    BY <1>2, <1>11, ReplayAssumption DEF Fail
  <2>3. Answered(p)' = turn[p] - 1
    BY <2>1 DEF Answered, Recorded
  <2>4. requeries = Requeries => computed[p] = Prior(p)'
    BY <1>1, <1>3, <1>6, <2>3, SameSessions DEF Prior
  <2> QED
    BY <1>0, <1>1, <1>2, <1>6, <2>1, <2>2, <2>4, OneServed
<1> QED
  BY <1>7, <1>8, <1>9, <1>10, <1>11

LEMMA StepThreadServed ==
  ASSUME FromGenerator, ThreadInv, ServerInv, NEW p \in 1 .. N,
         Take(p) \/ Post(p) \/ Record(p) \/ WakeUp(p) \/ NextTurn(p)
  PROVE  ServerInv'
<1>0. /\ ThreadOK(p) /\ HitsOK(p)
      /\ hits[p] \in Seq(Nat) /\ computed[p] \in 0 .. Limit /\ Len(hits[p]) \in Nat
      /\ hits = [hits EXCEPT ![p] = hits[p]] /\ computed = [computed EXCEPT ![p] = computed[p]]
      /\ turn[p] \in 1 .. Len(Turns(p)) /\ Len(Turns(p)) \in Nat /\ turn[p] \in Nat
  BY ServedFacts
<1>1. /\ generated' = generated
      /\ \A q \in 1 .. N : q # p => /\ future'[q] = future[q] /\ at'[q] = at[q] /\ turn'[q] = turn[q]
      /\ hits' = [hits EXCEPT ![p] = hits[p]] /\ computed' = [computed EXCEPT ![p] = computed[p]]
      /\ queries' \in Nat /\ hitBlocks' \in Nat /\ faults' \in 0 .. Faults /\ requeries' \in 0 .. Requeries
      /\ preempted' \in 0 .. Requeries - requeries' /\ requeries' = requeries
  <2>1. generated' = generated /\ server' = server
    BY DEF Take, Post, Record, WakeUp, NextTurn
  <2>2. \A q \in 1 .. N : q # p => /\ future'[q] = future[q] /\ at'[q] = at[q] /\ turn'[q] = turn[q]
    BY DEF Take, Post, Record, WakeUp, NextTurn, Goto, ThreadInv
  <2> QED
    BY <1>0, <2>1, <2>2 DEF server, ServerInv
<1>2. requeries = Requeries => \A t \in 1 .. Len(hits[p]) : hits[p][t] <= Most(p, t)
  BY <1>0 DEF HitsOK
<1>3. CASE Take(p) \/ Post(p)
  <2>1. /\ at[p] = "build" /\ at'[p] \in {"build", "waiting"} /\ turn'[p] = turn[p]
        /\ future'[p] = "running" /\ future[p] # "ok"
    BY <1>0, <1>3 DEF Take, Post, Goto, ThreadInv, ThreadOK
  <2>2. Answered(p)' = Answered(p)
    BY <2>1 DEF Answered, Recorded
  <2>3. Len(hits[p]) = turn[p] - 1
    BY <1>0, <2>1 DEF HitsOK
  <2>4. requeries = Requeries => computed[p] = Prior(p)'
    BY <1>0, <1>1, <2>2, SameSessions DEF HitsOK, Prior
  <2> QED
    BY <1>0, <1>1, <1>2, <2>1, <2>3, <2>4, OneServed
<1>4. CASE Record(p) \/ WakeUp(p) \/ (NextTurn(p) /\ ~(turn[p] < Len(Turns(p))))
  <2>1. /\ at[p] \in {"answered", "asleep", "awake"} /\ turn'[p] = turn[p]
        /\ at'[p] \in {"asleep", "awake"} \/ (at'[p] = "done" /\ future'[p] = "ok")
    <3>1. CASE Record(p)
      BY <3>1 DEF Record, Goto, ThreadInv
    <3>2. CASE WakeUp(p)
      BY <3>2 DEF WakeUp, Goto, ThreadInv
    <3>3. CASE NextTurn(p) /\ ~(turn[p] < Len(Turns(p)))
      BY <3>3 DEF NextTurn, Goto, ThreadInv
    <3> QED
      BY <1>4, <3>1, <3>2, <3>3
  <2>2. Answered(p) = turn[p] /\ Answered(p)' = turn[p]
    BY <2>1 DEF Answered, Recorded
  <2>3. Len(hits[p]) = turn[p]
    BY <1>0, <2>1 DEF HitsOK
  <2>4. requeries = Requeries => computed[p] = Prior(p)'
    BY <1>0, <1>1, <2>2, SameSessions DEF HitsOK, Prior
  <2>5. at'[p] # "build"
    BY <2>1
  <2> QED
    BY <1>0, <1>1, <1>2, <2>1, <2>3, <2>4, <2>5, OneServed
<1>5. CASE NextTurn(p) /\ turn[p] < Len(Turns(p))
  <2>1. /\ at[p] = "awake" /\ at'[p] = "build" /\ turn'[p] = turn[p] + 1
        /\ future'[p] = future[p] /\ future[p] = "running"
    BY <1>0, <1>5 DEF NextTurn, Goto, ThreadInv, ThreadOK
  <2>2. Answered(p) = turn[p] /\ Answered(p)' = turn[p]
    BY <1>0, <2>1 DEF Answered, Recorded
  <2>3. Len(hits[p]) = turn[p] /\ turn[p] = turn'[p] - 1
    BY <1>0, <2>1 DEF HitsOK
  <2>4. requeries = Requeries => computed[p] = Prior(p)'
    BY <1>0, <1>1, <2>2, SameSessions DEF HitsOK, Prior
  <2> QED
    BY <1>0, <1>1, <1>2, <2>1, <2>3, <2>4, OneServed
<1> QED
  BY <1>3, <1>4, <1>5

LEMMA NextServer == FromGenerator /\ ThreadInv /\ ServerInv /\ [Next]_vars => ServerInv'
<1> SUFFICES ASSUME FromGenerator, ThreadInv, ServerInv, [Next]_vars PROVE ServerInv'
  OBVIOUS
<1>1. CASE ThreadStep
  BY <1>1, StepThreadServed DEF ThreadStep
<1>2. CASE ServerStep
  BY <1>2, StepServed DEF ServerStep
<1>3. CASE MainStep \/ UNCHANGED vars
  <2>1. generated' = generated /\ UNCHANGED <<at, turn, server>>
    BY <1>3 DEF MainStep, Consume, Raise, Leave, Simulate, Write, SimTurn, SimPreempt, vars, replay
  <2>2. \A q \in 1 .. N : future'[q] = "ok" <=> future[q] = "ok"
    BY <1>3 DEF MainStep, Consume, Raise, Leave, Simulate, Write, SimTurn, SimPreempt, vars, replay
  <2> QED
    BY <2>1, <2>2, NoServed
<1> QED
  BY <1>1, <1>2, <1>3 DEF Next, Ended

(***************************************************************************)
(* The simulator                                                           *)
(***************************************************************************)

\* A turn served, with the blocks that the turn before it leaves behind.
ServedOK(h) ==
  \E p \in 1 .. N : \E t \in 1 .. Len(Turns(p)) :
    /\ h[1] = Sessions[p].id /\ h[2] = t
    /\ simPreempted = 0 /\ t > 1 => h[3] = (Turns(p)[t - 1].prompt + Turns(p)[t - 1].output) \div BlockSize

IsRequest(r) == \E p \in 1 .. N : \E t \in 1 .. Len(Turns(p)) : r = Request(Sessions[p], t)

SimInv ==
  /\ queue \in Seq(1 .. N)
  /\ \A r \in live : IsRequest(r)
  /\ \A h \in simTurns : ServedOK(h)
  /\ simPreempted \in 0 .. SimPreempts

\* The session of a request is found by its id.
LEMMA OwnFound ==
  ASSUME FromGenerator, generated \in Generated,
         NEW p \in 1 .. N, NEW t \in 1 .. Len(Turns(p)), NEW r, r = Request(Sessions[p], t)
  PROVE  /\ OwnSession(r) = Sessions[p]
         /\ r.id = Sessions[p].id /\ r.turn = t /\ (r.last <=> t = Len(Turns(p)))
<1>1. r.id = Sessions[p].id /\ r.turn = t /\ (r.last <=> t = Len(Turns(p)))
  BY DEF Request, Turns
<1>2. \A s \in {Sessions[q] : q \in 1 .. N} : s.id = r.id => s = Sessions[p]
  BY <1>1, SessionsFacts
<1>3. Sessions[p] \in {Sessions[q] : q \in 1 .. N}
  OBVIOUS
<1>4. OwnSession(r) = Sessions[p]
  BY <1>1, <1>2, <1>3 DEF OwnSession
<1> QED
  BY <1>1, <1>4

\* The first request of each of the first sessions, and the rest queued.
LEMMA Started ==
  ASSUME FromGenerator, generated \in Generated, Simulate
  PROVE  /\ queue' \in Seq(1 .. N)
         /\ Len(queue') = IF Concurrency < N THEN N - Concurrency ELSE 0
         /\ \A i \in 1 .. Len(queue') : queue'[i] = Concurrency + i
         /\ live' = {Request(Sessions[p], 1) : p \in {q \in 1 .. N : q <= Concurrency}}
         /\ simTurns' = simTurns /\ generated' = generated /\ phase' = "simulate"
<1>1. N \in Nat /\ Concurrency \in Nat \ {0}
  BY SessionsFacts, ReplayAssumption
<1> DEFINE all == [p \in 1 .. N |-> p]
<1>2. queue' = SubSeq(all, Concurrency + 1, N)
  BY DEF Simulate
<1>3. all \in Seq(1 .. N) /\ Len(all) = N /\ \A i \in 1 .. N : all[i] = i
  BY <1>1
<1> HIDE DEF all
<1>4. CASE Concurrency < N
  <2>1. Concurrency + 1 \in 1 .. N /\ Concurrency + 1 \in Nat /\ N \in 0 .. Len(all)
    BY <1>1, <1>3, <1>4
  <2>2. \A a \in 1 .. N, b \in 1 .. N : a <= b =>
          /\ Len(SubSeq(all, a, b)) = b - a + 1
          /\ \A i \in 1 .. (b - a + 1) : SubSeq(all, a, b)[i] = all[a + i - 1]
    BY <1>1, <1>3
  <2>3. /\ Len(queue') = N - (Concurrency + 1) + 1
        /\ \A i \in 1 .. (N - (Concurrency + 1) + 1) : queue'[i] = all[(Concurrency + 1) + i - 1]
    <3>1. Concurrency + 1 \in 1 .. N /\ N \in 1 .. N /\ Concurrency + 1 <= N
      BY <1>1, <1>4
    <3> DEFINE c == Concurrency + 1
    <3>2. c \in 1 .. N /\ N \in 1 .. N /\ c <= N /\ queue' = SubSeq(all, c, N)
      BY <1>2, <3>1
    <3> HIDE DEF c
    <3>3. Len(queue') = N - c + 1 /\ \A i \in 1 .. (N - c + 1) : queue'[i] = all[c + i - 1]
      BY <2>2, <3>2
    <3> QED
      BY <3>3 DEF c
  <2>4. N - (Concurrency + 1) + 1 = N - Concurrency
    BY <1>1
  <2>5. \A i \in 1 .. (N - Concurrency) : (Concurrency + 1) + i - 1 = Concurrency + i /\ Concurrency + i \in 1 .. N
    BY <1>1
  <2>6. \A i \in 1 .. (N - Concurrency) : queue'[i] = Concurrency + i
    BY <1>3, <2>3, <2>4, <2>5
  <2>7. queue' \in Seq(1 .. N)
    <3>1. \A a \in 1 .. N, b \in 1 .. N : SubSeq(all, a, b) \in Seq(1 .. N)
      BY <1>1, <1>3
    <3>2. N \in 1 .. N
      BY <1>1, <1>4
    <3> QED
      BY <1>2, <2>1, <3>1, <3>2
  <2> QED
    BY <1>4, <2>3, <2>4, <2>6, <2>7 DEF Simulate, replay, server
<1>5. CASE ~(Concurrency < N)
  <2>1. Concurrency + 1 > N
    BY <1>1, <1>5
  <2>2. \A a, b \in Nat : a > b => SubSeq(all, a, b) = <<>>
    BY <1>3
  <2>3. Concurrency + 1 \in Nat
    BY <1>1
  <2>4. queue' = <<>>
    BY <1>1, <1>2, <2>1, <2>2, <2>3
  <2>5. <<>> \in Seq(1 .. N) /\ Len(<<>>) = 0 /\ 1 .. 0 = {}
    OBVIOUS
  <2>6. queue' \in Seq(1 .. N) /\ Len(queue') = 0 /\ \A i \in 1 .. Len(queue') : queue'[i] = Concurrency + i
    BY <2>4, <2>5
  <2> QED
    BY <1>5, <2>6 DEF Simulate, replay, server
<1> QED
  BY <1>4, <1>5

LEMMA InitSim == Init => SimInv
<1>1. <<>> \in Seq(1 .. N)
  OBVIOUS
<1> QED
  BY <1>1, ReplayAssumption DEF Init, SimInv

\* A turn of the simulator: what it serves, and the request that follows.
LEMMA SimTurnFacts ==
  ASSUME FromGenerator, generated \in Generated, SimInv, NEW r \in live, SimTurn(r)
  PROVE  \E p \in 1 .. N : \E t \in 1 .. Len(Turns(p)), b \in Int :
           /\ r = Request(Sessions[p], t)
           /\ r.id = Sessions[p].id /\ r.turn = t /\ (r.last <=> t = Len(Turns(p)))
           /\ simPreempted = 0 => b = SimFound(Sessions[p], t)
           /\ simTurns' = simTurns \cup {<<r.id, r.turn, b>>}
           /\ generated' = generated
<1>1. PICK p \in 1 .. N : \E t \in 1 .. Len(Turns(p)) : r = Request(Sessions[p], t)
  BY DEF SimInv, IsRequest
<1>2. PICK t \in 1 .. Len(Turns(p)) : r = Request(Sessions[p], t)
  BY <1>1
<1>3. /\ OwnSession(r) = Sessions[p]
      /\ r.id = Sessions[p].id /\ r.turn = t /\ (r.last <=> t = Len(Turns(p)))
  BY <1>2, OwnFound
<1>4. PICK b \in 0 .. SimFound(Sessions[p], t) :
        /\ simPreempted = 0 => b = SimFound(Sessions[p], t)
        /\ simTurns' = simTurns \cup {<<r.id, r.turn, b>>}
  BY <1>3 DEF SimTurn
<1>5. generated' = generated
  BY DEF SimTurn
<1> QED
  BY <1>2, <1>3, <1>4, <1>5

\* What is asked next, if anything is.
LEMMA SimFollows ==
  ASSUME NEW r, SimTurn(r)
  PROVE  \/ /\ r.id + 1 <= N /\ r.last /\ queue = <<>>
            /\ live' = live \ {r} /\ queue' = queue /\ phase' = phase
         \/ /\ r.id + 1 <= N /\ r.last /\ queue # <<>>
            /\ live' = (live \ {r}) \cup {Request(Sessions[Head(queue)], 1)}
            /\ queue' = Tail(queue) /\ phase' = phase
         \/ /\ r.id + 1 <= N /\ ~r.last /\ r.turn < Len(Turns(r.id + 1))
            /\ live' = (live \ {r}) \cup {Request(Sessions[r.id + 1], r.turn + 1)}
            /\ queue' = queue /\ phase' = phase
         \/ live' = live \ {r} /\ queue' = queue /\ phase' = "failed"
  BY DEF SimTurn, Position

LEMMA NextSim == FromGenerator /\ generated \in Generated /\ SimInv /\ [Next]_vars => SimInv'
<1> SUFFICES ASSUME FromGenerator, generated \in Generated, SimInv, [Next]_vars PROVE SimInv'
  OBVIOUS
<1>1. Sessions' = Sessions /\ N' = N /\ \A q : Turns(q)' = Turns(q)
  BY NextGenerated, SameSessions
<1>2. /\ simPreempted' = simPreempted => \A h : ServedOK(h)' <=> ServedOK(h)
      /\ \A r : IsRequest(r)' <=> IsRequest(r)
  BY <1>1 DEF ServedOK, IsRequest
<1>3. N \in Nat /\ \A p \in 1 .. N : Len(Turns(p)) \in Nat \ {0}
  BY SessionsFacts
<1>4. CASE Simulate
  <2>1. /\ queue' \in Seq(1 .. N) /\ simTurns' = simTurns
        /\ live' = {Request(Sessions[p], 1) : p \in {q \in 1 .. N : q <= Concurrency}}
    BY <1>4, Started
  <2>2. \A p \in 1 .. N : 1 \in 1 .. Len(Turns(p))
    BY <1>3
  <2>3. \A r \in live' : IsRequest(r)
    BY <2>1, <2>2 DEF IsRequest
  <2>4. simPreempted' = simPreempted
    BY <1>4 DEF Simulate
  <2> QED
    BY <1>1, <1>2, <2>1, <2>3, <2>4 DEF SimInv
<1>5. ASSUME NEW r \in live, SimTurn(r) PROVE SimInv'
  <2>1. PICK p \in 1 .. N : \E t \in 1 .. Len(Turns(p)), b \in Int :
          /\ r = Request(Sessions[p], t)
          /\ r.id = Sessions[p].id /\ r.turn = t /\ (r.last <=> t = Len(Turns(p)))
          /\ simPreempted = 0 => b = SimFound(Sessions[p], t)
          /\ simTurns' = simTurns \cup {<<r.id, r.turn, b>>}
    BY <1>5, SimTurnFacts
  <2>2. PICK t \in 1 .. Len(Turns(p)), b \in Int :
          /\ r = Request(Sessions[p], t)
          /\ r.id = Sessions[p].id /\ r.turn = t /\ (r.last <=> t = Len(Turns(p)))
          /\ simPreempted = 0 => b = SimFound(Sessions[p], t)
          /\ simTurns' = simTurns \cup {<<r.id, r.turn, b>>}
    BY <2>1
  <2>3. ServedOK(<<r.id, r.turn, b>>)
    <3>1. simPreempted = 0 /\ t > 1 =>
            b = (Turns(p)[t - 1].prompt + Turns(p)[t - 1].output) \div BlockSize
      BY <2>2 DEF SimFound, Turns
    <3> DEFINE h == <<r.id, r.turn, b>>
    <3>2. h[1] = Sessions[p].id /\ h[2] = t /\ h[3] = b
      BY <2>2
    <3> HIDE DEF h
    <3>3. ServedOK(h)
      BY <3>1, <3>2 DEF ServedOK
    <3> QED
      BY <3>3 DEF h
  <2>4. \A h \in simTurns' : ServedOK(h)
    BY <2>2, <2>3 DEF SimInv
  <2>5. queue' \in Seq(1 .. N) /\ (queue # <<>> => Head(queue) \in 1 .. N)
    <3>1. queue' = queue \/ (queue # <<>> /\ queue' = Tail(queue))
      BY <1>5, SimFollows
    <3>2. queue \in Seq(1 .. N)
      BY DEF SimInv
    <3>3. queue # <<>> => Head(queue) \in 1 .. N /\ Tail(queue) \in Seq(1 .. N)
      <4>1. \A C : \A s \in Seq(C) : s # <<>> => Head(s) \in C /\ Tail(s) \in Seq(C)
        OBVIOUS
      <4> QED
        BY <3>2, <4>1
    <3> QED
      BY <3>1, <3>2, <3>3
  <2>6. \A x \in live' : x \in live \/ IsRequest(x)
    <3>1. \A x \in live' :
            \/ x \in live
            \/ queue # <<>> /\ x = Request(Sessions[Head(queue)], 1)
            \/ /\ r.id + 1 <= N /\ r.turn < Len(Turns(r.id + 1))
               /\ x = Request(Sessions[r.id + 1], r.turn + 1)
      BY <1>5, SimFollows
    <3>2. queue # <<>> => IsRequest(Request(Sessions[Head(queue)], 1))
      <4>1. queue # <<>> => Head(queue) \in 1 .. N /\ 1 \in 1 .. Len(Turns(Head(queue)))
        BY <1>3, <2>5
      <4> QED
        BY <4>1 DEF IsRequest
    <3>3. r.id \in Nat /\ r.turn \in Nat
      <4>1. PICK i \in 1 .. Len(generated) : Sessions[p].id = i - 1
        BY SessionsFacts
      <4>2. Len(generated) \in Nat
        <5>1. PICK S : generated \in Seq(S)
          BY DEF FromGenerator
        <5> QED
          BY <5>1
      <4>3. r.id = i - 1 /\ r.turn = t /\ Len(Turns(p)) \in Nat
        BY <1>3, <2>2, <4>1
      <4>4. i - 1 \in Nat /\ t \in Nat
        BY <4>2, <4>3
      <4> QED
        BY <4>3, <4>4
    <3>4. r.id + 1 <= N /\ r.turn < Len(Turns(r.id + 1))
          => r.id + 1 \in 1 .. N /\ r.turn + 1 \in 1 .. Len(Turns(r.id + 1))
      BY <1>3, <3>3
    <3>5. r.id + 1 <= N /\ r.turn < Len(Turns(r.id + 1))
          => IsRequest(Request(Sessions[r.id + 1], r.turn + 1))
      BY <3>4 DEF IsRequest
    <3> QED
      BY <3>1, <3>2, <3>5
  <2>7. simPreempted' = simPreempted
    BY <1>5 DEF SimTurn
  <2> QED
    BY <1>1, <1>2, <2>4, <2>5, <2>6, <2>7 DEF SimInv
<1>6. ASSUME NEW r \in live, SimPreempt(r) PROVE SimInv'
  <2>1. /\ simPreempted' = simPreempted + 1 /\ simPreempted < SimPreempts
        /\ UNCHANGED <<queue, live, simTurns>>
    BY <1>6 DEF SimPreempt
  <2>3. simPreempted' \in 0 .. SimPreempts /\ simPreempted' # 0
    BY <2>1, ReplayAssumption DEF SimInv
  <2>4. \A h \in simTurns' : ServedOK(h)'
    BY <1>1, <2>1, <2>3 DEF SimInv, ServedOK
  <2> QED
    BY <1>1, <1>2, <2>1, <2>3, <2>4 DEF SimInv
<1>7. CASE UNCHANGED sim
  BY <1>1, <1>2, <1>7 DEF SimInv, sim
<1> QED
  BY <1>4, <1>5, <1>6, <1>7 DEF Next, ThreadStep, ServerStep, MainStep, Ended, Take, Post, Record, WakeUp, NextTurn,
       Schedule, Attempt, Answer, Preempt, Fail, Consume, Raise, Leave, Write, vars

ReplayInv == ThreadInv /\ ServerInv /\ SimInv

LEMMA ReplayInductive == ASSUME FromGenerator PROVE Spec => []ReplayInv
<1>1. Init => ReplayInv
  BY InitThreads, InitServer, InitSim DEF ReplayInv
<1>2. ReplayInv /\ [Next]_vars => ReplayInv'
  <2>1. ThreadInv => generated \in Generated
    BY DEF ThreadInv
  <2> QED
    BY <2>1, NextThreads, NextServer, NextSim DEF ReplayInv
<1> QED
  BY <1>1, <1>2, PTL DEF Spec

\* Threads, server, main thread and simulator stay where the code can put them:
\* the server schedules no turn that its thread has not posted, has computed
\* only prompts below the limit, and the simulator is asked only for turns that
\* exist.
THEOREM ReplayTyped == ASSUME FromGenerator PROVE Spec => []TypeOK
<1>1. ReplayInv => TypeOK
  <2> SUFFICES ASSUME ReplayInv PROVE TypeOK
    OBVIOUS
  <2>1. \A p \in 1 .. N : turn[p] \in 1 .. Len(Turns(p)) /\ Len(hits[p]) \in {turn[p] - 1, turn[p]}
    BY DEF ReplayInv, ThreadInv, ThreadOK, ServerInv, HitsOK
  <2>2. ASSUME NEW r \in live PROVE r.turn \in Nat \ {0}
    <3>1. PICK p \in 1 .. N : \E t \in 1 .. Len(Turns(p)) : r = Request(Sessions[p], t)
      BY DEF ReplayInv, SimInv, IsRequest
    <3>2. Len(Turns(p)) \in Nat
      BY SessionsFacts DEF ReplayInv, ThreadInv
    <3> QED
      BY <3>1, <3>2 DEF Request
  <2> QED
    BY <2>1, <2>2 DEF ReplayInv, ThreadInv, MainOK, ServerInv, SimInv, TypeOK
<1> QED
  BY <1>1, ReplayInductive, PTL

(***************************************************************************)
(* The turns of the simulator                                              *)
(***************************************************************************)

Served(p, t) == \E h \in simTurns : h[1] = Sessions[p].id /\ h[2] = t

\* A session that was started is served up to the turn it asks for, or to its end.
Progress(p) ==
  \E t \in 1 .. Len(Turns(p)) + 1 :
    /\ \A u \in 1 .. t - 1 : Served(p, u)
    /\ t <= Len(Turns(p)) => Request(Sessions[p], t) \in live

\* The sessions from k on wait to be started.
Waiting(k) ==
  /\ Len(queue) = N - k
  /\ \A i \in 1 .. Len(queue) : queue[i] = k + i
  /\ \A p \in 1 .. k : Progress(p)

\* The cut has removed no session before a kept one.
KeepsPositions == \A p \in 1 .. N : Sessions[p].id = p - 1

\* The last session is still to be served its first turn.
LastToCome == Request(Sessions[N], 1) \in live \/ \E i \in 1 .. Len(queue) : queue[i] = N

\* Either the sessions are served in their places, or the last of them, whose
\* id is no place, is never done with.
SameInv ==
  phase \in {"simulate", "written"} =>
    /\ KeepsPositions => \E k \in 0 .. N : Waiting(k)
    /\ ~KeepsPositions => LastToCome
    /\ queue # <<>> => live # {}
    /\ phase = "written" => live = {}

\* A hole leaves the last session with an id beyond the list.
LEMMA LastBeyond ==
  ASSUME FromGenerator, generated \in Generated, ~KeepsPositions
  PROVE  N \in 1 .. N /\ Sessions[N].id + 1 > N
<1>1. N \in Nat /\ \A p, q \in 1 .. N : p < q => Sessions[p].id < Sessions[q].id
  BY SessionsFacts
<1>2. ASSUME NEW p \in 1 .. N PROVE Sessions[p].id \in Nat
  <2>1. PICK i \in 1 .. Len(generated) : Sessions[p].id = i - 1
    BY SessionsFacts
  <2>2. PICK S : generated \in Seq(S)
    BY DEF FromGenerator
  <2>3. Len(generated) \in Nat
    BY <2>2
  <2> QED
    BY <2>1, <2>3
<1>3. N \in 1 .. N
  BY <1>1 DEF KeepsPositions
<1>4. SUFFICES ASSUME Sessions[N].id + 1 <= N PROVE FALSE
  BY <1>1, <1>2, <1>3
<1>5. \A k \in 0 .. N : k >= 1 => Sessions[k].id >= k - 1
  <2> DEFINE P == {k \in 0 .. N : k >= 1 => Sessions[k].id >= k - 1}
  <2>1. 0 \in P
    BY <1>1
  <2>2. ASSUME NEW k \in 0 .. (N - 1), k \in P PROVE k + 1 \in P
    <3>1. k + 1 \in 1 .. N
      BY <1>1
    <3>2. CASE k = 0
      BY <1>2, <3>1, <3>2
    <3>3. CASE k # 0
      <4>1. k \in 1 .. N /\ k < k + 1
        BY <1>1, <3>3
      <4>2. Sessions[k].id < Sessions[k + 1].id /\ Sessions[k].id >= k - 1
        BY <1>1, <2>2, <3>1, <4>1
      <4> QED
        BY <1>2, <3>1, <4>1, <4>2
    <3> QED
      BY <3>2, <3>3
  <2> HIDE DEF P
  <2>3. \A k \in 0 .. N : k \in P
    BY <1>1, <2>1, <2>2, UpTo
  <2> QED
    BY <2>3 DEF P
<1>6. \A k \in 0 .. N : k < N => Sessions[N - k].id <= (N - k) - 1
  <2> DEFINE P == {k \in 0 .. N : k < N => Sessions[N - k].id <= (N - k) - 1}
  <2>1. 0 \in P
    <3>1. N - 0 = N /\ Sessions[N].id <= N - 1
      BY <1>1, <1>2, <1>3, <1>4
    <3> QED
      BY <1>1, <3>1
  <2>2. ASSUME NEW k \in 0 .. (N - 1), k \in P PROVE k + 1 \in P
    <3>1. CASE k + 1 < N
      <4> DEFINE a == N - (k + 1)
                 b == N - k
      <4>1. a \in 1 .. N /\ b \in 1 .. N /\ a < b /\ b = a + 1 /\ k + 1 \in 0 .. N
        BY <1>1, <3>1
      <4>2. Sessions[b].id <= b - 1
        BY <1>1, <2>2
      <4> HIDE DEF a, b
      <4>3. Sessions[a].id < Sessions[b].id /\ Sessions[a].id \in Nat /\ Sessions[b].id \in Nat
        BY <1>1, <1>2, <4>1
      <4>4. Sessions[a].id <= a - 1
        BY <4>1, <4>2, <4>3
      <4> QED
        BY <4>1, <4>4 DEF a
    <3>2. CASE ~(k + 1 < N)
      BY <1>1, <3>2
    <3> QED
      BY <3>1, <3>2
  <2> HIDE DEF P
  <2>3. \A k \in 0 .. N : k \in P
    BY <1>1, <2>1, <2>2, UpTo
  <2> QED
    BY <2>3 DEF P
<1>7. ASSUME NEW p \in 1 .. N PROVE Sessions[p].id = p - 1
  <2>1. p \in 0 .. N /\ p >= 1 /\ N - p \in 0 .. N /\ N - p < N /\ N - (N - p) = p
    BY <1>1
  <2>2. Sessions[p].id >= p - 1
    BY <1>5, <2>1
  <2>3. Sessions[p].id <= p - 1
    <3> DEFINE k == N - p
    <3>1. k \in 0 .. N /\ k < N /\ N - k = p
      BY <2>1
    <3> HIDE DEF k
    <3>2. Sessions[N - k].id <= (N - k) - 1
      BY <1>6, <3>1
    <3> QED
      BY <3>1, <3>2
  <2> QED
    BY <1>2, <2>2, <2>3
<1> QED
  BY <1>7 DEF KeepsPositions

\* Serving a request moves its own session only.
LEMMA ProgressStep ==
  ASSUME FromGenerator, generated \in Generated, generated' = generated,
         NEW p \in 1 .. N, NEW t \in 1 .. Len(Turns(p)), NEW q \in 1 .. N, Progress(q),
         simTurns \subseteq simTurns', live \ {Request(Sessions[p], t)} \subseteq live',
         Served(p, t)', t < Len(Turns(p)) => Request(Sessions[p], t + 1) \in live'
  PROVE  Progress(q)'
<1>1. Sessions' = Sessions /\ N' = N /\ \A x : Turns(x)' = Turns(x)
  BY SameSessions
<1>2. Len(Turns(q)) \in Nat \ {0} /\ Len(Turns(p)) \in Nat \ {0}
  BY SessionsFacts
<1>3. PICK n \in 1 .. Len(Turns(q)) + 1 :
        /\ \A u \in 1 .. n - 1 : Served(q, u)
        /\ n <= Len(Turns(q)) => Request(Sessions[q], n) \in live
  BY DEF Progress
<1>4. \A u \in 1 .. n - 1 : Served(q, u)'
  BY <1>1, <1>3 DEF Served
<1>5. CASE n <= Len(Turns(q)) /\ Request(Sessions[q], n) = Request(Sessions[p], t)
  <2>1. q = p /\ n = t
    <3>1. n \in 1 .. Len(Turns(q))
      BY <1>2, <1>5
    <3>2. Sessions[q].id = Sessions[p].id /\ n = t
      BY <1>5 DEF Request
    <3> QED
      BY <3>2, SessionsFacts
  <2>2. t + 1 \in 1 .. Len(Turns(p)) + 1 /\ \A u \in 1 .. (t + 1) - 1 : u = t \/ u \in 1 .. n - 1
    BY <1>2, <2>1
  <2>3. \A u \in 1 .. (t + 1) - 1 : Served(p, u)'
    BY <1>4, <2>1, <2>2
  <2>4. t + 1 <= Len(Turns(p)) => t < Len(Turns(p))
    BY <1>2
  <2> QED
    BY <1>1, <2>1, <2>2, <2>3, <2>4 DEF Progress
<1>6. CASE ~(n <= Len(Turns(q)) /\ Request(Sessions[q], n) = Request(Sessions[p], t))
  <2>1. n <= Len(Turns(q)) => Request(Sessions[q], n) \in live'
    BY <1>3, <1>6
  <2> QED
    BY <1>1, <1>3, <1>4, <2>1 DEF Progress
<1> QED
  BY <1>5, <1>6

LEMMA SameStart ==
  ASSUME FromGenerator, generated \in Generated, Simulate
  PROVE  SameInv'
<1>1. /\ Len(queue') = IF Concurrency < N THEN N - Concurrency ELSE 0
      /\ \A i \in 1 .. Len(queue') : queue'[i] = Concurrency + i
      /\ live' = {Request(Sessions[p], 1) : p \in {q \in 1 .. N : q <= Concurrency}}
      /\ generated' = generated /\ phase' = "simulate"
  BY Started
<1>2. Sessions' = Sessions /\ N' = N /\ \A x : Turns(x)' = Turns(x)
  BY <1>1, SameSessions
<1>3. N \in Nat /\ Concurrency \in Nat \ {0} /\ \A p \in 1 .. N : Len(Turns(p)) \in Nat \ {0}
  BY SessionsFacts, ReplayAssumption
<1>4. ASSUME NEW p \in 1 .. N, p <= Concurrency PROVE Progress(p)'
  <2>1. Request(Sessions[p], 1) \in live'
    BY <1>1, <1>4
  <2>2. 1 \in 1 .. Len(Turns(p)) + 1 /\ 1 .. 1 - 1 = {}
    BY <1>3
  <2> QED
    BY <1>2, <2>1, <2>2 DEF Progress
<1>7. KeepsPositions' <=> KeepsPositions
  BY <1>2 DEF KeepsPositions
<1>5. CASE Concurrency < N
  <2>1. Concurrency \in 0 .. N /\ \A p \in 1 .. Concurrency : p \in 1 .. N /\ p <= Concurrency
    BY <1>3, <1>5
  <2>2. Waiting(Concurrency)'
    BY <1>1, <1>2, <1>4, <1>5, <2>1 DEF Waiting
  <2>3. live' # {}
    <3>1. 1 \in {q \in 1 .. N : q <= Concurrency}
      BY <1>3, <1>5
    <3> QED
      BY <1>1, <3>1
  <2>4. LastToCome'
    <3>1. N - Concurrency \in 1 .. Len(queue') /\ queue'[N - Concurrency] = N
      BY <1>1, <1>3, <1>5
    <3> QED
      BY <1>2, <3>1 DEF LastToCome
  <2> QED
    BY <1>1, <1>2, <2>1, <2>2, <2>3, <2>4 DEF SameInv
<1>6. CASE ~(Concurrency < N)
  <2>1. Len(queue') = 0 /\ N - N = 0 /\ N \in 0 .. N /\ \A p \in 1 .. N : p <= Concurrency
    BY <1>1, <1>3, <1>6
  <2>2. \A i \in 1 .. Len(queue') : queue'[i] = N + i
    BY <2>1
  <2>3. Waiting(N)'
    BY <1>2, <1>4, <2>1, <2>2 DEF Waiting
  <2>4. queue' = <<>>
    <3>1. queue' \in Seq(1 .. N)
      BY Started
    <3> QED
      BY <2>1, <3>1
  <2>5. ~KeepsPositions => LastToCome'
    <3>1. ~KeepsPositions => N \in 1 .. N /\ N <= Concurrency
      BY <1>3, <1>6, LastBeyond
    <3>2. ~KeepsPositions => Request(Sessions[N], 1) \in live'
      BY <1>1, <3>1
    <3> QED
      BY <1>2, <3>2 DEF LastToCome
  <2> QED
    BY <1>1, <1>2, <1>7, <2>1, <2>3, <2>4, <2>5 DEF SameInv
<1> QED
  BY <1>5, <1>6

LEMMA SameStep ==
  ASSUME FromGenerator, generated \in Generated, SimInv, SameInv, NEW r \in live, SimTurn(r)
  PROVE  SameInv'
<1>1. PICK p \in 1 .. N : \E t \in 1 .. Len(Turns(p)), b \in Int :
        /\ r = Request(Sessions[p], t)
        /\ r.id = Sessions[p].id /\ r.turn = t /\ (r.last <=> t = Len(Turns(p)))
        /\ simPreempted = 0 => b = SimFound(Sessions[p], t)
        /\ simTurns' = simTurns \cup {<<r.id, r.turn, b>>}
        /\ generated' = generated
  BY SimTurnFacts
<1>2. PICK t \in 1 .. Len(Turns(p)), b \in Int :
        /\ r = Request(Sessions[p], t)
        /\ r.id = Sessions[p].id /\ r.turn = t /\ (r.last <=> t = Len(Turns(p)))
        /\ simPreempted = 0 => b = SimFound(Sessions[p], t)
        /\ simTurns' = simTurns \cup {<<r.id, r.turn, b>>}
        /\ generated' = generated
  BY <1>1
<1>3. Sessions' = Sessions /\ N' = N /\ (\A x : Turns(x)' = Turns(x)) /\ (KeepsPositions' <=> KeepsPositions)
  BY <1>2, SameSessions DEF KeepsPositions
<1>4. N \in Nat /\ \A q \in 1 .. N : Len(Turns(q)) \in Nat \ {0}
  BY SessionsFacts
<1>5. Served(p, t)'
  <2> DEFINE h == <<r.id, r.turn, b>>
  <2>1. h \in simTurns' /\ h[1] = Sessions[p].id /\ h[2] = t
    BY <1>2
  <2> HIDE DEF h
  <2> QED
    BY <1>3, <2>1 DEF Served
<1>6. CASE phase' = "failed"
  BY <1>6 DEF SameInv
<1>7. SUFFICES ASSUME phase' # "failed"
               PROVE  /\ KeepsPositions => \E k \in 0 .. N : Waiting(k)'
                      /\ ~KeepsPositions => LastToCome'
                      /\ queue' # <<>> => live' # {}
  <2>1. phase = "simulate"
    BY DEF SimTurn
  <2> QED
    BY <1>3, <1>6, <1>7, <2>1, SimFollows DEF SameInv
<1>8. /\ phase = "simulate" /\ r.id + 1 <= N
      /\ \/ r.last /\ queue = <<>> /\ live' = live \ {r} /\ queue' = queue
         \/ /\ r.last /\ queue # <<>> /\ queue' = Tail(queue)
            /\ live' = (live \ {r}) \cup {Request(Sessions[Head(queue)], 1)}
         \/ /\ ~r.last /\ queue' = queue /\ r.turn < Len(Turns(r.id + 1))
            /\ live' = (live \ {r}) \cup {Request(Sessions[r.id + 1], r.turn + 1)}
  BY <1>7, SimFollows DEF SimTurn
<1>13. queue' # <<>> => live' # {}
  BY <1>8
<1>14. ASSUME ~KeepsPositions PROVE LastToCome'
  <2>1. N \in 1 .. N /\ Sessions[N].id + 1 > N
    BY <1>14, LastBeyond
  <2>2. r # Request(Sessions[N], 1)
    <3>1. r = Request(Sessions[N], 1) => r.id = Sessions[N].id
      BY DEF Request
    <3>2. Sessions[N].id \in Int
      BY <2>1, SessionsFacts
    <3> QED
      BY <1>4, <1>8, <2>1, <3>1, <3>2
  <2>3. CASE Request(Sessions[N], 1) \in live
    <3>1. Request(Sessions[N], 1) \in live'
      BY <1>8, <2>2, <2>3
    <3> QED
      BY <1>3, <3>1 DEF LastToCome
  <2>4. CASE \E i \in 1 .. Len(queue) : queue[i] = N
    <3>1. PICK i \in 1 .. Len(queue) : queue[i] = N
      BY <2>4
    <3>2. CASE queue' = queue
      BY <1>3, <3>1, <3>2 DEF LastToCome
    <3>3. CASE queue # <<>> /\ queue' = Tail(queue) /\ Request(Sessions[Head(queue)], 1) \in live'
      <4>1. queue \in Seq(1 .. N)
        BY DEF SimInv
      <4>2. \A C : \A s \in Seq(C) : \A n \in 1 .. Len(s) :
              /\ s # <<>>
              /\ n = 1 => Head(s) = s[n]
              /\ n # 1 => n - 1 \in 1 .. Len(Tail(s)) /\ Tail(s)[n - 1] = s[n]
        OBVIOUS
      <4>3. CASE i = 1
        <5>1. Head(queue) = N
          BY <3>1, <4>1, <4>2, <4>3
        <5> QED
          BY <1>3, <3>3, <5>1 DEF LastToCome
      <4>4. CASE i # 1
        <5>1. i - 1 \in 1 .. Len(queue') /\ queue'[i - 1] = N
          BY <3>1, <3>3, <4>1, <4>2, <4>4
        <5> QED
          BY <1>3, <5>1 DEF LastToCome
      <4> QED
        BY <4>3, <4>4
    <3> QED
      BY <1>8, <3>2, <3>3
  <2> QED
    BY <1>8, <1>14, <2>3, <2>4 DEF SameInv, LastToCome
<1>15. SUFFICES ASSUME KeepsPositions
                PROVE  \E k \in 0 .. N : Waiting(k)'
  BY <1>13, <1>14
<1>16. PICK k \in 0 .. N : Waiting(k)
  BY <1>8, <1>15 DEF SameInv
<1>9. ASSUME live \ {r} \subseteq live', t < Len(Turns(p)) => Request(Sessions[p], t + 1) \in live'
      PROVE  \A q \in 1 .. k : Progress(q)'
  <2> SUFFICES ASSUME NEW q \in 1 .. k PROVE Progress(q)'
    OBVIOUS
  <2>1. q \in 1 .. N /\ Progress(q)
    BY <1>4, <1>16 DEF Waiting
  <2>2. simTurns \subseteq simTurns'
    BY <1>2
  <2> QED
    BY <1>2, <1>5, <1>9, <2>1, <2>2, ProgressStep
<1>10. CASE r.last /\ queue = <<>>
  <2>1. queue' = queue /\ live' = live \ {r} /\ ~(t < Len(Turns(p)))
    BY <1>2, <1>4, <1>8, <1>10
  <2>2. Waiting(k)'
    BY <1>3, <1>16, <1>9, <2>1 DEF Waiting
  <2> QED
    BY <2>2
<1>11. CASE r.last /\ queue # <<>>
  <2>1. /\ queue' = Tail(queue) /\ live' = (live \ {r}) \cup {Request(Sessions[Head(queue)], 1)}
        /\ ~(t < Len(Turns(p)))
    BY <1>2, <1>4, <1>8, <1>11
  <2>2. queue \in Seq(1 .. N) /\ Len(queue) = N - k /\ \A i \in 1 .. Len(queue) : queue[i] = k + i
    BY <1>16 DEF SimInv, Waiting
  <2>3. /\ Len(queue) \in Nat \ {0} /\ Head(queue) = queue[1]
        /\ Len(Tail(queue)) = Len(queue) - 1
        /\ \A i \in 1 .. Len(Tail(queue)) : Tail(queue)[i] = queue[i + 1]
    <3>1. \A C : \A s \in Seq(C) : s # <<>> =>
            /\ Len(s) \in Nat \ {0} /\ Head(s) = s[1] /\ Len(Tail(s)) = Len(s) - 1
            /\ \A i \in 1 .. Len(Tail(s)) : Tail(s)[i] = s[i + 1]
      OBVIOUS
    <3> QED
      BY <1>11, <2>2, <3>1
  <2>4. k + 1 \in 0 .. N /\ k + 1 \in 1 .. N /\ Head(queue) = k + 1 /\ N - (k + 1) = (N - k) - 1
    BY <1>4, <2>2, <2>3
  <2>5. \A i \in 1 .. Len(Tail(queue)) : i + 1 \in 1 .. Len(queue) /\ k + (i + 1) = (k + 1) + i
    BY <1>4, <2>2, <2>3
  <2>6. Len(queue') = N - (k + 1) /\ \A i \in 1 .. Len(queue') : queue'[i] = (k + 1) + i
    BY <2>1, <2>2, <2>3, <2>4, <2>5
  <2>7. Progress(k + 1)'
    <3>1. Request(Sessions[k + 1], 1) \in live'
      BY <2>1, <2>4
    <3>2. 1 \in 1 .. Len(Turns(k + 1)) + 1 /\ 1 .. 1 - 1 = {}
      BY <1>4, <2>4
    <3> QED
      BY <1>3, <3>1, <3>2 DEF Progress
  <2>8. \A q \in 1 .. (k + 1) : q = k + 1 \/ q \in 1 .. k
    BY <1>4
  <2>9. Waiting(k + 1)'
    BY <1>3, <1>9, <2>1, <2>6, <2>7, <2>8 DEF Waiting
  <2> QED
    BY <2>4, <2>9
<1>12. CASE ~r.last
  <2>1. r.id + 1 = p /\ t < Len(Turns(p)) /\ p <= N
    <3>1. Sessions[p].id = p - 1
      BY <1>15 DEF KeepsPositions
    <3> QED
      BY <1>2, <1>4, <1>12, <3>1
  <2>2. queue' = queue /\ live' = (live \ {r}) \cup {Request(Sessions[p], t + 1)}
    BY <1>2, <1>8, <1>12, <2>1
  <2>3. Waiting(k)'
    BY <1>3, <1>16, <1>9, <2>2 DEF Waiting
  <2> QED
    BY <2>3
<1> QED
  BY <1>10, <1>11, <1>12

LEMMA NextSame == FromGenerator /\ generated \in Generated /\ SimInv /\ SameInv /\ [Next]_vars => SameInv'
<1> SUFFICES ASSUME FromGenerator, generated \in Generated, SimInv, SameInv, [Next]_vars PROVE SameInv'
  OBVIOUS
<1>1. Sessions' = Sessions /\ N' = N /\ (\A x : Turns(x)' = Turns(x)) /\ (KeepsPositions' <=> KeepsPositions)
  BY NextGenerated, SameSessions DEF KeepsPositions
<1>2. CASE Simulate
  BY <1>2, SameStart
<1>3. ASSUME NEW r \in live, SimTurn(r) PROVE SameInv'
  BY <1>3, SameStep
<1>4. CASE phase' \in {"raising", "failed"}
  BY <1>4 DEF SameInv
<1>5. CASE UNCHANGED sim /\ (phase' = phase \/ (phase = "simulate" /\ live = {}))
  <2>1. (\A k : Waiting(k)' <=> Waiting(k)) /\ (LastToCome' <=> LastToCome)
    BY <1>1, <1>5 DEF Waiting, LastToCome, Progress, Served, sim
  <2> QED
    BY <1>1, <1>5, <2>1 DEF SameInv, sim
<1>6. ASSUME NEW r \in live, SimPreempt(r) PROVE SameInv'
  <2>1. queue' = queue /\ live' = live /\ simTurns' = simTurns /\ phase' = phase
    BY <1>6 DEF SimPreempt
  <2>2. (\A k : Waiting(k)' <=> Waiting(k)) /\ (LastToCome' <=> LastToCome)
    <3>1. LastToCome' <=> LastToCome
      BY <1>1, <2>1 DEF LastToCome, Request
    <3>2. \A x : Progress(x)' <=> Progress(x)
      <4>1. \A x, t : Served(x, t)' <=> Served(x, t)
        BY <1>1, <2>1 DEF Served
      <4> QED
        BY <1>1, <2>1, <4>1 DEF Progress, Request
    <3> QED
      BY <1>1, <2>1, <3>1, <3>2 DEF Waiting
  <2> QED
    BY <1>1, <2>1, <2>2 DEF SameInv
<1>7. ASSUME ThreadStep \/ ServerStep PROVE UNCHANGED <<sim, phase>>
  BY <1>7 DEF ThreadStep, ServerStep, Take, Post, Record, WakeUp, NextTurn, Schedule, Attempt, Answer, Preempt, Fail
<1>8. ASSUME Consume \/ Raise \/ Leave \/ Write
      PROVE  \/ UNCHANGED sim /\ (phase' = phase \/ (phase = "simulate" /\ live = {}))
             \/ phase' \in {"raising", "failed"}
  BY <1>8 DEF Consume, Raise, Leave, Write
<1>9. ASSUME Ended \/ UNCHANGED vars PROVE UNCHANGED <<sim, phase>>
  BY <1>9 DEF Ended, vars
<1> QED
  BY <1>2, <1>3, <1>4, <1>5, <1>6, <1>7, <1>8, <1>9 DEF Next, MainStep

\* In every report the simulator has served exactly the turns that the server
\* was sent: where the cut has removed a session before a kept one, no report is
\* written, because the last session's id is not a place of the engine's list
\* (_on_session_turn_done).
THEOREM SimulatesTheTurns == ASSUME FromGenerator PROVE Spec => []SameTurns
<1>1. Init => SameInv
  BY DEF Init, SameInv
<1>2. ReplayInv /\ SameInv /\ [Next]_vars => SameInv'
  BY NextSame DEF ReplayInv, ThreadInv
<1>3. ReplayInv /\ SameInv => SameTurns
  <2> SUFFICES ASSUME ReplayInv, SameInv, phase = "written"
               PROVE  {<<h[1], h[2]>> : h \in simTurns} =
                        UNION {{<<Sessions[p].id, t>> : t \in 1 .. Len(Turns(p))} : p \in 1 .. N}
    BY DEF SameTurns
  <2>1. N \in Nat /\ \A q \in 1 .. N : Len(Turns(q)) \in Nat \ {0}
    BY SessionsFacts DEF ReplayInv, ThreadInv
  <2>2. live = {} /\ queue = <<>>
    BY DEF SameInv
  <2>4. Len(<<>>) = 0
    OBVIOUS
  <2>11. KeepsPositions
    <3>1. ~LastToCome
      BY <2>2, <2>4 DEF LastToCome
    <3> QED
      BY <3>1 DEF SameInv
  <2>3. PICK k \in 0 .. N : Waiting(k)
    BY <2>11 DEF SameInv
  <2>5. k = N
    BY <2>1, <2>2, <2>3, <2>4 DEF Waiting
  <2>6. ASSUME NEW p \in 1 .. N, NEW t \in 1 .. Len(Turns(p))
        PROVE  \E h \in simTurns : h[1] = Sessions[p].id /\ h[2] = t
    <3>1. PICK n \in 1 .. Len(Turns(p)) + 1 :
            /\ \A u \in 1 .. n - 1 : Served(p, u)
            /\ n <= Len(Turns(p)) => Request(Sessions[p], n) \in live
      BY <2>3, <2>5 DEF Waiting, Progress
    <3>2. t \in 1 .. n - 1
      BY <2>1, <2>2, <3>1
    <3> QED
      BY <3>1, <3>2 DEF Served
  <2>7. \A h \in simTurns : \E p \in 1 .. N : \E t \in 1 .. Len(Turns(p)) : h[1] = Sessions[p].id /\ h[2] = t
    BY DEF ReplayInv, SimInv, ServedOK
  <2> DEFINE Of(p) == {<<Sessions[p].id, t>> : t \in 1 .. Len(Turns(p))}
             all == UNION {Of(p) : p \in 1 .. N}
             served == {<<h[1], h[2]>> : h \in simTurns}
  <2>8. ASSUME NEW x \in served PROVE x \in all
    <3>1. PICK h \in simTurns : x = <<h[1], h[2]>>
      OBVIOUS
    <3>2. PICK p \in 1 .. N : \E t \in 1 .. Len(Turns(p)) : h[1] = Sessions[p].id /\ h[2] = t
      BY <2>7
    <3>3. x \in Of(p)
      BY <3>1, <3>2
    <3> HIDE DEF Of
    <3> QED
      BY <3>2, <3>3
  <2>9. ASSUME NEW x \in all PROVE x \in served
    <3>1. PICK p \in 1 .. N : x \in Of(p)
      <4> HIDE DEF Of
      <4> QED
        OBVIOUS
    <3>2. PICK t \in 1 .. Len(Turns(p)) : x = <<Sessions[p].id, t>>
      BY <3>1
    <3>3. PICK h \in simTurns : h[1] = Sessions[p].id /\ h[2] = t
      BY <2>6
    <3> QED
      BY <3>2, <3>3
  <2>10. served = all
    <3> HIDE DEF served, all
    <3> QED
      BY <2>8, <2>9
  <2> QED
    BY <2>10
<1> QED
  BY <1>1, <1>2, <1>3, ReplayInductive, PTL DEF Spec

(***************************************************************************)
(* The tokens counted                                                      *)
(***************************************************************************)

\* A number f[x] for each x of a set, as that many dots beside x: the sum of the
\* numbers is the number of dots.
Dots(f, S, n) == {d \in S \X (1 .. n) : d[2] <= f[d[1]]}

LEMMA DotsFinite ==
  ASSUME NEW f, NEW S, IsFiniteSet(S), NEW n \in Nat
  PROVE  IsFiniteSet(Dots(f, S, n)) /\ Cardinality(Dots(f, S, n)) \in Nat
<1>1. IsFiniteSet(S \X (1 .. n))
  <2>1. IsFiniteSet(1 .. n)
    BY 1 \in Int, n \in Int, FS_Interval
  <2> QED
    BY <2>1, FS_Product
<1>2. Dots(f, S, n) \in SUBSET (S \X (1 .. n))
  BY DEF Dots
<1> QED
  BY <1>1, <1>2, FS_Subset, FS_CardinalityType

LEMMA DotsAdd ==
  ASSUME NEW f, NEW S, IsFiniteSet(S), NEW n \in Nat, NEW x, x \notin S, f[x] \in 0 .. n
  PROVE  Cardinality(Dots(f, S \cup {x}, n)) = Cardinality(Dots(f, S, n)) + f[x]
<1> DEFINE D == Dots(f, S, n)
           E == {x} \X (1 .. f[x])
<1>1. IsFiniteSet(D) /\ Cardinality(D) \in Nat
  BY DotsFinite
<1>2. IsFiniteSet(E) /\ Cardinality(E) = f[x]
  <2>1. IsFiniteSet({x}) /\ Cardinality({x}) = 1
    BY FS_Singleton
  <2>2. IsFiniteSet(1 .. f[x]) /\ Cardinality(1 .. f[x]) = f[x]
    <3>1. 1 \in Int /\ f[x] \in Int /\ f[x] \in Nat
      OBVIOUS
    <3>2. Cardinality(1 .. f[x]) = IF 1 > f[x] THEN 0 ELSE f[x] - 1 + 1
      BY <3>1, FS_Interval
    <3>3. Cardinality(1 .. f[x]) = f[x]
      BY <3>1, <3>2
    <3>4. IsFiniteSet(1 .. f[x])
      BY <3>1, FS_Interval
    <3> QED
      BY <3>3, <3>4
  <2>3. IsFiniteSet(E) /\ Cardinality(E) = 1 * f[x]
    BY <2>1, <2>2, FS_Product
  <2> QED
    BY <2>3
<1>3. D \cap E = {}
  BY DEF Dots
<1>4. Dots(f, S \cup {x}, n) = D \cup E
  <2>1. ASSUME NEW d \in Dots(f, S \cup {x}, n) PROVE d \in D \cup E
    <3>1. d \in (S \cup {x}) \X (1 .. n) /\ d[2] <= f[d[1]]
      BY DEF Dots
    <3>2. CASE d[1] \in S
      BY <3>1, <3>2 DEF Dots
    <3>3. CASE d[1] = x
      BY <3>1, <3>3
    <3> QED
      BY <3>1, <3>2, <3>3
  <2>2. ASSUME NEW d \in D \cup E PROVE d \in Dots(f, S \cup {x}, n)
    <3>1. CASE d \in D
      BY <3>1 DEF Dots
    <3>2. CASE d \in E
      BY <3>2 DEF Dots
    <3> QED
      BY <3>1, <3>2
  <2> QED
    BY <2>1, <2>2
<1>5. Cardinality(D \cap E) = 0
  BY <1>3, FS_EmptySet
<1>6. Cardinality(D \cup E) = Cardinality(D) + Cardinality(E) - Cardinality(D \cap E)
  BY <1>1, <1>2, FS_Union
<1>7. f[x] \in Nat
  OBVIOUS
<1> HIDE DEF D, E
<1>8. Cardinality(Dots(f, S \cup {x}, n)) = Cardinality(D \cup E)
  BY <1>4
<1>9. \A a \in Nat : a + f[x] - 0 = a + f[x]
  BY <1>7
<1>10. Cardinality(D \cup E) = Cardinality(D) + f[x]
  <2>1. Cardinality(D \cup E) = Cardinality(D) + f[x] - 0
    BY <1>2, <1>5, <1>6
  <2> QED
    BY <1>1, <1>9, <2>1
<1> QED
  BY <1>8, <1>10 DEF D

\* The recursion by which a sum is folded over the subsets of a set.
IsSum(g, f, S) ==
  g = [s \in SUBSET S |->
         IF s = {} THEN 0 ELSE f[CHOOSE x \in s : TRUE] + g[s \ {CHOOSE x \in s : TRUE}]]

\* It has one solution, which counts the dots.
LEMMA SumsExist ==
  ASSUME NEW n \in Nat, NEW S, IsFiniteSet(S), NEW f \in [S -> 0 .. n]
  PROVE  \E g : IsSum(g, f, S)
<1> DEFINE g == [s \in SUBSET S |-> Cardinality(Dots(f, s, n))]
           x(s) == CHOOSE e \in s : TRUE
<1>1. ASSUME NEW s \in SUBSET S
      PROVE  g[s] = IF s = {} THEN 0 ELSE f[x(s)] + g[s \ {x(s)}]
  <2>1. CASE s = {}
    <3>1. Dots(f, s, n) = {}
      BY <2>1 DEF Dots
    <3> QED
      BY <2>1, <3>1, FS_EmptySet
  <2>2. CASE s # {}
    <3> DEFINE r == s \ {x(s)}
    <3>1. x(s) \in s /\ r \in SUBSET S /\ x(s) \notin r /\ r \cup {x(s)} = s
      BY <2>2
    <3>2. IsFiniteSet(r)
      BY <3>1, FS_Subset
    <3>3. f[x(s)] \in 0 .. n
      BY <3>1
    <3> HIDE DEF x, r
    <3>4. Cardinality(Dots(f, r \cup {x(s)}, n)) = Cardinality(Dots(f, r, n)) + f[x(s)]
      BY <3>1, <3>2, <3>3, DotsAdd
    <3>5. Cardinality(Dots(f, r, n)) \in Nat
      BY <3>2, DotsFinite
    <3>6. g[s] = g[r] + f[x(s)] /\ g[r] \in Nat
      BY <3>1, <3>4, <3>5
    <3> HIDE DEF g
    <3> QED
      BY <2>2, <3>3, <3>6 DEF r
  <2> QED
    BY <2>1, <2>2
<1>2. g = [s \in SUBSET S |-> g[s]]
  OBVIOUS
<1> HIDE DEF g
<1>3. g = [s \in SUBSET S |-> IF s = {} THEN 0 ELSE f[x(s)] + g[s \ {x(s)}]]
  BY <1>1, <1>2
<1> QED
  BY <1>3 DEF IsSum

LEMMA SumIsDots ==
  ASSUME NEW n \in Nat, NEW S, IsFiniteSet(S), NEW f \in [S -> 0 .. n], NEW g, IsSum(g, f, S)
  PROVE  g[S] = Cardinality(Dots(f, S, n))
<1> DEFINE Bad == {s \in SUBSET S : g[s] # Cardinality(Dots(f, s, n))}
<1>1. SUFFICES ASSUME S \in Bad PROVE FALSE
  OBVIOUS
<1>2. IsWellFoundedOn(StrictSubsetOrdering(S), SUBSET S)
  BY FS_FiniteSubsetsOfFinite, FS_StrictSubsetOrderingWellFounded
<1>3. Bad \in SUBSET SUBSET S
  OBVIOUS
<1>4. PICK s \in Bad : \A t \in Bad : ~(<<t, s>> \in StrictSubsetOrdering(S))
  <2> HIDE DEF Bad
  <2> QED
    BY <1>1, <1>2, <1>3, WFMin
<1> DEFINE x == CHOOSE e \in s : TRUE
           r == s \ {x}
<1>5. s \in SUBSET S /\ g[s] # Cardinality(Dots(f, s, n))
  OBVIOUS
<1>6. g[s] = IF s = {} THEN 0 ELSE f[x] + g[r]
  BY <1>5 DEF IsSum
<1>7. CASE s = {}
  <2>1. Dots(f, s, n) = {}
    BY <1>7 DEF Dots
  <2> QED
    BY <1>5, <1>6, <1>7, <2>1, FS_EmptySet
<1>8. CASE s # {}
  <2>1. x \in s /\ r \in SUBSET S /\ x \notin r /\ r \cup {x} = s /\ r \subseteq s /\ r # s
    BY <1>5, <1>8
  <2>2. IsFiniteSet(r)
    BY <2>1, FS_Subset
  <2>3. f[x] \in 0 .. n
    BY <1>5, <2>1
  <2>4. g[r] = Cardinality(Dots(f, r, n))
    <3>1. <<r, s>> \in StrictSubsetOrdering(S)
      BY <1>5, <2>1 DEF StrictSubsetOrdering
    <3> QED
      BY <1>4, <2>1, <3>1
  <2> HIDE DEF x, r
  <2>5. Cardinality(Dots(f, r \cup {x}, n)) = Cardinality(Dots(f, r, n)) + f[x]
    BY <2>1, <2>2, <2>3, DotsAdd
  <2>6. Cardinality(Dots(f, r, n)) \in Nat
    BY <2>2, DotsFinite
  <2> QED
    BY <1>5, <1>6, <1>8, <2>1, <2>3, <2>4, <2>5, <2>6
<1> QED
  BY <1>7, <1>8

\* The turn that a session has come to with the server, the prompts of the turns
\* up to it, and their tokens.
Reached(p) == IF at[p] \in {"scheduled", "answered"} \/ Recorded(p) THEN turn[p] ELSE turn[p] - 1

Scheduled == {pt \in (1 .. N) \X (Nat \ {0}) : pt[2] <= Reached(pt[1])}

Prompts == [pt \in (1 .. N) \X (Nat \ {0}) |-> Turns(pt[1])[pt[2]].prompt]

Tokens == Cardinality(Dots(Prompts, Scheduled, Limit))

\* The blocks found for each, and all of them.
Finds == [pt \in (1 .. N) \X (Nat \ {0}) |-> hits[pt[1]][pt[2]]]

Blocks == Cardinality(Dots(Finds, Scheduled, Plenty))

\* The server's counter is at the tokens of what it was asked for and above them
\* once a prompt was tried again, unless a session failed meanwhile.
CountInv ==
  /\ IsFiniteSet(Scheduled)
  /\ queries >= Tokens
  /\ (\A p \in 1 .. N : future[p] # "failed") => (queries = Tokens <=> requeries = Requeries)

\* Its counter of hits is at the blocks found so long as no prompt was tried
\* again and no session failed.
HitInv ==
  /\ \A pt \in Scheduled : Finds[pt] \in 0 .. Plenty
  /\ (\A p \in 1 .. N : future[p] # "failed") /\ requeries = Requeries => hitBlocks = Blocks

LEMMA TokensType == ASSUME IsFiniteSet(Scheduled) PROVE Tokens \in Nat
<1>1. Limit \in Nat
  BY ReplayAssumption
<1> QED
  BY <1>1, DotsFinite DEF Tokens

LEMMA InitCount == FromGenerator /\ Init => CountInv /\ HitInv
<1> SUFFICES ASSUME FromGenerator, Init PROVE CountInv /\ HitInv
  OBVIOUS
<1>1. Scheduled = {}
  <2> SUFFICES ASSUME NEW pt \in Scheduled PROVE FALSE
    OBVIOUS
  <2>1. pt[1] \in 1 .. N /\ pt[2] \in Nat \ {0} /\ pt[2] <= Reached(pt[1])
    BY DEF Scheduled
  <2>2. Reached(pt[1]) = 0
    BY <2>1 DEF Reached, Recorded, Init
  <2> QED
    BY <2>1, <2>2
<1>2. IsFiniteSet(Scheduled)
  BY <1>1, FS_EmptySet
<1>3. Tokens = 0
  <2>1. Dots(Prompts, Scheduled, Limit) = {}
    BY <1>1 DEF Dots
  <2> QED
    BY <2>1, FS_EmptySet DEF Tokens
<1>4. Blocks = 0
  <2>1. Dots(Finds, Scheduled, Plenty) = {}
    BY <1>1 DEF Dots
  <2> QED
    BY <2>1, FS_EmptySet DEF Blocks
<1> QED
  BY <1>1, <1>2, <1>3, <1>4 DEF Init, CountInv, HitInv

\* One more turn, or one less, is the tokens of its prompt.
LEMMA OneTurn ==
  ASSUME NEW S, NEW T, IsFiniteSet(S) \/ IsFiniteSet(T), NEW x, x \notin S, T = S \cup {x},
         Prompts[x] \in 0 .. Limit
  PROVE  /\ IsFiniteSet(S) /\ IsFiniteSet(T)
         /\ Cardinality(Dots(Prompts, T, Limit)) = Cardinality(Dots(Prompts, S, Limit)) + Prompts[x]
<1>1. Limit \in Nat
  BY ReplayAssumption
<1>2. IsFiniteSet(S) /\ IsFiniteSet(T)
  <2>1. CASE IsFiniteSet(S)
    BY <2>1, FS_AddElement
  <2>2. CASE IsFiniteSet(T)
    <3>1. S \in SUBSET T
      OBVIOUS
    <3> QED
      BY <2>2, <3>1, FS_Subset
  <2> QED
    BY <2>1, <2>2
<1> QED
  BY <1>1, <1>2, DotsAdd

\* A step of one session.
LEMMA SamePrompts ==
  ASSUME generated' = generated
  PROVE  Prompts' = Prompts /\ N' = N
<1>1. N' = N /\ \A q : Turns(q)' = Turns(q)
  BY SameSessions
<1> QED
  BY <1>1 DEF Prompts

LEMMA SameReached ==
  ASSUME generated' = generated, \A q \in 1 .. N : Reached(q)' = Reached(q)
  PROVE  Scheduled' = Scheduled /\ Tokens' = Tokens
<1>1. Prompts' = Prompts /\ N' = N
  BY SamePrompts
<1>2. Scheduled' = Scheduled
  BY <1>1 DEF Scheduled
<1> QED
  BY <1>1, <1>2 DEF Tokens

LEMMA OtherReached ==
  ASSUME FromGenerator, ThreadInv, generated' = generated, NEW p \in 1 .. N,
         \A q \in 1 .. N : q # p => Reached(q)' = Reached(q)
  PROVE  /\ Reached(p)' = turn[p] /\ Reached(p) = turn[p] - 1
              => <<p, turn[p]>> \notin Scheduled /\ Scheduled' = Scheduled \cup {<<p, turn[p]>>}
         /\ Reached(p) = turn[p] /\ Reached(p)' = turn[p] - 1
              => <<p, turn[p]>> \notin Scheduled' /\ Scheduled = Scheduled' \cup {<<p, turn[p]>>}
<1>1. N' = N
  BY SameSessions
<1>2. turn[p] \in Nat \ {0}
  BY ThreadFacts
<1>3. ASSUME Reached(p)' = turn[p], Reached(p) = turn[p] - 1
      PROVE  <<p, turn[p]>> \notin Scheduled /\ Scheduled' = Scheduled \cup {<<p, turn[p]>>}
  <2>1. ASSUME NEW q \in 1 .. N, NEW t \in Nat \ {0}
        PROVE  t <= Reached(q)' <=> (t <= Reached(q) \/ (q = p /\ t = turn[p]))
    <3>1. CASE q = p
      BY <1>2, <1>3, <3>1
    <3>2. CASE q # p
      BY <3>2
    <3> QED
      BY <3>1, <3>2
  <2>2. <<p, turn[p]>> \notin Scheduled
    BY <1>2, <1>3 DEF Scheduled
  <2>3. \A pt : pt \in Scheduled' <=> pt \in Scheduled \/ pt = <<p, turn[p]>>
    <3> TAKE pt
    <3>1. CASE pt \in (1 .. N) \X (Nat \ {0})
      <4>1. pt = <<pt[1], pt[2]>> /\ pt[1] \in 1 .. N /\ pt[2] \in Nat \ {0}
        BY <3>1
      <4>2. pt[2] <= Reached(pt[1])' <=> (pt[2] <= Reached(pt[1]) \/ (pt[1] = p /\ pt[2] = turn[p]))
        BY <2>1, <4>1
      <4> QED
        BY <1>1, <3>1, <4>1, <4>2 DEF Scheduled
    <3>2. CASE pt \notin (1 .. N) \X (Nat \ {0})
      BY <1>1, <1>2, <3>2 DEF Scheduled
    <3> QED
      BY <3>1, <3>2
  <2> QED
    BY <2>2, <2>3
<1>4. ASSUME Reached(p) = turn[p], Reached(p)' = turn[p] - 1
      PROVE  <<p, turn[p]>> \notin Scheduled' /\ Scheduled = Scheduled' \cup {<<p, turn[p]>>}
  <2>1. ASSUME NEW q \in 1 .. N, NEW t \in Nat \ {0}
        PROVE  t <= Reached(q) <=> (t <= Reached(q)' \/ (q = p /\ t = turn[p]))
    <3>1. CASE q = p
      BY <1>2, <1>4, <3>1
    <3>2. CASE q # p
      BY <3>2
    <3> QED
      BY <3>1, <3>2
  <2>2. <<p, turn[p]>> \notin Scheduled'
    <3>1. ~(turn[p] <= Reached(p)')
      BY <1>2, <1>4
    <3> QED
      BY <3>1 DEF Scheduled
  <2>3. \A pt : pt \in Scheduled <=> pt \in Scheduled' \/ pt = <<p, turn[p]>>
    <3> TAKE pt
    <3>1. CASE pt \in (1 .. N) \X (Nat \ {0})
      <4>1. pt = <<pt[1], pt[2]>> /\ pt[1] \in 1 .. N /\ pt[2] \in Nat \ {0}
        BY <3>1
      <4>2. pt[2] <= Reached(pt[1]) <=> (pt[2] <= Reached(pt[1])' \/ (pt[1] = p /\ pt[2] = turn[p]))
        BY <2>1, <4>1
      <4> QED
        BY <1>1, <3>1, <4>1, <4>2 DEF Scheduled
    <3>2. CASE pt \notin (1 .. N) \X (Nat \ {0})
      BY <1>1, <1>2, <3>2 DEF Scheduled
    <3> QED
      BY <3>1, <3>2
  <2> QED
    BY <2>2, <2>3
<1> QED
  BY <1>3, <1>4

LEMMA PresentPrompt ==
  ASSUME FromGenerator, ThreadInv, SharedBlocks > 0, NEW p \in 1 .. N
  PROVE  /\ Prompts[<<p, turn[p]>>] = Now(p).prompt
         /\ Now(p).prompt \in 1 .. Limit
<1>1. turn[p] \in 1 .. Len(Turns(p)) /\ Len(Turns(p)) \in Nat
  BY ThreadFacts
<1>2. <<p, turn[p]>> \in (1 .. N) \X (Nat \ {0})
  BY <1>1
<1>3. Prompts[<<p, turn[p]>>] = Now(p).prompt
  BY <1>2 DEF Prompts, Now
<1> DEFINE n == Turns(p)[turn[p]].prompt
<1>4. n \in Nat /\ n >= SharedBlocks * BlockSize /\ n <= Limit
  BY <1>1, TurnsGrow DEF ThreadInv
<1>5. SharedBlocks \in Nat /\ BlockSize \in Nat \ {0} /\ Limit \in Nat
  BY ReplayAssumption
<1> HIDE DEF n
<1>6. \A a, b \in Nat \ {0} : a * b >= 1
  <2> SUFFICES ASSUME NEW a \in Nat \ {0}, NEW b \in Nat \ {0} PROVE a * b >= 1
    OBVIOUS
  <2>1. a >= 1 /\ b >= 1
    OBVIOUS
  <2> QED
    BY <2>1, SMT
<1>7. n \in 1 .. Limit
  <2>1. SharedBlocks * BlockSize >= 1 /\ SharedBlocks * BlockSize \in Nat
    BY <1>5, <1>6
  <2> QED
    BY <1>4, <1>5, <2>1
<1> QED
  BY <1>3, <1>7 DEF n, Now

LEMMA CountServer ==
  ASSUME FromGenerator, ThreadInv, ServerInv, CountInv, SharedBlocks > 0, NEW p \in 1 .. N,
         Schedule(p) \/ Attempt(p) \/ Answer(p) \/ Preempt(p) \/ Fail(p)
  PROVE  CountInv'
<1>1. /\ Prompts[<<p, turn[p]>>] = Now(p).prompt /\ Now(p).prompt \in 1 .. Limit
      /\ Prompts[<<p, turn[p]>>] \in 0 .. Limit
  BY PresentPrompt
<1>2. /\ generated' = generated /\ turn' = turn /\ at[p] \in {"waiting", "scheduled"} /\ future[p] = "running"
      /\ turn[p] \in Nat
  <2>1. generated' = generated /\ turn' = turn /\ at[p] \in {"waiting", "scheduled"}
    BY DEF Schedule, Attempt, Answer, Preempt, Fail, replay
  <2>2. ThreadOK(p) /\ turn[p] \in Nat
    BY ThreadFacts
  <2> QED
    BY <2>1, <2>2 DEF ThreadOK
<1>3. Prompts' = Prompts /\ N' = N
  BY <1>2, SamePrompts
<1>4. /\ Tokens \in Nat /\ queries \in Nat /\ requeries \in 0 .. Requeries /\ Requeries \in Nat
      /\ IsFiniteSet(Scheduled) /\ queries >= Tokens
  BY TokensType, ReplayAssumption DEF CountInv, ServerInv
<1>5. at \in [1 .. N -> Places] /\ future \in [1 .. N -> Futures]
  BY DEF ThreadInv, Places, Futures
<1>6. ASSUME NEW q \in 1 .. N, q # p PROVE Reached(q)' = Reached(q)
  <2>1. at'[q] = at[q] /\ future'[q] = future[q]
    BY <1>5, <1>6 DEF Schedule, Attempt, Answer, Preempt, Fail, Goto, replay
  <2> QED
    BY <1>2, <2>1 DEF Reached, Recorded
<1>7. CASE Schedule(p)
  <2>1. /\ at[p] = "waiting" /\ at'[p] = "scheduled" /\ future' = future
        /\ queries' = queries + Now(p).prompt /\ requeries' = requeries
    BY <1>5, <1>7 DEF Schedule, Query, Goto
  <2>2. Reached(p)' = turn[p] /\ Reached(p) = turn[p] - 1
    BY <1>2, <2>1 DEF Reached, Recorded
  <2>3. <<p, turn[p]>> \notin Scheduled /\ Scheduled' = Scheduled \cup {<<p, turn[p]>>}
    BY <1>2, <1>6, <2>2, OtherReached
  <2>4. /\ IsFiniteSet(Scheduled')
        /\ Cardinality(Dots(Prompts, Scheduled', Limit))
             = Cardinality(Dots(Prompts, Scheduled, Limit)) + Prompts[<<p, turn[p]>>]
    <3> DEFINE S == Scheduled
               T == Scheduled'
               x == <<p, turn[p]>>
    <3>1. IsFiniteSet(S) /\ x \notin S /\ T = S \cup {x} /\ Prompts[x] \in 0 .. Limit
      BY <1>1, <1>4, <2>3
    <3> HIDE DEF S, T, x
    <3>2. /\ IsFiniteSet(T)
          /\ Cardinality(Dots(Prompts, T, Limit)) = Cardinality(Dots(Prompts, S, Limit)) + Prompts[x]
      BY <3>1, OneTurn
    <3> QED
      BY <3>2 DEF S, T, x
  <2>5. Tokens' = Tokens + Now(p).prompt
    BY <1>1, <1>3, <2>4 DEF Tokens
  <2>6. queries' >= Tokens' /\ (queries' = Tokens' <=> queries = Tokens)
    BY <1>1, <1>4, <2>1, <2>5
  <2> QED
    BY <1>3, <2>1, <2>4, <2>6 DEF CountInv
<1>8. CASE Preempt(p)
  <2>1. /\ at[p] = "scheduled" /\ at'[p] = "waiting" /\ future' = future
        /\ queries' = queries /\ requeries' = requeries - 1
    BY <1>5, <1>8 DEF Preempt, Goto
  <2>2. Reached(p) = turn[p] /\ Reached(p)' = turn[p] - 1
    BY <1>2, <2>1 DEF Reached, Recorded
  <2>3. <<p, turn[p]>> \notin Scheduled' /\ Scheduled = Scheduled' \cup {<<p, turn[p]>>}
    BY <1>2, <1>6, <2>2, OtherReached
  <2>4. /\ IsFiniteSet(Scheduled')
        /\ Cardinality(Dots(Prompts, Scheduled, Limit))
             = Cardinality(Dots(Prompts, Scheduled', Limit)) + Prompts[<<p, turn[p]>>]
    BY <1>1, <1>4, <2>3, OneTurn
  <2>5. Tokens = Tokens' + Now(p).prompt
    BY <1>1, <1>3, <2>4 DEF Tokens
  <2>6. Tokens' \in Nat
    <3>1. Limit \in Nat
      BY ReplayAssumption
    <3> QED
      BY <1>3, <2>4, <3>1, DotsFinite DEF Tokens
  <2>7. queries' >= Tokens' /\ queries' # Tokens' /\ requeries' # Requeries
    BY <1>1, <1>4, <2>1, <2>5, <2>6
  <2> QED
    BY <1>3, <2>4, <2>7 DEF CountInv
<1>9. CASE Answer(p)
  <2>1. /\ at[p] = "scheduled" /\ at'[p] = "answered" /\ future' = future
        /\ queries' = queries /\ requeries' = requeries
    BY <1>5, <1>9 DEF Answer, Goto
  <2>2. Reached(p)' = Reached(p)
    BY <1>2, <2>1 DEF Reached, Recorded
  <2>3. Scheduled' = Scheduled /\ Tokens' = Tokens
    BY <1>2, <1>6, <2>2, SameReached
  <2> QED
    BY <1>3, <2>1, <2>3 DEF CountInv
<1>10. CASE Fail(p)
  <2>1. /\ at'[p] = "done" /\ future'[p] = "failed" /\ queries' = queries
    BY <1>5, <1>10 DEF Fail, Goto
  <2>2. Reached(p)' = turn[p] - 1
    BY <1>2, <2>1 DEF Reached, Recorded
  <2>3. IsFiniteSet(Scheduled') /\ queries' >= Tokens'
    <3>1. CASE at[p] = "waiting"
      <4>1. Reached(p) = turn[p] - 1
        BY <1>2, <3>1 DEF Reached, Recorded
      <4>2. Scheduled' = Scheduled /\ Tokens' = Tokens
        BY <1>2, <1>6, <2>2, <4>1, SameReached
      <4> QED
        BY <1>4, <2>1, <4>2
    <3>2. CASE at[p] = "scheduled"
      <4>1. Reached(p) = turn[p]
        BY <3>2 DEF Reached
      <4>2. <<p, turn[p]>> \notin Scheduled' /\ Scheduled = Scheduled' \cup {<<p, turn[p]>>}
        BY <1>2, <1>6, <2>2, <4>1, OtherReached
      <4>3. /\ IsFiniteSet(Scheduled')
            /\ Cardinality(Dots(Prompts, Scheduled, Limit))
                 = Cardinality(Dots(Prompts, Scheduled', Limit)) + Prompts[<<p, turn[p]>>]
        BY <1>1, <1>4, <4>2, OneTurn
      <4>4. Tokens = Tokens' + Now(p).prompt
        BY <1>1, <1>3, <4>3 DEF Tokens
      <4>5. Tokens' \in Nat
        <5>1. Limit \in Nat
          BY ReplayAssumption
        <5> QED
          BY <1>3, <4>3, <5>1, DotsFinite DEF Tokens
      <4> QED
        BY <1>1, <1>4, <2>1, <4>3, <4>4, <4>5
    <3> QED
      BY <1>2, <3>1, <3>2
  <2> QED
    BY <1>3, <2>1, <2>3 DEF CountInv
<1>11. CASE Attempt(p)
  <2>1. /\ at' = at /\ future' = future
        /\ queries' = queries + Now(p).prompt /\ requeries' = requeries - 1 /\ requeries > 0
    BY <1>11 DEF Attempt, Query, replay
  <2>2. Reached(p)' = Reached(p)
    BY <1>2, <2>1 DEF Reached, Recorded
  <2>3. Scheduled' = Scheduled /\ Tokens' = Tokens
    BY <1>2, <1>6, <2>2, SameReached
  <2>4. queries' >= Tokens' /\ queries' # Tokens' /\ requeries' # Requeries
    BY <1>1, <1>4, <2>1, <2>3
  <2> QED
    BY <1>3, <1>4, <2>3, <2>4 DEF CountInv
<1> QED
  BY <1>7, <1>8, <1>9, <1>10, <1>11

\* What was found for the turns before stays, and a turn that is scheduled adds
\* what it finds.
LEMMA HitServer ==
  ASSUME FromGenerator, ThreadInv, ServerInv, CountInv, HitInv, NEW p \in 1 .. N,
         Schedule(p) \/ Attempt(p) \/ Answer(p) \/ Preempt(p) \/ Fail(p)
  PROVE  HitInv'
<1>1. /\ generated' = generated /\ turn' = turn /\ at[p] \in {"waiting", "scheduled"} /\ future[p] = "running"
      /\ turn[p] \in Nat \ {0}
  <2>1. generated' = generated /\ turn' = turn /\ at[p] \in {"waiting", "scheduled"}
    BY DEF Schedule, Attempt, Answer, Preempt, Fail, replay
  <2>2. ThreadOK(p) /\ turn[p] \in Nat \ {0}
    BY ThreadFacts
  <2> QED
    BY <2>1, <2>2 DEF ThreadOK
<1>2. N' = N
  BY <1>1, SamePrompts
<1>3. /\ at \in [1 .. N -> Places] /\ future \in [1 .. N -> Futures]
      /\ hits \in [1 .. N -> Seq(Nat)] /\ requeries \in 0 .. Requeries /\ Requeries \in Nat
      /\ IsFiniteSet(Scheduled)
  BY ReplayAssumption DEF ThreadInv, ServerInv, CountInv, Places, Futures
<1>4. ASSUME NEW q \in 1 .. N, q # p PROVE Reached(q)' = Reached(q)
  <2>1. at'[q] = at[q] /\ future'[q] = future[q]
    BY <1>3, <1>4 DEF Schedule, Attempt, Answer, Preempt, Fail, Goto, replay
  <2> QED
    BY <1>1, <2>1 DEF Reached, Recorded
<1>5. ASSUME hits' = hits PROVE Finds' = Finds
  BY <1>2, <1>5 DEF Finds
<1>6. CASE Schedule(p)
  <2>1. /\ at[p] = "waiting" /\ at'[p] = "scheduled" /\ future' = future
        /\ hitBlocks' = hitBlocks + Found(p) /\ requeries' = requeries
        /\ hits' = [hits EXCEPT ![p] = Append(SubSeq(@, 1, turn[p] - 1), Found(p))]
    BY <1>3, <1>6 DEF Schedule, Query, Goto
  <2>2. Reached(p)' = turn[p] /\ Reached(p) = turn[p] - 1
    BY <1>1, <2>1 DEF Reached, Recorded
  <2> DEFINE x == <<p, turn[p]>>
  <2>3. x \notin Scheduled /\ Scheduled' = Scheduled \cup {x}
    BY <1>1, <1>4, <2>2, OtherReached
  <2>4. Found(p) \in 0 .. Plenty /\ Found(p) \in Nat
    BY FoundWithin
  <2>5. /\ hits'[p] = Append(SubSeq(hits[p], 1, turn[p] - 1), Found(p))
        /\ hits[p] \in Seq(Nat) /\ Len(hits[p]) \in {turn[p] - 1, turn[p]}
    BY <1>3, <2>1, ServedFacts DEF HitsOK
  <2>6. hits'[p][turn[p]] = Found(p) /\ \A t \in 1 .. turn[p] - 1 : hits'[p][t] = hits[p][t]
    <3> DEFINE h == hits[p]
               n == turn[p]
               F == Found(p)
    <3>1. h \in Seq(Nat) /\ Len(h) \in {n - 1, n} /\ n \in Nat \ {0} /\ F \in Nat
          /\ hits'[p] = Append(SubSeq(h, 1, n - 1), F)
      BY <1>1, <2>4, <2>5
    <3> HIDE DEF h, n, F
    <3> DEFINE g == SubSeq(h, 1, n - 1)
    <3>2. g \in Seq(Nat) /\ Len(g) = n - 1 /\ \A t \in 1 .. n - 1 : g[t] = h[t]
      BY <3>1
    <3> HIDE DEF g
    <3>3. Append(g, F)[n] = F /\ \A t \in 1 .. n - 1 : Append(g, F)[t] = g[t]
      BY <3>1, <3>2
    <3>4. hits'[p] = Append(g, F)
      BY <3>1 DEF g
    <3> QED
      BY <3>2, <3>3, <3>4 DEF h, n, F
  <2>7. Finds'[x] = Found(p)
    BY <1>1, <1>2, <2>6 DEF Finds
  <2>8. ASSUME NEW pt \in Scheduled PROVE Finds'[pt] = Finds[pt]
    <3>1. /\ pt \in (1 .. N) \X (Nat \ {0}) /\ pt[1] \in 1 .. N /\ pt[2] \in Nat \ {0}
          /\ pt[2] <= Reached(pt[1])
      BY DEF Scheduled
    <3>2. hits'[pt[1]][pt[2]] = hits[pt[1]][pt[2]]
      <4>1. CASE pt[1] = p
        <5>1. pt[2] \in 1 .. turn[p] - 1
          BY <1>1, <2>2, <3>1, <4>1
        <5> QED
          BY <2>6, <4>1, <5>1
      <4>2. CASE pt[1] # p
        BY <1>3, <2>1, <3>1, <4>2
      <4> QED
        BY <4>1, <4>2
    <3> QED
      BY <1>2, <3>1, <3>2 DEF Finds
  <2> HIDE DEF x
  <2>9. \A pt \in Scheduled' : Finds'[pt] \in 0 .. Plenty
    BY <2>3, <2>4, <2>7, <2>8 DEF HitInv
  <2>10. Plenty \in Nat
    BY ReplayAssumption DEF Plenty
  <2>11. Blocks' = Blocks + Found(p)
    <3>1. Dots(Finds', Scheduled, Plenty) = Dots(Finds, Scheduled, Plenty)
      BY <2>8 DEF Dots
    <3>2. Cardinality(Dots(Finds', Scheduled \cup {x}, Plenty))
            = Cardinality(Dots(Finds', Scheduled, Plenty)) + Finds'[x]
      <4> DEFINE f == Finds'
                 S == Scheduled
      <4>1. IsFiniteSet(S) /\ x \notin S /\ f[x] \in 0 .. Plenty
        BY <1>3, <2>3, <2>4, <2>7
      <4> HIDE DEF f, S
      <4>2. Cardinality(Dots(f, S \cup {x}, Plenty)) = Cardinality(Dots(f, S, Plenty)) + f[x]
        BY <2>10, <4>1, DotsAdd
      <4> QED
        BY <4>2 DEF f, S
    <3>3. Blocks' = Cardinality(Dots(Finds', Scheduled \cup {x}, Plenty))
      BY <2>3 DEF Blocks, Plenty
    <3> QED
      BY <2>7, <3>1, <3>2, <3>3 DEF Blocks
  <2> QED
    BY <1>2, <2>1, <2>9, <2>11 DEF HitInv, Plenty
<1>7. CASE Answer(p) \/ Attempt(p)
  <2>1. /\ (at[p] = "scheduled" /\ at'[p] = "answered" /\ hitBlocks' = hitBlocks /\ requeries' = requeries)
           \/ (at' = at /\ requeries' = requeries - 1)
        /\ future' = future /\ hits' = hits
    BY <1>3, <1>7 DEF Answer, Attempt, Goto, replay
  <2>2. Reached(p)' = Reached(p)
    BY <1>1, <2>1 DEF Reached, Recorded
  <2>3. Scheduled' = Scheduled
    BY <1>1, <1>4, <2>2, SameReached
  <2>4. Blocks' = Blocks
    BY <1>5, <2>1, <2>3 DEF Blocks, Plenty
  <2>5. requeries' = Requeries => requeries = Requeries /\ hitBlocks' = hitBlocks
    BY <1>3, <2>1
  <2> QED
    BY <1>2, <1>5, <2>1, <2>3, <2>4, <2>5 DEF HitInv, Plenty
<1>8. CASE Preempt(p) \/ Fail(p)
  <2>1. /\ at'[p] \in {"waiting", "done"} /\ hits' = hits
        /\ (future' = future /\ at'[p] = "waiting") \/ (future'[p] = "failed" /\ at'[p] = "done")
    BY <1>3, <1>8 DEF Preempt, Fail, Goto
  <2>2. requeries' # Requeries \/ future'[p] = "failed"
    <3>1. ASSUME Preempt(p) PROVE requeries' # Requeries
      <4>1. requeries' = requeries - 1
        BY <3>1 DEF Preempt
      <4> QED
        BY <1>3, <4>1
    <3>2. ASSUME Fail(p) PROVE future'[p] = "failed"
      BY <1>3, <3>2 DEF Fail
    <3> QED
      BY <1>8, <3>1, <3>2
  <2>3. Reached(p)' = turn[p] - 1
    BY <1>1, <2>1 DEF Reached, Recorded
  <2>4. Reached(p) \in {turn[p], turn[p] - 1}
    BY <1>1 DEF Reached, Recorded
  <2>5. Scheduled' \in SUBSET Scheduled
    <3>1. CASE Reached(p) = turn[p]
      <4>1. Scheduled = Scheduled' \cup {<<p, turn[p]>>}
        BY <1>1, <1>4, <2>3, <3>1, OtherReached
      <4> QED
        BY <4>1
    <3>2. CASE Reached(p) = turn[p] - 1
      <4>1. Scheduled' = Scheduled
        BY <1>1, <1>4, <2>3, <3>2, SameReached
      <4> QED
        BY <4>1
    <3> QED
      BY <2>4, <3>1, <3>2
  <2> QED
    BY <1>2, <1>5, <2>1, <2>2, <2>5 DEF HitInv, Plenty
<1> QED
  BY <1>6, <1>7, <1>8

\* Whatever else happens leaves the counters and what the server was asked for.
LEMMA CountElse ==
  ASSUME FromGenerator, ThreadInv, CountInv, HitInv, [Next]_vars, ~ServerStep
  PROVE  CountInv' /\ HitInv'
<1>1. /\ generated' = generated /\ queries' = queries /\ requeries' = requeries
      /\ hits' = hits /\ hitBlocks' = hitBlocks
  BY DEF Next, ThreadStep, MainStep, Ended, Take, Post, Record, WakeUp, NextTurn, Consume, Raise, Leave,
         Simulate, Write, SimTurn, SimPreempt, vars, server
<1>2. N' = N
  BY <1>1, SamePrompts
<1>3. /\ at \in [1 .. N -> Places] /\ future \in [1 .. N -> Futures] /\ turn \in [1 .. N -> Nat]
      /\ \A q \in 1 .. N : ThreadOK(q) /\ turn[q] \in Nat \ {0}
  BY ThreadFacts DEF ThreadInv, Places, Futures
<1>4. ASSUME NEW q \in 1 .. N
      PROVE  Reached(q)' = Reached(q) /\ (future[q] = "failed" => future'[q] = "failed")
  <2>1. CASE ThreadStep
    <3>1. PICK p \in 1 .. N : Take(p) \/ Post(p) \/ Record(p) \/ WakeUp(p) \/ NextTurn(p)
      BY <2>1 DEF ThreadStep
    <3>2. CASE q # p
      <4>1. at'[q] = at[q] /\ future'[q] = future[q] /\ turn'[q] = turn[q]
        BY <1>3, <3>1, <3>2 DEF Take, Post, Record, WakeUp, NextTurn, Goto, replay
      <4> QED
        BY <4>1 DEF Reached, Recorded
    <3>3. CASE q = p /\ Take(p)
      BY <1>3, <3>3 DEF Take, Reached, Recorded
    <3>4. CASE q = p /\ (Post(p) \/ WakeUp(p))
      <4>1. /\ (at[q] = "build" /\ at'[q] = "waiting") \/ (at[q] = "asleep" /\ at'[q] = "awake")
            /\ future' = future /\ turn' = turn
        BY <1>3, <3>4 DEF Post, WakeUp, Goto
      <4> QED
        BY <4>1 DEF Reached, Recorded
    <3>5. CASE q = p /\ Record(p)
      <4>1. /\ at[q] = "answered" /\ at'[q] \in {"asleep", "awake"}
            /\ future' = future /\ turn' = turn
        BY <1>3, <3>5 DEF Record, Goto
      <4> QED
        BY <4>1 DEF Reached, Recorded
    <3>6. CASE q = p /\ NextTurn(p)
      <4>1. at[q] = "awake" /\ future[q] = "running"
        BY <1>3, <3>6 DEF NextTurn, ThreadOK
      <4>2. \/ at'[q] = "build" /\ turn'[q] = turn[q] + 1 /\ future'[q] = "running"
            \/ at'[q] = "done" /\ turn'[q] = turn[q] /\ future'[q] = "ok"
        BY <1>3, <3>6, <4>1 DEF NextTurn, Goto
      <4> QED
        BY <1>3, <4>1, <4>2 DEF Reached, Recorded
    <3> QED
      BY <3>1, <3>2, <3>3, <3>4, <3>5, <3>6
  <2>2. CASE MainStep
    <3>1. at' = at /\ turn' = turn
      BY <2>2 DEF MainStep, Consume, Raise, Leave, Simulate, Write, SimTurn, SimPreempt, replay
    <3>2. \/ future'[q] = future[q]
          \/ future[q] = "pending" /\ future'[q] = "cancelled"
      BY <1>3, <2>2 DEF MainStep, Consume, Raise, Leave, Simulate, Write, SimTurn, SimPreempt, replay
    <3> QED
      BY <3>1, <3>2 DEF Reached, Recorded
  <2>3. CASE UNCHANGED vars
    BY <2>3 DEF vars, replay, Reached, Recorded
  <2> QED
    BY <2>1, <2>2, <2>3 DEF Next, Ended
<1>5. Scheduled' = Scheduled /\ Tokens' = Tokens
  BY <1>1, <1>4, SameReached
<1>6. Finds' = Finds /\ Blocks' = Blocks
  BY <1>1, <1>2, <1>5 DEF Finds, Blocks, Plenty
<1> QED
  BY <1>1, <1>2, <1>4, <1>5, <1>6 DEF CountInv, HitInv, Plenty

LEMMA CountInductive == ASSUME FromGenerator, SharedBlocks > 0 PROVE Spec => [](CountInv /\ HitInv)
<1>1. Init => CountInv /\ HitInv
  BY InitCount
<1>2. ReplayInv /\ CountInv /\ HitInv /\ [Next]_vars => CountInv' /\ HitInv'
  <2> SUFFICES ASSUME ReplayInv, CountInv, HitInv, [Next]_vars PROVE CountInv' /\ HitInv'
    OBVIOUS
  <2>1. CASE ServerStep
    BY <2>1, CountServer, HitServer DEF ServerStep, ReplayInv
  <2>2. CASE ~ServerStep
    BY <2>2, CountElse DEF ReplayInv
  <2> QED
    BY <2>1, <2>2
<1> QED
  BY <1>1, <1>2, ReplayInductive, PTL DEF Spec

\* The answers the report sums over are the turns the server was asked for.
LEMMA AnswersServed ==
  ASSUME FromGenerator, ThreadInv, \A p \in 1 .. N : future[p] = "ok"
  PROVE  /\ Answers = Scheduled
         /\ \A pt \in Answers : /\ pt \in (1 .. N) \X (Nat \ {0}) /\ pt[1] \in 1 .. N
                                /\ pt[2] \in 1 .. Len(Turns(pt[1])) /\ records[pt[1]][pt[2]] = pt[2]
<1> DEFINE S == Answers
<1>1. ASSUME NEW p \in 1 .. N
      PROVE  /\ records[p] = [t \in 1 .. turn[p] |-> t] /\ turn[p] \in Nat \ {0}
             /\ Reached(p) = turn[p] /\ turn[p] \in 1 .. Len(Turns(p)) /\ Len(records[p]) = turn[p]
  <2>1. ThreadOK(p) /\ turn[p] \in 1 .. Len(Turns(p)) /\ Len(Turns(p)) \in Nat
    BY ThreadFacts
  <2>2. records[p] = [t \in 1 .. turn[p] |-> t]
    BY <2>1 DEF ThreadOK, Recorded
  <2>3. turn[p] \in Nat \ {0}
    BY <2>1
  <2> QED
    BY <2>1, <2>2, <2>3 DEF Reached, Recorded
<1>2. S = Scheduled
  <2>0. ASSUME NEW p \in 1 .. N, NEW t PROVE t \in 1 .. turn[p] <=> t \in Nat \ {0} /\ t <= Reached(p)
    <3>1. Reached(p) = turn[p] /\ turn[p] \in Nat
      BY <1>1
    <3>2. ASSUME NEW n \in Nat PROVE t \in 1 .. n <=> t \in Nat \ {0} /\ t <= n
      OBVIOUS
    <3> QED
      BY <3>1, <3>2
  <2>1. ASSUME NEW pt \in S PROVE pt \in Scheduled
    <3>1. PICK p \in 1 .. N : \E i \in 1 .. Len(records[p]) : pt = <<p, i>>
      BY DEF Answers
    <3> QED
      <4>1. PICK i \in 1 .. Len(records[p]) : pt = <<p, i>>
        BY <3>1
      <4>2. i \in 1 .. turn[p]
        BY <1>1
      <4>3. i \in Nat \ {0} /\ i <= Reached(p)
        BY <2>0, <4>2
      <4> QED
        BY <4>1, <4>3 DEF Scheduled
  <2>2. ASSUME NEW pt \in Scheduled PROVE pt \in S
    <3>1. /\ pt = <<pt[1], pt[2]>> /\ pt[1] \in 1 .. N /\ pt[2] \in Nat \ {0} /\ pt[2] <= Reached(pt[1])
      BY DEF Scheduled
    <3>2. pt[2] \in 1 .. Len(records[pt[1]])
      BY <1>1, <2>0, <3>1
    <3> QED
      BY <3>1, <3>2 DEF Answers
  <2> HIDE DEF S
  <2> QED
    BY <2>1, <2>2
<1> HIDE DEF S
<1>3. ASSUME NEW pt \in S
      PROVE  /\ pt \in (1 .. N) \X (Nat \ {0}) /\ pt[1] \in 1 .. N
             /\ pt[2] \in 1 .. Len(Turns(pt[1])) /\ records[pt[1]][pt[2]] = pt[2]
  <2>1. /\ pt[1] \in 1 .. N /\ pt[2] \in Nat \ {0} /\ pt \in (1 .. N) \X (Nat \ {0})
        /\ pt[2] <= Reached(pt[1])
    BY <1>2 DEF Scheduled
  <2>2. pt[2] \in 1 .. turn[pt[1]] /\ pt[2] \in 1 .. Len(Turns(pt[1]))
    <3>1. Len(Turns(pt[1])) \in Nat
      BY <2>1, ThreadFacts
    <3> DEFINE a == pt[1]
               b == pt[2]
    <3>2. a \in 1 .. N /\ b \in Nat \ {0} /\ b <= turn[a] /\ turn[a] \in 1 .. Len(Turns(a))
      BY <1>1, <2>1
    <3>3. Len(Turns(a)) \in Nat
      BY <3>1
    <3> HIDE DEF a, b
    <3>4. b \in 1 .. turn[a] /\ b \in 1 .. Len(Turns(a))
      BY <3>2, <3>3
    <3> QED
      BY <3>4 DEF a, b
  <2>3. records[pt[1]][pt[2]] = pt[2]
    BY <1>1, <2>1, <2>2
  <2> QED
    BY <2>1, <2>2, <2>3
<1> QED
  BY <1>2, <1>3 DEF S

\* What the report sums over the records is what the server was asked for.
LEMMA ActualIsCounted ==
  ASSUME FromGenerator, ThreadInv, CountInv, \A p \in 1 .. N : future[p] = "ok"
  PROVE  ActualTokens = Tokens
<1> DEFINE S == Answers
           f == [pt \in S |-> Turns(pt[1])[records[pt[1]][pt[2]]].prompt]
<1>1. /\ S = Scheduled
      /\ \A pt \in S : /\ pt \in (1 .. N) \X (Nat \ {0}) /\ pt[1] \in 1 .. N
                       /\ pt[2] \in 1 .. Len(Turns(pt[1])) /\ records[pt[1]][pt[2]] = pt[2]
  BY AnswersServed
<1> HIDE DEF S
<1>2. Limit \in Nat /\ Plenty \in Nat
  BY ReplayAssumption DEF Plenty
<1>3. ASSUME NEW pt \in S PROVE f[pt] = Prompts[pt] /\ f[pt] \in 0 .. Limit
  <2>1. f[pt] = Turns(pt[1])[pt[2]].prompt
    BY <1>1
  <2>2. Turns(pt[1])[pt[2]].prompt \in 0 .. Limit
    BY <1>1, <1>2, TurnsGrow DEF ThreadInv
  <2> QED
    BY <1>1, <2>1, <2>2 DEF Prompts
<1>4. f \in [S -> 0 .. Limit] /\ IsFiniteSet(S)
  <2>1. IsFiniteSet(S)
    BY <1>1 DEF CountInv
  <2>2. f = [pt \in S |-> f[pt]]
    OBVIOUS
  <2> HIDE DEF f
  <2> QED
    BY <1>3, <2>1, <2>2
<1>5. Dots(f, S, Limit) = Dots(Prompts, Scheduled, Limit)
  <2> HIDE DEF f
  <2> QED
    BY <1>1, <1>3 DEF Dots
<1> DEFINE Step(g) == g = [s \in SUBSET S |->
                     IF s = {} THEN 0
                     ELSE Turns((CHOOSE x \in s : TRUE)[1])[records[(CHOOSE x \in s : TRUE)[1]][(CHOOSE x \in s : TRUE)[2]]].prompt
                            + g[s \ {CHOOSE x \in s : TRUE}]]
           iter == CHOOSE g : Step(g)
<1>6. ActualTokens = iter[S]
  BY DEF ActualTokens, MapThenSumSet, MapThenFoldSet, S
<1>7. IsSum(iter, f, S)
  <2>1. \A g : IsSum(g, f, S) <=> Step(g)
    <3>1. \A s \in SUBSET S : s # {} => (CHOOSE x \in s : TRUE) \in S
      OBVIOUS
    <3>2. \A s \in SUBSET S : s # {} => f[CHOOSE x \in s : TRUE] =
            Turns((CHOOSE x \in s : TRUE)[1])[records[(CHOOSE x \in s : TRUE)[1]][(CHOOSE x \in s : TRUE)[2]]].prompt
      BY <3>1
    <3> HIDE DEF f
    <3> QED
      BY <3>2 DEF IsSum
  <2>2. \E g : IsSum(g, f, S)
    <3> HIDE DEF f
    <3> QED
      BY <1>2, <1>4, SumsExist
  <2> HIDE DEF f, Step
  <2>3. Step(iter)
    BY <2>1, <2>2
  <2> HIDE DEF iter
  <2> QED
    BY <2>1, <2>3
<1>8. iter[S] = Cardinality(Dots(f, S, Limit))
  <2> HIDE DEF iter, f
  <2> QED
    BY <1>2, <1>4, <1>7, SumIsDots
<1> HIDE DEF iter, f
<1> QED
  BY <1>5, <1>6, <1>8 DEF Tokens

\* What the server found for the answers is what its counter holds of them.
LEMMA FoundIsCounted ==
  ASSUME FromGenerator, ThreadInv, CountInv, HitInv, \A p \in 1 .. N : future[p] = "ok"
  PROVE  FoundBlocks = Blocks
<1> DEFINE S == Answers
           f == [pt \in S |-> hits[pt[1]][records[pt[1]][pt[2]]]]
<1>1. /\ S = Scheduled
      /\ \A pt \in S : /\ pt \in (1 .. N) \X (Nat \ {0}) /\ pt[1] \in 1 .. N
                       /\ pt[2] \in 1 .. Len(Turns(pt[1])) /\ records[pt[1]][pt[2]] = pt[2]
  BY AnswersServed
<1> HIDE DEF S
<1>2. Limit \in Nat /\ Plenty \in Nat
  BY ReplayAssumption DEF Plenty
<1>3. ASSUME NEW pt \in S PROVE f[pt] = Finds[pt] /\ f[pt] \in 0 .. Plenty
  <2>1. f[pt] = hits[pt[1]][pt[2]]
    BY <1>1
  <2>2. f[pt] = Finds[pt]
    BY <1>1, <2>1 DEF Finds
  <2> QED
    BY <1>1, <2>2 DEF HitInv
<1>4. f \in [S -> 0 .. Plenty] /\ IsFiniteSet(S)
  <2>1. IsFiniteSet(S)
    BY <1>1 DEF CountInv
  <2>2. f = [pt \in S |-> f[pt]]
    OBVIOUS
  <2> HIDE DEF f
  <2> QED
    BY <1>3, <2>1, <2>2
<1>5. Dots(f, S, Plenty) = Dots(Finds, Scheduled, Plenty)
  <2> HIDE DEF f
  <2> QED
    BY <1>1, <1>3 DEF Dots
<1> DEFINE Step(g) == g = [s \in SUBSET S |->
                     IF s = {} THEN 0
                     ELSE hits[(CHOOSE x \in s : TRUE)[1]][records[(CHOOSE x \in s : TRUE)[1]][(CHOOSE x \in s : TRUE)[2]]]
                            + g[s \ {CHOOSE x \in s : TRUE}]]
           iter == CHOOSE g : Step(g)
<1>6. FoundBlocks = iter[S]
  BY DEF FoundBlocks, MapThenSumSet, MapThenFoldSet, S
<1>7. IsSum(iter, f, S)
  <2>1. \A g : IsSum(g, f, S) <=> Step(g)
    <3>1. \A s \in SUBSET S : s # {} => (CHOOSE x \in s : TRUE) \in S
      OBVIOUS
    <3>2. \A s \in SUBSET S : s # {} => f[CHOOSE x \in s : TRUE] =
            hits[(CHOOSE x \in s : TRUE)[1]][records[(CHOOSE x \in s : TRUE)[1]][(CHOOSE x \in s : TRUE)[2]]]
      BY <3>1
    <3> HIDE DEF f
    <3> QED
      BY <3>2 DEF IsSum
  <2>2. \E g : IsSum(g, f, S)
    <3> HIDE DEF f
    <3> QED
      BY <1>2, <1>4, SumsExist
  <2> HIDE DEF f, Step
  <2>3. Step(iter)
    BY <2>1, <2>2
  <2> HIDE DEF iter
  <2> QED
    BY <2>1, <2>3
<1>8. iter[S] = Cardinality(Dots(f, S, Plenty))
  <2> HIDE DEF iter, f
  <2> QED
    BY <1>2, <1>4, <1>7, SumIsDots
<1> HIDE DEF iter, f
<1> QED
  BY <1>5, <1>6, <1>8 DEF Blocks

\* What the report says of inflation is known of the server as well.
LEMMA CountTold ==
  ASSUME FromGenerator, ReplayInv, CountInv, HitInv, phase = "written"
  PROVE  /\ queries = ActualTokens <=> requeries = Requeries
         /\ requeries = Requeries => hitBlocks = FoundBlocks
<1>1. \A p \in 1 .. N : future[p] = "ok"
  BY DEF ReplayInv, ThreadInv, MainOK
<1>2. ActualTokens = Tokens
  BY <1>1, ActualIsCounted DEF ReplayInv
<1>3. FoundBlocks = Blocks
  BY <1>1, FoundIsCounted DEF ReplayInv
<1> QED
  BY <1>1, <1>2, <1>3 DEF CountInv, HitInv

\* The report's inflation is one exactly when the server tried every prompt once:
\* the counter the script reads is the sum of the prompts it recorded, no answer
\* is missing from the records, and an attempt that admits nothing counts like
\* one that is preempted; the counter of hits is then the sum of what each answer
\* found when it was admitted (main of validate_vs_vllm.py; with an empty prompt
\* a second attempt would go unnoticed).
THEOREM InflationTold == ASSUME FromGenerator, SharedBlocks > 0 PROVE Spec => []InflationExact
<1>1. ReplayInv /\ CountInv /\ HitInv => InflationExact
  BY CountTold DEF InflationExact
<1> QED
  BY <1>1, ReplayInductive, CountInductive, PTL

\* In a report whose inflation is one on both sides the server's hits of a turn
\* are within the simulator's: what it finds is the prompt of the turn before,
\* the simulator finds its output as well (build_prompt_ids against the content
\* chain of the engine).  Without the inflation it is not so: a request tried
\* again finds what its own first attempt computed.
THEOREM HitsWithin == ASSUME FromGenerator, SharedBlocks > 0 PROVE Spec => []HitsWithinSimulator
<1>1. ReplayInv /\ CountInv /\ HitInv => HitsWithinSimulator
  <2> SUFFICES ASSUME ReplayInv, CountInv, HitInv, phase = "written", queries = ActualTokens, simPreempted = 0,
                      NEW h \in simTurns, NEW p \in 1 .. N, Sessions[p].id = h[1]
               PROVE  hits[p][h[2]] <= IF h[2] = 1 THEN SharedBlocks ELSE h[3]
    BY DEF HitsWithinSimulator
  <2>0. generated \in Generated
    BY DEF ReplayInv, ThreadInv
  <2>1. PICK q \in 1 .. N : \E t \in 1 .. Len(Turns(q)) :
          /\ h[1] = Sessions[q].id /\ h[2] = t
          /\ t > 1 => h[3] = (Turns(q)[t - 1].prompt + Turns(q)[t - 1].output) \div BlockSize
    BY DEF ReplayInv, SimInv, ServedOK
  <2>2. q = p
    BY <2>0, <2>1, SessionsFacts
  <2>3. PICK t \in 1 .. Len(Turns(p)) :
          h[2] = t /\ (t > 1 => h[3] = (Turns(p)[t - 1].prompt + Turns(p)[t - 1].output) \div BlockSize)
    BY <2>1, <2>2
  <2>8. requeries = Requeries
    BY CountTold
  <2>4. future[p] = "ok" /\ turn[p] = Len(Turns(p)) /\ Len(Turns(p)) \in Nat
    BY <2>0, SessionsFacts DEF ReplayInv, ThreadInv, MainOK, ThreadOK
  <2>5. t \in 1 .. Len(hits[p]) /\ hits[p][t] <= Most(p, t) /\ hits[p] \in Seq(Nat)
    BY <2>4, <2>8 DEF ReplayInv, ServerInv, HitsOK
  <2>6. CASE t = 1
    BY <2>3, <2>5, <2>6 DEF Most
  <2>7. CASE t # 1
    <3>1. t - 1 \in 1 .. Len(Turns(p)) /\ t > 1
      BY <2>4, <2>7
    <3> DEFINE a == Turns(p)[t - 1].prompt
               b == Turns(p)[t - 1].prompt + Turns(p)[t - 1].output
    <3>2. a \in Nat /\ b \in Nat /\ a <= b
      BY <2>0, <3>1, TurnsGrow
    <3>3. Most(p, t) = a \div BlockSize /\ h[3] = b \div BlockSize
      BY <2>3, <2>7, <3>1 DEF Most
    <3> HIDE DEF a, b
    <3>4. BlockSize \in Nat \ {0}
      BY ReplayAssumption
    <3>5. a \div BlockSize <= b \div BlockSize /\ a \div BlockSize \in Nat
      BY <3>2, <3>4, DivMonotone
    <3>6. b \div BlockSize \in Nat
      BY <3>2, <3>4, DivMonotone
    <3>7. hits[p][t] \in Nat
      BY <2>5
    <3>8. hits[p][t] <= h[3]
      <4>1. \A x, y, z \in Nat : x <= y /\ y <= z => x <= z
        OBVIOUS
      <4>2. hits[p][t] <= a \div BlockSize
        BY <2>5, <3>3
      <4> QED
        BY <3>3, <3>5, <3>6, <3>7, <4>1, <4>2
    <3> QED
      BY <2>3, <2>7, <3>8
  <2> QED
    BY <2>6, <2>7
<1> QED
  BY <1>1, ReplayInductive, CountInductive, PTL
=============================================================================
