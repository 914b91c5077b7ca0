---------------------------- MODULE StudyProofs ----------------------------
(***************************************************************************)
(* Theorems about Study, for every grid, number of workers and number of   *)
(* runs and kills: every job is run once, the files of the directory are   *)
(* of runs in their order, a calibration keeps the sample closest to its   *)
(* target, a headroom is the point of its interval, and a whole grid is    *)
(* reported.                                                               *)
(***************************************************************************)
EXTENDS Study, FiniteSetTheorems, TLAPS

\* Two jobs of a grid differ in what run_job copies into the row.
Distinct(grid) ==
  \A i, j \in grid :
    i.point = j.point /\ i.policy = j.policy /\ i.ttl = j.ttl /\ i.seed = j.seed => i = j

\* The values a job of a grid may have in its fields.
Within(grid, P, A, T, S) ==
  \A j \in grid : j.point \in P /\ j.policy \in A /\ j.ttl \in T /\ j.seed \in S

DistinctJobs ==
  \A e \in Exps, some \in SeedSets : \A found :
    IsFiniteSet(Grid(e, some, found)) /\ Distinct(Grid(e, some, found))

\* A set of numbers below a bound has a least one.
LEMMA LeastBelow ==
  ASSUME NEW n \in Nat, NEW S \in SUBSET (0 .. n), S # {}
  PROVE  \E m \in S : \A i \in S : m <= i
<1> DEFINE All == 0 .. n
           Downs == {0 .. m : m \in S}
<1>1. IsFiniteSet(All)
  BY FS_Interval
<1>2. IsWellFoundedOn(StrictSubsetOrdering(All), SUBSET All)
  BY <1>1, FS_FiniteSubsetsOfFinite, FS_StrictSubsetOrderingWellFounded
<1>3. Downs \subseteq SUBSET All
  OBVIOUS
<1>4. PICK D \in Downs : TRUE
  OBVIOUS
<1> HIDE DEF Downs, All
<1>5. PICK M \in Downs : \A T \in Downs : ~(<<T, M>> \in StrictSubsetOrdering(All))
  BY <1>2, <1>3, <1>4, WFMin
<1> USE DEF Downs, All
<1>6. PICK m \in S : M = 0 .. m
  OBVIOUS
<1>7. ASSUME NEW i \in S, ~(m <= i)
      PROVE  FALSE
  <2>1. 0 .. i \in Downs
    OBVIOUS
  <2>2. /\ 0 .. i \subseteq M /\ 0 .. i # M
        /\ M \in SUBSET All /\ 0 .. i \in SUBSET All
    BY <1>6, <1>7
  <2> QED
    BY <1>5, <2>1, <2>2 DEF StrictSubsetOrdering
<1> QED
  BY <1>7

LEMMA LeastOf ==
  ASSUME NEW S \in SUBSET Nat, S # {}
  PROVE  \E m \in S : \A i \in S : m <= i
<1>1. PICK n \in S : TRUE
  OBVIOUS
<1>2. PICK m \in S \cap (0 .. n) : \A i \in S \cap (0 .. n) : m <= i
  <2>1. S \cap (0 .. n) \in SUBSET (0 .. n) /\ S \cap (0 .. n) # {} /\ n \in Nat
    OBVIOUS
  <2> QED
    BY <2>1, LeastBelow
<1>3. \A i \in S : m <= i
  BY <1>2
<1> QED
  BY <1>2, <1>3

(***************************************************************************)
(* The grids of the five experiments                                       *)
(***************************************************************************)

\* A set of jobs that differ in their rows is finite when each field has
\* finitely many values.
LEMMA JobsFinite ==
  ASSUME NEW J, NEW P, NEW A, NEW T, NEW S, Distinct(J), Within(J, P, A, T, S),
         IsFiniteSet(P), IsFiniteSet(A), IsFiniteSet(T), IsFiniteSet(S)
  PROVE  IsFiniteSet(J)
<1> DEFINE D == (P \X A) \X (T \X S)
           f == [j \in J |-> <<<<j.point, j.policy>>, <<j.ttl, j.seed>>>>]
<1>1. IsFiniteSet(P \X A) /\ IsFiniteSet(T \X S)
  BY FS_Product
<1>2. IsFiniteSet(D)
  BY <1>1, FS_Product
<1>3. f \in Injection(J, D)
  <2>1. f \in [J -> D]
    BY DEF Within
  <2>2. \A i, j \in J : f[i] = f[j] => i = j
    BY DEF Distinct
  <2> QED
    BY <2>1, <2>2 DEF Injection, IsInjective
<1> QED
  BY <1>2, <1>3, FS_Injection

LEMMA FourOf ==
  ASSUME NEW a, NEW b, NEW c, NEW d
  PROVE  IsFiniteSet({a, b, c, d})
<1>1. IsFiniteSet({a} \cup {b}) /\ IsFiniteSet({c} \cup {d})
  BY FS_Singleton, FS_Union
<1>2. IsFiniteSet(({a} \cup {b}) \cup ({c} \cup {d}))
  BY <1>1, FS_Union
<1>3. {a, b, c, d} = ({a} \cup {b}) \cup ({c} \cup {d})
  OBVIOUS
<1> QED
  BY <1>2, <1>3

\* The names of the policies.
Policies == {"lru", "ttl_oracle", "oracle_terminal", "belady"}
              \cup {"const_ttl", "belady_pause", "predict", "predict_guarded"}
              \cup {"predict_terminal"}

LEMMA PoliciesFinite == IsFiniteSet(Policies)
<1> DEFINE A == {"lru", "ttl_oracle", "oracle_terminal", "belady"}
           B == {"const_ttl", "belady_pause", "predict", "predict_guarded"}
           C == {"predict_terminal"}
<1>1. IsFiniteSet(A) /\ IsFiniteSet(B) /\ IsFiniteSet(C)
  BY FourOf, FS_Singleton
<1>2. IsFiniteSet((A \cup B) \cup C)
  <2> HIDE DEF A, B, C
  <2>1. IsFiniteSet(A \cup B)
    BY <1>1, FS_Union
  <2> QED
    BY <1>1, <2>1, FS_Union
<1> QED
  BY <1>2 DEF Policies

LEMMA ZeroFinite == IsFiniteSet({0})
  BY FS_Singleton

LEMMA TriplesFinite ==
  ASSUME NEW S, NEW T, NEW U, IsFiniteSet(S), IsFiniteSet(T), IsFiniteSet(U)
  PROVE  IsFiniteSet(S \X T \X U)
<1> DEFINE D == (S \X T) \X U
           f == [x \in S \X T \X U |-> <<<<x[1], x[2]>>, x[3]>>]
<1>1. IsFiniteSet(D)
  <2>1. IsFiniteSet(S \X T)
    BY FS_Product
  <2> QED
    BY <2>1, FS_Product
<1>2. f \in Injection(S \X T \X U, D)
  <2>1. f \in [S \X T \X U -> D]
    OBVIOUS
  <2>2. \A x, y \in S \X T \X U : f[x] = f[y] => x = y
    OBVIOUS
  <2> QED
    BY <2>1, <2>2 DEF Injection, IsInjective
<1> HIDE DEF f, D
<1> QED
  BY <1>1, <1>2, FS_Injection

\* Every experiment asks for finitely many runs that differ in their rows
\* (the job lists of exp01 .. exp05), so that the grids of Study are as
\* DistinctJobs says.
LEMMA Exp01Distinct ==
  ASSUME NEW some, NEW concs, NEW pauses, NEW base, NEW conc, NEW only,
         \A S \in {some, concs, pauses, ConstTtls} : IsFiniteSet(S)
  PROVE  LET G == Exp01Jobs(some, concs, pauses, base, conc, only)
         IN  IsFiniteSet(G) /\ Distinct(G)
<1> DEFINE P == {"concurrency"} \X concs \X {base}
           Q == {"pause"} \X {conc} \X pauses
           T == ConstTtls \cup {0}
           G == Exp01Jobs(some, concs, pauses, base, conc, only)
<1>1. Distinct(G)
  BY DEF Distinct, Exp01Jobs, Job
<1>2. Within(G, P \cup Q, Policies, T, some)
  BY DEF Exp01Jobs, Job, Arms, Policies, Within
<1>3. IsFiniteSet(P) /\ IsFiniteSet(Q) /\ IsFiniteSet(T)
  BY FS_Singleton, FS_Union, TriplesFinite
<1>4. IsFiniteSet(P \cup Q)
  BY <1>3, FS_Union
<1> HIDE DEF P, Q, T, G
<1>5. IsFiniteSet(G)
  BY <1>1, <1>2, <1>3, <1>4, PoliciesFinite, JobsFinite
<1> QED
  BY <1>1, <1>5 DEF G

LEMMA Exp02Distinct ==
  ASSUME NEW some, NEW conditions, IsFiniteSet(some), IsFiniteSet(conditions)
  PROVE  LET G == Exp02Jobs(some, conditions)
         IN  IsFiniteSet(G) /\ Distinct(G)
<1> DEFINE G == Exp02Jobs(some, conditions)
<1>1. Distinct(G)
  BY DEF Distinct, Exp02Jobs, Job
<1>2. Within(G, conditions, Policies, {0}, some)
  BY DEF Exp02Jobs, Job, Policies, Within
<1> HIDE DEF G
<1>3. IsFiniteSet(G)
  BY <1>1, <1>2, PoliciesFinite, ZeroFinite, JobsFinite
<1> QED
  BY <1>1, <1>3 DEF G

LEMMA Exp03Distinct ==
  ASSUME NEW some, NEW found, IsFiniteSet(some), IsFiniteSet(PauseGrid)
  PROVE  LET G == Exp03Jobs(some, found)
         IN  IsFiniteSet(G) /\ Distinct(G)
<1> DEFINE G == Exp03Jobs(some, found)
           loops == {"closed"} \cup {"open_matched"}
           P == loops \X PauseGrid
<1>1. \A j \in G : \E w \in PauseGrid, a \in {"lru", "oracle_terminal", "belady"}, s \in some :
         \/ j = [point |-> <<"closed", w>>, policy |-> a, ttl |-> 0, seed |-> s, rate |-> None]
         \/ j = [point |-> <<"open_matched", w>>, policy |-> a, ttl |-> 0, seed |-> s, rate |-> found[w]]
  BY DEF Exp03Jobs, Job
<1>2. Distinct(G)
  BY <1>1 DEF Distinct
<1>3. Within(G, P, Policies, {0}, some)
  BY <1>1 DEF Policies, Within
<1>4. IsFiniteSet(loops)
  BY FS_Singleton, FS_Union
<1>5. IsFiniteSet(P)
  <2> HIDE DEF loops
  <2> QED
    BY <1>4, FS_Product
<1> HIDE DEF G, P
<1>6. IsFiniteSet(G)
  BY <1>2, <1>3, <1>5, PoliciesFinite, ZeroFinite, JobsFinite
<1> QED
  BY <1>2, <1>6 DEF G

LEMMA Exp04Distinct ==
  ASSUME NEW some, IsFiniteSet(some), IsFiniteSet(Signals)
  PROVE  IsFiniteSet(Exp04Jobs(some)) /\ Distinct(Exp04Jobs(some))
<1> DEFINE G == Exp04Jobs(some)
           P == {<<g>> : g \in Signals}
           f == [p \in P |-> p[1]]
<1>1. Distinct(G)
  BY DEF Distinct, Exp04Jobs, Job
<1>2. Within(G, P, Policies, {0}, some)
  BY DEF Exp04Jobs, Job, Policies, Within
<1>3. IsFiniteSet(P)
  <2>1. f \in Injection(P, Signals)
    BY DEF Injection, IsInjective
  <2> HIDE DEF f, P
  <2> QED
    BY <2>1, FS_Injection
<1> HIDE DEF G, P
<1>4. IsFiniteSet(G)
  BY <1>1, <1>2, <1>3, PoliciesFinite, ZeroFinite, JobsFinite
<1> QED
  BY <1>1, <1>4 DEF G

LEMMA Exp05Distinct ==
  ASSUME NEW some, IsFiniteSet(some), IsFiniteSet(Signals), IsFiniteSet(Thresholds)
  PROVE  IsFiniteSet(Exp05Jobs(some)) /\ Distinct(Exp05Jobs(some))
<1> DEFINE G == Exp05Jobs(some)
           marks == Thresholds \cup {-1}
           P == Signals \X marks
<1>1. Distinct(G)
  BY DEF Distinct, Exp05Jobs, Job
<1>2. Within(G, P, Policies, {0}, some)
  BY DEF Exp05Jobs, Job, Policies, Within
<1>3. IsFiniteSet(marks)
  BY FS_Singleton, FS_Union
<1>4. IsFiniteSet(P)
  <2> HIDE DEF marks
  <2> QED
    BY <1>3, FS_Product
<1> HIDE DEF G, P
<1>5. IsFiniteSet(G)
  BY <1>1, <1>2, <1>4, PoliciesFinite, ZeroFinite, JobsFinite
<1> QED
  BY <1>1, <1>5 DEF G

(***************************************************************************)
(* The calibration of exp03                                                *)
(***************************************************************************)

Samples == [rate : Seq(Int \X Int), live : Lives]

LEMMA MinIn ==
  ASSUME NEW S \in SUBSET Nat, S # {}
  PROVE  Min(S) \in S
  BY LeastOf DEF Min

LEMMA DistanceType ==
  ASSUME NEW live \in Lives
  PROVE  Distance(live) \in Nat
  BY StudyAssumption DEF Distance

LEMMA SampleLive ==
  ASSUME NEW samples \in Seq(Samples), NEW i \in DOMAIN samples
  PROVE  samples[i].live \in Lives
<1>1. samples[i] \in Samples
  OBVIOUS
<1> QED
  BY <1>1 DEF Samples

\* best in calibrate_rate is one of the samples, and none is closer.
LEMMA BestIsClosest ==
  ASSUME NEW samples \in Seq(Samples), Len(samples) > 0
  PROVE  \E i \in DOMAIN samples :
           /\ Best(samples) = samples[i]
           /\ \A k \in DOMAIN samples : Distance(samples[i].live) <= Distance(samples[k].live)
<1> DEFINE d == [i \in DOMAIN samples |-> Distance(samples[i].live)]
           Seen == {d[i] : i \in DOMAIN samples}
           Nearest(i) == \A k \in DOMAIN samples : d[i] <= d[k]
           All == {i \in DOMAIN samples : Nearest(i)}
<1>1. DOMAIN samples = 1 .. Len(samples) /\ Len(samples) \in Nat
  OBVIOUS
<1>2. \A i \in DOMAIN samples : d[i] \in Nat
  <2>1. \A i \in DOMAIN samples : samples[i].live \in Lives
    BY SampleLive
  <2> QED
    BY <2>1, DistanceType
<1>3. \A i \in DOMAIN samples : d[i] = Distance(samples[i].live)
  OBVIOUS
<1>4. PICK m \in Seen : \A x \in Seen : m <= x
  <2>1. Seen \in SUBSET Nat /\ Seen # {}
    <3>1. 1 \in DOMAIN samples
      BY <1>1
    <3> HIDE DEF d
    <3> QED
      BY <1>2, <3>1
  <2> HIDE DEF Seen
  <2> QED
    BY <2>1, LeastOf
<1> HIDE DEF d
<1>5. PICK first \in All : \A i \in All : first <= i
  <2>1. All \in SUBSET Nat /\ All # {}
    BY <1>1, <1>2, <1>4
  <2> HIDE DEF All
  <2> QED
    BY <2>1, LeastOf
<1> DEFINE First(i) == /\ \A k \in DOMAIN samples : Distance(samples[i].live) <= Distance(samples[k].live)
                       /\ \A k \in 1..(i - 1) : Distance(samples[i].live) < Distance(samples[k].live)
<1>6. first \in DOMAIN samples /\ First(first)
  <2>1. first \in DOMAIN samples /\ first \in Nat /\ Nearest(first)
    BY <1>1
  <2>2. ASSUME NEW k \in 1..(first - 1) PROVE d[first] < d[k]
    <3>1. k \in DOMAIN samples /\ k \notin All
      BY <1>1, <1>5, <2>1
    <3>2. PICK i \in DOMAIN samples : ~(d[k] <= d[i])
      BY <3>1
    <3> QED
      BY <1>2, <2>1, <3>1, <3>2
  <2>3. \A k \in 1..(first - 1) : k \in DOMAIN samples
    BY <1>1, <2>1
  <2> QED
    BY <1>3, <2>1, <2>2, <2>3
<1> DEFINE best == CHOOSE i \in DOMAIN samples : First(i)
<1>7. best \in DOMAIN samples /\ First(best)
  <2> HIDE DEF First
  <2> QED
    BY <1>6
<1>8. Best(samples) = samples[best]
  BY DEF Best
<1> HIDE DEF best
<1> QED
  BY <1>7, <1>8

\* What a pause is calibrated to.
Closest(c) ==
  /\ c.live \in c.tried
  /\ \A live \in c.tried : Distance(c.live) <= Distance(live)
  /\ c.matched <=> \E live \in c.tried : Distance(live) <= Tolerance

LEMMA CalibratedClosest ==
  ASSUME NEW samples \in Seq(Samples), Len(samples) > 0
  PROVE  Closest(Calibrated(samples))
<1> DEFINE c == Calibrated(samples)
           near == Distance(Best(samples).live) <= Tolerance
<1>1. PICK i \in DOMAIN samples :
         /\ Best(samples) = samples[i]
         /\ \A k \in DOMAIN samples : Distance(samples[i].live) <= Distance(samples[k].live)
  BY BestIsClosest
<1>2. c.live = samples[i].live /\ c.tried = {samples[k].live : k \in DOMAIN samples}
  BY <1>1 DEF Calibrated
<1>3. c.matched = near
  BY DEF Calibrated
<1>4. \A live \in c.tried : Distance(c.live) <= Distance(live)
  BY <1>1, <1>2
<1>5. c.live \in c.tried
  BY <1>2
<1>6. \A live \in c.tried : Distance(live) \in Nat
  <2>1. \A k \in DOMAIN samples : samples[k].live \in Lives
    BY SampleLive
  <2> QED
    BY <1>2, <2>1, DistanceType
<1>7. near <=> \E live \in c.tried : Distance(live) <= Tolerance
  <2>1. near <=> Distance(c.live) <= Tolerance
    BY <1>1, <1>2
  <2>2. Tolerance \in Nat
    BY StudyAssumption
  <2> HIDE DEF c, near
  <2>3. ASSUME NEW live \in c.tried, Distance(live) <= Tolerance PROVE Distance(c.live) <= Tolerance
    BY <1>4, <1>5, <1>6, <2>2, <2>3
  <2> QED
    BY <1>5, <2>1, <2>3
<1> HIDE DEF c, near
<1>8. c.matched <=> \E live \in c.tried : Distance(live) <= Tolerance
  BY <1>3, <1>7
<1> QED
  BY <1>4, <1>5, <1>8 DEF c, Closest

(***************************************************************************)
(* Every job is run once                                                   *)
(***************************************************************************)

\* The row r is the answer to the job j.
Answers(r, j) ==
  r.point = j.point /\ r.policy = j.policy /\ r.ttl = j.ttl /\ r.seed = j.seed

Running == pc \in {"grid", "rows", "meta", "report"}

\* What the process holds: a job is not queued and out at the same time, and
\* has no row before it is answered.
OnceEach ==
  /\ queue \subseteq Grid(exp, seeds, rates) /\ busy \subseteq Grid(exp, seeds, rates)
  /\ queue \cap busy = {}
  /\ IsFiniteSet(rows)
  /\ \A j \in queue \cup busy, r \in rows : ~Answers(r, j)

JobsInv ==
  /\ TypeOK
  /\ exp \in Exps /\ trace \in Seq(Samples)
  /\ pc # "idle" => seeds \in SeedSets
  /\ ~Running => busy = {}
  /\ Running => OnceEach

\* Counts of queue, busy and rows.
Total == Cardinality(queue) + Cardinality(busy) + Cardinality(rows)

LEMMA JobsFiniteNow ==
  ASSUME DistinctJobs, JobsInv, Running
  PROVE  /\ IsFiniteSet(Grid(exp, seeds, rates)) /\ Distinct(Grid(exp, seeds, rates))
         /\ IsFiniteSet(queue) /\ IsFiniteSet(busy) /\ IsFiniteSet(rows)
         /\ Cardinality(queue) \in Nat /\ Cardinality(busy) \in Nat /\ Cardinality(rows) \in Nat
<1>1. IsFiniteSet(Grid(exp, seeds, rates)) /\ Distinct(Grid(exp, seeds, rates))
  BY DEF DistinctJobs, JobsInv, Running
<1>2. IsFiniteSet(queue) /\ IsFiniteSet(busy) /\ IsFiniteSet(rows)
  BY <1>1, FS_Subset DEF JobsInv, OnceEach
<1> QED
  BY <1>1, <1>2, FS_CardinalityType

LEMMA NothingOut == Cardinality({}) = 0 /\ IsFiniteSet({})
  BY FS_EmptySet

LEMMA ToGridOnce ==
  ASSUME DistinctJobs, exp' = exp, exp \in Exps, NEW some \in SeedSets, NEW found,
         ToGrid(some, found), seeds' = some, rates' = found
  PROVE  /\ Running' /\ OnceEach' /\ Cardinality(busy') <= Workers
         /\ Total' = Cardinality(Grid(exp', seeds', rates'))
<1>1. /\ pc' = "grid" /\ queue' = Grid(exp, some, found) /\ busy' = {} /\ rows' = {}
      /\ Grid(exp', seeds', rates') = Grid(exp, some, found)
  BY DEF ToGrid
<1>2. Cardinality(Grid(exp, some, found)) \in Nat
  BY FS_CardinalityType DEF DistinctJobs
<1>3. Running' /\ OnceEach'
  BY <1>1, NothingOut DEF Running, OnceEach
<1>4. Cardinality(busy') = 0 /\ Cardinality(rows') = 0 /\ Cardinality(queue') = Cardinality(Grid(exp, some, found))
  BY <1>1, NothingOut
<1>5. Cardinality(busy') <= Workers
  BY <1>4, StudyAssumption
<1>6. Total' = Cardinality(Grid(exp', seeds', rates'))
  BY <1>1, <1>2, <1>4 DEF Total
<1> QED
  BY <1>3, <1>5, <1>6

LEMMA StartJobs == DistinctJobs /\ JobsInv /\ Start => JobsInv'
<1> SUFFICES ASSUME DistinctJobs, JobsInv, Start PROVE JobsInv'
  OBVIOUS
<1>1. PICK some \in SeedSets :
         /\ seeds' = some
         /\ IF exp = "exp03" THEN pc' = "calibrate" /\ UNCHANGED job ELSE ToGrid(some, <<>>)
  BY DEF Start
<1>2. /\ pc = "idle" /\ run < MaxRuns /\ run' = run + 1 /\ outcome' \in Outcomes
      /\ rates' = <<>> /\ trace' = <<>> /\ exp' = exp /\ last' = last /\ kills' = kills
  BY DEF Start
<1>3. /\ TypeOK /\ exp \in Exps /\ busy = {}
  BY <1>2 DEF JobsInv, Running
<1>4. /\ run' \in 0..MaxRuns /\ kills' \in 0..MaxKills /\ outcome' \in Outcomes \cup {"none"}
      /\ last' \in {"none", "done", "raised", "unreported", "unprinted", "killed"}
      /\ DOMAIN rates' \subseteq PauseGrid /\ Len(trace') < MaxRefinements /\ trace' \in Seq(Samples)
  BY <1>2, <1>3, StudyAssumption DEF TypeOK
<1>5. CASE exp = "exp03"
  <2>1. pc' = "calibrate" /\ busy' = {} /\ Cardinality(busy') = 0
    BY <1>1, <1>3, <1>5, NothingOut DEF job
  <2> QED
    BY <1>1, <1>2, <1>3, <1>4, <2>1, StudyAssumption DEF JobsInv, Running, TypeOK
<1>6. CASE exp # "exp03"
  <2>1. ToGrid(some, <<>>)
    BY <1>1, <1>6
  <2>2. /\ Running' /\ OnceEach' /\ Cardinality(busy') <= Workers
        /\ Total' = Cardinality(Grid(exp', seeds', rates'))
    BY <1>1, <1>2, <1>3, <2>1, ToGridOnce
  <2>3. pc' = "grid"
    BY <2>1 DEF ToGrid
  <2> QED
    BY <1>1, <1>2, <1>3, <1>4, <2>2, <2>3 DEF JobsInv, TypeOK, Total, Running
<1> QED
  BY <1>5, <1>6

LEMMA CorrectionType ==
  ASSUME NEW live \in Nat
  PROVE  Correction(live) \in Int \X Int
<1>1. Target \in Int
  BY StudyAssumption
<1>2. <<8, 5>> \in Int \X Int /\ <<1, 2>> \in Int \X Int /\ <<Target, live>> \in Int \X Int
  BY <1>1
<1>3. Correction(live) \in {<<8, 5>>, <<1, 2>>, <<Target, live>>}
  BY DEF Correction
<1> QED
  BY <1>2, <1>3

LEMMA NextSample ==
  ASSUME JobsInv, NEW live \in Lives
  PROVE  LET samples == Append(trace, [rate |-> NextRate, live |-> live])
         IN  /\ samples \in Seq(Samples) /\ Len(samples) = Len(trace) + 1 /\ Len(trace) \in Nat
             /\ samples[Len(samples)].live = live
<1> DEFINE new == [rate |-> NextRate, live |-> live]
<1>1. trace \in Seq(Samples)
  BY DEF JobsInv
<1>2. NextRate \in Seq(Int \X Int)
  <2>1. CASE trace = <<>>
    BY <2>1 DEF NextRate
  <2>2. CASE trace # <<>>
    <3>1. Len(trace) \in DOMAIN trace
      BY <1>1, <2>2
    <3>2. trace[Len(trace)] \in Samples
      BY <1>1, <3>1
    <3>3. trace[Len(trace)].rate \in Seq(Int \X Int) /\ trace[Len(trace)].live \in Nat
      BY <3>2, StudyAssumption DEF Samples
    <3>4. Correction(trace[Len(trace)].live) \in Int \X Int
      BY <3>3, CorrectionType
    <3> QED
      BY <2>2, <3>3, <3>4 DEF NextRate
  <2> QED
    BY <2>1, <2>2
<1>3. new \in Samples /\ new.live = live
  BY <1>2 DEF Samples
<1> HIDE DEF new
<1> QED
  BY <1>1, <1>3 DEF new

LEMMA SampleJobs == JobsInv /\ Sample => JobsInv'
<1> SUFFICES ASSUME JobsInv, Sample PROVE JobsInv'
  OBVIOUS
<1> DEFINE pause == Min(PauseGrid \ DOMAIN rates)
<1>1. PICK live \in Lives :
         LET samples == Append(trace, [rate |-> NextRate, live |-> live])
         IN  IF Distance(live) <= Tolerance \/ Len(samples) = MaxRefinements
             THEN /\ rates' = [w \in DOMAIN rates \cup {pause} |->
                                 IF w = pause THEN Calibrated(samples) ELSE rates[w]]
                  /\ trace' = <<>>
             ELSE trace' = samples /\ UNCHANGED rates
  BY DEF Sample
<1>2. /\ pc = "calibrate" /\ DOMAIN rates # PauseGrid /\ busy = {} /\ TypeOK
      /\ UNCHANGED <<pc, param, last, job, disk, kills>>
  BY DEF Sample, JobsInv, Running
<1>3. pause \in PauseGrid
  <2>1. PauseGrid \ DOMAIN rates \in SUBSET Nat /\ PauseGrid \ DOMAIN rates # {}
    BY <1>2, StudyAssumption DEF TypeOK
  <2> QED
    BY <2>1, MinIn
<1> DEFINE samples == Append(trace, [rate |-> NextRate, live |-> live])
<1>4. /\ samples \in Seq(Samples) /\ Len(samples) = Len(trace) + 1 /\ Len(trace) \in Nat
  BY NextSample
<1>5. /\ DOMAIN rates' \subseteq PauseGrid /\ trace' \in Seq(Samples) /\ Len(trace') < MaxRefinements
  <2> HIDE DEF pause, samples
  <2>1. Len(trace) < MaxRefinements /\ DOMAIN rates \subseteq PauseGrid /\ MaxRefinements \in Nat \ {0}
    BY <1>2, StudyAssumption DEF TypeOK
  <2>2. CASE Distance(live) <= Tolerance \/ Len(samples) = MaxRefinements
    <3>1. DOMAIN rates' = DOMAIN rates \cup {pause} /\ trace' = <<>>
      BY <1>1, <2>2 DEF samples
    <3> QED
      BY <1>3, <2>1, <3>1
  <2>3. CASE ~(Distance(live) <= Tolerance \/ Len(samples) = MaxRefinements)
    <3>1. trace' = samples /\ rates' = rates
      BY <1>1, <2>3 DEF samples
    <3> QED
      BY <1>4, <2>1, <2>3, <3>1
  <2> QED
    BY <2>2, <2>3
<1> HIDE DEF pause, samples
<1>6. pc' = pc /\ busy' = busy /\ exp' = exp /\ seeds' = seeds /\ run' = run /\ outcome' = outcome
      /\ last' = last /\ kills' = kills
  BY <1>2 DEF param, job
<1> QED
  BY <1>2, <1>5, <1>6, NothingOut DEF JobsInv, Running, TypeOK

LEMMA CalibratedJobs == DistinctJobs /\ JobsInv /\ CalibrationDone => JobsInv'
<1> SUFFICES ASSUME DistinctJobs, JobsInv, CalibrationDone PROVE JobsInv'
  OBVIOUS
<1> DEFINE found == [w \in PauseGrid |-> rates[w].rate]
<1>1. /\ pc = "calibrate" /\ ToGrid(seeds, found) /\ rates' = found
      /\ UNCHANGED <<param, last, trace, kills>>
      /\ TypeOK /\ exp \in Exps /\ seeds \in SeedSets /\ trace \in Seq(Samples)
  BY DEF CalibrationDone, JobsInv
<1>2. DOMAIN rates' = PauseGrid
  BY <1>1
<1> HIDE DEF found
<1>3. exp' = exp /\ seeds' = seeds /\ run' = run /\ outcome' = outcome /\ pc' = "grid"
  BY <1>1 DEF param, ToGrid
<1>4. /\ Running' /\ OnceEach' /\ Cardinality(busy') <= Workers
      /\ Total' = Cardinality(Grid(exp', seeds', rates'))
  BY <1>1, <1>3, ToGridOnce
<1> QED
  BY <1>1, <1>2, <1>3, <1>4 DEF JobsInv, TypeOK, Total

LEMMA TakeJobs == DistinctJobs /\ JobsInv /\ TakeJob => JobsInv'
<1> SUFFICES ASSUME DistinctJobs, JobsInv, TakeJob PROVE JobsInv'
  OBVIOUS
<1>1. PICK j \in queue : busy' = busy \cup {j} /\ queue' = queue \ {j}
  BY DEF TakeJob
<1>2. /\ pc = "grid" /\ Cardinality(busy) < Workers
      /\ UNCHANGED <<pc, param, last, rates, trace, rows, disk, kills>>
      /\ TypeOK /\ exp \in Exps /\ seeds \in SeedSets /\ trace \in Seq(Samples) /\ Running /\ OnceEach
  BY DEF TakeJob, WorkerFree, JobsInv, Running
<1>3. /\ exp' = exp /\ seeds' = seeds /\ run' = run /\ outcome' = outcome /\ pc' = pc
      /\ rates' = rates /\ rows' = rows /\ last' = last /\ trace' = trace /\ kills' = kills
  BY <1>2 DEF param
<1>4. /\ IsFiniteSet(queue) /\ IsFiniteSet(busy)
      /\ Cardinality(queue) \in Nat /\ Cardinality(busy) \in Nat /\ Cardinality(rows) \in Nat
  BY <1>2, JobsFiniteNow
<1>5. j \notin busy
  BY <1>2 DEF OnceEach
<1>6. Cardinality(busy') = Cardinality(busy) + 1
  BY <1>1, <1>4, <1>5, FS_AddElement
<1>7. Cardinality(queue') = Cardinality(queue) - 1
  BY <1>1, <1>4, FS_RemoveElement
<1>8. Cardinality(rows') = Cardinality(rows)
  BY <1>3
<1>9. OnceEach'
  BY <1>1, <1>2, <1>3 DEF OnceEach
<1>10. Total' = Total /\ Cardinality(busy') <= Workers
  <2>1. Total' = Total
    BY <1>4, <1>6, <1>7, <1>8 DEF Total
  <2>2. Workers \in Nat
    BY StudyAssumption
  <2> QED
    BY <1>2, <1>4, <1>6, <2>1, <2>2
<1> QED
  BY <1>2, <1>3, <1>9, <1>10 DEF JobsInv, TypeOK, Total, Running

\* The row of a job is new: its fields are those of no other job.
LEMMA JobDoneJobs == DistinctJobs /\ JobsInv /\ JobDone => JobsInv'
<1> SUFFICES ASSUME DistinctJobs, JobsInv, JobDone PROVE JobsInv'
  OBVIOUS
<1> DEFINE Row(j) == [point |-> j.point, policy |-> j.policy, ttl |-> j.ttl,
                      seed |-> j.seed, tokens |-> Tokens(outcome, j)]
<1>1. PICK j \in busy : busy' = busy \ {j} /\ rows' = rows \cup {Row(j)}
  BY DEF JobDone
<1>2. /\ pc = "grid"
      /\ UNCHANGED <<pc, param, last, rates, trace, queue, disk, kills>>
      /\ TypeOK /\ exp \in Exps /\ seeds \in SeedSets /\ trace \in Seq(Samples) /\ Running /\ OnceEach
  BY DEF JobDone, JobsInv, Running
<1>3. /\ exp' = exp /\ seeds' = seeds /\ run' = run /\ outcome' = outcome /\ pc' = pc
      /\ rates' = rates /\ queue' = queue /\ last' = last /\ trace' = trace /\ kills' = kills
  BY <1>2 DEF param
<1>4. /\ IsFiniteSet(queue) /\ IsFiniteSet(busy) /\ IsFiniteSet(rows) /\ Distinct(Grid(exp, seeds, rates))
      /\ Cardinality(queue) \in Nat /\ Cardinality(busy) \in Nat /\ Cardinality(rows) \in Nat
  BY <1>2, JobsFiniteNow
<1>5. Answers(Row(j), j)
  BY DEF Answers
<1> HIDE DEF Row
<1>6. Row(j) \notin rows
  BY <1>2, <1>5 DEF OnceEach
<1>7. \A i \in queue \cup (busy \ {j}) : ~Answers(Row(j), i)
  <2> SUFFICES ASSUME NEW i \in queue \cup (busy \ {j}), Answers(Row(j), i) PROVE FALSE
    OBVIOUS
  <2>1. i \in Grid(exp, seeds, rates) /\ j \in Grid(exp, seeds, rates) /\ i # j
    BY <1>2 DEF OnceEach
  <2>2. i.point = j.point /\ i.policy = j.policy /\ i.ttl = j.ttl /\ i.seed = j.seed
    BY <1>5 DEF Answers
  <2> QED
    BY <1>4, <2>1, <2>2 DEF Distinct
<1>8. Cardinality(busy') = Cardinality(busy) - 1
  BY <1>1, <1>4, FS_RemoveElement
<1>9. Cardinality(rows') = Cardinality(rows) + 1 /\ IsFiniteSet(rows')
  BY <1>1, <1>4, <1>6, FS_AddElement
<1>10. OnceEach'
  BY <1>1, <1>2, <1>3, <1>7, <1>9 DEF OnceEach
<1>11. Total' = Total /\ Cardinality(busy') <= Workers
  <2>1. Cardinality(queue') = Cardinality(queue) /\ Cardinality(busy) <= Workers
    BY <1>2, <1>3 DEF TypeOK
  <2>2. Workers \in Nat
    BY StudyAssumption
  <2> QED
    BY <1>4, <1>8, <1>9, <2>1, <2>2 DEF Total
<1> QED
  BY <1>2, <1>3, <1>10, <1>11 DEF JobsInv, TypeOK, Total, Running

LEMMA AnalyzedIs == \A data : Analyzed(data) \in {"done", "unreported", "unprinted"}
  BY DEF Analyzed

\* A process that ends takes its jobs with it.
LEMMA ExitJobs ==
  ASSUME JobsInv, NEW how \in {"done", "raised", "unreported", "unprinted", "killed"}, Exit(how),
         kills' \in 0..MaxKills
  PROVE  JobsInv'
<1>1. /\ pc' = "idle" /\ busy' = {} /\ trace' = <<>> /\ rates' = <<>>
      /\ last' = how /\ outcome' = "none" /\ exp' = exp /\ run' = run
  BY DEF Exit
<1>2. exp \in Exps /\ run \in 0..MaxRuns
  BY DEF JobsInv, TypeOK
<1>3. DOMAIN rates' = {} /\ Len(trace') = 0 /\ trace' \in Seq(Samples)
  BY <1>1
<1>4. Cardinality(busy') = 0
  BY <1>1, NothingOut
<1> QED
  BY <1>1, <1>2, <1>3, <1>4, StudyAssumption DEF JobsInv, TypeOK, Running

\* The steps that leave the jobs alone.
LEMMA OtherJobs ==
  ASSUME JobsInv, \/ GridDone \/ WriteRows \/ WriteMeta \/ Reanalyze \/ UNCHANGED vars
  PROVE  JobsInv'
<1>1. /\ UNCHANGED <<param, rates, trace, queue, busy, rows, kills>>
      /\ last' \in {last, "done", "unreported", "unprinted"}
      /\ pc' = pc \/ (Running /\ Running' /\ pc' \in {"rows", "meta", "report"})
  BY AnalyzedIs DEF GridDone, WriteRows, WriteMeta, Reanalyze, vars, job, Running
<1>2. /\ exp' = exp /\ seeds' = seeds /\ run' = run /\ outcome' = outcome
      /\ rates' = rates /\ queue' = queue /\ busy' = busy /\ rows' = rows
      /\ trace' = trace /\ kills' = kills
  BY <1>1 DEF param
<1>3. Running' <=> Running
  BY <1>1 DEF Running
<1>4. OnceEach => OnceEach'
  BY <1>2 DEF OnceEach
<1>5. TypeOK'
  BY <1>1, <1>2 DEF JobsInv, TypeOK, Running
<1>6. pc' # "idle" => pc # "idle"
  BY <1>1 DEF Running
<1> QED
  BY <1>2, <1>3, <1>4, <1>5, <1>6 DEF JobsInv

LEMMA NextJobs == DistinctJobs /\ JobsInv /\ [Next]_vars => JobsInv'
<1> SUFFICES ASSUME DistinctJobs, JobsInv, [Next]_vars PROVE JobsInv'
  OBVIOUS
<1>1. kills \in 0..MaxKills
  BY DEF JobsInv, TypeOK
<1>2. CASE Start
  BY <1>2, StartJobs
<1>3. CASE Sample
  BY <1>3, SampleJobs
<1>4. CASE CalibrationDone
  BY <1>4, CalibratedJobs
<1>5. CASE TakeJob
  BY <1>5, TakeJobs
<1>6. CASE JobDone
  BY <1>6, JobDoneJobs
<1>7. CASE JobRaises
  BY <1>1, <1>7, ExitJobs DEF JobRaises
<1>8. CASE WriteReport
  <2>1. kills' = kills /\ Exit(Analyzed(rows))
    BY <1>8 DEF WriteReport
  <2> QED
    BY <1>1, <2>1, AnalyzedIs, ExitJobs
<1>9. CASE Killed
  <2>1. kills' \in 0..MaxKills /\ Exit("killed")
    BY <1>1, <1>9, StudyAssumption DEF Killed
  <2> QED
    BY <2>1, ExitJobs
<1>10. CASE GridDone \/ WriteRows \/ WriteMeta \/ Reanalyze \/ UNCHANGED vars
  BY <1>10, OtherJobs
<1> QED
  BY <1>2, <1>3, <1>4, <1>5, <1>6, <1>7, <1>8, <1>9, <1>10 DEF Next

LEMMA InitJobs == Init => JobsInv
  BY NothingOut, StudyAssumption DEF Init, JobsInv, TypeOK, Running

\* Never are more jobs out than there are workers, and every job of the grid
\* is queued, out or answered by exactly one row, whatever the order the
\* workers answer in, until the rows are written (run_grid).
THEOREM EveryJobOnce == ASSUME DistinctJobs PROVE Spec => []TypeOK
<1>1. JobsInv => TypeOK
  BY DEF JobsInv
<1> QED
  BY InitJobs, NextJobs, <1>1, PTL DEF Spec

(***************************************************************************)
(* What a calibration returns                                              *)
(***************************************************************************)

CalibrationInv == JobsInv /\ CalibrationKeepsClosest

LEMMA KeepsClosest ==
  CalibrationKeepsClosest <=> (pc = "calibrate" => \A w \in DOMAIN rates : Closest(rates[w]))
  BY DEF CalibrationKeepsClosest, Closest

LEMMA SampleKeeps ==
  ASSUME CalibrationInv, Sample
  PROVE  \A w \in DOMAIN rates' : Closest(rates'[w])
<1> DEFINE pause == Min(PauseGrid \ DOMAIN rates)
<1>1. PICK live \in Lives :
         LET samples == Append(trace, [rate |-> NextRate, live |-> live])
         IN  IF Distance(live) <= Tolerance \/ Len(samples) = MaxRefinements
             THEN /\ rates' = [w \in DOMAIN rates \cup {pause} |->
                                 IF w = pause THEN Calibrated(samples) ELSE rates[w]]
                  /\ trace' = <<>>
             ELSE trace' = samples /\ UNCHANGED rates
  BY DEF Sample
<1> DEFINE samples == Append(trace, [rate |-> NextRate, live |-> live])
<1>2. \A w \in DOMAIN rates : Closest(rates[w])
  BY KeepsClosest DEF CalibrationInv, Sample
<1>3. Closest(Calibrated(samples))
  <2>1. samples \in Seq(Samples) /\ Len(samples) = Len(trace) + 1 /\ Len(trace) \in Nat
    BY NextSample DEF CalibrationInv
  <2> HIDE DEF samples
  <2> QED
    BY <2>1, CalibratedClosest
<1>4. \/ rates' = rates
      \/ rates' = [w \in DOMAIN rates \cup {pause} |-> IF w = pause THEN Calibrated(samples) ELSE rates[w]]
  BY <1>1
<1> HIDE DEF pause, samples
<1> QED
  BY <1>2, <1>3, <1>4

LEMMA NextCalibration == DistinctJobs /\ CalibrationInv /\ [Next]_vars => CalibrationInv'
<1> SUFFICES ASSUME DistinctJobs, CalibrationInv, [Next]_vars PROVE CalibrationInv'
  OBVIOUS
<1>1. JobsInv'
  BY NextJobs DEF CalibrationInv
<1>2. CASE Start
  <2>1. DOMAIN rates' = {}
    BY <1>2 DEF Start
  <2> QED
    BY <1>1, <2>1 DEF CalibrationInv, CalibrationKeepsClosest
<1>3. CASE Sample
  BY <1>1, <1>3, SampleKeeps DEF CalibrationInv, CalibrationKeepsClosest, Closest
<1>4. CASE ~Start /\ ~Sample
  <2>1. CASE JobRaises \/ WriteReport \/ Killed
    <3>1. pc' = "idle"
      BY <2>1 DEF JobRaises, WriteReport, Killed, Exit
    <3> QED
      BY <1>1, <3>1 DEF CalibrationInv, CalibrationKeepsClosest
  <2>2. CASE ~(JobRaises \/ WriteReport \/ Killed)
    <3>1. pc' # "calibrate" \/ (pc' = pc /\ rates' = rates)
      BY <1>4, <2>2 DEF Next, CalibrationDone, ToGrid, TakeJob, JobDone, GridDone, WriteRows, WriteMeta,
                        Reanalyze, vars
    <3> QED
      BY <1>1, <3>1 DEF CalibrationInv, CalibrationKeepsClosest
  <2> QED
    BY <2>1, <2>2
<1> QED
  BY <1>2, <1>3, <1>4

\* The rate a pause of exp03 is run with is one whose live sessions were the
\* closest to the target of all that were tried, and it is flagged as matched
\* exactly when one of them was within the tolerance (calibrate_rate).
THEOREM ClosestKept == ASSUME DistinctJobs PROVE Spec => []CalibrationKeepsClosest
<1>1. Init => CalibrationInv
  BY InitJobs DEF CalibrationInv, CalibrationKeepsClosest, Init
<1>2. CalibrationInv => CalibrationKeepsClosest
  BY DEF CalibrationInv
<1> QED
  BY <1>1, <1>2, NextCalibration, PTL DEF Spec

(***************************************************************************)
(* The files and the runs they are of                                      *)
(***************************************************************************)

\* The run that wrote runs.csv, 0 for none.
RowsOf == IF csv = None THEN 0 ELSE csv.run

\* No file is of a run that is still to come, and within a run each file is
\* written before the next is begun; for exp03 the calibration is on disk before
\* the grid is.
FilesInv ==
  /\ exp \in Exps /\ run \in Nat /\ meta \in Nat /\ RowsOf \in Nat
  /\ RowsOf <= run /\ (pc \in {"calibrate", "grid", "rows"} => RowsOf < run)
  /\ pc \in {"meta", "report"} => csv = RowsFile(rows)
  /\ pc = "report" => meta = run
  /\ Running /\ exp = "exp03" => calib = run
  /\ FilesInOrder
  /\ analysis # None => analysis.quality \in Nat /\ analysis.by \in Nat

LEMMA FileFields ==
  /\ \A data : RowsFile(data).rows = data /\ RowsFile(data).run = run /\ RowsFile(data) # None
               /\ RowsFile(data).cut = "no"
  /\ \A file \in CutFiles : file # None /\ file.run = run /\ file.cut \in {"lines", "row"}
<1>1. ASSUME NEW data, NEW where
      PROVE  LET file == [rows |-> data, run |-> run, cut |-> where]
             IN  file # None /\ file.rows = data /\ file.run = run /\ file.cut = where
  <2>1. DOMAIN [rows |-> data, run |-> run, cut |-> where] = {"rows", "run", "cut"} /\ DOMAIN None = 1..0
    BY DEF None
  <2> QED
    BY <2>1
<1>2. ASSUME NEW file \in CutFiles PROVE file # None /\ file.run = run /\ file.cut \in {"lines", "row"}
  <2>1. PICK where \in {"lines", "row"} : \E data : file = [rows |-> data, run |-> run, cut |-> where]
    BY DEF CutFiles
  <2> QED
    BY <1>1, <2>1
<1> QED
  BY <1>1, <1>2 DEF RowsFile

LEMMA AnalysisFields ==
  \A data, by, quality, whole :
    /\ Analysis(data, by, quality, whole).report = Report(data)
    /\ Analysis(data, by, quality, whole).by = by
    /\ Analysis(data, by, quality, whole).whole = whole
    /\ Analysis(data, by, quality, whole).quality = IF HasQuality THEN quality ELSE 0
  BY DEF Analysis

\* What the steps that write none of the files keep.
LEMMA KeepsFiles ==
  ASSUME FilesInv, disk' = disk, exp' = exp, run' \in Nat, run <= run',
         pc' \in {"meta", "report"} => pc' = pc /\ run' = run /\ rows' = rows,
         pc' \in {"calibrate", "grid", "rows"} => pc \in {"calibrate", "grid", "rows"} \/ run < run',
         exp = "exp03" /\ Running' => Running /\ run' = run
  PROVE  FilesInv'
<1>1. calib' = calib /\ csv' = csv /\ meta' = meta /\ analysis' = analysis
  BY DEF disk
<1>2. RowsOf' = RowsOf /\ (FilesInOrder' <=> FilesInOrder)
  BY <1>1 DEF RowsOf, FilesInOrder
<1>3. pc' \in {"meta", "report"} => csv' = RowsFile(rows)'
  BY <1>1 DEF FilesInv, RowsFile
<1>4. RowsOf' <= run' /\ (pc' \in {"calibrate", "grid", "rows"} => RowsOf' < run')
  BY <1>2 DEF FilesInv
<1>5. Running' /\ exp' = "exp03" => calib' = run'
  BY <1>1 DEF FilesInv
<1> QED
  BY <1>1, <1>2, <1>3, <1>4, <1>5 DEF FilesInv

LEMMA WriteFiles ==
  ASSUME FilesInv, CalibrationDone \/ WriteRows \/ WriteMeta
  PROVE  FilesInv'
<1>1. CASE CalibrationDone
  <2>1. /\ pc = "calibrate" /\ pc' = "grid" /\ calib' = run /\ run' = run /\ exp' = exp
        /\ csv' = csv /\ meta' = meta /\ analysis' = analysis
    BY <1>1 DEF CalibrationDone, ToGrid, param
  <2>2. RowsOf' = RowsOf
    BY <2>1 DEF RowsOf
  <2>3. RowsOf < run /\ run \in Nat /\ RowsOf \in Nat
    BY <2>1 DEF FilesInv
  <2>4. FilesInOrder'
    BY <2>1, <2>3 DEF FilesInv, FilesInOrder, RowsOf
  <2> QED
    BY <2>1, <2>2, <2>3, <2>4 DEF FilesInv
<1>2. CASE WriteRows
  <2>1. /\ pc = "rows" /\ pc' = "meta" /\ csv' = RowsFile(rows) /\ run' = run /\ rows' = rows /\ exp' = exp
        /\ calib' = calib /\ meta' = meta /\ analysis' = analysis
    BY <1>2 DEF WriteRows, param, job
  <2>2. RowsFile(rows)' = RowsFile(rows) /\ csv'.run = run /\ csv' # None
    BY <2>1, FileFields DEF RowsFile
  <2>3. RowsOf' = run
    BY <2>2 DEF RowsOf
  <2>4. RowsOf < run /\ run \in Nat /\ RowsOf \in Nat /\ meta \in Nat /\ meta <= RowsOf
    BY <2>1 DEF FilesInv, FilesInOrder, RowsOf
  <2>5. exp = "exp03" => calib = run
    BY <2>1 DEF FilesInv, Running
  <2>6. analysis # None => /\ analysis.quality \in Nat /\ analysis.by \in Nat
                           /\ analysis.quality <= analysis.by /\ analysis.by <= RowsOf
    BY DEF FilesInv, FilesInOrder, RowsOf
  <2>7. FilesInOrder'
    BY <2>1, <2>2, <2>4, <2>5, <2>6 DEF FilesInOrder
  <2> QED
    BY <2>1, <2>2, <2>3, <2>4, <2>5, <2>6, <2>7 DEF FilesInv
<1>3. CASE WriteMeta
  <2>1. /\ pc = "meta" /\ pc' = "report" /\ meta' = run /\ run' = run /\ rows' = rows /\ exp' = exp
        /\ calib' = calib /\ csv' = csv /\ analysis' = analysis
    BY <1>3 DEF WriteMeta, param, job
  <2>2. RowsFile(rows)' = RowsFile(rows) /\ csv = RowsFile(rows) /\ csv # None /\ csv.run = run
    BY <2>1, FileFields DEF RowsFile, FilesInv
  <2>3. RowsOf' = run /\ run \in Nat
    BY <2>1, <2>2 DEF RowsOf, FilesInv
  <2>4. exp = "exp03" => calib = run
    BY <2>1 DEF FilesInv, Running
  <2>5. FilesInOrder'
    BY <2>1, <2>2, <2>3 DEF FilesInv, FilesInOrder
  <2> QED
    BY <2>1, <2>2, <2>3, <2>4, <2>5 DEF FilesInv
<1> QED
  BY <1>1, <1>2, <1>3

LEMMA ReportFiles ==
  ASSUME FilesInv, WriteReport \/ Reanalyze
  PROVE  FilesInv'
<1>1. /\ pc' = "idle" /\ run' = run /\ exp' = exp /\ calib' = calib /\ csv' = csv /\ meta' = meta
  BY DEF WriteReport, Reanalyze, Exit, param
<1>2. RowsOf' = RowsOf /\ RowsOf \in Nat /\ run \in Nat /\ meta \in Nat /\ meta <= RowsOf /\ RowsOf <= run
  BY <1>1 DEF RowsOf, FilesInv, FilesInOrder
<1>3. \/ analysis' = analysis
      \/ /\ csv # None /\ analysis'.by = csv.run
         /\ analysis'.quality \in {0, meta}
  <2>1. CASE WriteReport
    <3>1. pc = "report" /\ analysis' \in {analysis, Analysis(rows, run, run, TRUE)}
      BY <2>1 DEF WriteReport
    <3>2. csv # None /\ csv.run = run /\ meta = run
      BY <3>1, FileFields DEF FilesInv
    <3>3. Analysis(rows, run, run, TRUE).by = run /\ Analysis(rows, run, run, TRUE).quality \in {0, run}
      BY DEF Analysis
    <3> QED
      BY <3>1, <3>2, <3>3
  <2>2. CASE Reanalyze
    <3> DEFINE a == Analysis(csv.rows, csv.run, meta, csv.cut = "no")
    <3>1. analysis' = analysis \/ (Readable /\ analysis' = a)
      BY <2>2 DEF Reanalyze
    <3>2. a.by = csv.run /\ a.quality = IF HasQuality THEN meta ELSE 0
      BY DEF Analysis
    <3> HIDE DEF a
    <3> QED
      BY <3>1, <3>2 DEF Readable
  <2> QED
    BY <2>1, <2>2
<1>4. csv # None => csv.run = RowsOf
  BY DEF RowsOf
<1>5. analysis' # None => /\ csv # None /\ analysis'.quality \in Nat /\ analysis'.by \in Nat
                          /\ analysis'.quality <= analysis'.by /\ analysis'.by <= csv.run
  BY <1>2, <1>3, <1>4 DEF FilesInv, FilesInOrder
<1>6. FilesInOrder'
  BY <1>1, <1>5 DEF FilesInv, FilesInOrder
<1> QED
  BY <1>1, <1>2, <1>5, <1>6 DEF FilesInv, Running

LEMMA KilledFiles ==
  ASSUME FilesInv, Killed
  PROVE  FilesInv'
<1>1. /\ pc # "idle" /\ pc' = "idle" /\ run' = run /\ exp' = exp
      /\ calib' = calib \/ (calib' = 0 /\ pc = "calibrate")
      /\ meta' \in {meta, 0} /\ analysis' \in {analysis, None}
      /\ pc # "rows" => csv' = csv
  BY DEF Killed, Exit
<1>2. csv' = csv \/ (pc = "rows" /\ csv' # None /\ csv'.run = run)
  <2>1. csv' = csv \/ (pc = "rows" /\ csv' \in CutFiles)
    BY DEF Killed
  <2> QED
    BY <2>1, FileFields
<1>3. /\ run \in Nat /\ meta \in Nat /\ RowsOf \in Nat /\ RowsOf <= run /\ meta <= RowsOf
      /\ csv # None => csv.run = RowsOf
      /\ analysis # None => /\ csv # None /\ analysis.quality \in Nat /\ analysis.by \in Nat
                            /\ analysis.quality <= analysis.by /\ analysis.by <= RowsOf
  BY DEF FilesInv, FilesInOrder, RowsOf
<1>4. RowsOf' \in Nat /\ RowsOf <= RowsOf' /\ RowsOf' <= run' /\ (csv' # None => csv'.run = RowsOf')
      /\ (csv # None => csv' # None)
  BY <1>1, <1>2, <1>3 DEF RowsOf
<1>5. meta' \in Nat /\ meta' <= RowsOf'
  BY <1>1, <1>3, <1>4
<1>6. analysis' # None => /\ csv' # None /\ analysis'.quality \in Nat /\ analysis'.by \in Nat
                          /\ analysis'.quality <= analysis'.by /\ analysis'.by <= csv'.run
  BY <1>1, <1>3, <1>4
<1>7. exp' = "exp03" /\ csv' # None => calib' = 0 \/ csv'.run <= calib'
  <2>1. CASE csv' = csv
    BY <1>1, <2>1 DEF FilesInv, FilesInOrder
  <2>2. CASE pc = "rows" /\ csv'.run = run
    BY <1>1, <1>3, <2>2 DEF FilesInv, Running
  <2> QED
    BY <1>2, <2>1, <2>2
<1>8. FilesInOrder'
  BY <1>4, <1>5, <1>6, <1>7 DEF FilesInOrder, RowsOf
<1> QED
  BY <1>1, <1>3, <1>4, <1>5, <1>6, <1>8 DEF FilesInv, Running

LEMMA NextFiles == FilesInv /\ [Next]_vars => FilesInv'
<1> SUFFICES ASSUME FilesInv, [Next]_vars PROVE FilesInv'
  OBVIOUS
<1>1. CASE Start
  <2>1. /\ disk' = disk /\ exp' = exp /\ run' = run + 1 /\ run \in Nat
        /\ pc' \in {"calibrate", "grid"} /\ (exp = "exp03" => pc' = "calibrate")
    BY <1>1 DEF Start, ToGrid, FilesInv
  <2> QED
    BY <2>1, KeepsFiles DEF Running
<1>2. CASE Sample \/ TakeJob \/ JobDone \/ JobRaises \/ GridDone
  <2>1. /\ disk' = disk /\ exp' = exp /\ run' = run /\ run \in Nat
        /\ pc' \in {pc, "idle", "rows"} /\ pc \in {"calibrate", "grid"} /\ (pc' = "rows" => pc = "grid")
    BY <1>2 DEF Sample, TakeJob, JobDone, JobRaises, GridDone, Exit, param, FilesInv
  <2> QED
    BY <2>1, KeepsFiles DEF Running
<1>3. CASE CalibrationDone \/ WriteRows \/ WriteMeta
  BY <1>3, WriteFiles
<1>4. CASE WriteReport \/ Reanalyze
  BY <1>4, ReportFiles
<1>5. CASE Killed
  BY <1>5, KilledFiles
<1>6. CASE UNCHANGED vars
  <2>1. disk' = disk /\ exp' = exp /\ run' = run /\ run \in Nat /\ pc' = pc /\ rows' = rows
    BY <1>6 DEF vars, param, job, FilesInv
  <2> QED
    BY <2>1, KeepsFiles DEF Running
<1> QED
  BY <1>1, <1>2, <1>3, <1>4, <1>5, <1>6 DEF Next

LEMMA InitFiles == Init => FilesInv
  BY DEF Init, FilesInv, RowsOf, FilesInOrder, Running

\* Wherever a run was killed, the quality beside the rows is of no later run
\* than they are, the calibration of exp03 of no earlier one, and a report is of
\* no later rows than those that are there (the order in which main() writes its
\* files).
THEOREM FilesOrdered == Spec => []FilesInOrder
<1>1. FilesInv => FilesInOrder
  BY DEF FilesInv
<1> QED
  BY InitFiles, NextFiles, <1>1, PTL DEF Spec

(***************************************************************************)
(* Sums                                                                    *)
(***************************************************************************)

\* A number f[x] for each x of a set, as that many dots beside x: the sum of the
\* numbers is the number of dots.
Dots(f, S) == {d \in S \X (Nat \ {0}) : d[2] <= f[d[1]]}

LEMMA DotsAdd ==
  ASSUME NEW f, NEW S, IsFiniteSet(Dots(f, S)), NEW x, x \notin S, f[x] \in Nat
  PROVE  /\ IsFiniteSet(Dots(f, S \cup {x}))
         /\ Cardinality(Dots(f, S \cup {x})) = Cardinality(Dots(f, S)) + f[x]
<1> DEFINE D == Dots(f, S)
           E == {x} \X (1 .. f[x])
           F == Dots(f, S \cup {x})
<1>1. IsFiniteSet(D) /\ Cardinality(D) \in Nat
  BY FS_CardinalityType
<1>2. IsFiniteSet(E) /\ Cardinality(E) = f[x]
  <2>1. IsFiniteSet({x}) /\ Cardinality({x}) = 1
    BY FS_Singleton
  <2>2. IsFiniteSet(1 .. f[x]) /\ Cardinality(1 .. f[x]) = f[x]
    <3>1. 1 \in Int /\ f[x] \in Int /\ f[x] \in Nat
      OBVIOUS
    <3>2. Cardinality(1 .. f[x]) = IF 1 > f[x] THEN 0 ELSE f[x] - 1 + 1
      BY <3>1, FS_Interval
    <3>3. Cardinality(1 .. f[x]) = f[x]
      BY <3>1, <3>2
    <3>4. IsFiniteSet(1 .. f[x])
      BY <3>1, FS_Interval
    <3> QED
      BY <3>3, <3>4
  <2>3. IsFiniteSet(E) /\ Cardinality(E) = 1 * f[x]
    BY <2>1, <2>2, FS_Product
  <2> QED
    BY <2>3
<1>3. D \cap E = {}
  BY DEF Dots
<1>4. F = D \cup E
  <2>1. ASSUME NEW d \in F PROVE d \in D \cup E
    <3>1. d \in (S \cup {x}) \X (Nat \ {0}) /\ d[2] <= f[d[1]]
      BY DEF Dots
    <3>2. CASE d[1] \in S
      BY <3>1, <3>2 DEF Dots
    <3>3. CASE d[1] = x
      BY <3>1, <3>3
    <3> QED
      BY <3>1, <3>2, <3>3
  <2>2. ASSUME NEW d \in D \cup E PROVE d \in F
    <3>1. CASE d \in D
      BY <3>1 DEF Dots
    <3>2. CASE d \in E
      BY <3>2 DEF Dots
    <3> QED
      BY <3>1, <3>2
  <2> QED
    BY <2>1, <2>2
<1>5. Cardinality(D \cap E) = 0
  BY <1>3, FS_EmptySet
<1>6. /\ IsFiniteSet(D \cup E)
      /\ Cardinality(D \cup E) = Cardinality(D) + Cardinality(E) - Cardinality(D \cap E)
  BY <1>1, <1>2, FS_Union
<1>7. f[x] \in Nat
  OBVIOUS
<1> HIDE DEF D, E, F
<1>8. \A a \in Nat : a + f[x] - 0 = a + f[x]
  BY <1>7
<1>9. Cardinality(D \cup E) = Cardinality(D) + f[x]
  <2>1. Cardinality(D \cup E) = Cardinality(D) + f[x] - 0
    BY <1>2, <1>5, <1>6
  <2> QED
    BY <1>1, <1>8, <2>1
<1>10. IsFiniteSet(F) /\ Cardinality(F) = Cardinality(D) + f[x]
  BY <1>4, <1>6, <1>9
<1> QED
  BY <1>10 DEF D, F

LEMMA DotsFinite ==
  ASSUME NEW S, IsFiniteSet(S), NEW f, \A x \in S : f[x] \in Nat
  PROVE  \A s \in SUBSET S : IsFiniteSet(Dots(f, s)) /\ Cardinality(Dots(f, s)) \in Nat
<1> DEFINE Bad == {s \in SUBSET S : ~IsFiniteSet(Dots(f, s))}
<1>1. Bad = {}
  <2> SUFFICES ASSUME NEW b \in Bad PROVE FALSE
    OBVIOUS
  <2>1. IsWellFoundedOn(StrictSubsetOrdering(S), SUBSET S)
    BY FS_FiniteSubsetsOfFinite, FS_StrictSubsetOrderingWellFounded
  <2>2. Bad \in SUBSET SUBSET S
    OBVIOUS
  <2>3. PICK s \in Bad : \A t \in Bad : ~(<<t, s>> \in StrictSubsetOrdering(S))
    <3> HIDE DEF Bad
    <3> QED
      BY <2>1, <2>2, WFMin
  <2>4. s \in SUBSET S /\ ~IsFiniteSet(Dots(f, s))
    OBVIOUS
  <2>5. CASE s = {}
    <3>1. Dots(f, s) = {}
      BY <2>5 DEF Dots
    <3> QED
      BY <2>4, <3>1, FS_EmptySet
  <2>6. CASE s # {}
    <3>1. PICK x \in s : TRUE
      BY <2>6
    <3> DEFINE r == s \ {x}
    <3>2. r \in SUBSET S /\ x \notin r /\ r \cup {x} = s /\ r \subseteq s /\ r # s /\ f[x] \in Nat
      BY <2>4, <3>1
    <3>3. <<r, s>> \in StrictSubsetOrdering(S)
      BY <2>4, <3>2 DEF StrictSubsetOrdering
    <3>4. IsFiniteSet(Dots(f, r))
      BY <2>3, <3>2, <3>3
    <3> HIDE DEF r
    <3>5. IsFiniteSet(Dots(f, r \cup {x}))
      BY <3>2, <3>4, DotsAdd
    <3> QED
      BY <2>4, <3>2, <3>5
  <2> QED
    BY <2>5, <2>6
<1> QED
  BY <1>1, FS_CardinalityType

\* The recursion by which a sum is folded over the subsets of a set has one
\* solution at most, and that is the difference of two numbers of dots.
IsSum(g, h, S) ==
  g = [s \in SUBSET S |->
         IF s = {} THEN 0 ELSE h[CHOOSE x \in s : TRUE] + g[s \ {CHOOSE x \in s : TRUE}]]

LEMMA OneSum ==
  ASSUME NEW S, IsFiniteSet(S), NEW h, NEW f, NEW g, IsSum(f, h, S), IsSum(g, h, S)
  PROVE  f[S] = g[S]
<1> DEFINE Bad == {s \in SUBSET S : f[s] # g[s]}
<1>1. SUFFICES ASSUME S \in Bad PROVE FALSE
  OBVIOUS
<1>2. IsWellFoundedOn(StrictSubsetOrdering(S), SUBSET S)
  BY FS_FiniteSubsetsOfFinite, FS_StrictSubsetOrderingWellFounded
<1>3. Bad \in SUBSET SUBSET S
  OBVIOUS
<1>4. PICK s \in Bad : \A t \in Bad : ~(<<t, s>> \in StrictSubsetOrdering(S))
  <2> HIDE DEF Bad
  <2> QED
    BY <1>1, <1>2, <1>3, WFMin
<1> DEFINE x == CHOOSE e \in s : TRUE
           r == s \ {x}
<1>5. s \in SUBSET S /\ f[s] # g[s]
  OBVIOUS
<1>6. /\ f[s] = IF s = {} THEN 0 ELSE h[x] + f[r]
      /\ g[s] = IF s = {} THEN 0 ELSE h[x] + g[r]
  BY <1>5 DEF IsSum
<1>7. s # {}
  BY <1>5, <1>6
<1>8. r \in SUBSET S /\ r \subseteq s /\ r # s
  BY <1>5, <1>7
<1>9. <<r, s>> \in StrictSubsetOrdering(S)
  BY <1>5, <1>8 DEF StrictSubsetOrdering
<1>10. f[r] = g[r]
  BY <1>4, <1>8, <1>9
<1> QED
  BY <1>5, <1>6, <1>7, <1>10

LEMMA SumIsDots ==
  ASSUME NEW S, IsFiniteSet(S), NEW f, NEW k, NEW h,
         \A x \in S : f[x] \in Nat /\ k[x] \in Nat /\ h[x] = f[x] - k[x]
  PROVE  /\ \E g : IsSum(g, h, S)
         /\ \A g : IsSum(g, h, S) => g[S] = Cardinality(Dots(f, S)) - Cardinality(Dots(k, S))
<1> DEFINE g == [s \in SUBSET S |-> Cardinality(Dots(f, s)) - Cardinality(Dots(k, s))]
           x(s) == CHOOSE e \in s : TRUE
<1>0. \A s \in SUBSET S : /\ IsFiniteSet(Dots(f, s)) /\ Cardinality(Dots(f, s)) \in Nat
                          /\ IsFiniteSet(Dots(k, s)) /\ Cardinality(Dots(k, s)) \in Nat
  BY DotsFinite
<1>1. ASSUME NEW s \in SUBSET S
      PROVE  g[s] = IF s = {} THEN 0 ELSE h[x(s)] + g[s \ {x(s)}]
  <2>1. CASE s = {}
    <3>1. Dots(f, s) = {} /\ Dots(k, s) = {}
      BY <2>1 DEF Dots
    <3>2. Cardinality(Dots(f, s)) = 0 /\ Cardinality(Dots(k, s)) = 0
      BY <3>1, FS_EmptySet
    <3> QED
      BY <2>1, <3>2
  <2>2. CASE s # {}
    <3> DEFINE r == s \ {x(s)}
    <3>1. x(s) \in s /\ r \in SUBSET S /\ x(s) \notin r /\ r \cup {x(s)} = s
      BY <2>2
    <3>2. f[x(s)] \in Nat /\ k[x(s)] \in Nat /\ h[x(s)] = f[x(s)] - k[x(s)]
      BY <3>1
    <3> HIDE DEF x, r
    <3>3. /\ Cardinality(Dots(f, r \cup {x(s)})) = Cardinality(Dots(f, r)) + f[x(s)]
          /\ Cardinality(Dots(k, r \cup {x(s)})) = Cardinality(Dots(k, r)) + k[x(s)]
      BY <1>0, <3>1, <3>2, DotsAdd
    <3>4. Cardinality(Dots(f, r)) \in Nat /\ Cardinality(Dots(k, r)) \in Nat
      BY <1>0, <3>1
    <3>5. g[s] = Cardinality(Dots(f, s)) - Cardinality(Dots(k, s))
          /\ g[r] = Cardinality(Dots(f, r)) - Cardinality(Dots(k, r))
      BY <3>1
    <3> HIDE DEF g
    <3>6. g[s] = h[x(s)] + g[r]
      BY <3>1, <3>2, <3>3, <3>4, <3>5
    <3> QED
      BY <2>2, <3>6 DEF r
  <2> QED
    BY <2>1, <2>2
<1>2. g = [s \in SUBSET S |-> g[s]]
  OBVIOUS
<1>3. g[S] = Cardinality(Dots(f, S)) - Cardinality(Dots(k, S))
  OBVIOUS
<1> HIDE DEF g
<1>4. g = [s \in SUBSET S |-> IF s = {} THEN 0 ELSE h[x(s)] + g[s \ {x(s)}]]
  BY <1>1, <1>2
<1>5. IsSum(g, h, S)
  BY <1>4 DEF IsSum
<1> QED
  BY <1>3, <1>5, OneSum

SumOf(f, S) == Cardinality(Dots(f, S))

LEMMA SumOfType ==
  ASSUME NEW S, IsFiniteSet(S), NEW f \in [S -> Nat]
  PROVE  SumOf(f, S) \in Nat
<1>1. S \in SUBSET S /\ \A x \in S : f[x] \in Nat
  OBVIOUS
<1> QED
  BY <1>1, DotsFinite DEF SumOf

LEMMA SumOfZero ==
  ASSUME NEW S
  PROVE  SumOf(Zero(S), S) = 0
<1>1. Dots(Zero(S), S) = {}
  BY DEF Dots, Zero
<1> QED
  BY <1>1, FS_EmptySet DEF SumOf

\* st.fmean of a table of numbers.
LEMMA MeanIs ==
  ASSUME NEW S, IsFiniteSet(S), NEW f \in [S -> Nat], S # {}
  PROVE  Mean(f) = <<SumOf(f, S), Cardinality(S)>>
<1> DEFINE z == Zero(S)
           iter == CHOOSE g : g = [s \in SUBSET S |->
                     IF s = {} THEN 0 ELSE f[CHOOSE x \in s : TRUE] + g[s \ {CHOOSE x \in s : TRUE}]]
<1>1. \A x \in S : f[x] \in Nat /\ z[x] \in Nat /\ f[x] = f[x] - z[x]
  BY DEF Zero
<1>2. /\ \E g : IsSum(g, f, S)
      /\ \A g : IsSum(g, f, S) => g[S] = SumOf(f, S) - SumOf(z, S)
  <2> HIDE DEF z
  <2> QED
    BY <1>1, SumIsDots DEF SumOf
<1>3. IsSum(iter, f, S)
  <2>1. iter = CHOOSE g : IsSum(g, f, S)
    BY DEF IsSum
  <2> HIDE DEF iter
  <2> QED
    BY <1>2, <2>1
<1>4. Mean(f) = <<iter[S], Cardinality(S)>>
  <2>1. DOMAIN f = S
    OBVIOUS
  <2>2. MapThenSumSet(LAMBDA s : f[s], S) = iter[S]
    BY DEF MapThenSumSet, MapThenFoldSet
  <2> HIDE DEF iter
  <2> QED
    BY <2>1, <2>2 DEF Mean
<1>5. SumOf(z, S) = 0 /\ SumOf(f, S) \in Nat
  BY SumOfZero, SumOfType
<1> HIDE DEF iter
<1> QED
  BY <1>2, <1>3, <1>4, <1>5

\* The seeds in the order the estimate takes them: every seed once.
Order(S) == CHOOSE f \in [1..Cardinality(S) -> S] : IsInjective(f)

LEMMA OrderIs ==
  ASSUME NEW S, IsFiniteSet(S)
  PROVE  /\ Cardinality(S) \in Nat
         /\ Order(S) \in [1..Cardinality(S) -> S]
         /\ \A i, j \in 1..Cardinality(S) : Order(S)[i] = Order(S)[j] => i = j
         /\ \A s \in S : \E i \in 1..Cardinality(S) : Order(S)[i] = s
<1> DEFINE n == Cardinality(S)
<1>1. n \in Nat /\ ExistsBijection(1..n, S)
  BY FS_CardinalityType
<1>2. PICK b \in Bijection(1..n, S) : TRUE
  BY <1>1 DEF ExistsBijection
<1>3. b \in [1..n -> S] /\ IsInjective(b)
  BY <1>2 DEF Bijection, Injection, IsInjective
<1>4. Order(S) \in [1..n -> S] /\ IsInjective(Order(S))
  BY <1>3 DEF Order
<1> DEFINE o == Order(S)
<1>5. o \in Injection(1..n, S)
  BY <1>4 DEF Injection
<1>6. IsFiniteSet(1..n) /\ Cardinality(1..n) = n
  <2>1. 1 \in Int /\ n \in Int
    BY <1>1
  <2>2. IsFiniteSet(1..n) /\ Cardinality(1..n) = IF 1 > n THEN 0 ELSE n - 1 + 1
    BY <2>1, FS_Interval
  <2> HIDE DEF n
  <2> QED
    BY <1>1, <2>2
<1>7. o \in Surjection(1..n, S)
  <2> HIDE DEF o
  <2>1. Cardinality(1..n) = Cardinality(S)
    BY <1>6
  <2> QED
    BY <1>5, <2>1, FS_Injection
<1>8. \A i, j \in 1..n : o[i] = o[j] => i = j
  BY <1>4 DEF IsInjective
<1>9. \A s \in S : \E i \in 1..n : o[i] = s
  BY <1>7 DEF Surjection
<1> QED
  BY <1>1, <1>4, <1>8, <1>9

\* A sum does not depend on the order.
LEMMA SumInOrder ==
  ASSUME NEW S, IsFiniteSet(S), NEW f \in [S -> Nat]
  PROVE  SumOf([i \in 1..Cardinality(S) |-> f[Order(S)[i]]], 1..Cardinality(S)) = SumOf(f, S)
<1> DEFINE n == Cardinality(S)
           o == Order(S)
           k == [i \in 1..n |-> f[o[i]]]
           D == Dots(k, 1..n)
           E == Dots(f, S)
           b == [d \in D |-> <<o[d[1]], d[2]>>]
<1>1. /\ n \in Nat /\ o \in [1..n -> S]
      /\ \A i, j \in 1..n : o[i] = o[j] => i = j
      /\ \A s \in S : \E i \in 1..n : o[i] = s
  BY OrderIs
<1> HIDE DEF n, o
<1>2. \A i \in 1..n : k[i] = f[o[i]] /\ k[i] \in Nat /\ o[i] \in S
  BY <1>1
<1> HIDE DEF k
<1>3. \A d \in D : d[1] \in 1..n /\ d[2] \in Nat \ {0} /\ d[2] <= f[o[d[1]]] /\ d = <<d[1], d[2]>>
  BY <1>2 DEF Dots
<1>4. ASSUME NEW d \in D PROVE b[d] \in E
  <2>1. o[d[1]] \in S
    BY <1>2, <1>3
  <2> QED
    BY <1>3, <2>1 DEF Dots
<1>5. b \in [D -> E]
  <2>1. b = [d \in D |-> b[d]]
    OBVIOUS
  <2> HIDE DEF b, D, E
  <2> QED
    BY <1>4, <2>1
<1>6. ASSUME NEW c \in D, NEW d \in D, b[c] = b[d] PROVE c = d
  <2>1. o[c[1]] = o[d[1]] /\ c[2] = d[2]
    BY <1>6
  <2> QED
    BY <1>1, <1>3, <2>1
<1>7. ASSUME NEW e \in E PROVE \E d \in D : b[d] = e
  <2>1. e[1] \in S /\ e[2] \in Nat \ {0} /\ e[2] <= f[e[1]] /\ e = <<e[1], e[2]>>
    BY DEF Dots
  <2>2. PICK i \in 1..n : o[i] = e[1]
    BY <1>1, <2>1
  <2>3. <<i, e[2]>> \in D
    BY <1>2, <2>1, <2>2 DEF Dots
  <2>4. b[<<i, e[2]>>] = e
    BY <2>1, <2>2, <2>3
  <2> QED
    BY <2>3, <2>4
<1>8. b \in Bijection(D, E)
  <2> HIDE DEF b, D, E
  <2> QED
    BY <1>5, <1>6, <1>7 DEF Bijection, Injection, Surjection, IsInjective
<1>9. IsFiniteSet(D)
  <2>1. IsFiniteSet(1..n)
    BY <1>1, 1 \in Int, FS_Interval
  <2>2. \A i \in 1..n : k[i] \in Nat
    BY <1>2
  <2>3. 1..n \in SUBSET (1..n)
    OBVIOUS
  <2> QED
    BY <2>1, <2>2, <2>3, DotsFinite
<1>10. Cardinality(D) = Cardinality(E)
  <2> HIDE DEF b, D, E
  <2> QED
    BY <1>8, <1>9, FS_Bijection DEF ExistsBijection
<1> QED
  BY <1>10 DEF SumOf, k, n, o

\* The sum of the differences of two tables over the seeds.
LEMMA TotalGapIs ==
  ASSUME NEW S, IsFiniteSet(S), NEW f \in [S -> Nat], NEW g \in [S -> Nat]
  PROVE  TotalGap(f, g, Order(S)) = SumOf(f, S) - SumOf(g, S)
<1> DEFINE n == Cardinality(S)
           o == Order(S)
           N1 == 1..n
           u == [i \in N1 |-> f[o[i]]]
           v == [i \in N1 |-> g[o[i]]]
           h == [i \in N1 |-> f[o[i]] - g[o[i]]]
           Step(q) == q = [s \in SUBSET N1 |->
                     IF s = {} THEN 0
                     ELSE f[o[CHOOSE x \in s : TRUE]] - g[o[CHOOSE x \in s : TRUE]] + q[s \ {CHOOSE x \in s : TRUE}]]
           iter == CHOOSE q : Step(q)
<1>1. n \in Nat /\ o \in [N1 -> S]
  BY OrderIs
<1>2. IsFiniteSet(N1)
  BY <1>1, 1 \in Int, FS_Interval
<1>3. SumOf(u, N1) = SumOf(f, S) /\ SumOf(v, N1) = SumOf(g, S)
  BY SumInOrder
<1>4. DOMAIN o = N1
  BY <1>1
<1>5. TotalGap(f, g, o) = iter[N1]
  <2>1. TotalGap(f, g, o) = FoldFunctionOnSet(LAMBDA s, t : f[s] - g[s] + t, 0, o, N1)
    BY <1>4 DEF TotalGap, FoldFunction
  <2> HIDE DEF o, n, N1
  <2> QED
    BY <2>1 DEF FoldFunctionOnSet, MapThenFoldSet
<1> HIDE DEF o, n, N1
<1>6. \A i \in N1 : u[i] \in Nat /\ v[i] \in Nat /\ h[i] = u[i] - v[i] /\ h[i] = f[o[i]] - g[o[i]]
  BY <1>1
<1> HIDE DEF u, v, h
<1>7. /\ \E q : IsSum(q, h, N1)
      /\ \A q : IsSum(q, h, N1) => q[N1] = SumOf(u, N1) - SumOf(v, N1)
  BY <1>2, <1>6, SumIsDots DEF SumOf
<1>8. \A q : IsSum(q, h, N1) <=> Step(q)
  <2>1. \A s \in SUBSET N1 : s # {} => (CHOOSE x \in s : TRUE) \in N1
    OBVIOUS
  <2>2. \A s \in SUBSET N1 : s # {} =>
           h[CHOOSE x \in s : TRUE] = f[o[CHOOSE x \in s : TRUE]] - g[o[CHOOSE x \in s : TRUE]]
    BY <1>6, <2>1
  <2> QED
    BY <2>2 DEF IsSum
<1>9. IsSum(iter, h, N1)
  <2> HIDE DEF Step
  <2>1. Step(iter)
    BY <1>7, <1>8
  <2> HIDE DEF iter
  <2> QED
    BY <1>8, <2>1
<1> HIDE DEF iter
<1> QED
  BY <1>3, <1>5, <1>7, <1>9 DEF o

(***************************************************************************)
(* A headroom and the point of its interval                                *)
(***************************************************************************)

LEMMA PairIsNotNone == \A a, b : <<a, b>> # None
<1>1. ASSUME NEW a, NEW b PROVE <<a, b>> # None
  <2>1. DOMAIN <<a, b>> = 1..2 /\ DOMAIN None = 1..0 /\ 2 \in 1..2 /\ 2 \notin 1..0
    BY DEF None
  <2> QED
    BY <2>1
<1> QED
  BY <1>1

\* The mean of positive numbers is positive.
LEMMA MeanIsTruthy ==
  ASSUME NEW S, IsFiniteSet(S), NEW f \in [S -> Nat], S # {}, \A s \in S : f[s] # 0
  PROVE  SumOf(f, S) # 0 /\ Truthy(Mean(f))
<1>1. PICK x \in S : f[x] \in Nat \ {0}
  OBVIOUS
<1>2. <<x, 1>> \in Dots(f, S)
  <2>1. <<x, 1>> \in S \X (Nat \ {0}) /\ <<x, 1>>[2] <= f[<<x, 1>>[1]]
    BY <1>1
  <2> QED
    BY <2>1 DEF Dots
<1>3. IsFiniteSet(Dots(f, S))
  <2>1. S \in SUBSET S /\ \A s \in S : f[s] \in Nat
    OBVIOUS
  <2> QED
    BY <2>1, DotsFinite
<1>4. SumOf(f, S) # 0
  BY <1>2, <1>3, FS_EmptySet DEF SumOf
<1>5. Mean(f) = <<SumOf(f, S), Cardinality(S)>>
  BY MeanIs
<1>6. <<SumOf(f, S), Cardinality(S)>> # None /\ <<SumOf(f, S), Cardinality(S)>>[1] = SumOf(f, S)
  BY PairIsNotNone
<1> QED
  BY <1>4, <1>5, <1>6 DEF Truthy

LEMMA SamePairs ==
  ASSUME NEW p, NEW q, NEW r, NEW s, p * s = r * q
  PROVE  Same(<<p, q>>, <<r, s>>)
<1>1. <<p, q>>[1] = p /\ <<p, q>>[2] = q /\ <<r, s>>[1] = r /\ <<r, s>>[2] = s
  OBVIOUS
<1> DEFINE x == <<p, q>>
           y == <<r, s>>
<1>2. None \notin {x, y}
  BY PairIsNotNone
<1>3. x[1] * y[2] = y[1] * x[2]
  BY <1>1
<1> HIDE DEF x, y
<1>4. Same(x, y)
  BY <1>2, <1>3 DEF Same
<1> QED
  BY <1>4 DEF x, y

\* The point of an interval is the quotient of two differences of sums.
LEMMA PointIs ==
  ASSUME NEW S, IsFiniteSet(S), NEW a \in [S -> Nat], NEW b \in [S -> Nat],
         NEW c \in [S -> Nat], NEW d \in [S -> Nat]
  PROVE  LET den == SumOf(c, S) - SumOf(d, S)
             ci  == BootstrapRatio(<<a, b>>, <<c, d>>)
         IN  \/ ci = None
             \/ den # 0 /\ ci.point = Over(<<SumOf(a, S) - SumOf(b, S), 1>>, <<den, 1>>)
<1> DEFINE den == SumOf(c, S) - SumOf(d, S)
           ci == BootstrapRatio(<<a, b>>, <<c, d>>)
           point == RatioOf(<<a, b>>, <<c, d>>, Order(S))
<1>1. /\ TotalGap(a, b, Order(S)) = SumOf(a, S) - SumOf(b, S)
      /\ TotalGap(c, d, Order(S)) = den
  BY TotalGapIs
<1>2. point = IF den = 0 THEN None ELSE Over(<<SumOf(a, S) - SumOf(b, S), 1>>, <<den, 1>>)
  <2> HIDE DEF den
  <2> QED
    BY <1>1 DEF RatioOf
<1>3. DOMAIN a = S
  OBVIOUS
<1> HIDE DEF den, point
<1>4. \/ ci = None
      \/ point # None /\ ci.point = point
  <2>1. ci = IF S = {} \/ point = None THEN None
             ELSE [point |-> point,
                   draws |-> {RatioOf(<<a, b>>, <<c, d>>, idx) : idx \in [1..Cardinality(S) -> S]} \ {None}]
    BY <1>3 DEF BootstrapRatio, point, Order
  <2> HIDE DEF ci
  <2> QED
    BY <2>1
<1> HIDE DEF ci
<1>5. ci = None \/ (den # 0 /\ ci.point = Over(<<SumOf(a, S) - SumOf(b, S), 1>>, <<den, 1>>))
  BY <1>2, <1>4
<1> QED
  BY <1>5 DEF ci, den

\* The numbers of the quotients: l, v and b are sums over n seeds.
LEMMA GainNumbers ==
  ASSUME NEW l \in Nat, NEW v \in Nat, NEW n \in Nat, l # 0
  PROVE  Same(Over(Minus(<<l, n>>, <<v, n>>), <<l, n>>), Over(<<l - v, 1>>, <<l - 0, 1>>))
<1>1. Over(Minus(<<l, n>>, <<v, n>>), <<l, n>>) = <<(l * n - v * n) * n, (n * n) * l>>
  BY DEF Over, Minus
<1>2. Over(<<l - v, 1>>, <<l - 0, 1>>) = <<(l - v) * 1, 1 * (l - 0)>>
  BY DEF Over
<1>3. ((l * n - v * n) * n) * (1 * (l - 0)) = ((l - v) * 1) * ((n * n) * l)
  OBVIOUS
<1> QED
  BY <1>1, <1>2, <1>3, PairIsNotNone DEF Same

LEMMA ShareNumbers ==
  ASSUME NEW l \in Nat, NEW v \in Nat, NEW b \in Nat, NEW n \in Nat, n # 0, l - b # 0
  PROVE  Same(Over(Minus(<<l, n>>, <<v, n>>), Minus(<<l, n>>, <<b, n>>)), Over(<<l - v, 1>>, <<l - b, 1>>))
<1>1. Minus(<<l, n>>, <<v, n>>) = <<l * n - v * n, n * n>> /\ Minus(<<l, n>>, <<b, n>>) = <<l * n - b * n, n * n>>
  BY DEF Minus
<1>2. l * n - b * n < 0 <=> l - b < 0
  <2>1. l * n - b * n = (l - b) * n
    OBVIOUS
  <2>2. \A x \in Int, y \in Nat \ {0} : x * y < 0 <=> x < 0
    OBVIOUS
  <2> QED
    BY <2>1, <2>2
<1>3. CASE l - b < 0
  <2>1. Over(<<l * n - v * n, n * n>>, <<l * n - b * n, n * n>>)
          = <<-((l * n - v * n) * (n * n)), -((n * n) * (l * n - b * n))>>
    BY <1>2, <1>3 DEF Over
  <2>2. Over(<<l - v, 1>>, <<l - b, 1>>) = <<-((l - v) * 1), -(1 * (l - b))>>
    BY <1>3 DEF Over
  <2>3. (-((l * n - v * n) * (n * n))) * (-(1 * (l - b))) = (-((l - v) * 1)) * (-((n * n) * (l * n - b * n)))
    OBVIOUS
  <2>4. Same(<<-((l * n - v * n) * (n * n)), -((n * n) * (l * n - b * n))>>, <<-((l - v) * 1), -(1 * (l - b))>>)
    BY <2>3, SamePairs
  <2> QED
    BY <1>1, <2>1, <2>2, <2>4
<1>4. CASE ~(l - b < 0)
  <2>1. Over(<<l * n - v * n, n * n>>, <<l * n - b * n, n * n>>)
          = <<(l * n - v * n) * (n * n), (n * n) * (l * n - b * n)>>
    BY <1>2, <1>4 DEF Over
  <2>2. Over(<<l - v, 1>>, <<l - b, 1>>) = <<(l - v) * 1, 1 * (l - b)>>
    BY <1>4 DEF Over
  <2>3. ((l * n - v * n) * (n * n)) * (1 * (l - b)) = ((l - v) * 1) * ((n * n) * (l * n - b * n))
    OBVIOUS
  <2> QED
    BY <1>1, <2>1, <2>2, <2>3, PairIsNotNone DEF Same
<1> QED
  BY <1>3, <1>4

\* The share as exp01 computes it, a gain over the headroom.
LEMMA RatioNumbers ==
  ASSUME NEW l \in Nat, NEW v \in Nat, NEW b \in Nat, NEW n \in Nat, n # 0, l > 0, l - b > 0
  PROVE  Same(Over(Over(Minus(<<l, n>>, <<v, n>>), <<l, n>>), Over(Minus(<<l, n>>, <<b, n>>), <<l, n>>)),
              Over(<<l - v, 1>>, <<l - b, 1>>))
<1>1. /\ Over(Minus(<<l, n>>, <<v, n>>), <<l, n>>) = <<(l * n - v * n) * n, (n * n) * l>>
      /\ Over(Minus(<<l, n>>, <<b, n>>), <<l, n>>) = <<(l * n - b * n) * n, (n * n) * l>>
  BY DEF Over, Minus
<1>2. ~((l * n - b * n) * n < 0)
  <2>1. (l * n - b * n) * n = (l - b) * (n * n)
    OBVIOUS
  <2>2. n * n \in Nat /\ l - b \in Nat
    OBVIOUS
  <2>3. \A x, y \in Nat : ~(x * y < 0)
    OBVIOUS
  <2> QED
    BY <2>1, <2>2, <2>3
<1>3. Over(<<(l * n - v * n) * n, (n * n) * l>>, <<(l * n - b * n) * n, (n * n) * l>>)
        = <<((l * n - v * n) * n) * ((n * n) * l), ((n * n) * l) * ((l * n - b * n) * n)>>
  BY <1>2 DEF Over
<1>4. Over(<<l - v, 1>>, <<l - b, 1>>) = <<(l - v) * 1, 1 * (l - b)>>
  BY DEF Over
<1>5. (((l * n - v * n) * n) * ((n * n) * l)) * (1 * (l - b))
        = ((l - v) * 1) * (((n * n) * l) * ((l * n - b * n) * n))
  OBVIOUS
<1> QED
  BY <1>1, <1>3, <1>4, <1>5, PairIsNotNone DEF Same

\* Without a seed there is no interval.
LEMMA NoSeeds ==
  \A l, v, b : GainCi(l, v, {}) = None /\ ShareCi(l, v, b, {}) = None
<1> SUFFICES ASSUME NEW l, NEW v, NEW b
             PROVE  GainCi(l, v, {}) = None /\ ShareCi(l, v, b, {}) = None
  OBVIOUS
<1>1. DOMAIN Restricted(l, {}) = {}
  BY DEF Restricted
<1>2. \A w, d : BootstrapRatio(<<Restricted(l, {}), w>>, d) = None
  BY <1>1 DEF BootstrapRatio
<1> QED
  BY <1>2 DEF GainCi, ShareCi

LEMMA RestrictedToAll ==
  ASSUME NEW S, NEW f \in [S -> Nat]
  PROVE  Restricted(f, S) = f
BY DEF Restricted

\* A gain over LRU, and the interval over the seeds D of its tables: all of
\* them, or none where an arm is missing.
LEMMA GainAgrees ==
  ASSUME NEW S, IsFiniteSet(S), NEW D, NEW l, NEW v,
         D = {} \/ (D = S /\ l \in [S -> Nat] /\ v \in [S -> Nat])
  PROVE  Agrees(Gain(Mean(l), Mean(v)), GainCi(l, v, D))
<1> DEFINE value == Gain(Mean(l), Mean(v))
           ci == GainCi(l, v, D)
<1>1. CASE D = {}
  <2>1. ci = None
    BY <1>1, NoSeeds
  <2> HIDE DEF ci
  <2> QED
    BY <2>1 DEF Agrees, ci
<1>2. CASE D # {}
  <2> DEFINE n == Cardinality(S)
             L == SumOf(l, S)
             V == SumOf(v, S)
  <2>1. D = S /\ S # {} /\ l \in [S -> Nat] /\ v \in [S -> Nat]
    BY <1>2
  <2>2. L \in Nat /\ V \in Nat /\ n \in Nat
    BY <2>1, SumOfType, FS_CardinalityType
  <2>3. Mean(l) = <<L, n>> /\ Mean(v) = <<V, n>>
    BY <2>1, MeanIs
  <2>4. ci = None \/ (L - 0 # 0 /\ ci.point = Over(<<L - V, 1>>, <<L - 0, 1>>))
    <3>1. Zero(S) \in [S -> Nat]
      BY DEF Zero
    <3>2. SumOf(Zero(S), S) = 0
      BY SumOfZero
    <3>3. ci = BootstrapRatio(<<l, v>>, <<l, Zero(S)>>)
      BY <2>1, RestrictedToAll DEF GainCi
    <3> HIDE DEF ci, L, V
    <3>4. \/ ci = None
          \/ /\ SumOf(l, S) - SumOf(Zero(S), S) # 0
             /\ ci.point = Over(<<SumOf(l, S) - SumOf(v, S), 1>>, <<SumOf(l, S) - SumOf(Zero(S), S), 1>>)
      BY <2>1, <3>1, <3>3, PointIs
    <3> QED
      BY <3>2, <3>4 DEF L, V
  <2> HIDE DEF ci, L, V, n
  <2>5. CASE ci = None
    BY <2>5 DEF Agrees, ci
  <2>6. CASE L - 0 # 0 /\ ci.point = Over(<<L - V, 1>>, <<L - 0, 1>>)
    <3>1. L # 0
      BY <2>2, <2>6
    <3>2. value = Over(Minus(<<L, n>>, <<V, n>>), <<L, n>>)
      <4>1. None \notin {<<L, n>>, <<V, n>>} /\ <<L, n>>[1] # 0
        BY <3>1, PairIsNotNone
      <4> QED
        BY <2>3, <4>1 DEF Gain, Truthy
    <3>3. Same(Over(Minus(<<L, n>>, <<V, n>>), <<L, n>>), Over(<<L - V, 1>>, <<L - 0, 1>>))
      BY <2>2, <3>1, GainNumbers
    <3> HIDE DEF value
    <3>4. Same(value, ci.point)
      BY <2>6, <3>2, <3>3
    <3> QED
      BY <3>4 DEF Agrees, value, ci
  <2> QED
    BY <2>4, <2>5, <2>6
<1> QED
  BY <1>1, <1>2

\* The interval of a share of the headroom.
LEMMA SharePoint ==
  ASSUME NEW S, IsFiniteSet(S), NEW l \in [S -> Nat], NEW v \in [S -> Nat], NEW b \in [S -> Nat]
  PROVE  LET den == SumOf(l, S) - SumOf(b, S)
             ci  == ShareCi(l, v, b, S)
         IN  \/ ci = None
             \/ den # 0 /\ ci.point = Over(<<SumOf(l, S) - SumOf(v, S), 1>>, <<den, 1>>)
<1>1. ShareCi(l, v, b, S) = BootstrapRatio(<<l, v>>, <<l, b>>)
  BY RestrictedToAll DEF ShareCi
<1> QED
  BY <1>1, PointIs

\* A share of the difference of the means, and its interval.
LEMMA ShareAgrees ==
  ASSUME NEW S, IsFiniteSet(S), NEW D, NEW l, NEW v, NEW b,
         D = {} \/ (D = S /\ l \in [S -> Nat] /\ v \in [S -> Nat] /\ b \in [S -> Nat])
  PROVE  Agrees(Share(Mean(l), Mean(v), Mean(b)), ShareCi(l, v, b, D))
<1> DEFINE value == Share(Mean(l), Mean(v), Mean(b))
           ci == ShareCi(l, v, b, D)
<1>1. CASE D = {}
  <2>1. ci = None
    BY <1>1, NoSeeds
  <2> HIDE DEF ci
  <2> QED
    BY <2>1 DEF Agrees, ci
<1>2. CASE D # {}
  <2> DEFINE n == Cardinality(S)
             L == SumOf(l, S)
             V == SumOf(v, S)
             B == SumOf(b, S)
  <2>1. D = S /\ S # {} /\ l \in [S -> Nat] /\ v \in [S -> Nat] /\ b \in [S -> Nat]
    BY <1>2
  <2>2. L \in Nat /\ V \in Nat /\ B \in Nat /\ n \in Nat /\ n # 0
    BY <2>1, SumOfType, FS_CardinalityType, FS_EmptySet
  <2>3. Mean(l) = <<L, n>> /\ Mean(v) = <<V, n>> /\ Mean(b) = <<B, n>>
    BY <2>1, MeanIs
  <2>4. ci = None \/ (L - B # 0 /\ ci.point = Over(<<L - V, 1>>, <<L - B, 1>>))
    BY <2>1, SharePoint
  <2> HIDE DEF ci, L, V, B, n
  <2>5. CASE ci = None
    BY <2>5 DEF Agrees, ci
  <2>6. CASE L - B # 0 /\ ci.point = Over(<<L - V, 1>>, <<L - B, 1>>)
    <3>1. value = None \/ value = Over(Minus(<<L, n>>, <<V, n>>), Minus(<<L, n>>, <<B, n>>))
      BY <2>3 DEF Share
    <3>2. Same(Over(Minus(<<L, n>>, <<V, n>>), Minus(<<L, n>>, <<B, n>>)), Over(<<L - V, 1>>, <<L - B, 1>>))
      BY <2>2, <2>6, ShareNumbers
    <3> HIDE DEF value
    <3>3. value = None \/ Same(value, ci.point)
      BY <2>6, <3>1, <3>2
    <3> QED
      BY <3>3 DEF Agrees, value, ci
  <2> QED
    BY <2>4, <2>5, <2>6
<1> QED
  BY <1>1, <1>2

\* A headroom that is reliable is positive: exp01 divides by it.
MinHeadroomPositive == {MinHeadroom[1], MinHeadroom[2]} \subseteq Nat \ {0}

LEMMA RatioAgrees ==
  ASSUME MinHeadroomPositive, NEW S, IsFiniteSet(S), NEW D, NEW l, NEW v, NEW b,
         D = {} \/ (D = S /\ l \in [S -> Nat] /\ v \in [S -> Nat] /\ b \in [S -> Nat])
  PROVE  LET headroom == Gain(Mean(l), Mean(b))
             share == IF AtLeast(headroom, MinHeadroom) THEN Over(Gain(Mean(l), Mean(v)), headroom) ELSE None
         IN  Agrees(share, ShareCi(l, v, b, D))
<1> DEFINE headroom == Gain(Mean(l), Mean(b))
           value == IF AtLeast(headroom, MinHeadroom) THEN Over(Gain(Mean(l), Mean(v)), headroom) ELSE None
           ci == ShareCi(l, v, b, D)
<1>1. CASE D = {}
  <2>1. ci = None
    BY <1>1, NoSeeds
  <2> HIDE DEF ci, value
  <2>2. Agrees(value, ci)
    BY <2>1 DEF Agrees
  <2> QED
    BY <2>2 DEF ci, value
<1>2. CASE D # {}
  <2> DEFINE n == Cardinality(S)
             L == SumOf(l, S)
             V == SumOf(v, S)
             B == SumOf(b, S)
  <2>1. D = S /\ S # {} /\ l \in [S -> Nat] /\ v \in [S -> Nat] /\ b \in [S -> Nat]
    BY <1>2
  <2>2. L \in Nat /\ V \in Nat /\ B \in Nat /\ n \in Nat /\ n # 0
    BY <2>1, SumOfType, FS_CardinalityType, FS_EmptySet
  <2>3. Mean(l) = <<L, n>> /\ Mean(v) = <<V, n>> /\ Mean(b) = <<B, n>>
    BY <2>1, MeanIs
  <2>4. ci = None \/ (L - B # 0 /\ ci.point = Over(<<L - V, 1>>, <<L - B, 1>>))
    BY <2>1, SharePoint
  <2> HIDE DEF ci, L, V, B, n
  <2>5. headroom = IF L = 0 THEN <<0, 1>> ELSE Over(Minus(<<L, n>>, <<B, n>>), <<L, n>>)
    BY <2>3, PairIsNotNone DEF Gain, Truthy
  <2>6. CASE ci # None /\ AtLeast(headroom, MinHeadroom)
    <3>1. L - B # 0 /\ ci.point = Over(<<L - V, 1>>, <<L - B, 1>>)
      BY <2>4, <2>6
    <3>2. headroom[1] * MinHeadroom[2] >= MinHeadroom[1] * headroom[2]
      BY <2>6 DEF AtLeast
    <3> DEFINE p == MinHeadroom[1]
               q == MinHeadroom[2]
    <3>3. p \in Nat \ {0} /\ q \in Nat \ {0}
      BY DEF MinHeadroomPositive
    <3>4. L > 0
      <4>1. SUFFICES ASSUME L = 0 PROVE FALSE
        BY <2>2
      <4>2. headroom = <<0, 1>>
        BY <2>5, <4>1
      <4>3. 0 * q >= p * 1
        BY <3>2, <4>2
      <4> HIDE DEF p, q
      <4> QED
        BY <3>3, <4>3
    <3>5. headroom = <<(L * n - B * n) * n, (n * n) * L>>
      BY <2>2, <2>5, <3>4 DEF Over, Minus
    <3>6. L - B > 0
      <4> DEFINE x == (L * n - B * n) * n
                 y == (n * n) * L
      <4>1. x * q >= p * y
        BY <3>2, <3>5
      <4>2. y \in Nat \ {0} /\ x \in Int
        <5>1. \A i, j \in Nat \ {0} : i * j \in Nat \ {0}
          OBVIOUS
        <5>2. n * n \in Nat \ {0}
          BY <2>2, <5>1
        <5> QED
          BY <2>2, <3>4, <5>1, <5>2
      <4>3. x = (L - B) * (n * n)
        BY <2>2
      <4> HIDE DEF p, q, x, y
      <4>4. p * y > 0
        BY <3>3, <4>2
      <4>5. x * q > 0
        BY <3>3, <4>1, <4>2, <4>4
      <4>6. x > 0
        <5>1. \A i \in Int, j \in Nat : i * j > 0 => i > 0
          OBVIOUS
        <5> QED
          BY <3>3, <4>2, <4>5, <5>1
      <4>7. (L - B) * (n * n) > 0
        BY <4>3, <4>6
      <4>8. \A i \in Int, j \in Nat : i * j > 0 => i > 0
        OBVIOUS
      <4>9. L - B \in Int /\ n * n \in Nat
        BY <2>2
      <4> QED
        BY <4>7, <4>8, <4>9
    <3>7. value = Over(Over(Minus(<<L, n>>, <<V, n>>), <<L, n>>), Over(Minus(<<L, n>>, <<B, n>>), <<L, n>>))
      <4>1. Gain(Mean(l), Mean(v)) = Over(Minus(<<L, n>>, <<V, n>>), <<L, n>>)
        <5>1. None \notin {<<L, n>>, <<V, n>>} /\ <<L, n>>[1] # 0
          BY <2>2, <3>4, PairIsNotNone
        <5> QED
          BY <2>3, <5>1 DEF Gain, Truthy
      <4>2. headroom = Over(Minus(<<L, n>>, <<B, n>>), <<L, n>>)
        BY <2>2, <2>5, <3>4
      <4> HIDE DEF headroom
      <4> QED
        BY <2>6, <4>1, <4>2
    <3> HIDE DEF value, headroom
    <3>8. Same(value, ci.point)
      BY <2>2, <3>1, <3>4, <3>6, <3>7, RatioNumbers
    <3>9. Agrees(value, ci)
      BY <3>8 DEF Agrees
    <3> QED
      BY <3>9 DEF value, headroom, ci
  <2>7. CASE ci = None \/ ~AtLeast(headroom, MinHeadroom)
    <3>1. ci = None \/ value = None
      BY <2>7
    <3> HIDE DEF value
    <3>2. Agrees(value, ci)
      BY <3>1 DEF Agrees
    <3> QED
      BY <3>2 DEF value, ci
  <2> QED
    BY <2>6, <2>7
<1> QED
  BY <1>1, <1>2

(***************************************************************************)
(* The rows of a whole grid                                                *)
(***************************************************************************)

SeedsAt(data, p, a, t) == {r.seed : r \in {q \in data : q.point = p /\ q.policy = a /\ q.ttl = t}}

\* What was run at all was run with every seed of S.
WholeRows(data, S) ==
  /\ IsFiniteSet(S) /\ IsFiniteSet(data) /\ \A r \in data : r.tokens \in Nat \ {0}
  /\ \A p, a, t : SeedsAt(data, p, a, t) \in {S, {}}

LEMMA TableIs ==
  ASSUME NEW data, NEW S, WholeRows(data, S), NEW p, NEW a, NEW t
  PROVE  LET f == BySeed(data, p, a, t)
         IN  /\ DOMAIN f = SeedsAt(data, p, a, t) /\ f \in [SeedsAt(data, p, a, t) -> Nat]
             /\ \A s \in SeedsAt(data, p, a, t) : f[s] # 0
<1> DEFINE at == {r \in data : r.point = p /\ r.policy = a /\ r.ttl = t}
           D == SeedsAt(data, p, a, t)
           f == BySeed(data, p, a, t)
<1>1. f = [s \in D |-> (CHOOSE r \in at : r.seed = s).tokens]
  BY DEF BySeed, SeedsAt
<1>2. ASSUME NEW s \in D PROVE (CHOOSE r \in at : r.seed = s).tokens \in Nat \ {0}
  <2>1. \E r \in at : r.seed = s
    BY DEF SeedsAt
  <2>2. (CHOOSE r \in at : r.seed = s) \in at
    BY <2>1
  <2>3. (CHOOSE r \in at : r.seed = s) \in data
    BY <2>2
  <2> QED
    BY <2>3 DEF WholeRows
<1> HIDE DEF f, D
<1>3. DOMAIN f = D /\ f \in [D -> Nat] /\ \A s \in D : f[s] # 0
  BY <1>1, <1>2
<1> QED
  BY <1>3 DEF f, D

\* The seeds that two or three arms have: all, or none.
LEMMA TwoTables ==
  ASSUME NEW data, NEW S, WholeRows(data, S), NEW p, NEW a, NEW b, NEW D,
         D \subseteq DOMAIN BySeed(data, p, a, 0) \cap DOMAIN BySeed(data, p, b, 0), D \in {S, {}}
  PROVE  D = {} \/ (D = S /\ BySeed(data, p, a, 0) \in [S -> Nat] /\ BySeed(data, p, b, 0) \in [S -> Nat])
<1>1. /\ DOMAIN BySeed(data, p, a, 0) = SeedsAt(data, p, a, 0)
      /\ BySeed(data, p, a, 0) \in [SeedsAt(data, p, a, 0) -> Nat]
      /\ SeedsAt(data, p, a, 0) \in {S, {}}
  BY TableIs DEF WholeRows
<1>2. /\ DOMAIN BySeed(data, p, b, 0) = SeedsAt(data, p, b, 0)
      /\ BySeed(data, p, b, 0) \in [SeedsAt(data, p, b, 0) -> Nat]
      /\ SeedsAt(data, p, b, 0) \in {S, {}}
  BY TableIs DEF WholeRows
<1>3. D # {} => SeedsAt(data, p, a, 0) = S /\ SeedsAt(data, p, b, 0) = S
  BY <1>1, <1>2
<1> QED
  BY <1>1, <1>2, <1>3

LEMMA PairedSeeds ==
  ASSUME NEW data, NEW S, WholeRows(data, S), NEW p
  PROVE  \A a, b, c :
           LET T(x) == BySeed(data, p, x, 0)
           IN  /\ DOMAIN T(a) \cap DOMAIN T(b) \in {S, {}}
               /\ DOMAIN T(a) \cap DOMAIN T(b) \cap DOMAIN T(c) \in {S, {}}
<1>1. \A a : DOMAIN BySeed(data, p, a, 0) \in {S, {}}
  <2> TAKE a
  <2>1. SeedsAt(data, p, a, 0) \in {S, {}}
    BY DEF WholeRows
  <2>2. DOMAIN BySeed(data, p, a, 0) = SeedsAt(data, p, a, 0)
    BY TableIs
  <2> QED
    BY <2>1, <2>2
<1> QED
  BY <1>1

\* The reports over paired seeds: exp02, exp03.
LEMMA PairedAgrees ==
  ASSUME NEW data, NEW S, WholeRows(data, S), NEW p \in DOMAIN PairedReport(data)
  PROVE  LET e == PairedReport(data)[p] IN Agrees(e.headroom, e.headroomCi)
<1> DEFINE T(a) == BySeed(data, p, a, 0)
           D == DOMAIN T("lru") \cap DOMAIN T("belady")
<1>1. p \in Points(data)
  BY DEF PairedReport
<1>2. /\ PairedReport(data)[p].headroom = Gain(Mean(T("lru")), Mean(T("belady")))
      /\ PairedReport(data)[p].headroomCi = GainCi(T("lru"), T("belady"), D)
  BY <1>1 DEF PairedReport
<1>3. D \in {S, {}}
  BY PairedSeeds
<1>4. D = {} \/ (D = S /\ T("lru") \in [S -> Nat] /\ T("belady") \in [S -> Nat])
  BY <1>3, TwoTables
<1>5. IsFiniteSet(S)
  BY DEF WholeRows
<1> HIDE DEF T, D
<1>6. Agrees(Gain(Mean(T("lru")), Mean(T("belady"))), GainCi(T("lru"), T("belady"), D))
  BY <1>4, <1>5, GainAgrees
<1> QED
  BY <1>2, <1>6

LEMMA Exp04Agrees ==
  ASSUME NEW data, NEW S, WholeRows(data, S), NEW p \in DOMAIN Exp04Report(data)
  PROVE  LET e == Exp04Report(data)[p]
         IN  /\ Agrees(e.headroom, e.headroomCi)
             /\ \A a \in DOMAIN e.shares : Agrees(e.shares[a].share, e.shares[a].ci)
<1> DEFINE T(a) == BySeed(data, p, a, 0)
           M(a) == Mean(T(a))
           both == DOMAIN T("lru") \cap DOMAIN T("belady")
           arms == {"oracle_terminal", "belady_pause", "predict_terminal", "predict", "predict_guarded"}
           Ci(a) == IF Cardinality(both \cap DOMAIN T(a)) < 2 THEN None
                    ELSE ShareCi(T("lru"), T(a), T("belady"), both \cap DOMAIN T(a))
           gap == IF Truthy(M("lru")) /\ Truthy(M("belady")) THEN Minus(M("lru"), M("belady")) ELSE <<0, 1>>
           headroom == IF Truthy(M("lru")) THEN Over(gap, M("lru")) ELSE <<0, 1>>
           headroomCi == IF Cardinality(both) < 2 THEN None ELSE GainCi(T("lru"), T("belady"), both)
<1>1. p \in Points(data)
  BY DEF Exp04Report
<1>2. /\ Exp04Report(data)[p].headroom = headroom
      /\ Exp04Report(data)[p].headroomCi = headroomCi
      /\ Exp04Report(data)[p].shares =
           [a \in arms |-> [share |-> IF gap[1] > 0 THEN Share(M("lru"), M(a), M("belady")) ELSE None,
                            ci |-> IF a \in {"predict", "predict_guarded"} THEN None ELSE Ci(a)]]
  BY <1>1 DEF Exp04Report
<1>3. IsFiniteSet(S)
  BY DEF WholeRows
<1>4. Agrees(headroom, headroomCi)
  <2>1. both \in {S, {}}
    BY PairedSeeds
  <2>2. both = {} \/ (both = S /\ T("lru") \in [S -> Nat] /\ T("belady") \in [S -> Nat])
    BY <2>1, TwoTables
  <2>3. CASE both = {}
    <3> HIDE DEF headroom, both
    <3>1. GainCi(T("lru"), T("belady"), {}) = None
      BY NoSeeds
    <3>2. headroomCi = None
      BY <2>3, <3>1
    <3> QED
      BY <3>2 DEF Agrees
  <2>4. CASE both # {}
    <3>1. DOMAIN T("lru") = S /\ DOMAIN T("belady") = S /\ S # {}
      BY <2>1, <2>2, <2>4
    <3>2. \A s \in S : T("lru")[s] # 0 /\ T("belady")[s] # 0
      BY <3>1, TableIs
    <3> HIDE DEF T, both
    <3>3. Truthy(M("lru")) /\ Truthy(M("belady"))
      BY <1>3, <2>2, <2>4, <3>1, <3>2, MeanIsTruthy
    <3>4. headroom = Gain(M("lru"), M("belady"))
      BY <3>3 DEF Gain, Truthy
    <3>5. Agrees(Gain(M("lru"), M("belady")), GainCi(T("lru"), T("belady"), both))
      BY <1>3, <2>2, GainAgrees
    <3> HIDE DEF M, headroom
    <3> QED
      BY <3>4, <3>5 DEF Agrees
  <2> QED
    BY <2>3, <2>4
<1>5. ASSUME NEW a PROVE Agrees(Share(M("lru"), M(a), M("belady")), Ci(a))
  <2> DEFINE D == both \cap DOMAIN T(a)
  <2>1. D \in {S, {}}
    BY PairedSeeds
  <2>2. D = {} \/ (D = S /\ T("lru") \in [S -> Nat] /\ T(a) \in [S -> Nat])
    BY <2>1, TwoTables
  <2>3. D = {} \/ (D = S /\ T("lru") \in [S -> Nat] /\ T("belady") \in [S -> Nat])
    BY <2>1, TwoTables
  <2> HIDE DEF T, D
  <2>4. Agrees(Share(Mean(T("lru")), Mean(T(a)), Mean(T("belady"))), ShareCi(T("lru"), T(a), T("belady"), D))
    BY <1>3, <2>2, <2>3, ShareAgrees
  <2>5. Ci(a) = None \/ Ci(a) = ShareCi(T("lru"), T(a), T("belady"), D)
    BY DEF D
  <2> QED
    BY <2>4, <2>5 DEF Agrees
<1> HIDE DEF headroom, headroomCi, gap
<1>6. Agrees(Exp04Report(data)[p].headroom, Exp04Report(data)[p].headroomCi)
  BY <1>2, <1>4
<1>7. \A a \in DOMAIN Exp04Report(data)[p].shares :
        Agrees(Exp04Report(data)[p].shares[a].share, Exp04Report(data)[p].shares[a].ci)
  <2> HIDE DEF M, T, both, Ci
  <2>1. DOMAIN Exp04Report(data)[p].shares = arms
    BY <1>2
  <2>2. ASSUME NEW a \in arms
        PROVE  /\ Exp04Report(data)[p].shares[a].share \in {None, Share(M("lru"), M(a), M("belady"))}
               /\ Exp04Report(data)[p].shares[a].ci \in {None, Ci(a)}
    BY <1>2
  <2> QED
    BY <1>5, <2>1, <2>2 DEF Agrees
<1> QED
  BY <1>6, <1>7

\* A finite set has a greatest element for an order that compares any two.
LEMMA Greatest ==
  ASSUME NEW S, IsFiniteSet(S), S # {}, NEW R,
         \A x, y \in S : <<x, y>> \in R \/ <<y, x>> \in R,
         \A x, y, z \in S : <<x, y>> \in R /\ <<y, z>> \in R => <<x, z>> \in R
  PROVE  \E m \in S : \A x \in S : <<m, x>> \in R
<1> DEFINE Top(s) == \E m \in s : \A x \in s : <<m, x>> \in R
           Bad == {s \in SUBSET S : s # {} /\ ~Top(s)}
<1>1. SUFFICES ASSUME S \in Bad PROVE FALSE
  OBVIOUS
<1>2. IsWellFoundedOn(StrictSubsetOrdering(S), SUBSET S)
  BY FS_FiniteSubsetsOfFinite, FS_StrictSubsetOrderingWellFounded
<1>3. Bad \in SUBSET SUBSET S
  OBVIOUS
<1>4. PICK s \in Bad : \A t \in Bad : ~(<<t, s>> \in StrictSubsetOrdering(S))
  <2> HIDE DEF Bad
  <2> QED
    BY <1>1, <1>2, <1>3, WFMin
<1>5. s \in SUBSET S /\ s # {} /\ ~Top(s)
  OBVIOUS
<1>6. PICK x \in s : TRUE
  BY <1>5
<1> DEFINE r == s \ {x}
<1>7. r \in SUBSET S /\ r \subseteq s /\ r # s /\ x \in S /\ <<x, x>> \in R
  BY <1>5, <1>6
<1>8. CASE r = {}
  <2>1. \A y \in s : y = x
    BY <1>8
  <2> QED
    BY <1>5, <1>6, <1>7, <2>1
<1>9. CASE r # {}
  <2>1. <<r, s>> \in StrictSubsetOrdering(S)
    BY <1>5, <1>7 DEF StrictSubsetOrdering
  <2>2. Top(r)
    BY <1>4, <1>7, <1>9, <2>1
  <2>3. PICK m \in r : \A y \in r : <<m, y>> \in R
    BY <2>2
  <2>4. m \in S /\ m \in s
    BY <1>7
  <2>5. CASE <<m, x>> \in R
    <3>1. \A y \in s : <<m, y>> \in R
      BY <2>3, <2>5
    <3> QED
      BY <1>5, <2>4, <3>1
  <2>6. CASE <<x, m>> \in R
    <3>1. \A y \in s : <<x, y>> \in R
      BY <1>5, <1>7, <2>3, <2>4, <2>6
    <3> QED
      BY <1>5, <1>6, <3>1
  <2> QED
    BY <1>7, <2>4, <2>5, <2>6
<1> QED
  BY <1>8, <1>9

\* Quotients with positive denominators are ordered by AtLeast.
Quotients == Int \X (Nat \ {0})

LEMMA QuotientOrder ==
  /\ \A p, q \in Quotients : AtLeast(p, q) \/ AtLeast(q, p)
  /\ \A p, q, r \in Quotients : AtLeast(p, q) /\ AtLeast(q, r) => AtLeast(p, r)
<1>1. ASSUME NEW p \in Quotients, NEW q \in Quotients PROVE AtLeast(p, q) \/ AtLeast(q, p)
  <2>1. p[1] \in Int /\ p[2] \in Int /\ q[1] \in Int /\ q[2] \in Int
    BY DEF Quotients
  <2>2. p[1] * q[2] \in Int /\ q[1] * p[2] \in Int
    BY <2>1
  <2> QED
    BY <2>2 DEF AtLeast
<1>2. ASSUME NEW a \in Int, NEW b \in Nat \ {0}, NEW c \in Int, NEW d \in Nat \ {0},
             NEW e \in Int, NEW f \in Nat \ {0}, a * d >= c * b, c * f >= e * d
      PROVE  a * f >= e * b
  <2> DEFINE i == a * d
             j == c * b
             k == c * f
             m == e * d
  <2>1. i \in Int /\ j \in Int /\ k \in Int /\ m \in Int /\ i >= j /\ k >= m
    BY <1>2
  <2>2. i * f = (a * f) * d /\ j * f = k * b /\ m * b = (e * b) * d
    OBVIOUS
  <2> HIDE DEF i, j, k, m
  <2>3. \A u, v \in Int, w \in Nat \ {0} : u >= v <=> u * w >= v * w
    OBVIOUS
  <2>4. i * f >= j * f /\ k * b >= m * b
    BY <2>1, <2>3
  <2>5. i * f \in Int /\ j * f \in Int /\ k * b \in Int /\ m * b \in Int
    BY <2>1
  <2>6. i * f >= m * b
    BY <2>2, <2>4, <2>5
  <2>7. (a * f) * d >= (e * b) * d
    BY <2>2, <2>6
  <2>8. a * f \in Int /\ e * b \in Int
    OBVIOUS
  <2> QED
    BY <2>3, <2>7, <2>8
<1>3. ASSUME NEW p \in Quotients, NEW q \in Quotients, NEW r \in Quotients, AtLeast(p, q), AtLeast(q, r)
      PROVE  AtLeast(p, r)
  <2>1. /\ p[1] \in Int /\ p[2] \in Nat \ {0} /\ q[1] \in Int /\ q[2] \in Nat \ {0}
        /\ r[1] \in Int /\ r[2] \in Nat \ {0}
    BY DEF Quotients
  <2>2. p[1] * q[2] >= q[1] * p[2] /\ q[1] * r[2] >= r[1] * q[2]
    BY <1>3 DEF AtLeast
  <2>3. p[1] * r[2] >= r[1] * p[2]
    BY <1>2, <2>1, <2>2
  <2> QED
    BY <2>3 DEF AtLeast
<1> QED
  BY <1>1, <1>3

\* Some point has the highest headroom and some point the lowest.
LEMMA Extremes ==
  ASSUME NEW S, IsFiniteSet(S), S # {}, NEW f \in [S -> Quotients]
  PROVE  /\ \E m \in S : \A x \in S : AtLeast(f[m], f[x])
         /\ \E m \in S : \A x \in S : AtLeast(f[x], f[m])
<1> DEFINE R == {xy \in S \X S : AtLeast(f[xy[1]], f[xy[2]])}
           Q == {xy \in S \X S : AtLeast(f[xy[2]], f[xy[1]])}
<1>1. \A x, y \in S : (<<x, y>> \in R <=> AtLeast(f[x], f[y])) /\ (<<x, y>> \in Q <=> AtLeast(f[y], f[x]))
  OBVIOUS
<1>2. /\ \A x, y \in S : AtLeast(f[x], f[y]) \/ AtLeast(f[y], f[x])
      /\ \A x, y, z \in S : AtLeast(f[x], f[y]) /\ AtLeast(f[y], f[z]) => AtLeast(f[x], f[z])
  BY QuotientOrder
<1> HIDE DEF R, Q
<1>3. \E m \in S : \A x \in S : <<m, x>> \in R
  <2>1. \A x, y \in S : <<x, y>> \in R \/ <<y, x>> \in R
    BY <1>1, <1>2
  <2>2. \A x, y, z \in S : <<x, y>> \in R /\ <<y, z>> \in R => <<x, z>> \in R
    BY <1>1, <1>2
  <2> QED
    BY <2>1, <2>2, Greatest
<1>4. \E m \in S : \A x \in S : <<m, x>> \in Q
  <2>1. \A x, y \in S : <<x, y>> \in Q \/ <<y, x>> \in Q
    BY <1>1, <1>2
  <2>2. \A x, y, z \in S : <<x, y>> \in Q /\ <<y, z>> \in Q => <<x, z>> \in Q
    BY <1>1, <1>2
  <2> QED
    BY <2>1, <2>2, Greatest
<1> QED
  BY <1>1, <1>3, <1>4

LEMMA GainType ==
  ASSUME NEW S, IsFiniteSet(S), S # {}, NEW l \in [S -> Nat], NEW v \in [S -> Nat]
  PROVE  Gain(Mean(l), Mean(v)) \in Quotients
<1> DEFINE n == Cardinality(S)
           L == SumOf(l, S)
           V == SumOf(v, S)
<1>1. L \in Nat /\ V \in Nat /\ n \in Nat /\ n # 0
  BY SumOfType, FS_CardinalityType, FS_EmptySet
<1>2. Mean(l) = <<L, n>> /\ Mean(v) = <<V, n>>
  BY MeanIs
<1> HIDE DEF L, V, n
<1>3. Gain(Mean(l), Mean(v)) = IF L = 0 THEN <<0, 1>> ELSE Over(Minus(<<L, n>>, <<V, n>>), <<L, n>>)
  BY <1>2, PairIsNotNone DEF Gain, Truthy
<1>4. CASE L = 0
  BY <1>3, <1>4 DEF Quotients
<1>5. CASE L # 0
  <2>1. Gain(Mean(l), Mean(v)) = <<(L * n - V * n) * n, (n * n) * L>>
    BY <1>1, <1>3, <1>5 DEF Over, Minus
  <2>2. \A i, j \in Nat \ {0} : i * j \in Nat \ {0}
    OBVIOUS
  <2>3. n * n \in Nat \ {0}
    BY <1>1, <2>2
  <2>4. (n * n) * L \in Nat \ {0}
    BY <1>1, <1>5, <2>2, <2>3
  <2>5. (L * n - V * n) * n \in Int
    BY <1>1
  <2> QED
    BY <2>1, <2>4, <2>5 DEF Quotients
<1> QED
  BY <1>4, <1>5

LEMMA Exp01Agrees ==
  ASSUME MinHeadroomPositive, NEW data, NEW S, WholeRows(data, S), NEW p \in DOMAIN Exp01Report(data)
  PROVE  LET e == Exp01Report(data)[p]
         IN  Agrees(e.headroom, e.headroomCi) /\ Agrees(e.share, e.shareCi)
<1> DEFINE T(a) == BySeed(data, p, a, 0)
           headroom == Gain(Mean(T("lru")), Mean(T("belady")))
           D == DOMAIN T("lru") \cap DOMAIN T("belady") \cap DOMAIN T("oracle_terminal")
           share == IF AtLeast(headroom, MinHeadroom)
                    THEN Over(Gain(Mean(T("lru")), Mean(T("oracle_terminal"))), headroom) ELSE None
           e == Exp01Report(data)[p]
<1>1. p \in Points(data)
  BY DEF Exp01Report
<1>2. /\ e.headroom = headroom /\ e.headroomCi = GainCi(T("lru"), T("belady"), D)
      /\ e.share = share /\ e.shareCi = ShareCi(T("lru"), T("oracle_terminal"), T("belady"), D)
  BY <1>1 DEF Exp01Report
<1>3. D \in {S, {}}
  BY PairedSeeds
<1>4. D = {} \/ (D = S /\ T("lru") \in [S -> Nat] /\ T("belady") \in [S -> Nat])
  BY <1>3, TwoTables
<1>5. D = {} \/ (D = S /\ T("lru") \in [S -> Nat] /\ T("oracle_terminal") \in [S -> Nat])
  <2>1. D \subseteq DOMAIN T("lru") \cap DOMAIN T("oracle_terminal")
    OBVIOUS
  <2> QED
    BY <1>3, <2>1, TwoTables
<1>6. IsFiniteSet(S)
  BY DEF WholeRows
<1>7. Agrees(headroom, GainCi(T("lru"), T("belady"), D))
  <2> HIDE DEF T, D
  <2> QED
    BY <1>4, <1>6, GainAgrees
<1>8. Agrees(share, ShareCi(T("lru"), T("oracle_terminal"), T("belady"), D))
  <2> HIDE DEF T, D
  <2> QED
    BY <1>4, <1>5, <1>6, RatioAgrees
<1> HIDE DEF T, D, headroom, share, e
<1>9. Agrees(e.headroom, e.headroomCi) /\ Agrees(e.share, e.shareCi)
  BY <1>2, <1>7, <1>8
<1> QED
  BY <1>9 DEF e

\* The rows of exp05: a threshold's own rows are those of the predictor, and its
\* reference rows are those of the threshold -1.
References(data) ==
  \A r \in data : r.point[2] >= 0 =>
    /\ r.policy = "predict_terminal" /\ r.ttl = 0
    /\ \A a \in {"lru", "belady", "oracle_terminal"} : SeedsAt(data, <<r.point[1], -1>>, a, 0) # {}

LEMMA Exp05Agrees ==
  ASSUME NEW data, NEW S, WholeRows(data, S), References(data), NEW p \in DOMAIN Exp05Report(data)
  PROVE  LET e == Exp05Report(data)[p]
         IN  Agrees(e.share, e.shareCi) /\ Agrees(e.gain, e.gainCi)
<1> DEFINE got == BySeed(data, p, "predict_terminal", 0)
           R(a) == BySeed(data, <<p[1], -1>>, a, 0)
           T(a) == Restricted(R(a), DOMAIN got)
           M(a) == Mean(T(a))
           arms == {"lru", "belady", "oracle_terminal"}
           e == Exp05Report(data)[p]
<1>1. p \in {q \in Points(data) : q[2] >= 0}
  BY DEF Exp05Report
<1>2. PICK r \in data : r.point = p /\ r.policy = "predict_terminal" /\ r.ttl = 0
  BY <1>1 DEF Points, References
<1>3. \A a \in arms : SeedsAt(data, <<p[1], -1>>, a, 0) # {}
  BY <1>1, <1>2 DEF References
<1>4. got \in [S -> Nat] /\ DOMAIN got = S
  <2>1. SeedsAt(data, p, "predict_terminal", 0) # {}
    BY <1>2 DEF SeedsAt
  <2>2. SeedsAt(data, p, "predict_terminal", 0) = S
    BY <2>1 DEF WholeRows
  <2> QED
    BY <2>2, TableIs
<1>5. \A a \in arms : R(a) \in [S -> Nat] /\ DOMAIN R(a) = S
  <2> TAKE a \in arms
  <2>1. SeedsAt(data, <<p[1], -1>>, a, 0) = S
    BY <1>3 DEF WholeRows
  <2> QED
    BY <2>1, TableIs
<1>6. \A a \in arms : T(a) = R(a)
  <2> HIDE DEF R, got, arms
  <2> QED
    BY <1>4, <1>5, RestrictedToAll
<1>8. /\ e.share = Share(M("lru"), Mean(got), M("belady")) /\ e.shareCi = ShareCi(T("lru"), got, T("belady"), DOMAIN got)
      /\ e.gain \in {None, Gain(M("lru"), Mean(got))} /\ e.gainCi = GainCi(T("lru"), got, DOMAIN got)
  BY <1>1 DEF Exp05Report
<1>9. IsFiniteSet(S)
  BY DEF WholeRows
<1>10. T("lru") \in [S -> Nat] /\ T("belady") \in [S -> Nat]
  <2> HIDE DEF R, T, got
  <2> QED
    BY <1>5, <1>6
<1> HIDE DEF T, got, e
<1>11. Agrees(Share(Mean(T("lru")), Mean(got), Mean(T("belady"))), ShareCi(T("lru"), got, T("belady"), DOMAIN got))
  BY <1>4, <1>9, <1>10, ShareAgrees
<1>12. Agrees(Gain(Mean(T("lru")), Mean(got)), GainCi(T("lru"), got, DOMAIN got))
  BY <1>4, <1>9, <1>10, GainAgrees
<1>13. Agrees(e.share, e.shareCi) /\ Agrees(e.gain, e.gainCi)
  BY <1>8, <1>11, <1>12 DEF Agrees
<1> QED
  BY <1>13 DEF e

\* The collapse test compares the same headrooms twice: the seeds that every
\* condition has are all seeds, so its point estimate is the range itself.
LEMMA CollapseAgrees ==
  ASSUME NEW data, NEW S, WholeRows(data, S), NEW t \in {r.point[2] : r \in data}
  PROVE  LET c == Collapse(data, t) IN c.point = None \/ c.range = c.point
<1> DEFINE at == {p \in Points(data) : p[2] = t}
           report == Exp02Report(data)
           common == {s \in {r.seed : r \in data} :
                       \A p \in at : \A a \in {"lru", "belady"} : s \in DOMAIN BySeed(data, p, a, 0)}
           H(p) == Gain(Mean(Restricted(BySeed(data, p, "lru", 0), common)),
                        Mean(Restricted(BySeed(data, p, "belady", 0), common)))
           top == CHOOSE p \in at : \A q \in at : AtLeast(H(p), H(q))
           low == CHOOSE p \in at : \A q \in at : AtLeast(H(q), H(p))
           rtop == CHOOSE p \in at : \A q \in at : AtLeast(report[p].headroom, report[q].headroom)
           rlow == CHOOSE p \in at : \A q \in at : AtLeast(report[q].headroom, report[p].headroom)
           c == Collapse(data, t)
<1>1. /\ c.range = Minus(report[rtop].headroom, report[rlow].headroom)
      /\ c.point = IF Cardinality(common) < 2 THEN None ELSE HeadroomRange(data, at, common)
  BY DEF Collapse
<1>2. HeadroomRange(data, at, common) = Minus(H(top), H(low))
  BY DEF HeadroomRange
<1>3. CASE common = {}
  <2>1. Cardinality(common) = 0
    BY <1>3, FS_EmptySet
  <2> HIDE DEF common, c
  <2>2. c.point = None
    BY <1>1, <2>1
  <2> QED
    BY <2>2 DEF c
<1>4. at # {}
  <2>1. PICK r \in data : r.point[2] = t
    OBVIOUS
  <2>2. r.point \in at
    BY <2>1 DEF Points
  <2> QED
    BY <2>2
<1>5. CASE common # {}
  <2>1. PICK s \in common : TRUE
    BY <1>5
  <2>2. ASSUME NEW p \in at, NEW a \in {"lru", "belady"}
        PROVE  BySeed(data, p, a, 0) \in [S -> Nat] /\ DOMAIN BySeed(data, p, a, 0) = S
    <3>1. s \in DOMAIN BySeed(data, p, a, 0)
      BY <2>1
    <3>2. SeedsAt(data, p, a, 0) = S
      BY <3>1, TableIs DEF WholeRows
    <3> QED
      BY <3>2, TableIs
  <2>3. S \subseteq {r.seed : r \in data}
    <3>1. PICK p \in at : TRUE
      BY <1>4
    <3>2. SeedsAt(data, p, "lru", 0) = S
      BY <2>2, <3>1, TableIs
    <3> QED
      BY <3>2 DEF SeedsAt
  <2>4. common = S
    <3>1. \A x \in common : x \in S
      BY <1>4, <2>2
    <3>2. \A x \in S : x \in common
      BY <2>2, <2>3
    <3> QED
      BY <3>1, <3>2
  <2>5. \A p \in at : report[p].headroom = H(p)
    <3> TAKE p \in at
    <3>1. p \in Points(data)
      OBVIOUS
    <3>2. report[p].headroom = Gain(Mean(BySeed(data, p, "lru", 0)), Mean(BySeed(data, p, "belady", 0)))
      BY <3>1 DEF Exp02Report, PairedReport
    <3>3. /\ Restricted(BySeed(data, p, "lru", 0), common) = BySeed(data, p, "lru", 0)
          /\ Restricted(BySeed(data, p, "belady", 0), common) = BySeed(data, p, "belady", 0)
      BY <2>2, <2>4, RestrictedToAll
    <3> QED
      BY <3>2, <3>3
  <2>6. IsFiniteSet(at)
    <3> DEFINE f == [r \in data |-> r.point]
    <3>1. f \in Surjection(data, Points(data))
      BY DEF Surjection, Points
    <3>2. IsFiniteSet(Points(data))
      <4> HIDE DEF f
      <4> QED
        BY <3>1, FS_Surjection DEF WholeRows
    <3>3. at \in SUBSET Points(data)
      OBVIOUS
    <3> QED
      BY <3>2, <3>3, FS_Subset
  <2>7. \A p \in at : H(p) \in Quotients
    <3> TAKE p \in at
    <3>0. /\ BySeed(data, p, "lru", 0) \in [S -> Nat]
          /\ BySeed(data, p, "belady", 0) \in [S -> Nat]
          /\ DOMAIN BySeed(data, p, "lru", 0) = S
          /\ DOMAIN BySeed(data, p, "belady", 0) = S
      BY <2>2
    <3>1. Restricted(BySeed(data, p, "lru", 0), common) \in [S -> Nat]
          /\ Restricted(BySeed(data, p, "belady", 0), common) \in [S -> Nat]
      <4> HIDE DEF common
      <4>1. /\ Restricted(BySeed(data, p, "lru", 0), S) = BySeed(data, p, "lru", 0)
            /\ Restricted(BySeed(data, p, "belady", 0), S) = BySeed(data, p, "belady", 0)
        BY <3>0, RestrictedToAll
      <4> QED
        BY <2>4, <3>0, <4>1
    <3>2. IsFiniteSet(S) /\ S # {}
      BY <1>5, <2>4 DEF WholeRows
    <3> QED
      BY <3>1, <3>2, GainType
  <2> HIDE DEF at, report, common, H
  <2> DEFINE f == [p \in at |-> H(p)]
  <2>8. f \in [at -> Quotients]
    BY <2>7
  <2>9. \A p \in at : f[p] = H(p)
    OBVIOUS
  <2> HIDE DEF f
  <2>10. /\ \E m \in at : \A x \in at : AtLeast(f[m], f[x])
         /\ \E m \in at : \A x \in at : AtLeast(f[x], f[m])
    BY <1>4, <2>6, <2>8, Extremes
  <2>11. /\ \E m \in at : \A x \in at : AtLeast(H(m), H(x))
         /\ \E m \in at : \A x \in at : AtLeast(H(x), H(m))
    BY <2>9, <2>10
  <2>12. top \in at /\ low \in at
    BY <2>11
  <2>13. rtop = top /\ rlow = low
    BY <2>5
  <2> HIDE DEF top, low, rtop, rlow
  <2>14. report[rtop].headroom = H(top) /\ report[rlow].headroom = H(low)
    BY <2>5, <2>12, <2>13
  <2> HIDE DEF c
  <2>15. c.point = None \/ c.range = c.point
    BY <1>1, <1>2, <2>14
  <2> QED
    BY <2>15 DEF c
<1> QED
  BY <1>3, <1>5

(***************************************************************************)
(* A headroom is the point of its interval                                 *)
(***************************************************************************)

\* Every point, arm and TTL of a grid is run with every seed.
WholeGrid(grid, some) ==
  /\ \A j \in grid : j.seed \in some
  /\ \A j \in grid, s \in some : \E i \in grid :
       i.point = j.point /\ i.policy = j.policy /\ i.ttl = j.ttl /\ i.seed = s

\* A threshold of exp05 has reference jobs.
ReferenceJobs(grid) ==
  \A j \in grid : j.point[2] >= 0 =>
    /\ j.policy = "predict_terminal" /\ j.ttl = 0
    /\ \A a \in {"lru", "belady", "oracle_terminal"} :
         \E i \in grid : i.point = <<j.point[1], -1>> /\ i.policy = a /\ i.ttl = 0

WholeGrids ==
  \A e \in Exps, some \in SeedSets : \A found :
    /\ IsFiniteSet(some) /\ WholeGrid(Grid(e, some, found), some)
    /\ e = "exp05" => ReferenceJobs(Grid(e, some, found))

\* The simulator counts the tokens it prefills: a run computes some.
CountsTokens ==
  \A e \in Exps, some \in SeedSets, o \in Outcomes : \A found :
    \A j \in Grid(e, some, found) : Tokens(o, j) \in Nat \ {0}

\* The grids of the experiments are of that kind.
LEMMA Exp01Whole ==
  ASSUME NEW some, NEW C, NEW W, NEW base, NEW sweep, NEW only
  PROVE  WholeGrid(Exp01Jobs(some, C, W, base, sweep, only), some)
<1> DEFINE P == {<<"concurrency", c, base>> : c \in C} \cup {<<"pause", sweep, w>> : w \in W}
           A == Arms(only)
           J == Exp01Jobs(some, C, W, base, sweep, only)
<1>1. J = {Job(p, a[1], a[2], s) : p \in P, a \in A, s \in some}
  BY DEF Exp01Jobs
<1> HIDE DEF P, A, J
<1>2. \A j \in J : j.seed \in some
  BY <1>1 DEF Job
<1>3. ASSUME NEW j \in J, NEW s \in some
      PROVE  \E i \in J : i.point = j.point /\ i.policy = j.policy /\ i.ttl = j.ttl /\ i.seed = s
  <2>1. PICK p \in P, a \in A, t \in some : j = Job(p, a[1], a[2], t)
    BY <1>1
  <2>2. Job(p, a[1], a[2], s) \in J
    BY <1>1
  <2> QED
    BY <2>1, <2>2 DEF Job
<1> QED
  BY <1>2, <1>3 DEF WholeGrid, J

LEMMA Exp02Whole ==
  ASSUME NEW some, NEW C PROVE WholeGrid(Exp02Jobs(some, C), some)
<1> DEFINE J == Exp02Jobs(some, C)
           A == {"lru", "oracle_terminal", "belady"}
<1>1. J = {Job(c, a, 0, s) : c \in C, a \in A, s \in some}
  BY DEF Exp02Jobs
<1> HIDE DEF A, J
<1>2. \A j \in J : j.seed \in some
  BY <1>1 DEF Job
<1>3. ASSUME NEW j \in J, NEW s \in some
      PROVE  \E i \in J : i.point = j.point /\ i.policy = j.policy /\ i.ttl = j.ttl /\ i.seed = s
  <2>1. PICK p \in C, a \in A, t \in some : j = Job(p, a, 0, t)
    BY <1>1
  <2>2. Job(p, a, 0, s) \in J
    BY <1>1
  <2> QED
    BY <2>1, <2>2 DEF Job
<1> QED
  BY <1>2, <1>3 DEF WholeGrid, J

LEMMA Exp03Whole ==
  ASSUME NEW some, NEW found PROVE WholeGrid(Exp03Jobs(some, found), some)
<1> DEFINE A == {"lru", "oracle_terminal", "belady"}
           Open(w, a, s) == [point |-> <<"open_matched", w>>, policy |-> a, ttl |-> 0, seed |-> s, rate |-> found[w]]
           J1 == {Job(<<"closed", w>>, a, 0, s) : w \in PauseGrid, a \in A, s \in some}
           J2 == {Open(w, a, s) : w \in PauseGrid, a \in A, s \in some}
           J == Exp03Jobs(some, found)
<1>1. J = J1 \cup J2
  BY DEF Exp03Jobs
<1>2. \A j \in J1 : j.seed \in some
  BY DEF Job
<1>3. \A j \in J2 : j.seed \in some
  OBVIOUS
<1>4. ASSUME NEW j \in J1, NEW s \in some
      PROVE  \E i \in J1 : i.point = j.point /\ i.policy = j.policy /\ i.ttl = j.ttl /\ i.seed = s
  <2>1. PICK w \in PauseGrid, a \in A, t \in some : j = Job(<<"closed", w>>, a, 0, t)
    OBVIOUS
  <2>2. Job(<<"closed", w>>, a, 0, s) \in J1
    OBVIOUS
  <2> QED
    BY <2>1, <2>2 DEF Job
<1>5. ASSUME NEW j \in J2, NEW s \in some
      PROVE  \E i \in J2 : i.point = j.point /\ i.policy = j.policy /\ i.ttl = j.ttl /\ i.seed = s
  <2>1. PICK w \in PauseGrid, a \in A, t \in some : j = Open(w, a, t)
    OBVIOUS
  <2>2. Open(w, a, s) \in J2
    <3> HIDE DEF Open, A
    <3> QED
      OBVIOUS
  <2> HIDE DEF J2
  <2> QED
    BY <2>1, <2>2
<1> HIDE DEF J1, J2, J
<1> QED
  BY <1>1, <1>2, <1>3, <1>4, <1>5 DEF WholeGrid, J

LEMMA Exp04Whole ==
  ASSUME NEW some PROVE WholeGrid(Exp04Jobs(some), some)
<1> DEFINE J == Exp04Jobs(some)
           A == {"lru", "oracle_terminal", "belady", "belady_pause",
                 "predict_terminal", "predict", "predict_guarded"}
<1>1. J = {Job(<<g>>, a, 0, s) : g \in Signals, s \in some, a \in A}
  BY DEF Exp04Jobs
<1> HIDE DEF A, J
<1>2. \A j \in J : j.seed \in some
  BY <1>1 DEF Job
<1>3. ASSUME NEW j \in J, NEW s \in some
      PROVE  \E i \in J : i.point = j.point /\ i.policy = j.policy /\ i.ttl = j.ttl /\ i.seed = s
  <2>1. PICK g \in Signals, t \in some, a \in A : j = Job(<<g>>, a, 0, t)
    BY <1>1
  <2>2. Job(<<g>>, a, 0, s) \in J
    BY <1>1
  <2> QED
    BY <2>1, <2>2 DEF Job
<1> QED
  BY <1>2, <1>3 DEF WholeGrid, J

LEMMA Exp05Whole ==
  ASSUME NEW some PROVE WholeGrid(Exp05Jobs(some), some) /\ ReferenceJobs(Exp05Jobs(some))
<1> DEFINE A == {"lru", "oracle_terminal", "belady"}
           J1 == {Job(<<g, -1>>, a, 0, s) : g \in Signals, a \in A, s \in some}
           J2 == {Job(<<g, t>>, "predict_terminal", 0, s) : g \in Signals, t \in Thresholds, s \in some}
           J == Exp05Jobs(some)
<1>1. J = J1 \cup J2
  BY DEF Exp05Jobs
<1>2. (\A j \in J1 : j.seed \in some) /\ (\A j \in J2 : j.seed \in some)
  BY DEF Job
<1>3. ASSUME NEW j \in J1, NEW s \in some
      PROVE  \E i \in J1 : i.point = j.point /\ i.policy = j.policy /\ i.ttl = j.ttl /\ i.seed = s
  <2>1. PICK g \in Signals, a \in A, t \in some : j = Job(<<g, -1>>, a, 0, t)
    OBVIOUS
  <2>2. Job(<<g, -1>>, a, 0, s) \in J1
    OBVIOUS
  <2> QED
    BY <2>1, <2>2 DEF Job
<1>4. ASSUME NEW j \in J2, NEW s \in some
      PROVE  \E i \in J2 : i.point = j.point /\ i.policy = j.policy /\ i.ttl = j.ttl /\ i.seed = s
  <2>1. PICK g \in Signals, h \in Thresholds, t \in some : j = Job(<<g, h>>, "predict_terminal", 0, t)
    OBVIOUS
  <2>2. Job(<<g, h>>, "predict_terminal", 0, s) \in J2
    OBVIOUS
  <2> QED
    BY <2>1, <2>2 DEF Job
<1>5. ASSUME NEW j \in J1 PROVE ~(j.point[2] >= 0)
  <2>1. PICK g \in Signals, a \in A, t \in some : j = Job(<<g, -1>>, a, 0, t)
    OBVIOUS
  <2>2. j.point = <<g, -1>>
    BY <2>1 DEF Job
  <2>3. j.point[2] = -1
    BY <2>2
  <2> QED
    BY <2>3
<1>6. ASSUME NEW j \in J2
      PROVE  /\ j.policy = "predict_terminal" /\ j.ttl = 0
             /\ \A a \in {"lru", "belady", "oracle_terminal"} :
                  \E i \in J1 : i.point = <<j.point[1], -1>> /\ i.policy = a /\ i.ttl = 0
  <2>1. PICK g \in Signals, h \in Thresholds, t \in some : j = Job(<<g, h>>, "predict_terminal", 0, t)
    OBVIOUS
  <2>2. j.policy = "predict_terminal" /\ j.ttl = 0 /\ j.point = <<g, h>>
    BY <2>1 DEF Job
  <2>3. j.point[1] = g
    BY <2>2
  <2>4. ASSUME NEW a \in {"lru", "belady", "oracle_terminal"}
        PROVE  \E i \in J1 : i.point = <<g, -1>> /\ i.policy = a /\ i.ttl = 0
    <3>1. Job(<<g, -1>>, a, 0, t) \in J1
      OBVIOUS
    <3> QED
      BY <3>1 DEF Job
  <2> HIDE DEF J1
  <2> QED
    BY <2>2, <2>3, <2>4
<1> HIDE DEF J1, J2, J
<1>7. WholeGrid(J, some)
  BY <1>1, <1>2, <1>3, <1>4 DEF WholeGrid
<1>8. ReferenceJobs(J)
  <2>1. ASSUME NEW j \in J, j.point[2] >= 0
        PROVE  /\ j.policy = "predict_terminal" /\ j.ttl = 0
               /\ \A a \in {"lru", "belady", "oracle_terminal"} :
                    \E i \in J : i.point = <<j.point[1], -1>> /\ i.policy = a /\ i.ttl = 0
    <3>1. j \in J2 /\ J1 \subseteq J
      BY <1>1, <1>5, <2>1
    <3>2. /\ j.policy = "predict_terminal" /\ j.ttl = 0
          /\ \A a \in {"lru", "belady", "oracle_terminal"} :
               \E i \in J1 : i.point = <<j.point[1], -1>> /\ i.policy = a /\ i.ttl = 0
      BY <1>6, <3>1
    <3> QED
      BY <3>1, <3>2
  <2> QED
    BY <2>1 DEF ReferenceJobs
<1> QED
  BY <1>7, <1>8 DEF J

\* Rows that answer the jobs of a grid, every one of them.
GridRow(r, grid, o) ==
  \E j \in grid : Answers(r, j) /\ r.tokens = Tokens(o, j)

Complete(data, grid, o) ==
  /\ IsFiniteSet(data)
  /\ \A r \in data : GridRow(r, grid, o)
  /\ \A j \in grid : \E r \in data : Answers(r, j)

WholeRun(data) ==
  \E some \in SeedSets, o \in Outcomes : \E found : Complete(data, Grid(exp, some, found), o)

LEMMA CompleteRows ==
  ASSUME NEW some, NEW grid, NEW o, NEW data, IsFiniteSet(some), WholeGrid(grid, some),
         \A j \in grid : Tokens(o, j) \in Nat \ {0}, Complete(data, grid, o)
  PROVE  WholeRows(data, some)
<1>1. IsFiniteSet(data) /\ \A r \in data : r.tokens \in Nat \ {0}
  BY DEF Complete, GridRow
<1>2. ASSUME NEW p, NEW a, NEW t PROVE SeedsAt(data, p, a, t) \in {some, {}}
  <2>1. SeedsAt(data, p, a, t) \subseteq some
    <3> SUFFICES ASSUME NEW r \in data PROVE r.seed \in some
      BY DEF SeedsAt
    <3>1. PICK j \in grid : Answers(r, j)
      BY DEF Complete, GridRow
    <3> QED
      BY <3>1 DEF Answers, WholeGrid
  <2>2. ASSUME NEW s0 \in SeedsAt(data, p, a, t), NEW s \in some PROVE s \in SeedsAt(data, p, a, t)
    <3>1. PICK r \in data : r.point = p /\ r.policy = a /\ r.ttl = t
      BY <2>2 DEF SeedsAt
    <3>2. PICK j \in grid : Answers(r, j)
      BY DEF Complete, GridRow
    <3>3. PICK i \in grid : i.point = j.point /\ i.policy = j.policy /\ i.ttl = j.ttl /\ i.seed = s
      BY <2>2 DEF WholeGrid
    <3>4. PICK q \in data : Answers(q, i)
      BY DEF Complete
    <3>5. q.point = p /\ q.policy = a /\ q.ttl = t /\ q.seed = s
      BY <3>1, <3>2, <3>3, <3>4 DEF Answers
    <3> QED
      BY <3>5 DEF SeedsAt
  <2> QED
    BY <2>1, <2>2
<1> QED
  BY <1>1, <1>2 DEF WholeRows

LEMMA CompleteReferences ==
  ASSUME NEW grid, NEW o, NEW data, ReferenceJobs(grid), Complete(data, grid, o)
  PROVE  References(data)
<1> SUFFICES ASSUME NEW r \in data, r.point[2] >= 0
             PROVE  /\ r.policy = "predict_terminal" /\ r.ttl = 0
                    /\ \A a \in {"lru", "belady", "oracle_terminal"} :
                         SeedsAt(data, <<r.point[1], -1>>, a, 0) # {}
  BY DEF References
<1>1. PICK j \in grid : Answers(r, j)
  BY DEF Complete, GridRow
<1>2. /\ j.policy = "predict_terminal" /\ j.ttl = 0
      /\ \A a \in {"lru", "belady", "oracle_terminal"} :
           \E i \in grid : i.point = <<j.point[1], -1>> /\ i.policy = a /\ i.ttl = 0
  BY <1>1 DEF ReferenceJobs, Answers
<1>3. ASSUME NEW a \in {"lru", "belady", "oracle_terminal"}
      PROVE  SeedsAt(data, <<r.point[1], -1>>, a, 0) # {}
  <2>1. PICK i \in grid : i.point = <<j.point[1], -1>> /\ i.policy = a /\ i.ttl = 0
    BY <1>2
  <2>2. PICK q \in data : Answers(q, i)
    BY DEF Complete
  <2>3. q.point = <<r.point[1], -1>> /\ q.policy = a /\ q.ttl = 0
    BY <1>1, <2>1, <2>2 DEF Answers
  <2>4. q.seed \in SeedsAt(data, <<r.point[1], -1>>, a, 0)
    BY <2>3 DEF SeedsAt
  <2> QED
    BY <2>4
<1> QED
  BY <1>1, <1>2, <1>3 DEF Answers

\* What HeadroomIsPoint says of a report.
Headrooms(a) ==
  /\ \A p \in DOMAIN a.report :
       LET e == a.report[p]
       IN  IF exp = "exp05" THEN Agrees(e.share, e.shareCi) /\ Agrees(e.gain, e.gainCi)
           ELSE /\ Agrees(e.headroom, e.headroomCi)
                /\ exp = "exp01" => Agrees(e.share, e.shareCi)
                /\ exp = "exp04" => \A x \in DOMAIN e.shares : Agrees(e.shares[x].share, e.shares[x].ci)
  /\ \A c \in a.collapse : c.point = None \/ Same(c.range, c.point)

LEMMA WholeRunRows ==
  ASSUME WholeGrids, CountsTokens, exp \in Exps, NEW data, WholeRun(data)
  PROVE  /\ \E some \in SeedSets : WholeRows(data, some)
         /\ exp = "exp05" => References(data)
<1>1. PICK some \in SeedSets, o \in Outcomes : \E found : Complete(data, Grid(exp, some, found), o)
  BY DEF WholeRun
<1>2. PICK found : Complete(data, Grid(exp, some, found), o)
  BY <1>1
<1>3. IsFiniteSet(some) /\ WholeGrid(Grid(exp, some, found), some)
  BY DEF WholeGrids
<1>4. \A j \in Grid(exp, some, found) : Tokens(o, j) \in Nat \ {0}
  BY DEF CountsTokens
<1>5. WholeRows(data, some)
  BY <1>2, <1>3, <1>4, CompleteRows
<1>6. exp = "exp05" => References(data)
  <2>1. exp = "exp05" => ReferenceJobs(Grid(exp, some, found))
    BY DEF WholeGrids
  <2> QED
    BY <1>2, <2>1, CompleteReferences
<1> QED
  BY <1>5, <1>6

LEMMA WholeRunAgrees ==
  ASSUME WholeGrids, CountsTokens, MinHeadroomPositive, exp \in Exps,
         NEW data, WholeRun(data), NEW by, NEW quality, NEW whole
  PROVE  Headrooms(Analysis(data, by, quality, whole))
<1> DEFINE a == Analysis(data, by, quality, whole)
<1>1. PICK some \in SeedSets : WholeRows(data, some)
  BY WholeRunRows
<1>5. WholeRows(data, some)
  BY <1>1
<1>6. exp = "exp05" => References(data)
  BY WholeRunRows
<1>7. a.report = Report(data)
  BY AnalysisFields
<1>8. a.collapse = IF exp = "exp02" THEN {Collapse(data, t) : t \in Targets(data)} ELSE {}
  BY DEF Analysis
<1>9. exp \in {"exp01", "exp02", "exp03", "exp04", "exp05"}
  BY StudyAssumption
<1>10. ASSUME NEW c \in a.collapse PROVE c.point = None \/ Same(c.range, c.point)
  <2>1. exp = "exp02"
    BY <1>8, <1>10
  <2>2. PICK t \in Targets(data) : c = Collapse(data, t)
    BY <1>8, <1>10, <2>1
  <2>0. t \in {r.point[2] : r \in data}
    BY DEF Targets
  <2>3. c.point = None \/ c.range = c.point
    BY <1>5, <2>0, <2>2, CollapseAgrees
  <2> QED
    BY <2>3 DEF Same
<1>11. ASSUME NEW p \in DOMAIN a.report
       PROVE  LET e == a.report[p]
              IN  IF exp = "exp05" THEN Agrees(e.share, e.shareCi) /\ Agrees(e.gain, e.gainCi)
                  ELSE /\ Agrees(e.headroom, e.headroomCi)
                       /\ exp = "exp01" => Agrees(e.share, e.shareCi)
                       /\ exp = "exp04" => \A x \in DOMAIN e.shares : Agrees(e.shares[x].share, e.shares[x].ci)
  <2> HIDE DEF a
  <2>1. CASE exp = "exp01"
    <3>1. a.report = Exp01Report(data)
      BY <1>7, <2>1 DEF Report
    <3> QED
      BY <1>5, <1>11, <2>1, <3>1, Exp01Agrees
  <2>2. CASE exp = "exp02"
    <3>1. a.report = PairedReport(data)
      BY <1>7, <2>2 DEF Report, Exp02Report
    <3> QED
      BY <1>5, <1>11, <2>2, <3>1, PairedAgrees
  <2>3. CASE exp = "exp03"
    <3>1. a.report = PairedReport(data)
      BY <1>7, <2>3 DEF Report, Exp03Report
    <3> QED
      BY <1>5, <1>11, <2>3, <3>1, PairedAgrees
  <2>4. CASE exp = "exp04"
    <3>1. a.report = Exp04Report(data)
      BY <1>7, <2>4 DEF Report
    <3> QED
      BY <1>5, <1>11, <2>4, <3>1, Exp04Agrees
  <2>5. CASE exp = "exp05"
    <3>1. a.report = Exp05Report(data)
      BY <1>7, <2>5 DEF Report
    <3> QED
      BY <1>5, <1>6, <1>11, <2>5, <3>1, Exp05Agrees
  <2> QED
    BY <1>9, <2>1, <2>2, <2>3, <2>4, <2>5
<1> HIDE DEF a
<1>12. Headrooms(a)
  BY <1>10, <1>11 DEF Headrooms
<1> QED
  BY <1>12 DEF a

\* While the grid runs, the rows answer jobs of it, and a job without a row is
\* still queued or out; so the file that is written of them is that of a whole
\* run, and so is every file that is not cut.
SoFar ==
  /\ outcome \in Outcomes
  /\ \A r \in rows : GridRow(r, Grid(exp, seeds, rates), outcome)
  /\ \A j \in Grid(exp, seeds, rates) : j \in queue \/ j \in busy \/ \E r \in rows : Answers(r, j)
  /\ pc # "grid" => queue = {} /\ busy = {}

Rows ==
  /\ pc # "idle" => outcome \in Outcomes
  /\ Running => SoFar

WholeFile ==
  /\ JobsInv /\ Rows
  /\ csv # None /\ csv.cut = "no" => WholeRun(csv.rows)

LEMMA HeadroomsAgree ==
  /\ HeadroomIsPoint <=> (analysis # None /\ analysis.whole => Headrooms(analysis))
  /\ exp' = exp => (HeadroomIsPoint' <=> (analysis' # None /\ analysis'.whole => Headrooms(analysis')))
  BY DEF HeadroomIsPoint, Headrooms

LEMMA RunIsWhole ==
  ASSUME JobsInv, Running, SoFar, pc # "grid"
  PROVE  WholeRun(rows)
<1>1. IsFiniteSet(rows) /\ seeds \in SeedSets
  BY DEF JobsInv, OnceEach, Running
<1>2. Complete(rows, Grid(exp, seeds, rates), outcome)
  BY <1>1 DEF SoFar, Complete
<1> QED
  BY <1>1, <1>2 DEF WholeRun, SoFar

LEMMA StartRows ==
  ASSUME NEW some, NEW found, ToGrid(some, found), exp' = exp, seeds' = some, rates' = found,
         outcome' \in Outcomes
  PROVE  Rows'
<1>1. /\ pc' = "grid" /\ queue' = Grid(exp, some, found) /\ busy' = {} /\ rows' = {}
      /\ Grid(exp', seeds', rates') = Grid(exp, some, found)
  BY DEF ToGrid
<1> QED
  BY <1>1 DEF Rows, SoFar

LEMMA JobDoneRows ==
  ASSUME JobsInv, Rows, JobDone
  PROVE  Rows'
<1> DEFINE New(j) == [point |-> j.point, policy |-> j.policy, ttl |-> j.ttl,
                      seed |-> j.seed, tokens |-> Tokens(outcome, j)]
           grid == Grid(exp, seeds, rates)
<1>1. PICK j \in busy : busy' = busy \ {j} /\ rows' = rows \cup {New(j)}
  BY DEF JobDone
<1>2. /\ pc = "grid" /\ pc' = pc /\ queue' = queue /\ exp' = exp /\ seeds' = seeds
      /\ outcome' = outcome /\ rates' = rates
  BY DEF JobDone, param
<1>3. SoFar /\ OnceEach
  BY <1>2 DEF Rows, Running, JobsInv
<1>4. Answers(New(j), j) /\ New(j).tokens = Tokens(outcome, j)
  BY DEF Answers
<1>5. j \in grid
  BY <1>3 DEF OnceEach
<1>6. Grid(exp', seeds', rates') = grid
  BY <1>2
<1> HIDE DEF New, grid
<1>7. \A r \in rows : GridRow(r, grid, outcome)
  BY <1>3 DEF SoFar, grid
<1>8. GridRow(New(j), grid, outcome)
  BY <1>4, <1>5 DEF GridRow
<1>9. \A r \in rows' : GridRow(r, grid, outcome)
  BY <1>1, <1>7, <1>8
<1>10. \A i \in grid : i \in queue' \/ i \in busy' \/ \E r \in rows' : Answers(r, i)
  <2> TAKE i \in grid
  <2>1. i \in queue \/ i \in busy \/ \E r \in rows : Answers(r, i)
    BY <1>3 DEF SoFar, grid
  <2>2. CASE i = j
    BY <1>1, <1>4, <2>2
  <2>3. CASE i # j
    BY <1>1, <1>2, <2>1, <2>3
  <2> QED
    BY <2>2, <2>3
<1>11. outcome' \in Outcomes
  BY <1>2, <1>3 DEF SoFar
<1>12. SoFar'
  <2>1. \A r \in rows' : GridRow(r, Grid(exp', seeds', rates'), outcome')
    BY <1>2, <1>6, <1>9 DEF GridRow
  <2>2. \A i \in Grid(exp', seeds', rates') : i \in queue' \/ i \in busy' \/ \E r \in rows' : Answers(r, i)
    BY <1>6, <1>10
  <2> QED
    BY <1>2, <1>11, <2>1, <2>2 DEF SoFar, GridRow
<1> QED
  BY <1>11, <1>12 DEF Rows

LEMMA NextRows ==
  ASSUME JobsInv, Rows, [Next]_vars
  PROVE  Rows'
<1>1. CASE Start
  <2>1. PICK some \in SeedSets :
          /\ seeds' = some
          /\ IF exp = "exp03" THEN pc' = "calibrate" /\ UNCHANGED job ELSE ToGrid(some, <<>>)
    BY <1>1 DEF Start
  <2>2. outcome' \in Outcomes /\ rates' = <<>> /\ exp' = exp
    BY <1>1 DEF Start
  <2>3. CASE exp = "exp03"
    BY <2>1, <2>2, <2>3 DEF Rows, Running
  <2>4. CASE exp # "exp03"
    BY <2>1, <2>2, <2>4, StartRows
  <2> QED
    BY <2>3, <2>4
<1>2. CASE CalibrationDone
  <2>1. /\ ToGrid(seeds, [w \in PauseGrid |-> rates[w].rate])
        /\ rates' = [w \in PauseGrid |-> rates[w].rate]
        /\ exp' = exp /\ seeds' = seeds /\ outcome' = outcome /\ outcome \in Outcomes
    BY <1>2 DEF CalibrationDone, param, Rows
  <2> QED
    BY <2>1, StartRows
<1>3. CASE Sample
  <2>1. pc = "calibrate" /\ pc' = pc /\ outcome' = outcome
    BY <1>3 DEF Sample, param
  <2> QED
    BY <2>1 DEF Rows, Running
<1>4. CASE JobDone
  BY <1>4, JobDoneRows
<1>5. CASE TakeJob
  <2>1. PICK j \in queue : busy' = busy \cup {j} /\ queue' = queue \ {j}
    BY <1>5 DEF TakeJob
  <2>2. /\ pc = "grid" /\ pc' = pc /\ exp' = exp /\ seeds' = seeds /\ outcome' = outcome
        /\ rates' = rates /\ rows' = rows
    BY <1>5 DEF TakeJob, param
  <2>3. SoFar
    BY <2>2 DEF Rows, Running
  <2>4. Grid(exp', seeds', rates') = Grid(exp, seeds, rates)
    BY <2>2
  <2>5. SoFar'
    BY <2>1, <2>2, <2>3, <2>4 DEF SoFar, GridRow
  <2> QED
    BY <2>2, <2>3, <2>5 DEF Rows, SoFar
<1>6. CASE JobRaises \/ WriteReport \/ Killed
  <2>1. pc' = "idle"
    BY <1>6 DEF JobRaises, WriteReport, Killed, Exit
  <2> QED
    BY <2>1 DEF Rows, Running
<1>7. CASE GridDone \/ WriteRows \/ WriteMeta \/ Reanalyze \/ UNCHANGED vars
  <2>1. /\ exp' = exp /\ seeds' = seeds /\ outcome' = outcome /\ rates' = rates
        /\ queue' = queue /\ busy' = busy /\ rows' = rows
    BY <1>7 DEF GridDone, WriteRows, WriteMeta, Reanalyze, vars, param, job
  <2>2. /\ (pc' # "idle" <=> pc # "idle") /\ (Running' <=> Running)
        /\ pc' # "grid" => pc # "grid" \/ (queue = {} /\ busy = {})
    BY <1>7 DEF GridDone, WriteRows, WriteMeta, Reanalyze, vars, Running
  <2>3. SoFar => SoFar'
    <3>1. Grid(exp', seeds', rates') = Grid(exp, seeds, rates)
      BY <2>1
    <3> QED
      BY <2>1, <2>2, <3>1 DEF SoFar, GridRow
  <2> QED
    BY <2>1, <2>2, <2>3 DEF Rows
<1> QED
  BY <1>1, <1>2, <1>3, <1>4, <1>5, <1>6, <1>7 DEF Next

LEMMA SameRun ==
  ASSUME exp' = exp, csv' = csv
  PROVE  WholeRun(csv.rows)' <=> WholeRun(csv.rows)
  BY DEF WholeRun, Complete, GridRow

LEMMA NextWhole ==
  ASSUME DistinctJobs, WholeFile, [Next]_vars
  PROVE  WholeFile' /\ exp' = exp /\ exp \in Exps
<1>1. JobsInv' /\ Rows'
  BY NextJobs, NextRows DEF WholeFile
<1>2. exp' = exp /\ exp \in Exps
  <2>1. CASE JobRaises \/ WriteReport \/ Killed
    BY <2>1 DEF WholeFile, JobsInv, JobRaises, WriteReport, Killed, Exit
  <2>2. CASE ~(JobRaises \/ WriteReport \/ Killed)
    BY <2>2 DEF WholeFile, JobsInv, Next, Start, Sample, CalibrationDone, TakeJob, JobDone, GridDone,
                WriteRows, WriteMeta, Reanalyze, vars, param
  <2> QED
    BY <2>1, <2>2
<1> DEFINE FileWhole == csv # None /\ csv.cut = "no" => WholeRun(csv.rows)
<1>3. csv' = csv => FileWhole'
  BY <1>2, SameRun DEF WholeFile
<1>4. CASE WriteRows
  <2>1. pc = "rows" /\ csv' = RowsFile(rows)
    BY <1>4 DEF WriteRows
  <2>2. WholeRun(rows)
    BY <2>1, RunIsWhole DEF WholeFile, Rows, Running
  <2>3. csv'.rows = rows
    BY <2>1, FileFields
  <2>4. WholeRun(csv.rows)'
    BY <1>2, <2>2, <2>3 DEF WholeRun, Complete, GridRow
  <2> QED
    BY <1>1, <1>2, <2>4 DEF WholeFile
<1>5. CASE Killed
  <2>1. csv' = csv \/ csv' \in CutFiles
    BY <1>5 DEF Killed
  <2>2. csv' = csv \/ csv'.cut \in {"lines", "row"}
    BY <2>1, FileFields
  <2> QED
    BY <1>1, <1>2, <1>3, <2>2 DEF WholeFile
<1>6. CASE ~WriteRows /\ ~Killed
  <2>1. csv' = csv
    BY <1>6 DEF Next, Start, Sample, CalibrationDone, TakeJob, JobDone, JobRaises, GridDone, WriteMeta,
                WriteReport, Reanalyze, vars, disk
  <2> QED
    BY <1>1, <1>2, <1>3, <2>1 DEF WholeFile
<1> QED
  BY <1>4, <1>5, <1>6

LEMMA InitWhole == Init => WholeFile
<1>1. Init => Rows /\ csv = None
  BY DEF Init, Rows, Running
<1> QED
  BY InitJobs, <1>1 DEF WholeFile

\* What the process that writes a report holds is a whole run, and so is a file
\* that is not cut.
LEMMA ReportOfWhole ==
  ASSUME WholeFile
  PROVE  /\ WriteReport => WholeRun(rows)
         /\ Reanalyze /\ Readable /\ csv.cut = "no" => WholeRun(csv.rows)
<1>1. ASSUME WriteReport PROVE WholeRun(rows)
  BY <1>1, RunIsWhole DEF WholeFile, Rows, Running, WriteReport
<1> QED
  BY <1>1 DEF WholeFile, Readable

LEMMA NextHeadrooms ==
  ASSUME DistinctJobs, WholeGrids, CountsTokens, MinHeadroomPositive, WholeFile, HeadroomIsPoint, [Next]_vars
  PROVE  HeadroomIsPoint'
<1>1. exp' = exp /\ exp \in Exps
  BY NextWhole
<1>2. analysis' \in {analysis, None} => HeadroomIsPoint'
  BY <1>1, HeadroomsAgree
<1>3. CASE WriteReport
  <2>1. analysis' \in {analysis, Analysis(rows, run, run, TRUE)} /\ WholeRun(rows)
    BY <1>3, ReportOfWhole DEF WriteReport
  <2>2. Headrooms(Analysis(rows, run, run, TRUE))
    BY <1>1, <2>1, WholeRunAgrees
  <2> QED
    BY <1>1, <1>2, <2>1, <2>2, HeadroomsAgree
<1>4. CASE Reanalyze
  <2> DEFINE a == Analysis(csv.rows, csv.run, meta, csv.cut = "no")
  <2>1. analysis' = analysis \/ (Readable /\ analysis' = a)
    BY <1>4 DEF Reanalyze
  <2>2. a.whole <=> csv.cut = "no"
    BY DEF Analysis
  <2>3. Readable /\ csv.cut = "no" => Headrooms(a)
    BY <1>1, <1>4, ReportOfWhole, WholeRunAgrees
  <2> HIDE DEF a
  <2> QED
    BY <1>1, <1>2, <2>1, <2>2, <2>3, HeadroomsAgree
<1>5. CASE ~WriteReport /\ ~Reanalyze
  <2>1. analysis' \in {analysis, None}
    BY <1>5 DEF Next, Start, Sample, CalibrationDone, TakeJob, JobDone, JobRaises, GridDone, WriteRows,
                WriteMeta, Killed, vars, disk
  <2> QED
    BY <1>2, <2>1
<1> QED
  BY <1>3, <1>4, <1>5

\* The number a report prints and the point of the interval it prints beside
\* it, means of all rows there and sums over paired seeds here, are the same
\* number in every experiment, in the shares and in the collapse test of exp02,
\* whenever the rows are those of a whole grid: also after a reanalysis, after
\* a kill, and with the workers answering in any order (analyze, paired_ci and
\* the point estimate of bootstrap_ratio).
THEOREM HeadroomsMatch ==
  ASSUME DistinctJobs, WholeGrids, CountsTokens, MinHeadroomPositive
  PROVE  Spec => []HeadroomIsPoint
<1>1. Init => WholeFile /\ HeadroomIsPoint
  BY InitWhole DEF Init, HeadroomIsPoint
<1>2. WholeFile /\ HeadroomIsPoint /\ [Next]_vars => (WholeFile /\ HeadroomIsPoint)'
  BY NextWhole, NextHeadrooms
<1> QED
  BY <1>1, <1>2, PTL DEF Spec

(***************************************************************************)
(* A whole grid is reported                                                *)
(***************************************************************************)

\* The arms that a headroom and a share are made of.
ComparedArms == {"lru", "belady", "oracle_terminal"}

\* The arms that exp02 and exp03 compare are run at every point.
ComparedJobs(grid) ==
  \A j \in grid, a \in ComparedArms : \E i \in grid : i.point = j.point /\ i.policy = a /\ i.ttl = 0

ComparedGrids ==
  \A e \in Exps \cap {"exp02", "exp03"}, some \in SeedSets : \A found : ComparedJobs(Grid(e, some, found))

\* The grids of the two experiments are of that kind.
LEMMA Exp02Compared ==
  ASSUME NEW some, NEW C PROVE ComparedJobs(Exp02Jobs(some, C))
<1> DEFINE J == Exp02Jobs(some, C)
           A == {"lru", "oracle_terminal", "belady"}
<1>1. J = {Job(c, a, 0, s) : c \in C, a \in A, s \in some}
  BY DEF Exp02Jobs
<1>2. ComparedArms = A
  BY DEF ComparedArms
<1> HIDE DEF A, J
<1>3. ASSUME NEW j \in J, NEW b \in A
      PROVE  \E i \in J : i.point = j.point /\ i.policy = b /\ i.ttl = 0
  <2>1. PICK p \in C, a \in A, t \in some : j = Job(p, a, 0, t)
    BY <1>1
  <2>2. Job(p, b, 0, t) \in J
    BY <1>1
  <2> QED
    BY <2>1, <2>2 DEF Job
<1> QED
  BY <1>2, <1>3 DEF ComparedJobs, J

LEMMA Exp03Compared ==
  ASSUME NEW some, NEW found PROVE ComparedJobs(Exp03Jobs(some, found))
<1> DEFINE A == {"lru", "oracle_terminal", "belady"}
           Open(w, a, s) == [point |-> <<"open_matched", w>>, policy |-> a, ttl |-> 0, seed |-> s, rate |-> found[w]]
           J1 == {Job(<<"closed", w>>, a, 0, s) : w \in PauseGrid, a \in A, s \in some}
           J2 == {Open(w, a, s) : w \in PauseGrid, a \in A, s \in some}
           J == Exp03Jobs(some, found)
<1>1. J = J1 \cup J2
  BY DEF Exp03Jobs
<1>2. ComparedArms = A
  BY DEF ComparedArms
<1>3. ASSUME NEW j \in J1, NEW b \in A
      PROVE  \E i \in J1 : i.point = j.point /\ i.policy = b /\ i.ttl = 0
  <2>1. PICK w \in PauseGrid, a \in A, t \in some : j = Job(<<"closed", w>>, a, 0, t)
    OBVIOUS
  <2>2. Job(<<"closed", w>>, b, 0, t) \in J1
    OBVIOUS
  <2> QED
    BY <2>1, <2>2 DEF Job
<1>4. ASSUME NEW j \in J2, NEW b \in A
      PROVE  \E i \in J2 : i.point = j.point /\ i.policy = b /\ i.ttl = 0
  <2>1. PICK w \in PauseGrid, a \in A, t \in some : j = Open(w, a, t)
    OBVIOUS
  <2>2. Open(w, b, t) \in J2
    <3> HIDE DEF Open, A
    <3> QED
      OBVIOUS
  <2> HIDE DEF J2
  <2> QED
    BY <2>1, <2>2
<1> HIDE DEF A, J1, J2, J
<1> QED
  BY <1>1, <1>2, <1>3, <1>4 DEF ComparedJobs, J

Compared(data) == \A p \in Points(data), a \in ComparedArms : SeedsAt(data, p, a, 0) # {}

LEMMA CompleteCompared ==
  ASSUME NEW grid, NEW o, NEW data, ComparedJobs(grid), Complete(data, grid, o)
  PROVE  Compared(data)
<1> SUFFICES ASSUME NEW p \in Points(data), NEW a \in ComparedArms
             PROVE  \E q \in data : q.point = p /\ q.policy = a /\ q.ttl = 0
  BY DEF Compared, SeedsAt
<1>1. PICK r \in data : r.point = p
  BY DEF Points
<1>2. PICK j \in grid : Answers(r, j)
  BY DEF Complete, GridRow
<1>3. PICK i \in grid : i.point = j.point /\ i.policy = a /\ i.ttl = 0
  BY DEF ComparedJobs
<1>4. PICK q \in data : Answers(q, i)
  BY DEF Complete
<1> QED
  BY <1>1, <1>2, <1>3, <1>4 DEF Answers

LEMMA MeanThere ==
  ASSUME NEW data, NEW S, WholeRows(data, S), NEW p, NEW a, SeedsAt(data, p, a, 0) # {}
  PROVE  DOMAIN BySeed(data, p, a, 0) # {} /\ Mean(BySeed(data, p, a, 0)) # None
<1> DEFINE f == BySeed(data, p, a, 0)
<1>1. SeedsAt(data, p, a, 0) = S /\ IsFiniteSet(S)
  BY DEF WholeRows
<1>2. DOMAIN f = S /\ f \in [S -> Nat] /\ \A s \in S : f[s] # 0
  BY <1>1, TableIs
<1> HIDE DEF f
<1>3. DOMAIN f # {} /\ Truthy(Mean(f))
  BY <1>1, <1>2, MeanIsTruthy
<1> QED
  BY <1>3 DEF f, Truthy

\* With all arms there, nothing that exp02 and exp03 subtract is missing.
LEMMA ComparedReported ==
  ASSUME NEW data, NEW S, WholeRows(data, S), Compared(data)
  PROVE  /\ ~PairedRaises(data) /\ ~Exp02Raises(data)
         /\ \A p \in Points(data), a \in ComparedArms : DOMAIN BySeed(data, p, a, 0) # {}
<1>1. \A p \in Points(data), a \in ComparedArms :
        DOMAIN BySeed(data, p, a, 0) # {} /\ Mean(BySeed(data, p, a, 0)) # None
  BY MeanThere DEF Compared
<1>2. ~PairedRaises(data)
  BY <1>1 DEF PairedRaises, ComparedArms
<1> QED
  BY <1>1, <1>2 DEF Exp02Raises, ComparedArms

\* What exp05 prints of a threshold is a number, but for a share of nothing.
LEMMA Exp05Reported ==
  ASSUME NEW data, NEW S, WholeRows(data, S), References(data)
  PROVE  /\ ~Exp05Raises(data)
         /\ \A p \in DOMAIN Exp05Report(data) : Exp05Report(data)[p].gain # None
<1>1. ASSUME NEW p \in {q \in Points(data) : q[2] >= 0}, NEW a \in ComparedArms
      PROVE  LET ref == BySeed(data, <<p[1], -1>>, a, 0)
             IN  /\ S # {} /\ DOMAIN BySeed(data, p, "predict_terminal", 0) = S
                 /\ DOMAIN ref = S /\ Restricted(ref, S) = ref /\ Truthy(Mean(ref))
  <2> DEFINE ref == BySeed(data, <<p[1], -1>>, a, 0)
  <2>1. PICK r \in data : r.point = p /\ r.policy = "predict_terminal" /\ r.ttl = 0
    BY DEF Points, References
  <2>2. SeedsAt(data, <<p[1], -1>>, a, 0) # {}
    BY <2>1 DEF References, ComparedArms
  <2>3. SeedsAt(data, p, "predict_terminal", 0) = S /\ S # {} /\ IsFiniteSet(S)
    BY <2>1 DEF WholeRows, SeedsAt
  <2>4. SeedsAt(data, <<p[1], -1>>, a, 0) = S
    BY <2>2 DEF WholeRows
  <2>5. DOMAIN BySeed(data, p, "predict_terminal", 0) = S
    BY <2>3, TableIs
  <2>6. DOMAIN ref = S /\ ref \in [S -> Nat] /\ \A s \in S : ref[s] # 0
    BY <2>4, TableIs
  <2> HIDE DEF ref
  <2>7. Restricted(ref, S) = ref /\ Truthy(Mean(ref))
    BY <2>3, <2>6, RestrictedToAll, MeanIsTruthy
  <2> QED
    BY <2>3, <2>5, <2>6, <2>7 DEF ref
<1>2. ~Exp05Raises(data)
  BY <1>1 DEF Exp05Raises, ComparedArms
<1>3. ASSUME NEW p \in DOMAIN Exp05Report(data) PROVE Exp05Report(data)[p].gain # None
  <2> DEFINE got == BySeed(data, p, "predict_terminal", 0)
             ref == BySeed(data, <<p[1], -1>>, "lru", 0)
             mean == Mean(Restricted(ref, DOMAIN got))
  <2>1. p \in {q \in Points(data) : q[2] >= 0}
    BY DEF Exp05Report
  <2>2. Exp05Report(data)[p].gain = IF Truthy(mean) THEN Gain(mean, Mean(got)) ELSE None
    BY <2>1 DEF Exp05Report
  <2>3. Truthy(mean)
    BY <1>1, <2>1 DEF ComparedArms
  <2>4. \A m, v : Gain(m, v) # None
    BY PairIsNotNone DEF Gain, Over
  <2> HIDE DEF mean, got
  <2> QED
    BY <2>2, <2>3, <2>4
<1> QED
  BY <1>2, <1>3

LEMMA WholeRunReported ==
  ASSUME WholeGrids, ComparedGrids, CountsTokens, exp \in Exps, NEW data, WholeRun(data)
  PROVE  /\ ~Raises(data)
         /\ PrintRaises(data) => exp = "exp05" /\ \E p \in DOMAIN Report(data) : Report(data)[p].share = None
<1>1. PICK S \in SeedSets : WholeRows(data, S)
  BY WholeRunRows
<1>2. exp = "exp05" => References(data)
  BY WholeRunRows
<1>3. exp \in {"exp02", "exp03"} => Compared(data)
  BY CompleteCompared DEF WholeRun, ComparedGrids
<1>4. CASE exp = "exp02" \/ exp = "exp03"
  <2>1. /\ ~PairedRaises(data) /\ ~Exp02Raises(data)
        /\ \A p \in Points(data), a \in {"lru", "belady"} : DOMAIN BySeed(data, p, a, 0) # {}
    BY <1>1, <1>3, <1>4, ComparedReported DEF ComparedArms
  <2> QED
    BY <1>4, <2>1 DEF Raises, PrintRaises
<1>5. CASE exp = "exp05"
  <2>1. /\ ~Exp05Raises(data)
        /\ \A p \in DOMAIN Exp05Report(data) : Exp05Report(data)[p].gain # None
    BY <1>1, <1>2, <1>5, Exp05Reported
  <2>2. Report(data) = Exp05Report(data)
    BY <1>5 DEF Report
  <2> QED
    BY <1>5, <2>1, <2>2 DEF Raises, PrintRaises
<1>6. CASE exp \notin {"exp02", "exp03", "exp05"}
  BY <1>6 DEF Raises, PrintRaises
<1> QED
  BY <1>4, <1>5, <1>6

LEMMA NextReported ==
  ASSUME DistinctJobs, WholeGrids, ComparedGrids, CountsTokens, WholeFile, WholeRowsReported, [Next]_vars
  PROVE  WholeRowsReported'
<1>1. exp' = exp /\ exp \in Exps
  BY NextWhole
<1>2. CASE WriteReport
  <2>1. /\ WholeRun(rows) /\ last' = Analyzed(rows)
        /\ analysis' = IF Raises(rows) THEN analysis ELSE Analysis(rows, run, run, TRUE)
    BY <1>2, ReportOfWhole DEF WriteReport, Exit
  <2>2. /\ ~Raises(rows)
        /\ PrintRaises(rows) => exp = "exp05" /\ \E p \in DOMAIN Report(rows) : Report(rows)[p].share = None
    BY <1>1, <2>1, WholeRunReported
  <2>3. analysis'.report = Report(rows)
    BY <2>1, <2>2, AnalysisFields
  <2>4. last' # "unreported" /\ (last' = "unprinted" => PrintRaises(rows))
    BY <2>1, <2>2 DEF Analyzed
  <2> QED
    BY <1>1, <2>2, <2>3, <2>4 DEF WholeRowsReported
<1>3. CASE Reanalyze
  <2>1. csv' = csv /\ meta' = meta /\ (HasQuality' <=> HasQuality)
    BY <1>1, <1>3 DEF Reanalyze, HasQuality
  <2>2. CASE ~Readable
    <3>1. last' = "unreported"
      BY <1>3, <2>2 DEF Reanalyze
    <3> QED
      BY <2>1, <2>2, <3>1 DEF Readable, WholeRowsReported
  <2>3. CASE Readable /\ csv.cut # "no"
    BY <2>1, <2>3 DEF WholeRowsReported
  <2>4. CASE Readable /\ csv.cut = "no"
    <3>1. /\ WholeRun(csv.rows) /\ last' = Analyzed(csv.rows)
          /\ analysis' = IF Raises(csv.rows) THEN analysis ELSE Analysis(csv.rows, csv.run, meta, csv.cut = "no")
      BY <1>3, <2>4, ReportOfWhole DEF Reanalyze
    <3>2. /\ ~Raises(csv.rows)
          /\ PrintRaises(csv.rows) =>
               exp = "exp05" /\ \E p \in DOMAIN Report(csv.rows) : Report(csv.rows)[p].share = None
      BY <1>1, <3>1, WholeRunReported
    <3>3. analysis'.report = Report(csv.rows)
      BY <3>1, <3>2, AnalysisFields
    <3>4. last' # "unreported" /\ (last' = "unprinted" => PrintRaises(csv.rows))
      BY <3>1, <3>2 DEF Analyzed
    <3> QED
      BY <1>1, <3>2, <3>3, <3>4 DEF WholeRowsReported
  <2> QED
    BY <2>2, <2>3, <2>4
<1>4. CASE UNCHANGED vars
  <2>1. UNCHANGED <<pc, last, exp, csv, meta, analysis>>
    BY <1>4 DEF vars, param, disk
  <2> QED
    BY <2>1 DEF WholeRowsReported, HasQuality
<1>5. CASE Next /\ ~WriteReport /\ ~Reanalyze
  <2>1. pc' # "idle" \/ last' \in {"raised", "killed"}
    BY <1>5 DEF Next, Start, Sample, CalibrationDone, TakeJob, JobDone, JobRaises, GridDone, WriteRows,
                WriteMeta, Killed, Exit, ToGrid
  <2> QED
    BY <2>1 DEF WholeRowsReported
<1> QED
  BY <1>2, <1>3, <1>4, <1>5

\* A run whose workers all answered, in whatever order, and a reanalysis of
\* files that no kill has cut, are reported and printed, but for exp05's share
\* of nothing: nothing that analyze() subtracts, and nothing else that
\* print_report() formats, is missing.
THEOREM WholeReported ==
  ASSUME DistinctJobs, WholeGrids, ComparedGrids, CountsTokens
  PROVE  Spec => []WholeRowsReported
<1>1. Init => WholeFile /\ WholeRowsReported
  BY InitWhole DEF Init, WholeRowsReported
<1>2. WholeFile /\ WholeRowsReported /\ [Next]_vars => (WholeFile /\ WholeRowsReported)'
  BY NextWhole, NextReported
<1> QED
  BY <1>1, <1>2, PTL DEF Spec
=============================================================================
