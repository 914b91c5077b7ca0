---------------------------- MODULE Experiments ----------------------------
(***************************************************************************)
(* The five experiments (experiments/exp01_*.py .. exp05_*.py): the runs a *)
(* grid is made of and the report that is computed from their rows.  A row *)
(* is a run and its outcome, the prefill tokens it computed, the metric of *)
(* every headline; the other metrics go the same way.  A mean or a share   *)
(* is a quotient <<n, d>> of integers, None where the code has None or the *)
(* NaN of an unreliable share.                                             *)
(***************************************************************************)
EXTENDS Integers, Sequences, FiniteSets, FiniteSetsExt, Functions

CONSTANTS
  ConstTtls,      \* CONST_TTL_GRID
  Pressures,      \* TARGET_PRESSURES, in percent
  PauseGrid,      \* PAUSE_GRID of exp03
  Signals,        \* SIGNAL_GRID, of exp04 and exp05
  Thresholds,     \* THRESHOLD_GRID, all positive
  MinHeadroom     \* MIN_RELIABLE_HEADROOM, a quotient

None == <<>>

\* A quotient has a positive denominator unless it is None.
Minus(p, q) == <<p[1] * q[2] - q[1] * p[2], p[2] * q[2]>>
Over(p, q)  == IF q[1] < 0 THEN <<-(p[1] * q[2]), -(p[2] * q[1])>> ELSE <<p[1] * q[2], p[2] * q[1]>>
AtLeast(p, q) == p[1] * q[2] >= q[1] * p[2]
Same(p, q)  == IF None \in {p, q} THEN p = q ELSE p[1] * q[2] = q[1] * p[2]

(***************************************************************************)
(* The grids                                                               *)
(***************************************************************************)

\* The arrival rate matters in the open loop of exp03 alone.
Job(point, policy, ttl, seed) ==
  [point |-> point, policy |-> policy, ttl |-> ttl, seed |-> seed, rate |-> None]

\* The arms of exp01 as <<policy, ttl>>; "only" is {} for all of them.
Arms(only) ==
  {a \in ({"lru", "ttl_oracle", "oracle_terminal", "belady"} \X {0}) \cup ({"const_ttl"} \X ConstTtls) :
     only = {} \/ a[1] \in only}

Exp01Jobs(seeds, concs, pauses, basePause, sweepConc, only) ==
  {Job(p, a[1], a[2], s) :
     p \in {<<"concurrency", c, basePause>> : c \in concs} \cup {<<"pause", sweepConc, w>> : w \in pauses},
     a \in Arms(only), s \in seeds}

\* round(n / d); Python rounds a tie to the even neighbour.
Rounded(n, d) == (2 * n + d) \div (2 * d)

\* condition, target pressure, pool and concurrency
Conditions(ctx, pool, bigPool, fixedConc) ==
  {<<c, p, IF c = "vary_pool" THEN Max({1000, Rounded(100 * fixedConc * ctx, p)})
           ELSE IF c = "bigger_gpu" THEN bigPool ELSE pool,
     IF c = "vary_pool" THEN fixedConc
     ELSE Max({1, Rounded(p * (IF c = "bigger_gpu" THEN bigPool ELSE pool), 100 * ctx)})>> :
     c \in {"vary_concurrency", "vary_pool", "bigger_gpu"}, p \in Pressures}

Exp02Jobs(seeds, conditions) ==
  {Job(c, a, 0, s) : c \in conditions, a \in {"lru", "oracle_terminal", "belady"}, s \in seeds}

Exp03Jobs(seeds, rates) ==
  LET arms == {"lru", "oracle_terminal", "belady"}
  IN  {Job(<<"closed", w>>, a, 0, s) : w \in PauseGrid, a \in arms, s \in seeds}
        \cup {[point |-> <<"open_matched", w>>, policy |-> a, ttl |-> 0, seed |-> s,
               rate |-> rates[w]] : w \in PauseGrid, a \in arms, s \in seeds}

Exp04Jobs(seeds) ==
  {Job(<<g>>, a, 0, s) :
     g \in Signals, s \in seeds,
     a \in {"lru", "oracle_terminal", "belady", "belady_pause",
            "predict_terminal", "predict", "predict_guarded"}}

\* The reference arms have the threshold -1 and run once for each signal.
Exp05Jobs(seeds) ==
  {Job(<<g, -1>>, a, 0, s) : g \in Signals, a \in {"lru", "oracle_terminal", "belady"}, s \in seeds}
    \cup {Job(<<g, t>>, "predict_terminal", 0, s) : g \in Signals, t \in Thresholds, s \in seeds}

(***************************************************************************)
(* What the reports are made of                                            *)
(***************************************************************************)

Points(rows) == {r.point : r \in rows}

BySeed(rows, point, policy, ttl) ==
  LET at == {r \in rows : r.point = point /\ r.policy = policy /\ r.ttl = ttl}
  IN  [s \in {r.seed : r \in at} |-> (CHOOSE r \in at : r.seed = s).tokens]

\* st.fmean
Mean(bySeed) ==
  IF DOMAIN bySeed = {} THEN None
  ELSE <<MapThenSumSet(LAMBDA s : bySeed[s], DOMAIN bySeed), Cardinality(DOMAIN bySeed)>>

Restricted(f, S) == [s \in S |-> f[s]]
Zero(S) == [s \in S |-> 0]

TotalGap(f, g, idx) == FoldFunction(LAMBDA s, t : f[s] - g[s] + t, 0, idx)

\* A point estimate over the seeds of the numerator alone.
Mut_RatioOf(numer, denom, idx) ==
  LET den == TotalGap(denom[1], denom[2], [i \in {1} |-> idx[1]])
  IN  IF den = 0 THEN None ELSE Over(<<TotalGap(numer[1], numer[2], idx), 1>>, <<den, 1>>)

\* ratio(idx) of bootstrap_ratio; numer and denom are pairs of tables.
RatioOf(numer, denom, idx) ==
  LET den == TotalGap(denom[1], denom[2], idx)
  IN  IF den = 0 THEN None ELSE Over(<<TotalGap(numer[1], numer[2], idx), 1>>, <<den, 1>>)

\* The estimate, and every value a resampling of whole seeds may draw: lo and
\* hi are two of them.
BootstrapRatio(numer, denom) ==
  LET seeds == DOMAIN numer[1]
      order == CHOOSE f \in [1..Cardinality(seeds) -> seeds] : IsInjective(f)
      point == RatioOf(numer, denom, order)
  IN  IF seeds = {} \/ point = None THEN None
      ELSE [point |-> point,
            draws |-> {RatioOf(numer, denom, idx) : idx \in [1..Cardinality(seeds) -> seeds]} \ {None}]

\* "if lru": a mean that is None or 0 is false.
Truthy(mean) == mean # None /\ mean[1] # 0

\* (lru - v) / lru and (lru - v) / (lru - belady) of means
Gain(lru, v) == IF Truthy(lru) /\ v # None THEN Over(Minus(lru, v), lru) ELSE <<0, 1>>
Share(lru, v, bel) ==
  IF None \in {lru, v, bel} \/ Minus(lru, bel)[1] = 0 THEN None
  ELSE Over(Minus(lru, v), Minus(lru, bel))
ShareOfPositive(lru, v, bel) ==
  IF None \in {lru, bel} \/ Minus(lru, bel)[1] <= 0 THEN None ELSE Share(lru, v, bel)

\* The intervals, over the given seeds, of the headroom or of the gain of an
\* arm over LRU, and of the share of the headroom that an arm captures.
GainCi(lru, arm, seeds) ==
  BootstrapRatio(<<Restricted(lru, seeds), Restricted(arm, seeds)>>, <<Restricted(lru, seeds), Zero(seeds)>>)
ShareCi(lru, arm, bel, seeds) ==
  BootstrapRatio(<<Restricted(lru, seeds), Restricted(arm, seeds)>>, <<Restricted(lru, seeds), Restricted(bel, seeds)>>)

(***************************************************************************)
(* The reports                                                             *)
(***************************************************************************)

Exp01Report(rows) ==
  LET Entry(p) ==
        LET T(a) == BySeed(rows, p, a, 0)
            lru == Mean(T("lru"))
            consts == {<<t, Mean(BySeed(rows, p, "const_ttl", t))>> :
                         t \in {r.ttl : r \in {q \in rows : q.point = p /\ q.policy = "const_ttl"}}}
            best == CHOOSE c \in consts : \A d \in consts : AtLeast(d[2], c[2])
            headroom == Gain(lru, Mean(T("belady")))
            reliable == AtLeast(headroom, MinHeadroom)
            paired == DOMAIN T("lru") \cap DOMAIN T("belady") \cap DOMAIN T("oracle_terminal")
        IN  [headroom |-> headroom,
             constGain |-> IF consts = {} THEN <<0, 1>> ELSE Gain(lru, best[2]),
             share |-> IF reliable THEN Over(Gain(lru, Mean(T("oracle_terminal"))), headroom) ELSE None,
             headroomCi |-> GainCi(T("lru"), T("belady"), paired),
             shareCi |-> ShareCi(T("lru"), T("oracle_terminal"), T("belady"), paired)]
  IN  [p \in Points(rows) |-> Entry(p)]

\* The spread over the conditions of one target pressure, of a sample of seeds.
HeadroomRange(rows, at, sample) ==
  LET H(p) == Gain(Mean(Restricted(BySeed(rows, p, "lru", 0), sample)),
                   Mean(Restricted(BySeed(rows, p, "belady", 0), sample)))
      top == CHOOSE p \in at : \A q \in at : AtLeast(H(p), H(q))
      low == CHOOSE p \in at : \A q \in at : AtLeast(H(q), H(p))
  IN  Minus(H(top), H(low))

\* The report of exp02 and exp03, where PairedRaises does not prevent it.
PairedReport(rows) ==
  LET Entry(p) ==
        LET T(a) == BySeed(rows, p, a, 0)
            M(a) == Mean(T(a))
        IN  [headroom |-> Gain(M("lru"), M("belady")),
             share |-> ShareOfPositive(M("lru"), M("oracle_terminal"), M("belady")),
             headroomCi |-> GainCi(T("lru"), T("belady"), DOMAIN T("lru") \cap DOMAIN T("belady"))]
  IN  [p \in Points(rows) |-> Entry(p)]

\* Without a mean of Belady, or of the oracle where there is a gap, the
\* subtraction raises.
PairedRaises(rows) ==
  \E p \in Points(rows) :
    LET M(a) == Mean(BySeed(rows, p, a, 0))
    IN  /\ Truthy(M("lru"))
        /\ M("belady") # None => Minus(M("lru"), M("belady"))[1] > 0 /\ M("oracle_terminal") = None

Exp02Report(rows) == PairedReport(rows)

\* The targets of the collapse test, two conditions or more.
Targets(rows) ==
  {r.point[2] : r \in {q \in rows : \E p \in Points(rows) : p # q.point /\ p[2] = q.point[2]}}

\* The range of the hit rates compares the means of LRU.
Exp02Raises(rows) ==
  \/ PairedRaises(rows)
  \/ \E p \in Points(rows) : p[2] \in Targets(rows) /\ DOMAIN BySeed(rows, p, "lru", 0) = {}

\* The collapse test: the range of the points' headrooms, and the point
\* estimate of its interval, over the seeds that every condition has.
Collapse(rows, target) ==
  LET at == {p \in Points(rows) : p[2] = target}
      report == Exp02Report(rows)
      top == CHOOSE p \in at : \A q \in at : AtLeast(report[p].headroom, report[q].headroom)
      low == CHOOSE p \in at : \A q \in at : AtLeast(report[q].headroom, report[p].headroom)
      seeds == {s \in {r.seed : r \in rows} :
                  \A p \in at : \A a \in {"lru", "belady"} : s \in DOMAIN BySeed(rows, p, a, 0)}
  IN  [range |-> Minus(report[top].headroom, report[low].headroom),
       point |-> IF Cardinality(seeds) < 2 THEN None ELSE HeadroomRange(rows, at, seeds)]

\* A run that does not settle is only flagged: its rows stay in the means.
Exp03Report(rows) == PairedReport(rows)

Exp04Report(rows) ==
  LET Entry(p) ==
        LET T(a) == BySeed(rows, p, a, 0)
            M(a) == Mean(T(a))
            both == DOMAIN T("lru") \cap DOMAIN T("belady")
            Ci(a) == IF Cardinality(both \cap DOMAIN T(a)) < 2 THEN None
                     ELSE ShareCi(T("lru"), T(a), T("belady"), both \cap DOMAIN T(a))
            gap == IF Truthy(M("lru")) /\ Truthy(M("belady")) THEN Minus(M("lru"), M("belady")) ELSE <<0, 1>>
        IN  [headroom |-> IF Truthy(M("lru")) THEN Over(gap, M("lru")) ELSE <<0, 1>>,
             shares |-> [a \in {"oracle_terminal", "belady_pause", "predict_terminal",
                                "predict", "predict_guarded"} |->
                           [share |-> IF gap[1] > 0 THEN Share(M("lru"), M(a), M("belady")) ELSE None,
                            ci |-> IF a \in {"predict", "predict_guarded"} THEN None ELSE Ci(a)]],
             headroomCi |-> IF Cardinality(both) < 2 THEN None
                            ELSE GainCi(T("lru"), T("belady"), both)]
  IN  [p \in Points(rows) |-> Entry(p)]

\* Every threshold is compared with the reference rows of its own seeds.
Exp05Report(rows) ==
  LET Entry(p) ==
        LET got == BySeed(rows, p, "predict_terminal", 0)
            T(a) == Restricted(BySeed(rows, <<p[1], -1>>, a, 0), DOMAIN got)
            M(a) == Mean(T(a))
        IN  [share |-> Share(M("lru"), Mean(got), M("belady")),
             gain |-> IF Truthy(M("lru")) THEN Gain(M("lru"), Mean(got)) ELSE None,
             gainCi |-> GainCi(T("lru"), got, DOMAIN got),
             shareCi |-> ShareCi(T("lru"), got, T("belady"), DOMAIN got)]
  IN  [p \in {q \in Points(rows) : q[2] >= 0} |-> Entry(p)]

\* A seed without a reference row is a KeyError.
Exp05Raises(rows) ==
  \E p \in {q \in Points(rows) : q[2] >= 0}, a \in {"lru", "belady", "oracle_terminal"} :
    ~(DOMAIN BySeed(rows, p, "predict_terminal", 0) \subseteq DOMAIN BySeed(rows, <<p[1], -1>>, a, 0))
=============================================================================
