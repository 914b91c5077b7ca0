------------------------------ MODULE MCStudy ------------------------------
(***************************************************************************)
(* Instances of Study for TLC: small grids, an outcome with a headroom at  *)
(* some points, one where Belady is worse than LRU for a seed, and one     *)
(* where nothing is evicted and all arms do the same.                      *)
(***************************************************************************)
EXTENDS Study

Ctx == 100

MCGrid(e, some, found) ==
  CASE e = "exp01" -> Exp01Jobs(some, {1}, {2}, 1, 1, {"lru", "const_ttl", "oracle_terminal", "belady"})
    [] e = "exp02" -> Exp02Jobs(some, Conditions(Ctx, 1000, 2500, 16))
    [] e = "exp03" -> Exp03Jobs(some, found)
    [] e = "exp04" -> Exp04Jobs(some)
    [] OTHER         -> Exp05Jobs(some)

Arm(policy) ==
  CASE policy = "lru" -> 0 [] policy = "const_ttl" -> 1 [] policy = "oracle_terminal" -> 2
    [] policy = "belady" -> 4 [] OTHER -> 3

\* In these points of the first outcome nothing is to be gained.
Flat(p) == p[1] \in {"closed", "pause", "vary_pool"}

MCTokens(o, j) ==
  LET base == 20 + 5 * j.seed
  IN  IF o = "flat" THEN base
      ELSE IF o = "mixed" THEN base + Arm(j.policy) * (2 * j.seed - 3)
      ELSE IF Flat(j.point) THEN base
      ELSE base - Arm(j.policy) * j.seed - (j.ttl % 2)

MCOutcomes == {"headroom", "mixed", "flat"}
MCSeedSets == {{1}, {1, 2}}
MCLives    == {8, 15, 40}
MCTtls     == {1, 2}
MCPressures == {50}
MCPauses   == {1}
MCSignals  == {"strong"}
MCThresholds == {1, 2}
MCExps == {"exp01", "exp02", "exp03", "exp04", "exp05"}
MCMinHeadroom == <<1, 10>>
=============================================================================
