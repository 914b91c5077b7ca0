------------------------------ MODULE Policies ------------------------------
(***************************************************************************)
(* The retention arms: the rank a finishing request stamps on the blocks   *)
(* it releases (sim/engine.py, _make_rank_fn).                             *)
(*                                                                         *)
(* An arm sees of a turn the record [last, pause, ends, guess]: whether it *)
(* is the session's last, the true pause after it, and what a predictor    *)
(* says of the two (ends: a predicted pause that is not finite).           *)
(***************************************************************************)
EXTENDS Integers

CONSTANTS
  ConstTtl,     \* PolicyConfig.const_ttl_s
  OracleScale   \* PolicyConfig.oracle_ttl_scale

ASSUME PolicyAssumption == ConstTtl \in Nat /\ OracleScale \in Nat

TtlArms == {"lru", "const_ttl", "ttl_oracle"}

PriorityArms == {"lru_priority", "oracle_terminal", "belady", "belady_pause",
                 "predict", "predict_guarded", "predict_terminal"}

Family(arm) == IF arm \in TtlArms THEN "ttl" ELSE "priority"

Dead == <<0, 0>>
Mut_Live(key) == <<1, -key>>
Live(key) == <<1, key>>

Rank(arm, i, now) ==
  CASE arm = "lru" -> 0
    [] arm = "const_ttl" -> ConstTtl
    [] arm = "ttl_oracle" -> IF i.last THEN 0 ELSE i.pause * OracleScale
    [] arm = "lru_priority" -> Live(now)
    [] arm = "oracle_terminal" -> IF i.last THEN Dead ELSE Live(now)
    [] arm = "belady" -> IF i.last THEN Dead ELSE Live(-(now + i.pause * OracleScale))
    [] arm = "belady_pause" -> IF i.last THEN Dead ELSE Live(-(i.pause * OracleScale))
    [] arm = "predict" -> IF i.ends THEN Dead ELSE Live(-(now + i.guess))
    [] arm = "predict_guarded" -> IF i.ends THEN Dead ELSE Live(-i.guess)
    [] arm = "predict_terminal" -> IF i.ends THEN Dead ELSE Live(now)
=============================================================================
