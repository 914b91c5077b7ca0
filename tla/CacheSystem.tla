---------------------------- MODULE CacheSystem ----------------------------
(***************************************************************************)
(* The client with the pool of PrefixCache: what an eviction family has to *)
(* implement.                                                              *)
(***************************************************************************)
EXTENDS PoolClient

VARIABLE pool

cvars == <<pool, client>>

CInit == ClientInit /\ pool = [k \in {} |-> NewBlock]

Positions(s, m, n) == {KeyAt(s, i) : i \in m .. n - 1}

CAdmit(s) ==
  /\ CanEnter(s)
  /\ \E h \in 0 .. W(s).full :
       /\ IsPrefixHit(pool, s, W(s).full, h)
       /\ \E p \in Acquired(pool, Positions(s, 0, h), Positions(s, h, W(s).blocks)) :
            pool' = MarkFull(p, Positions(s, h, W(s).full))
  /\ Enter(s)

CPrefilled(s) ==
  /\ Prefilled(s)
  /\ pool' = MarkReady(pool, BlockKeys(s, chain[s]))

Sealed(s) == MarkReady(MarkFull(pool, {KeyAt(s, chain[s] - 1)}), {KeyAt(s, chain[s] - 1)})

CGrow(s) ==
  /\ CanGrow(s)
  /\ \/ pool' \in Acquired(Sealed(s), {}, {KeyAt(s, chain[s])}) /\ Grown(s)
     \/ /\ ~CanAcquire(Sealed(s), {}, {KeyAt(s, chain[s])})
        /\ pool' = Release(Sealed(s), BlockKeys(Newest, chain[Newest]), FALSE)
        /\ Preempted

CFinish(s) ==
  /\ CanLeave(s)
  /\ pool' = Release(IF W(s).whole THEN Sealed(s) ELSE pool, BlockKeys(s, chain[s]), TRUE)
  /\ Leave(s)

CNext ==
  \/ \E s \in Clients : CAdmit(s) \/ CPrefilled(s) \/ CGrow(s) \/ CFinish(s)
  \/ ClockTicks /\ UNCHANGED pool

CSpec == CInit /\ [][CNext]_cvars
=============================================================================
