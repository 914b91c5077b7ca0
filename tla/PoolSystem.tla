----------------------------- MODULE PoolSystem -----------------------------
(***************************************************************************)
(* The client with the pool of BlockPool under one or more retention arms. *)
(*                                                                         *)
(* A view is an arm and what it is told of a turn.  pools has a pool for   *)
(* each view of the run; every call goes to all of them, and the first one *)
(* decides what the client does next.  With one view this is the program;  *)
(* with two it compares two runs of it, for as long as they agree.         *)
(***************************************************************************)
EXTENDS PoolClient, BlockPool, Policies

CONSTANT ViewLists   \* the lists of views to run

ArmView == [arm : TtlArms \cup PriorityArms, told : {"given", "truth", "flat", "false"}]

ASSUME ViewAssumption == ViewLists \subseteq Seq(ArmView) \ {<<>>}

VARIABLES views, pools, raised

vars == <<views, pools, raised, client>>

\* What a view is told of the current turn of s: what happens and what was
\* predicted; the truth as a perfect prediction; a prediction that says nothing;
\* or the truth replaced, to see who looks at it.
Info(v, s) ==
  LET w == W(s)
  IN  CASE v.told = "given" -> [last |-> IsFinal(s), pause |-> w.pause,
                                ends |-> w.ends, guess |-> w.guess]
        [] v.told = "truth" -> [last |-> IsFinal(s), pause |-> w.pause,
                                ends |-> IsFinal(s), guess |-> w.pause]
        [] v.told = "flat"  -> [last |-> IsFinal(s), pause |-> w.pause,
                                ends |-> FALSE, guess |-> 1]
        [] v.told = "false" -> [last |-> ~IsFinal(s), pause |-> MaxTime + 1 - w.pause,
                                ends |-> w.ends, guess |-> w.guess]

Init ==
  /\ ClientInit
  /\ views \in ViewLists
  /\ pools = [i \in DOMAIN views |-> NewPool(Family(views[i].arm))]
  /\ raised = FALSE

\* The tail is sealed on a block boundary.
SealTail(p, s) == SetReady(SetFull(p, {KeyAt(s, chain[s] - 1)}), {KeyAt(s, chain[s] - 1)})

Hits(p, s) == PrefixHits(p, ChainSeq(s, W(s).full))

Admission(p, s) ==
  Acquire(p, ChainSeq(s, Hits(p, s)),
          SubSeq(ChainSeq(s, W(s).blocks), Hits(p, s) + 1, W(s).blocks), now)

Admit(s) ==
  /\ CanEnter(s)
  /\ LET a == [i \in DOMAIN pools |-> Admission(pools[i], s)]
     IN  /\ raised' = \E i \in DOMAIN pools : a[i].result = "raised"
         /\ CASE a[1].result = "done" ->
                   /\ pools' = [i \in DOMAIN pools |->
                        SetFull(a[i].pool, {KeyAt(s, j) : j \in Hits(pools[i], s) .. W(s).full - 1})]
                   /\ Enter(s)
              [] OTHER ->
                   /\ pools' = [i \in DOMAIN pools |-> a[i].pool]
                   /\ UNCHANGED client
  /\ UNCHANGED views

FinishPrefill(s) ==
  /\ Prefilled(s)
  /\ pools' = [i \in DOMAIN pools |-> SetReady(pools[i], BlockKeys(s, chain[s]))]
  /\ UNCHANGED <<views, raised>>

\* _grow_one_block, and _preempt_one if it fails.
Grow(s) ==
  /\ CanGrow(s)
  /\ LET a == [i \in DOMAIN pools |->
                 Acquire(SealTail(pools[i], s), <<>>, <<KeyAt(s, chain[s])>>, now)]
     IN  /\ raised' = \E i \in DOMAIN pools : a[i].result = "raised"
         /\ CASE a[1].result = "done" ->
                   /\ pools' = [i \in DOMAIN pools |-> a[i].pool]
                   /\ Grown(s)
              [] a[1].result = "refused" ->
                   /\ pools' = [i \in DOMAIN pools |->
                        ReleaseChain(a[i].pool, ChainSeq(Newest, chain[Newest]), now, 0, FALSE)]
                   /\ Preempted
              [] OTHER -> pools' = [i \in DOMAIN pools |-> a[i].pool] /\ UNCHANGED client
  /\ UNCHANGED views

Finish(s) ==
  /\ CanLeave(s)
  /\ pools' = [i \in DOMAIN pools |->
       ReleaseChain(IF W(s).whole THEN SealTail(pools[i], s) ELSE pools[i],
                    ChainSeq(s, chain[s]), now,
                    Rank(views[i].arm, Info(views[i], s), now), TRUE)]
  /\ Leave(s)
  /\ UNCHANGED <<views, raised>>

Tick == ClockTicks /\ UNCHANGED <<views, pools, raised>>

Horizon == now = MaxTime /\ UNCHANGED vars

Next ==
  \/ \E s \in Clients : ~raised /\ (Admit(s) \/ FinishPrefill(s) \/ Grow(s) \/ Finish(s))
  \/ Tick
  \/ Horizon

Spec == Init /\ [][Next]_vars
-----------------------------------------------------------------------------
(***************************************************************************)
(* Properties.                                                             *)
(***************************************************************************)
Resting(p) == {k \in DOMAIN p.index : p.index[k].ref = 0}

\* The blocks a step evicts, and those it could have evicted instead.
Evicted(p, q) == Resting(p) \ DOMAIN q.index
Spared(p, q) == Resting(p) \cap Resting(q)

\* The queues hold the evictable blocks, each once, and no block that is held or
\* gone: the counts the feasibility check of acquire adds up are right
\* (BlockPool._hold, _release_one, _evict and _reap keep four containers in step
\* with ref).
QueuesMatchRefs ==
  \A i \in DOMAIN pools :
    LET p == pools[i]
    IN  /\ ToSet(p.expired \o p.protected) \cup p.evictable = Resting(p)
        /\ NEvictable(p) = Cardinality(Resting(p))

\* The feasibility check never promises an eviction that cannot be carried out:
\* the AssertionError of BlockPool.acquire is unreachable in both families.
NeverRaises == ~raised

\* A protected block has a heap entry that will lapse when its protection does,
\* and an evictable block of the priority family has exactly one entry that
\* counts, however often it was held and released since (the stamps of
\* BlockPool).
HeapFindsEvictable ==
  \A i \in DOMAIN pools :
    LET p == pools[i]
    IN  /\ \A k \in ToSet(p.protected) : \E e \in p.expiry :
             e.key = k /\ IsLive(p, e) /\ e.order[1] = p.index[k].until
        /\ \A k \in p.evictable :
             Cardinality({e \in p.prio : e.key = k /\ IsLive(p, e)}) = 1

\* No step evicts a block whose protection still holds while it spares one whose
\* protection has lapsed, and protected blocks leave in the order of their
\* release (BlockPool._evict after the lazy _reap).
ProtectionRespected ==
  [][\A i \in DOMAIN pools : pools[i].family = "ttl" =>
       \A e \in Evicted(pools[i], pools'[i]), k \in Spared(pools[i], pools'[i]) :
         LET x == pools[i].index[e]  y == pools[i].index[k]
         IN  x.until > now => y.until > now /\ x.stamp < y.stamp]_vars

\* The priority family evicts by rank and breaks ties by release order: what a
\* step evicts has a lower (rank, stamp) than every block it spares, whatever
\* stale entries lie in the heap.
LowestRankFirst ==
  [][\A i \in DOMAIN pools : pools[i].family = "priority" =>
       LET p == pools[i]
       IN  \A e \in {x \in p.prio : IsLive(p, x) /\ x.key \in Evicted(p, pools'[i])},
              f \in {x \in p.prio : IsLive(p, x) /\ x.key \in Spared(p, pools'[i])} :
                Before(e.order, f.order)]_vars

\* Both families implement the pool of PrefixCache, on which Engine is built:
\* the same requests are admitted and refused, and what a call does to the
\* index is one of the outcomes PrefixCache allows.
Cache == INSTANCE CacheSystem WITH pool <- Contents(pools[1])
ImplementsCache == Cache!CSpec

\* Two views of a list keep the same blocks throughout, so the runs they stand
\* for are the same run: a uniform TTL, a rank without information, and a
\* prediction without information are LRU; a perfect prediction is the oracle;
\* an arm that may not look at the truth does not
\* (test_uniform_ttl_is_exactly_lru, test_priority_mechanism_is_unbiased,
\* test_predict_with_perfect_input_equals_belady, and the rule stated in
\* _make_rank_fn).
SameCache == \A i, j \in DOMAIN pools : Contents(pools[i]) = Contents(pools[j])
=============================================================================
