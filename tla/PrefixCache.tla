---------------------------- MODULE PrefixCache ----------------------------
(***************************************************************************)
(* The KV block pool of sim/cache.py as a value and the operations on it,  *)
(* with the choice of eviction victims left open.                          *)
(*                                                                         *)
(* A pool is the dictionary BlockPool.index: a function from the resident  *)
(* keys to records [ref, full, ready].  A resident block is held           *)
(* (ref > 0) or evictable (ref = 0).  Which evictable blocks an acquire    *)
(* evicts depends on the eviction family and on the ranks of the policy    *)
(* arm; here every choice of the right size is allowed, so that what holds *)
(* of a client of this module holds for all ten arms.  BlockPool.tla has   *)
(* the two families with their queues and heaps and implements this one.   *)
(***************************************************************************)
EXTENDS Integers, FiniteSets

CONSTANTS
  Capacity,       \* blocks in the pool (EngineConfig.kv_pool_blocks)
  SharedBlocks,   \* leading blocks of every chain that all sessions share
  PrefixCaching   \* EngineConfig.enable_prefix_caching

ASSUME PoolAssumption ==
  /\ Capacity \in Nat \ {0}
  /\ SharedBlocks \in Nat
  /\ PrefixCaching \in BOOLEAN

(***************************************************************************)
(* Keys.  Sessions are positive numbers and 0 owns the system prompt.      *)
(***************************************************************************)
Sys == 0
Key == Nat \X Nat

KeyAt(s, i) == <<IF i < SharedBlocks THEN Sys ELSE s, i>>

\* The key chain of a context of n blocks, as the set of its keys: the order
\* of the chain is the order of the indices.
BlockKeys(s, n) == {KeyAt(s, i) : i \in 0 .. n - 1}

Block == [ref : Nat, full : BOOLEAN, ready : BOOLEAN]

(***************************************************************************)
(* Observations of a pool p.                                               *)
(***************************************************************************)
Free(p) == Capacity - Cardinality(DOMAIN p)

Evictable(p) == {k \in DOMAIN p : p[k].ref = 0}

Usable(p, k) == k \in DOMAIN p /\ p[k].full /\ p[k].ready

\* hits is the answer of lookup_prefix to the first n keys of session s: the
\* walk from the start of the chain stops at the first block that is absent,
\* partial or not computed.
IsPrefixHit(p, s, n, hits) ==
  IF PrefixCaching
  THEN /\ \A i \in 0 .. hits - 1 : Usable(p, KeyAt(s, i))
       /\ hits < n => ~Usable(p, KeyAt(s, hits))
  ELSE hits = 0

(***************************************************************************)
(* Operations.                                                             *)
(***************************************************************************)
Mut_MarkFull(p, K) ==
  [k \in DOMAIN p |-> IF k \in K THEN [p[k] EXCEPT !.full = TRUE, !.ready = TRUE] ELSE p[k]]

MarkFull(p, K) ==
  [k \in DOMAIN p |-> IF k \in K THEN [p[k] EXCEPT !.full = TRUE] ELSE p[k]]

MarkReady(p, K) ==
  [k \in DOMAIN p |-> IF k \in K THEN [p[k] EXCEPT !.ready = TRUE] ELSE p[k]]

Hold(p, K) ==
  [k \in DOMAIN p |-> IF k \in K THEN [p[k] EXCEPT !.ref = @ + 1] ELSE p[k]]

Mut_CanAcquire(p, hits, news) ==
  Cardinality(news) <= Free(p) + Cardinality(Evictable(p))

\* The hits that are evictable now are about to be held, so they cannot also
\* make room for the misses.
CanAcquire(p, hits, news) ==
  Cardinality(news) <=
    Free(p) + Cardinality(Evictable(p)) - Cardinality(hits \cap Evictable(p))

Mut_Victims(p, n) ==
  {V \in SUBSET Evictable(p) :
     Cardinality(V) = IF n <= Free(p) + 1 THEN 0 ELSE n - Free(p)}

\* The sets of blocks an eviction that makes room for n blocks may take.
Victims(p, n) ==
  {V \in SUBSET Evictable(p) :
     Cardinality(V) = IF n <= Free(p) THEN 0 ELSE n - Free(p)}

Evict(p, V) == [k \in DOMAIN p \ V |-> p[k]]

NewBlock == [ref |-> 1, full |-> FALSE, ready |-> FALSE]

Mut_Materialise(p, news) ==
  [k \in DOMAIN p \cup news |-> IF k \in news THEN NewBlock ELSE p[k]]

\* A key that survived the eviction is held, every other one is a new block.
Materialise(p, news) ==
  [k \in DOMAIN p \cup news |->
     IF k \notin news THEN p[k]
     ELSE IF k \in DOMAIN p THEN [p[k] EXCEPT !.ref = @ + 1]
     ELSE NewBlock]

\* All pools a successful acquire may leave; none when it is refused.
Acquired(p, hits, news) ==
  IF CanAcquire(p, hits, news)
  THEN LET held == Hold(p, hits)
       IN  {Materialise(Evict(held, V), news) : V \in Victims(held, Cardinality(news))}
  ELSE {}

Mut_Release(p, K, cacheable) ==
  [k \in {j \in DOMAIN p : j \notin K \/ ~p[j].full \/ p[j].ref > 1 \/ cacheable} |->
     IF k \in K /\ p[k].full THEN [p[k] EXCEPT !.ref = @ - 1] ELSE p[k]]

\* Drop one reference to each key of K.  A block that nobody holds any more
\* stays as cache if it is full and computed, unless cacheable is FALSE.
Release(p, K, cacheable) ==
  LET keeps(k) == \/ k \notin K
                  \/ p[k].ref > 1
                  \/ cacheable /\ p[k].full /\ p[k].ready
  IN  [k \in {j \in DOMAIN p : keeps(j)} |->
         IF k \in K THEN [p[k] EXCEPT !.ref = IF @ > 1 THEN @ - 1 ELSE 0] ELSE p[k]]
=============================================================================
