----------------------------- MODULE BlockPool -----------------------------
(***************************************************************************)
(* The KV block pool of sim/cache.py with its two eviction families.       *)
(*                                                                         *)
(* A BlockPool object is a record.  In the ttl family a released block is  *)
(* in one of two queues, protected or expired, and a heap says when        *)
(* protection lapses; queues are brought up to date only when somebody     *)
(* needs room.  In the priority family a heap orders the evictable blocks  *)
(* by rank.  Both heaps keep entries of blocks that were held, evicted or  *)
(* released again since; an entry counts only while its stamp is that of   *)
(* its block.  A heap is the set of its entries.                           *)
(***************************************************************************)
EXTENDS PrefixCache, Lists, SequencesExt

NewPool(family) ==
  [family    |-> family,
   index     |-> [k \in {} |-> 0],
   expired   |-> <<>>, protected |-> <<>>, expiry |-> {},
   evictable |-> {}, prio |-> {},
   stamp     |-> 0]

NewEntry(order, key) == [order |-> order, key |-> key]

\* Python's order of tuples of numbers.
Before(a, b) ==
  \E i \in 1 .. Len(a) : a[i] < b[i] /\ \A j \in 1 .. i - 1 : a[j] = b[j]

StampOf(e) == Last(e.order)

\* The entries S in the order in which a heap gives them up; no two share a
\* stamp.
Popped(S) ==
  [i \in 1 .. Cardinality(S) |->
     CHOOSE e \in S : Cardinality({f \in S : Before(f.order, e.order)}) = i - 1]

NFree(p) == Capacity - Cardinality(DOMAIN p.index)

NEvictable(p) ==
  IF p.family = "ttl" THEN Len(p.expired) + Len(p.protected)
  ELSE Cardinality(p.evictable)

Mut_IsLive(p, e) == e.key \in DOMAIN p.index /\ p.index[e.key].ref = 0

\* A heap entry that was not outdated by a later hold, release or eviction.
IsLive(p, e) ==
  /\ e.key \in DOMAIN p.index
  /\ p.index[e.key].stamp = StampOf(e)
  /\ p.index[e.key].ref = 0

Mut_Reap(p, now) == p

\* Blocks whose protection has lapsed join the expired ones, in the order of
\* the heap.
Reap(p, now) ==
  LET lapsed == {e \in p.expiry : e.order[1] <= now}
      moved  == {e \in lapsed : IsLive(p, e) /\ Contains(p.protected, e.key)}
      queue  == [i \in 1 .. Cardinality(moved) |-> Popped(moved)[i].key]
  IN  [p EXCEPT !.expiry = @ \ lapsed,
                !.protected = Without(@, ToSet(queue)),
                !.expired = @ \o queue]

Dropped(p, keys) == [p EXCEPT !.index = [k \in DOMAIN @ \ keys |-> @[k]]]

EvictQueued(q, need) ==
  LET n    == Min({need, Len(q.expired)})
      m    == Min({need - n, Len(q.protected)})
      gone == ToSet(SubSeq(q.expired, 1, n)) \cup ToSet(SubSeq(q.protected, 1, m))
  IN  [ok   |-> n + m >= need,
       pool |-> [Dropped(q, gone) EXCEPT
                   !.expired = SubSeq(@, n + 1, Len(@)),
                   !.protected = SubSeq(@, m + 1, Len(@))]]

EvictRanked(p, need) ==
  LET live == Popped({e \in p.prio : IsLive(p, e)})
      n    == Min({need, Len(live)})
      gone == {live[i].key : i \in 1 .. n}
  IN  [ok   |-> n >= need,
       pool |-> [Dropped(p, gone) EXCEPT
                   !.prio = IF n < need THEN {}
                            ELSE {e \in @ : Before(live[n].order, e.order)},
                   !.evictable = @ \ gone]]

\* _evict: room for n blocks, if there can be any.
MakeRoom(p, n, now) ==
  LET need == n - NFree(p)
  IN  IF need <= 0 THEN [ok |-> TRUE, pool |-> p]
      ELSE IF need > NEvictable(p) THEN [ok |-> FALSE, pool |-> p]
      ELSE IF p.family = "ttl" THEN EvictQueued(Reap(p, now), need)
      ELSE EvictRanked(p, need)

\* lookup_prefix
PrefixHits(p, keys) ==
  IF ~PrefixCaching THEN 0
  ELSE CHOOSE h \in 0 .. Len(keys) :
         /\ \A i \in 1 .. h : Usable(p.index, keys[i])
         /\ h < Len(keys) => ~Usable(p.index, keys[h + 1])

Mut_HoldBlock(p, k) ==
  IF p.index[k].ref > 0
  THEN [p EXCEPT !.index[k].ref = @ + 1]
  ELSE [p EXCEPT !.index[k] = [@ EXCEPT !.ref = 1, !.stamp = p.stamp + 1],
                 !.stamp = @ + 1,
                 !.expired = Without(@, {k}),
                 !.evictable = @ \ {k}]

\* _hold: a block that was evictable leaves its queue, and a new stamp outdates
\* its heap entry.
HoldBlock(p, k) ==
  IF p.index[k].ref > 0
  THEN [p EXCEPT !.index[k].ref = @ + 1]
  ELSE [p EXCEPT !.index[k] = [@ EXCEPT !.ref = 1, !.stamp = p.stamp + 1],
                 !.stamp = @ + 1,
                 !.expired = Without(@, {k}),
                 !.protected = Without(@, {k}),
                 !.evictable = @ \ {k}]

CreateBlock(p, k) ==
  [p EXCEPT !.index = [j \in DOMAIN @ \cup {k} |->
     IF j = k THEN [ref |-> 1, full |-> FALSE, ready |-> FALSE, until |-> 0, stamp |-> 0]
     ELSE @[j]]]

Materialised(p, k) == IF k \in DOMAIN p.index THEN HoldBlock(p, k) ELSE CreateBlock(p, k)

Mut_Reclaimed(p, hits) == 0

\* How many of the hits are evictable now, and will not be.
Reclaimed(p, hits) ==
  Cardinality({i \in DOMAIN hits :
                 hits[i] \in DOMAIN p.index /\ p.index[hits[i]].ref = 0})

\* acquire: "done", "refused", or "raised" if the eviction fails after all.
Acquire(p0, hits, news, now) ==
  LET p == IF p0.family = "ttl" THEN Reap(p0, now) ELSE p0
      room == MakeRoom(Each(HoldBlock, p, hits), Len(news), now)
  IN  IF Len(news) > NFree(p) + NEvictable(p) - Reclaimed(p, hits)
      THEN [result |-> "refused", pool |-> p]
      ELSE IF ~room.ok THEN [result |-> "raised", pool |-> room.pool]
      ELSE [result |-> "done", pool |-> Each(Materialised, room.pool, news)]

Mut_Keeps(b, cacheable) == cacheable /\ b.ready

\* A partial or never-computed block has no reusable identity.
Keeps(b, cacheable) == cacheable /\ b.full /\ b.ready

\* _release_one, of a block that is held.  In the ttl family rank is a time to
\* live, at least none.
ReleaseBlock(p, k, now, rank, cacheable) ==
  LET b   == p.index[k]
      n   == p.stamp + 1
      ttl == IF rank > 0 THEN rank ELSE 0
  IN  IF k \notin DOMAIN p.index THEN p
      ELSE IF b.ref > 1 THEN [p EXCEPT !.index[k].ref = @ - 1]
      ELSE IF ~Keeps(b, cacheable) THEN Dropped(p, {k})
      ELSE IF p.family = "ttl"
      THEN [p EXCEPT !.stamp = n,
                     !.index[k] = [b EXCEPT !.ref = 0, !.stamp = n, !.until = now + ttl],
                     !.expired = IF ttl = 0 THEN Append(@, k) ELSE @,
                     !.protected = IF ttl > 0 THEN Append(@, k) ELSE @,
                     !.expiry = IF ttl > 0 THEN @ \cup {NewEntry(<<now + ttl, n>>, k)} ELSE @]
      ELSE [p EXCEPT !.stamp = n,
                     !.index[k] = [b EXCEPT !.ref = 0, !.stamp = n],
                     !.evictable = @ \cup {k},
                     !.prio = @ \cup {NewEntry(rank \o <<n>>, k)}]

\* release
ReleaseChain(p, keys, now, rank, cacheable) ==
  Each(LAMBDA q, k : ReleaseBlock(q, k, now, rank, cacheable), p, keys)

\* mark_full and mark_ready
SetFull(p, K)  == [p EXCEPT !.index = MarkFull(@, K)]
SetReady(p, K) == [p EXCEPT !.index = MarkReady(@, K)]

\* What PrefixCache sees of a pool.
Contents(p) ==
  [k \in DOMAIN p.index |-> [ref   |-> p.index[k].ref,
                             full  |-> p.index[k].full,
                             ready |-> p.index[k].ready]]
=============================================================================
