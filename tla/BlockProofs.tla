----------------------------- MODULE BlockProofs ------------------------------
(***************************************************************************)
(* What the scheduler and the pool owe each other: every reference count is *)
(* the number of requests that hold the block, what is cached was computed, *)
(* nothing is resident when the loop stalls, and it stalls only for a      *)
(* prompt larger than the pool.  All of it holds when no output is a single *)
(* token.                                                                  *)
(*                                                                         *)
(* The lemmas on references speak of a pool p and of a table C of who holds *)
(* what: C[r] is the set of keys r holds.                                  *)
(***************************************************************************)
EXTENDS ServiceProofs

HeldBy(C, k) == {r \in Req : k \in C[r]}

RefsOK(p, C) ==
  /\ IsPool(p)
  /\ \A k \in DOMAIN p : p[k].ref = Cardinality(HeldBy(C, k))
  /\ \A r \in Req : C[r] \subseteq DOMAIN p

\* D is C except that r holds K.
Reholds(C, D, r, K) ==
  /\ D[r] = K
  /\ \A x \in Req \ {r} : D[x] = C[x]

(***************************************************************************)
(* Counting holders.                                                       *)
(***************************************************************************)
LEMMA HoldersFinite ==
  ASSUME NEW C, NEW k
  PROVE  /\ IsFiniteSet(HeldBy(C, k)) /\ Cardinality(HeldBy(C, k)) \in Nat
         /\ Cardinality(HeldBy(C, k)) = 0 <=> HeldBy(C, k) = {}
<1>1. IsFiniteSet(HeldBy(C, k))
  <2>1. HeldBy(C, k) \in SUBSET Req
    BY DEF HeldBy
  <2> QED
    BY <2>1, ReqFinite, FS_Subset
<1> QED
  BY <1>1, FS_CardinalityType, FS_EmptySet

LEMMA HolderAdded ==
  ASSUME NEW C, NEW D, NEW r \in Req, \A x \in Req \ {r} : D[x] = C[x],
         NEW k, k \notin C[r], k \in D[r]
  PROVE  Cardinality(HeldBy(D, k)) = Cardinality(HeldBy(C, k)) + 1
<1>1. HeldBy(D, k) = HeldBy(C, k) \cup {r} /\ r \notin HeldBy(C, k)
  BY DEF HeldBy
<1> QED
  BY <1>1, HoldersFinite, FS_AddElement

LEMMA HolderKept ==
  ASSUME NEW C, NEW D, NEW r \in Req, \A x \in Req \ {r} : D[x] = C[x],
         NEW k, k \in C[r] <=> k \in D[r]
  PROVE  HeldBy(D, k) = HeldBy(C, k)
  BY DEF HeldBy

(***************************************************************************)
(* The pool operations.                                                    *)
(***************************************************************************)
LEMMA RefsSame ==
  ASSUME NEW p, NEW C, RefsOK(p, C), NEW g, IsPool(g),
         DOMAIN g = DOMAIN p, \A k \in DOMAIN p : g[k].ref = p[k].ref
  PROVE  RefsOK(g, C)
  BY DEF RefsOK

LEMMA RefsMarks ==
  ASSUME NEW p, NEW C, RefsOK(p, C)
  PROVE  /\ \A K : RefsOK(MarkFull(p, K), C) /\ RefsOK(MarkReady(p, K), C)
         /\ \A k : RefsOK(Seal(p, k), C)
<1>0. \A q : RefsOK(q, C) => IsPool(q)
  BY DEF RefsOK
<1>1. ASSUME NEW q, NEW K, RefsOK(q, C)
      PROVE  RefsOK(MarkFull(q, K), C) /\ RefsOK(MarkReady(q, K), C)
  <2>1. IsPool(q)
    BY <1>0, <1>1
  <2>2. RefsOK(MarkFull(q, K), C)
    BY <1>1, <2>1, MarkFullType, RefsSame
  <2>3. RefsOK(MarkReady(q, K), C)
    BY <1>1, <2>1, MarkReadyType, RefsSame
  <2> QED
    BY <2>2, <2>3
<1> QED
  BY <1>1 DEF Seal

\* What r acquires is counted once more.
LEMMA RefsAcquire ==
  ASSUME NEW p, NEW C, RefsOK(p, C), NEW r \in Req,
         NEW hits, NEW news \in SUBSET Key, hits \subseteq DOMAIN p,
         hits \cap news = {}, (hits \cup news) \cap C[r] = {},
         NEW g \in Acquired(p, hits, news),
         NEW D, Reholds(C, D, r, C[r] \cup (hits \cup news))
  PROVE  RefsOK(g, D)
<1> DEFINE asked == hits \cup news
<1>0. /\ IsPool(p) /\ \A k \in DOMAIN p : p[k].ref = Cardinality(HeldBy(C, k))
      /\ \A x \in Req : C[x] \subseteq DOMAIN p
      /\ D[r] = C[r] \cup asked /\ \A x \in Req \ {r} : D[x] = C[x]
      /\ asked \cap C[r] = {}
  BY DEF RefsOK, Reholds
<1>1. /\ IsPool(g)
      /\ asked \subseteq DOMAIN g
      /\ \A k \in DOMAIN p \ DOMAIN g : p[k].ref = 0
      /\ \A k \in DOMAIN g :
           g[k].ref = (IF k \in DOMAIN p THEN p[k].ref ELSE 0)
                        + (IF k \in asked THEN 1 ELSE 0)
  BY <1>0, AcquiredRefs
<1> HIDE DEF asked
<1>2. \A k \in DOMAIN g :
        (IF k \in DOMAIN p THEN p[k].ref ELSE 0) = Cardinality(HeldBy(C, k))
  <2> TAKE k \in DOMAIN g
  <2>1. CASE k \in DOMAIN p
    BY <1>0, <2>1
  <2>2. CASE k \notin DOMAIN p
    <3>1. HeldBy(C, k) = {}
      BY <1>0, <2>2 DEF HeldBy
    <3> QED
      BY <2>2, <3>1, FS_EmptySet
  <2> QED
    BY <2>1, <2>2
<1>3. \A k \in DOMAIN g : g[k].ref = Cardinality(HeldBy(D, k))
  <2> TAKE k \in DOMAIN g
  <2>0. Cardinality(HeldBy(C, k)) \in Nat
    BY HoldersFinite
  <2>1. CASE k \in asked
    <3>1. g[k].ref = Cardinality(HeldBy(C, k)) + 1
      BY <1>1, <1>2, <2>1
    <3>2. k \notin C[r] /\ k \in D[r] /\ \A x \in Req \ {r} : D[x] = C[x]
      BY <1>0, <2>1
    <3>3. Cardinality(HeldBy(D, k)) = Cardinality(HeldBy(C, k)) + 1
      BY <3>2, HolderAdded
    <3> QED
      BY <3>1, <3>3
  <2>2. CASE k \notin asked
    <3>1. g[k].ref = Cardinality(HeldBy(C, k))
      BY <1>1, <1>2, <2>0, <2>2
    <3>2. (k \in C[r] <=> k \in D[r]) /\ \A x \in Req \ {r} : D[x] = C[x]
      BY <1>0, <2>2
    <3>3. HeldBy(D, k) = HeldBy(C, k)
      BY <3>2, HolderKept
    <3> QED
      BY <3>1, <3>3
  <2> QED
    BY <2>1, <2>2
<1>4. \A x \in Req : C[x] \subseteq DOMAIN g
  <2>1. SUFFICES ASSUME NEW x \in Req, NEW k \in C[x], k \notin DOMAIN g PROVE FALSE
    OBVIOUS
  <2>2. k \in DOMAIN p /\ Cardinality(HeldBy(C, k)) = 0
    BY <1>0, <1>1, <2>1
  <2>3. x \in HeldBy(C, k)
    BY DEF HeldBy
  <2> QED
    BY <2>2, <2>3, HoldersFinite
<1>5. \A x \in Req : D[x] \subseteq DOMAIN g
  BY <1>0, <1>1, <1>4
<1> QED
  BY <1>1, <1>3, <1>5 DEF RefsOK

\* What r releases is counted once less, and no block that another request
\* holds is dropped.
LEMMA RefsRelease ==
  ASSUME NEW p, NEW C, RefsOK(p, C), NEW r \in Req, NEW c \in BOOLEAN,
         NEW D, Reholds(C, D, r, {})
  PROVE  RefsOK(Release(p, C[r], c), D)
<1> DEFINE g == Release(p, C[r], c)
           K == C[r]
<1>0. /\ IsPool(p) /\ \A k \in DOMAIN p : p[k].ref = Cardinality(HeldBy(C, k))
      /\ \A x \in Req : C[x] \subseteq DOMAIN p
      /\ D[r] = {} /\ \A x \in Req \ {r} : D[x] = C[x]
  BY DEF RefsOK, Reholds
<1>1. /\ IsPool(g) /\ DOMAIN g \subseteq DOMAIN p
      /\ \A k \in DOMAIN p \ DOMAIN g : k \in K /\ p[k].ref <= 1
      /\ \A k \in DOMAIN g :
           g[k].ref = IF k \in K THEN (IF p[k].ref > 1 THEN p[k].ref - 1 ELSE 0)
                      ELSE p[k].ref
  BY <1>0, ReleaseRefs
<1> HIDE DEF g
<1>2. \A k \in K : p[k].ref = Cardinality(HeldBy(D, k)) + 1
  <2> TAKE k \in K
  <2>1. k \in DOMAIN p /\ p[k].ref = Cardinality(HeldBy(C, k))
    BY <1>0
  <2>2. Cardinality(HeldBy(C, k)) = Cardinality(HeldBy(D, k)) + 1
    <3>1. k \notin D[r] /\ \A x \in Req \ {r} : C[x] = D[x]
      BY <1>0
    <3> QED
      BY <3>1, HolderAdded
  <2> QED
    BY <2>1, <2>2
<1>3. \A k \in DOMAIN g : g[k].ref = Cardinality(HeldBy(D, k))
  <2> TAKE k \in DOMAIN g
  <2>0. Cardinality(HeldBy(D, k)) \in Nat /\ k \in DOMAIN p
    BY <1>1, HoldersFinite
  <2>1. CASE k \in K
    BY <1>1, <1>2, <2>0, <2>1
  <2>2. CASE k \notin K
    <3>1. (k \in C[r] <=> k \in D[r]) /\ \A x \in Req \ {r} : D[x] = C[x]
      BY <1>0, <2>2
    <3>2. \A x \in Req : k \in D[x] <=> k \in C[x]
      BY <3>1
    <3>3. HeldBy(D, k) = HeldBy(C, k)
      BY <3>2 DEF HeldBy
    <3> QED
      BY <1>0, <1>1, <2>0, <2>2, <3>3
  <2> QED
    BY <2>1, <2>2
<1>4. \A x \in Req : D[x] \subseteq DOMAIN g
  <2>1. SUFFICES ASSUME NEW x \in Req, NEW k \in D[x], k \notin DOMAIN g PROVE FALSE
    OBVIOUS
  <2>2. k \in K /\ p[k].ref <= 1
    BY <1>0, <1>1, <2>1
  <2>3. x \in HeldBy(D, k) /\ Cardinality(HeldBy(D, k)) \in Nat
    BY HoldersFinite DEF HeldBy
  <2>4. Cardinality(HeldBy(D, k)) = 0
    BY <1>2, <2>2, <2>3
  <2> QED
    BY <2>3, <2>4, HoldersFinite
<1> QED
  BY <1>1, <1>3, <1>4 DEF RefsOK, g

(***************************************************************************)
(* The scheduler.                                                          *)
(***************************************************************************)
\* What each request of the table q holds.
Held(q) == [r \in Req |-> IF q[r].state \in Busy THEN BlockKeys(r[1], q[r].blocks) ELSE {}]

RefsInv == RefsOK(pool, Held(req))

\* A key of a chain is not the next one.
LEMMA NextKey ==
  ASSUME NEW s \in Nat, NEW n \in Nat
  PROVE  /\ KeyAt(s, n) \notin BlockKeys(s, n) /\ KeyAt(s, n) \in Key
         /\ BlockKeys(s, n + 1) = BlockKeys(s, n) \cup {KeyAt(s, n)}
<1>1. n + 1 \in Nat /\ n \in 0 .. n + 1
  OBVIOUS
<1>2. /\ Keys(s, 0, n) \cap Keys(s, n, n + 1) = {}
      /\ Keys(s, 0, n) \cup Keys(s, n, n + 1) = BlockKeys(s, n + 1)
  BY <1>1, AdmissionKeys
<1>3. Keys(s, 0, n) = BlockKeys(s, n)
  BY DEF Keys, BlockKeys
<1>4. Keys(s, n, n + 1) = {KeyAt(s, n)}
  <2>1. n .. n + 1 - 1 = {n}
    OBVIOUS
  <2> QED
    BY <2>1 DEF Keys
<1> QED
  BY <1>2, <1>3, <1>4, KeyAtType

\* A sequence that needs no block, or has got one, holds its chain.
LEMMA RefsGrown ==
  ASSUME NEW r \in Req, NEW p, NEW C, RefsOK(p, C),
         NEW q, q[r].blocks \in Nat, C[r] = BlockKeys(r[1], q[r].blocks),
         NEW g, NEW b \in Nat, Grown(r, p, q, g, b),
         NEW D, Reholds(C, D, r, BlockKeys(r[1], b))
  PROVE  RefsOK(g, D)
<1>0. r[1] \in Nat
  BY ReqFacts DEF Sessions
<1>1. CASE g = p /\ b = q[r].blocks
  <2>1. \A x \in Req : D[x] = C[x]
    BY <1>1 DEF Reholds
  <2>2. \A k : HeldBy(D, k) = HeldBy(C, k)
    BY <2>1 DEF HeldBy
  <2> QED
    BY <1>1, <2>1, <2>2 DEF RefsOK
<1>2. CASE /\ b = q[r].blocks + 1
           /\ g \in Acquired(Seal(p, TailKey(q, r)), {}, {KeyAt(r[1], q[r].blocks)})
  <2> DEFINE sealed == Seal(p, TailKey(q, r))
             new == {KeyAt(r[1], q[r].blocks)}
  <2>1. RefsOK(sealed, C)
    BY RefsMarks
  <2>2. new \in SUBSET Key /\ new \cap C[r] = {} /\ BlockKeys(r[1], b) = C[r] \cup new
    BY <1>0, <1>2, NextKey
  <2>3. g \in Acquired(sealed, {}, new)
    BY <1>2
  <2> HIDE DEF sealed, new
  <2>4. Reholds(C, D, r, C[r] \cup ({} \cup new))
    BY <2>2 DEF Reholds
  <2> QED
    BY <2>1, <2>2, <2>3, <2>4, RefsAcquire
<1> QED
  BY <1>1, <1>2 DEF Grown

\* What changes of a table decides what changes of the holdings.
LEMMA HeldReholds ==
  ASSUME NEW q, NEW d, NEW r \in Req, \A x \in Req \ {r} : Held(d)[x] = Held(q)[x]
  PROVE  Reholds(Held(q), Held(d), r, Held(d)[r])
  BY DEF Reholds

LEMMA AdvancedRefs ==
  ASSUME TypeOK, RefsInv, NEW r, NEW p, NEW q, Emits(r, q), RefsOK(p, Held(req)),
         Advanced(r, p, q)
  PROVE  RefsInv'
<1>0. /\ r \in Req /\ req[r].state \in Busy /\ q[r].state = "decode"
      /\ q[r].blocks = req[r].blocks /\ q[r].blocks \in Nat
      /\ \A x \in Req \ {r} : q[x] = req[x]
  BY DEF Emits, IsTable, Request
<1>1. PICK b \in Nat :
        /\ Grown(r, p, q, pool', b)
        /\ req'[r].state = q[r].state /\ req'[r].blocks = b
        /\ \A x \in Req \ {r} : req'[x] = q[x]
  BY DEF Advanced
<1>2. Held(req)[r] = BlockKeys(r[1], q[r].blocks)
  BY <1>0 DEF Held
<1>3. Reholds(Held(req), Held(req'), r, BlockKeys(r[1], b))
  BY <1>0, <1>1 DEF Reholds, Held, Busy
<1>4. RefsOK(pool', Held(req'))
  BY <1>0, <1>1, <1>2, <1>3, RefsGrown
<1> QED
  BY <1>4 DEF RefsInv

LEMMA PreemptedRefs ==
  ASSUME TypeOK, OrderInv, RefsInv, NEW r, NEW p, NEW q, Emits(r, q),
         RefsOK(p, Held(req)), Preempted(r, p, q)
  PROVE  RefsInv'
<1>0. /\ r \in Req /\ req[r].state \in Busy /\ q[r].state = "decode"
      /\ q[r].blocks = req[r].blocks
      /\ \A x \in Req \ {r} : q[x] = req[x]
  BY DEF Emits
<1> DEFINE k == TailKey(q, r)
<1>1. PICK v \in Running :
        /\ IsNewest(v, {x \in Running : q[x].blocks > 0})
        /\ pool' = Release(Seal(p, k), BlockKeys(v[1], q[v].blocks), FALSE)
        /\ req'[v].state = "waiting"
        /\ \A x \in Req \ {v} : req'[x] = q[x]
  BY DEF Preempted
<1>2. v \in Req /\ req[v].state \in Busy
  BY <1>1, VictimBusy DEF Running
<1>3. pool' = Release(Seal(p, k), BlockKeys(v[1], q[v].blocks), FALSE)
  BY <1>1
<1>4. Held(req)[v] = BlockKeys(v[1], q[v].blocks)
  BY <1>0, <1>2 DEF Held
<1>5. Reholds(Held(req), Held(req'), v, {})
  BY <1>0, <1>1, <1>2 DEF Reholds, Held, Busy
<1>6. RefsOK(Seal(p, k), Held(req))
  BY RefsMarks
<1>7. RefsOK(pool', Held(req'))
  BY <1>2, <1>3, <1>4, <1>5, <1>6, RefsRelease
<1> QED
  BY <1>7 DEF RefsInv

LEMMA FinishedRefs ==
  ASSUME TypeOK, OrderInv, RefsInv, NEW r, NEW p, NEW q, Emits(r, q),
         RefsOK(p, Held(req)), Finished(r, p, q)
  PROVE  RefsInv'
<1>0. /\ r \in Req /\ req[r].state \in Busy /\ q[r].state = "decode"
      /\ q[r].blocks = req[r].blocks /\ q[r].blocks \in Nat
      /\ \A x \in Req \ {r} : q[x] = req[x]
      /\ TurnsOK
  BY DEF Emits, IsTable, Request, OrderInv
<1>1. PICK b \in Nat : \E g, h, d :
        /\ Grown(r, p, q, g, b)
        /\ h = g \/ \E k : h = Seal(g, k)
        /\ pool' = Release(h, BlockKeys(r[1], b), TRUE)
        /\ IsTable(d) /\ d[r].state = "done"
        /\ \A x \in Req \ {r} : d[x] = q[x]
        /\ TurnDone(r, d)
  BY DEF Finished
<1>2. PICK g, h, d :
        /\ Grown(r, p, q, g, b)
        /\ h = g \/ \E k : h = Seal(g, k)
        /\ pool' = Release(h, BlockKeys(r[1], b), TRUE)
        /\ IsTable(d) /\ d[r].state = "done"
        /\ \A x \in Req \ {r} : d[x] = q[x]
        /\ TurnDone(r, d)
  BY <1>1
<1> DEFINE C == Held(req)
           D == [C EXCEPT ![r] = BlockKeys(r[1], b)]
<1>3. C[r] = BlockKeys(r[1], q[r].blocks)
  BY <1>0 DEF Held
<1>4. D[r] = BlockKeys(r[1], b) /\ \A x \in Req \ {r} : D[x] = C[x]
  BY <1>0 DEF Held
<1>5. Reholds(C, D, r, BlockKeys(r[1], b))
  BY <1>4 DEF Reholds
<1>6. RefsOK(p, C)
  OBVIOUS
<1>7. \A x \in Req : Held(req')[x] = IF x = r THEN {} ELSE Held(req)[x]
  <2>1. \A x \in Req : Held(d)[x] = IF x = r THEN {} ELSE Held(req)[x]
    BY <1>0, <1>2 DEF Held, Busy
  <2>2. CASE req' = d
    BY <2>1, <2>2
  <2>3. ASSUME NEW n \in Req, NEW st \in {"pending", "due"}, Pushed(r, d, n, st)
        PROVE  \A x \in Req : Held(req')[x] = Held(d)[x]
    <3>1. /\ req[n].state = "absent" /\ req'[n] = NewRequest(st)
          /\ \A x \in Req \ {n} : req'[x] = d[x]
      BY <2>3 DEF Pushed
    <3>2. n # r /\ d[n].state = "absent"
      BY <1>0, <1>2, <3>1 DEF Busy
    <3>3. req'[n].state = st
      BY <3>1 DEF NewRequest
    <3>4. Held(req')[n] = {} /\ Held(d)[n] = {}
      BY <3>2, <3>3 DEF Held, Busy
    <3>5. \A x \in Req \ {n} : Held(req')[x] = Held(d)[x]
      BY <3>1 DEF Held
    <3> QED
      BY <3>4, <3>5
  <2>4. \/ req' = d
        \/ \E n \in Req, st \in {"pending", "due"} : Pushed(r, d, n, st)
    BY <1>0, <1>2, TurnDoneEffect
  <2> QED
    BY <2>1, <2>2, <2>3, <2>4
<1> HIDE DEF C, D
<1>8. RefsOK(g, D)
  BY <1>0, <1>2, <1>3, <1>5, <1>6, RefsGrown
<1>9. RefsOK(h, D)
  BY <1>2, <1>8, RefsMarks
<1>10. Reholds(D, Held(req'), r, {})
  BY <1>0, <1>4, <1>7 DEF Reholds, C
<1>11. RefsOK(pool', Held(req'))
  BY <1>0, <1>2, <1>4, <1>9, <1>10, RefsRelease
<1> QED
  BY <1>11 DEF RefsInv

LEMMA TokenRefs ==
  ASSUME TypeOK, OrderInv, RefsInv, FirstToken \/ NextToken
  PROVE  RefsInv'
<1>1. PICK r, p, q : Emitting(r, p, q)
  BY TokenEmits
<1>2. Emits(r, q) /\ (Advanced(r, p, q) \/ Finished(r, p, q) \/ Preempted(r, p, q))
  <2>1. r \in Req /\ IsTable(q)
    BY <1>1 DEF Emitting, Emits
  <2> QED
    BY <1>1, <2>1, EmitTokenEffect DEF Emitting
<1>3. RefsOK(p, Held(req))
  BY <1>1, RefsMarks DEF Emitting, RefsInv
<1> QED
  BY <1>2, <1>3, AdvancedRefs, FinishedRefs, PreemptedRefs

\* An admitted request holds its hits and its new blocks, which are its chain.
LEMMA AdmitRefs ==
  ASSUME TypeOK, OrderInv, RefsInv, Admit
  PROVE  RefsInv'
<1> DEFINE r == Head(waiting)
<1>0. /\ waiting \in Seq(Req) /\ waiting # <<>> /\ QueuesOK
      /\ req \in [Req -> Request]
  BY DEF OrderInv, TypeOK, Admit, CanAdmit
<1>1. r \in Req /\ req[r].state = "waiting"
  BY <1>0, InStateTail DEF QueuesOK
<1>2. PICK h \in Hits(r) :
        /\ \E g \in Acquired(pool, Keys(r[1], 0, h), Keys(r[1], h, PromptBlocks(r))) :
             pool' = MarkFull(g, Keys(r[1], h, FullBlocks(r)))
        /\ req' = [req EXCEPT ![r] =
                     [state |-> "prefill", blocks |-> PromptBlocks(r),
                      ctx |-> Turn(r).prompt, prefilled |-> h * BlockSize,
                      generated |-> req[r].generated, scheduled |-> TRUE]]
  BY DEF Admit
<1>3. PICK g \in Acquired(pool, Keys(r[1], 0, h), Keys(r[1], h, PromptBlocks(r))) :
        pool' = MarkFull(g, Keys(r[1], h, FullBlocks(r)))
  BY <1>2
<1>4. /\ req'[r].state = "prefill" /\ req'[r].blocks = PromptBlocks(r)
      /\ \A x \in Req \ {r} : req'[x] = req[x]
  <2> DEFINE w == [state |-> "prefill", blocks |-> PromptBlocks(r),
                   ctx |-> Turn(r).prompt, prefilled |-> h * BlockSize,
                   generated |-> req[r].generated, scheduled |-> TRUE]
  <2>1. w.state = "prefill" /\ w.blocks = PromptBlocks(r)
    OBVIOUS
  <2>2. req' = [req EXCEPT ![r] = w]
    BY <1>2
  <2> HIDE DEF w, r
  <2> QED
    BY <1>0, <1>1, <2>1, <2>2
<1> HIDE DEF r
<1> DEFINE hits == Keys(r[1], 0, h)
           news == Keys(r[1], h, PromptBlocks(r))
<1>5. /\ hits \subseteq DOMAIN pool /\ hits \cap news = {} /\ news \in SUBSET Key
      /\ hits \cup news = BlockKeys(r[1], PromptBlocks(r))
  <2>1. r[1] \in Nat /\ PromptBlocks(r) \in Nat
    BY <1>1, ReqFacts, PromptBlocksFacts DEF Sessions
  <2>2. h \in 0 .. PromptBlocks(r) /\ hits \subseteq DOMAIN pool
    BY <1>1, <1>2, HitsResident
  <2> QED
    BY <2>1, <2>2, AdmissionKeys
<1>6. Held(req)[r] = {}
  BY <1>1 DEF Held, Busy
<1>7. g \in Acquired(pool, hits, news)
  BY <1>3
<1> HIDE DEF hits, news
<1>8. Reholds(Held(req), Held(req'), r, Held(req)[r] \cup (hits \cup news))
  BY <1>1, <1>4, <1>5, <1>6 DEF Reholds, Held, Busy
<1>9. RefsOK(pool, Held(req)) /\ (hits \cup news) \cap Held(req)[r] = {}
  BY <1>6 DEF RefsInv
<1>10. RefsOK(g, Held(req'))
  BY <1>1, <1>5, <1>7, <1>8, <1>9, RefsAcquire
<1>11. RefsOK(pool', Held(req'))
  BY <1>3, <1>10, RefsMarks
<1> QED
  BY <1>11 DEF RefsInv

\* A step that leaves the pool and moves no request into or out of a batch.
LEMMA QuietRefs ==
  ASSUME RefsInv, pool' = pool,
         \A x \in Req : Held(req')[x] = Held(req)[x]
  PROVE  RefsInv'
<1>1. \A k : HeldBy(Held(req'), k) = HeldBy(Held(req), k)
  BY DEF HeldBy
<1>2. RefsOK(pool', Held(req'))
  BY <1>1 DEF RefsInv, RefsOK
<1> QED
  BY <1>2 DEF RefsInv

LEMMA InitRefs == Init => RefsInv
<1> SUFFICES ASSUME Init PROVE RefsInv
  OBVIOUS
<1>1. DOMAIN pool = {} /\ IsPool(pool)
  BY DEF Init, IsPool
<1>2. \A x \in Req : req[x].state \notin Busy
  BY DEF Init, NewRequest, Busy
<1>3. \A x \in Req : Held(req)[x] = {}
  BY <1>2 DEF Held
<1> QED
  BY <1>1, <1>3 DEF RefsInv, RefsOK

LEMMA NextRefs ==
  ASSUME TypeInv, OrderInv, RefsInv, [Next]_vars
  PROVE  RefsInv'
<1>0. TypeOK /\ req \in [Req -> Request] /\ waiting \in Seq(Req) /\ due \in Seq(Req)
      /\ QueuesOK
  BY DEF TypeInv, TypeOK, OrderInv
<1>1. CASE FirstToken \/ NextToken
  BY <1>0, <1>1, TokenRefs
<1>2. CASE Admit
  BY <1>0, <1>2, AdmitRefs
<1>3. ASSUME NEW r \in Req, NEW st \in {"due", "waiting"}, req[r].state \notin Busy,
             req' = [req EXCEPT ![r].state = st], pool' = pool
      PROVE  RefsInv'
  <2>1. req'[r].state = st /\ \A x \in Req \ {r} : req'[x] = req[x]
    BY <1>0, <1>3
  <2>2. Held(req')[r] = {} /\ Held(req)[r] = {}
    BY <1>3, <2>1 DEF Held, Busy
  <2>3. \A x \in Req \ {r} : Held(req')[x] = Held(req)[x]
    BY <2>1 DEF Held
  <2>4. \A x \in Req : Held(req')[x] = Held(req)[x]
    BY <2>2, <2>3
  <2> QED
    BY <1>3, <2>4, QuietRefs
<1>4. CASE DrainOne
  <2> DEFINE r == Head(due)
  <2>1. /\ due # <<>> /\ pool' = pool
        /\ req' = [req EXCEPT ![r].state = "waiting"]
    BY <1>4 DEF DrainOne
  <2>2. r \in Req /\ req[r].state = "due"
    BY <1>0, <2>1, InStateTail DEF QueuesOK
  <2> HIDE DEF r
  <2> QED
    BY <1>3, <2>1, <2>2 DEF Busy
<1>5. CASE \E r \in Req : PauseElapses(r)
  <2>1. PICK r \in Req : PauseElapses(r)
    BY <1>5
  <2>2. /\ req[r].state = "pending" /\ pool' = pool
        /\ req' = [req EXCEPT ![r].state = "due"]
    BY <2>1 DEF PauseElapses
  <2> QED
    BY <1>3, <2>2 DEF Busy
<1>6. CASE \/ EnterAdmission \/ GoIdle \/ Wake \/ RunDone \/ BeginStep \/ Stall
           \/ StartClock \/ ClockAdvanced \/ EndStep
  <2>1. UNCHANGED <<pool, req>>
    BY <1>6 DEF EnterAdmission, GoIdle, Wake, RunDone, BeginStep, Stall, StartClock,
                ClockAdvanced, EndStep
  <2> QED
    BY <2>1, QuietRefs
<1>7. CASE AllocateChunk
  <2>1. PICK r \in prefilling : \E e : req' = [req EXCEPT ![r].prefilled = e]
    BY <1>7 DEF AllocateChunk
  <2>2. pool' = pool
    BY <1>7 DEF AllocateChunk
  <2>3. r \in Req
    BY <1>0 DEF TypeOK
  <2>4. \A x \in Req : req'[x].state = req[x].state /\ req'[x].blocks = req[x].blocks
    BY <1>0, <2>1, <2>3 DEF Request
  <2>5. \A x \in Req : Held(req')[x] = Held(req)[x]
    BY <2>4 DEF Held
  <2> QED
    BY <2>2, <2>5, QuietRefs
<1>8. CASE Stopped \/ UNCHANGED vars
  <2>1. UNCHANGED <<pool, req>>
    BY <1>8 DEF Stopped, vars
  <2> QED
    BY <2>1, QuietRefs
<1> QED
  BY <1>1, <1>2, <1>4, <1>5, <1>6, <1>7, <1>8 DEF Next, Loop

\* No preemption, finish, eviction or sharing of the system prompt leaks a
\* reference or frees a block in use, if every output is longer than one token
\* (BlockPool.acquire, _hold, _release_one and the calls of Engine).
THEOREM ReferencesExact ==
  ASSUME LongOutputs
  PROVE  Spec => []RefsMatchHolders
<1> DEFINE I == TypeInv /\ OrderInv /\ RefsInv
<1>1. Init => I
  BY InitTypeInv, InitOrder, InitRefs
<1>2. I /\ [Next]_vars => I'
  BY NextTypeInv, NextOrder, NextRefs
<1>3. I => RefsMatchHolders
  <2> SUFFICES ASSUME RefsInv PROVE RefsMatchHolders
    OBVIOUS
  <2>1. Active = {r \in Req : req[r].state \in Busy}
    BY DEF Active, In, Busy
  <2>2. \A r \in Active : Held(req)[r] = Chain(req, r)
    BY <2>1 DEF Held, Chain
  <2>3. \A k : Holders(k) = HeldBy(Held(req), k)
    BY <2>1 DEF Holders, HeldBy, Held, Chain
  <2> QED
    BY <2>1, <2>2, <2>3 DEF RefsInv, RefsOK, RefsMatchHolders
<1> QED
  BY <1>1, <1>2, <1>3, PTL DEF Spec

(***************************************************************************)
(* How many blocks a chain has, and when the pool has room for it.         *)
(***************************************************************************)
LEMMA ChainLength ==
  ASSUME NEW s \in Nat, NEW n \in Nat
  PROVE  IsFiniteSet(BlockKeys(s, n)) /\ Cardinality(BlockKeys(s, n)) = n
<1> DEFINE f == [i \in 0 .. n - 1 |-> KeyAt(s, i)]
<1>1. f \in Bijection(0 .. n - 1, BlockKeys(s, n))
  <2>1. \A i, j \in 0 .. n - 1 : KeyAt(s, i) = KeyAt(s, j) => i = j
    BY DEF KeyAt
  <2>2. f \in [0 .. n - 1 -> BlockKeys(s, n)]
    BY DEF BlockKeys
  <2>3. \A k \in BlockKeys(s, n) : \E i \in 0 .. n - 1 : f[i] = k
    BY DEF BlockKeys
  <2> QED
    BY <2>1, <2>2, <2>3 DEF Bijection, Injection, Surjection, IsInjective
<1> HIDE DEF f
<1>2. ExistsBijection(0 .. n - 1, BlockKeys(s, n))
  BY <1>1 DEF ExistsBijection
<1>3. IsFiniteSet(0 .. n - 1) /\ Cardinality(0 .. n - 1) = n
  BY FS_Interval
<1> QED
  BY <1>2, <1>3, FS_Bijection

\* The hits and misses of a prompt are its blocks.
LEMMA SplitLength ==
  ASSUME NEW r \in Req, NEW h \in Hits(r)
  PROVE  LET hits == Keys(r[1], 0, h)
             news == Keys(r[1], h, PromptBlocks(r))
         IN  /\ IsFiniteSet(hits) /\ IsFiniteSet(news)
             /\ Cardinality(hits) \in Nat /\ Cardinality(news) \in Nat
             /\ Cardinality(hits) + Cardinality(news) = PromptBlocks(r)
             /\ hits \subseteq DOMAIN pool
<1> DEFINE hits == Keys(r[1], 0, h)
           news == Keys(r[1], h, PromptBlocks(r))
<1>1. /\ r[1] \in Nat /\ PromptBlocks(r) \in Nat /\ h \in Nat
      /\ h \in 0 .. PromptBlocks(r) /\ hits \subseteq DOMAIN pool
  BY ReqFacts, PromptBlocksFacts, HitsResident
<1>2. IsFiniteSet(hits) /\ IsFiniteSet(news)
  BY <1>1, KeysFinite
<1>3. hits \cap news = {} /\ hits \cup news = BlockKeys(r[1], PromptBlocks(r))
  BY <1>1, AdmissionKeys
<1>4. Cardinality(hits \cup news) = PromptBlocks(r)
  BY <1>1, <1>3, ChainLength
<1> HIDE DEF hits, news
<1>5. Cardinality(hits) \in Nat /\ Cardinality(news) \in Nat
  BY <1>2, FS_CardinalityType
<1>6. Cardinality(hits \cup news) = Cardinality(hits) + Cardinality(news) - 0
  BY <1>2, <1>3, FS_Union, FS_EmptySet
<1>7. Cardinality(hits) + Cardinality(news) = PromptBlocks(r)
  BY <1>4, <1>5, <1>6
<1> QED
  BY <1>1, <1>2, <1>5, <1>7 DEF hits, news

\* An accepted prompt has at most as many blocks as the pool.
LEMMA AcceptedFits ==
  ASSUME NEW p, IsFiniteSet(DOMAIN p),
         NEW hits, hits \subseteq DOMAIN p, NEW news, IsFiniteSet(news),
         CanAcquire(p, hits, news)
  PROVE  Cardinality(hits) + Cardinality(news) <= Capacity
<1> DEFINE E == Evictable(p)
<1>1. E \subseteq DOMAIN p
  BY DEF Evictable
<1>2. Cardinality(news) <=
        Capacity - Cardinality(DOMAIN p) + Cardinality(E) - Cardinality(hits \cap E)
  BY DEF CanAcquire, Free
<1> HIDE DEF E
<1>3. /\ IsFiniteSet(hits) /\ IsFiniteSet(E) /\ IsFiniteSet(hits \cap E)
      /\ Cardinality(hits \cup E) <= Cardinality(DOMAIN p)
  <2>1. /\ hits \in SUBSET DOMAIN p /\ E \in SUBSET DOMAIN p
        /\ hits \cap E \in SUBSET DOMAIN p /\ hits \cup E \in SUBSET DOMAIN p
    BY <1>1
  <2> QED
    BY <2>1, FS_Subset
<1>4. Cardinality(hits \cup E) = Cardinality(hits) + Cardinality(E) - Cardinality(hits \cap E)
  BY <1>3, FS_Union
<1>5. /\ Cardinality(hits) \in Nat /\ Cardinality(E) \in Nat /\ Cardinality(hits \cap E) \in Nat
      /\ Cardinality(DOMAIN p) \in Nat /\ Cardinality(news) \in Nat
  BY <1>3, FS_CardinalityType
<1> QED
  BY <1>2, <1>3, <1>4, <1>5, PoolAssumption

\* If nothing is held, there is room for whatever is not larger than the pool.
LEMMA IdleAccepts ==
  ASSUME NEW p, IsFiniteSet(DOMAIN p), Evictable(p) = DOMAIN p,
         NEW hits, hits \subseteq DOMAIN p, NEW news, IsFiniteSet(news),
         Cardinality(hits) + Cardinality(news) <= Capacity
  PROVE  CanAcquire(p, hits, news)
<1>1. hits \cap Evictable(p) = hits
  OBVIOUS
<1>2. IsFiniteSet(hits)
  BY FS_Subset
<1>3. /\ Cardinality(hits) \in Nat /\ Cardinality(news) \in Nat
      /\ Cardinality(DOMAIN p) \in Nat
  BY <1>2, FS_CardinalityType
<1> QED
  BY <1>1, <1>3, PoolAssumption DEF CanAcquire, Free

\* lookup_prefix always has an answer: the first block that is not usable ends
\* the walk.
LEMMA HitExists ==
  ASSUME NEW r \in Req
  PROVE  Hits(r) # {}
<1> DEFINE n == FullBlocks(r)
           Ends == {h \in 0 .. n : h = n \/ ~Usable(pool, KeyAt(r[1], h))}
<1>1. n \in Nat
  BY PromptBlocksFacts
<1>2. CASE ~PrefixCaching
  <2>1. 0 \in Hits(r)
    BY <1>1, <1>2 DEF Hits, IsPrefixHit
  <2> QED
    BY <2>1
<1>3. CASE PrefixCaching
  <2> HIDE DEF n
  <2>1. Ends \in SUBSET (0 .. n) /\ n \in Ends
    BY <1>1
  <2>2. PICK h \in Ends : \A i \in Ends : h <= i
    <3> HIDE DEF Ends
    <3> QED
      BY <1>1, <2>1, LeastNumber
  <2>3. h \in 0 .. n /\ (h < n => ~Usable(pool, KeyAt(r[1], h)))
    BY <1>1
  <2>4. \A i \in 0 .. h - 1 : Usable(pool, KeyAt(r[1], i))
    <3> TAKE i \in 0 .. h - 1
    <3>1. i \in 0 .. n /\ i # n /\ ~(h <= i)
      BY <1>1, <2>3
    <3> QED
      BY <2>2, <3>1
  <2>5. h \in Hits(r)
    BY <1>3, <2>3, <2>4 DEF Hits, IsPrefixHit, n
  <2> QED
    BY <2>5
<1> QED
  BY <1>2, <1>3

\* With nothing held, the prompt at the head of the queue is refused only if it
\* is larger than the pool; one that is larger is always refused.
LEMMA FitsBySize ==
  ASSUME TypeInv, Fitting(pool), NEW r \in Req
  PROVE  /\ Fits(r) => PromptBlocks(r) <= Capacity
         /\ Evictable(pool) = DOMAIN pool /\ PromptBlocks(r) <= Capacity => Fits(r)
<1> DEFINE hits(h) == Keys(r[1], 0, h)
           news(h) == Keys(r[1], h, PromptBlocks(r))
<1>1. IsFiniteSet(DOMAIN pool)
  BY DEF Fitting
<1>2. \A h \in Hits(r) :
        /\ IsFiniteSet(news(h)) /\ hits(h) \subseteq DOMAIN pool
        /\ Cardinality(hits(h)) + Cardinality(news(h)) = PromptBlocks(r)
  BY SplitLength
<1> HIDE DEF hits, news
<1>3. ASSUME NEW h \in Hits(r), CanAcquire(pool, hits(h), news(h))
      PROVE  PromptBlocks(r) <= Capacity
  <2>1. Cardinality(hits(h)) + Cardinality(news(h)) <= Capacity
    BY <1>1, <1>2, <1>3, AcceptedFits
  <2> QED
    BY <1>2, <2>1
<1>4. ASSUME Evictable(pool) = DOMAIN pool, PromptBlocks(r) <= Capacity
      PROVE  \E h \in Hits(r) : CanAcquire(pool, hits(h), news(h))
  <2>1. PICK h \in Hits(r) : TRUE
    BY HitExists
  <2> QED
    BY <1>1, <1>2, <1>4, <2>1, IdleAccepts
<1> QED
  BY <1>3, <1>4 DEF Fits, hits, news

(***************************************************************************)
(* Stalls.                                                                 *)
(***************************************************************************)
TooBig == waiting # <<>> /\ PromptBlocks(Head(waiting)) > Capacity

LoopOK ==
  /\ pc = "admit" => In("decode") \subseteq decoding
  /\ pc = "admit" /\ Running = {} => waiting # <<>> /\ budget > 0
  /\ pc \in {"chunk", "step", "emit"} => stall = 0
  /\ stall > 0 => TooBig

ServiceInv == TypeInv /\ OrderInv /\ RefsInv /\ Fitting(pool) /\ LoopOK

LEMMA NothingResident ==
  ASSUME AdmitOK, LoopOK, pc = "admit", decoding = {}, In("prefill") = {}
  PROVE  Running = {}
<1>1. \A x \in Running : x \in Req /\ req[x].state \in Busy
  BY RunningBusy DEF Running
<1> QED
  BY <1>1 DEF LoopOK, In, Busy

\* With nothing running no block is held.
LEMMA NothingHeld ==
  ASSUME TypeOK, AdmitOK, RefsInv, Running = {}
  PROVE  Evictable(pool) = DOMAIN pool
<1>1. \A x \in Req : req[x].state \notin Busy
  BY DEF AdmitOK, Running
<1>2. \A k : HeldBy(Held(req), k) = {}
  BY <1>1 DEF HeldBy, Held
<1>3. \A k \in DOMAIN pool : pool[k].ref = 0
  BY <1>2, FS_EmptySet DEF RefsInv, RefsOK
<1> QED
  BY <1>3 DEF Evictable

LEMMA StallTooBig ==
  ASSUME ServiceInv, Stall
  PROVE  TooBig
<1>0. /\ TypeInv /\ TypeOK /\ AdmitOK /\ RefsInv /\ Fitting(pool) /\ LoopOK
      /\ waiting \in Seq(Req)
  BY DEF ServiceInv, OrderInv, TypeInv, TypeOK
<1>1. pc = "admit" /\ ~CanAdmit /\ decoding = {} /\ In("prefill") = {}
  <2>1. \A r \in Running : req[r].state # "prefill"
    BY DEF Stall
  <2>2. In("prefill") \subseteq Running
    BY <1>0 DEF In, Running, AdmitOK, Busy
  <2> QED
    BY <2>1, <2>2 DEF Stall, In
<1>2. Running = {}
  BY <1>0, <1>1, NothingResident
<1>3. waiting # <<>> /\ budget > 0 /\ Cardinality(Running) < MaxSeqs
  BY <1>0, <1>1, <1>2, FS_EmptySet, EngineAssumption DEF LoopOK
<1>4. Head(waiting) \in Req /\ ~Fits(Head(waiting))
  BY <1>0, <1>1, <1>3 DEF CanAdmit
<1>5. ~(PromptBlocks(Head(waiting)) <= Capacity)
  BY <1>0, <1>2, <1>4, NothingHeld, FitsBySize
<1> QED
  BY <1>3, <1>4, <1>5, PromptBlocksFacts, PoolAssumption DEF TooBig

LEMMA NextLoop ==
  ASSUME ServiceInv, [Next]_vars
  PROVE  LoopOK'
<1>0. /\ TypeInv /\ TypeOK /\ AdmitOK /\ Fitting(pool) /\ LoopOK
      /\ waiting \in Seq(Req) /\ due \in Seq(Req) /\ stall \in Nat
      /\ req \in [Req -> Request] /\ admit \in [Req -> Nat]
  <2>1. TypeInv /\ TypeOK /\ AdmitOK /\ Fitting(pool) /\ LoopOK
    BY DEF ServiceInv, OrderInv, TypeInv
  <2> QED
    BY <2>1 DEF TypeOK
<1>1. CASE EnterAdmission
  <2>1. /\ decoding' = {r \in Running : req[r].state = "decode"}
        /\ budget' = TokenBudget(decoding') /\ HasWork
        /\ UNCHANGED <<req, admit, waiting, stall>> /\ pc' = "admit"
    BY <1>1 DEF EnterAdmission
  <2>2. In("decode")' \subseteq decoding'
    BY <1>0, <2>1 DEF In, AdmitOK, Busy, Running
  <2>3. ASSUME Running' = {}
        PROVE  waiting' # <<>> /\ budget' > 0
    <3>1. Running = {} /\ decoding' = {}
      BY <2>1, <2>3 DEF Running
    <3>2. budget' = MaxBatched
      BY <2>1, <3>1, FS_EmptySet, EngineAssumption DEF TokenBudget
    <3> QED
      BY <2>1, <3>1, <3>2, EngineAssumption DEF HasWork
  <2>4. stall' > 0 => TooBig'
    BY <1>0, <2>1 DEF LoopOK, TooBig
  <2> QED
    BY <2>1, <2>2, <2>3, <2>4 DEF LoopOK
<1>2. CASE Admit
  <2> DEFINE r == Head(waiting)
  <2>1. /\ r \in Req /\ Fits(r) /\ pc = "admit" /\ waiting # <<>>
        /\ UNCHANGED <<decoding, stall, pc>>
    BY <1>0, <1>2 DEF Admit, CanAdmit
  <2>2. PromptBlocks(r) <= Capacity /\ PromptBlocks(r) \in Nat
    BY <1>0, <2>1, FitsBySize, PromptBlocksFacts
  <2>3. stall = 0
    BY <1>0, <2>2, PoolAssumption DEF LoopOK, TooBig
  <2>4. PICK n \in NextSeqs : admit' = [admit EXCEPT ![r] = n]
    BY <1>2 DEF Admit
  <2>5. PICK w : req' = [req EXCEPT ![r] = w] /\ w.state = "prefill"
    <3> DEFINE new(h) == [state |-> "prefill", blocks |-> PromptBlocks(r),
                          ctx |-> Turn(r).prompt, prefilled |-> h * BlockSize,
                          generated |-> req[r].generated, scheduled |-> TRUE]
    <3>1. PICK h \in Hits(r) : req' = [req EXCEPT ![r] = new(h)]
      BY <1>2 DEF Admit
    <3>2. new(h).state = "prefill"
      OBVIOUS
    <3> HIDE DEF new
    <3> QED
      BY <3>1, <3>2
  <2> HIDE DEF r
  <2>6. In("decode")' \subseteq decoding'
    <3>1. \A x \in Req : req'[x] = IF x = r THEN w ELSE req[x]
      BY <1>0, <2>1, <2>5
    <3> QED
      BY <1>0, <2>1, <2>5, <3>1 DEF LoopOK, In
  <2>7. r \in Running'
    <3>1. n # 0
      BY <1>0 DEF NextSeqs, Running
    <3> QED
      BY <1>0, <2>1, <2>4, <3>1 DEF Running
  <2> QED
    BY <2>1, <2>3, <2>6, <2>7 DEF LoopOK
<1>3. CASE BeginStep
  BY <1>3 DEF BeginStep, LoopOK
<1>4. CASE Stall
  <2>1. TooBig /\ waiting' = waiting /\ pc' \in {"stalled", "arrive"}
    BY <1>4, StallTooBig DEF Stall
  <2> QED
    BY <2>1 DEF LoopOK, TooBig
<1>5. ASSUME AllocateChunk \/ StartClock \/ ClockAdvanced \/ FirstToken \/ NextToken \/ EndStep
      PROVE  pc \in {"chunk", "step", "emit"} /\ stall' = stall /\ pc' # "admit"
  <2>1. CASE AllocateChunk \/ StartClock \/ ClockAdvanced \/ EndStep
    BY <2>1 DEF AllocateChunk, StartClock, ClockAdvanced, EndStep
  <2>2. CASE FirstToken
    BY <2>2 DEF FirstToken
  <2>3. CASE NextToken
    BY <2>3 DEF NextToken
  <2> QED
    BY <1>5, <2>1, <2>2, <2>3
<1>6. ASSUME pc \in {"chunk", "step", "emit"} /\ stall' = stall /\ pc' # "admit"
      PROVE  LoopOK'
  <2>1. stall' = 0
    BY <1>0, <1>6 DEF LoopOK
  <2> QED
    BY <1>6, <2>1 DEF LoopOK
<1>7. CASE DrainOne
  <2>1. /\ waiting' = Append(waiting, Head(due)) /\ due # <<>>
        /\ pc = "arrive" /\ UNCHANGED <<stall, pc>>
    BY <1>7 DEF DrainOne
  <2>2. Head(due) \in Req
    BY <1>0, <2>1
  <2>3. waiting # <<>> => waiting' # <<>> /\ Head(waiting') = Head(waiting)
    BY <1>0, <2>1, <2>2
  <2> QED
    BY <1>0, <2>1, <2>3 DEF LoopOK, TooBig
<1>8. CASE \/ GoIdle \/ Wake \/ RunDone \/ \E r \in Req : PauseElapses(r)
  <2>1. /\ UNCHANGED <<waiting, stall>> /\ pc' # "admit"
        /\ pc' \in {"chunk", "step", "emit"} => pc' = pc
    BY <1>8 DEF GoIdle, Wake, RunDone, PauseElapses
  <2> QED
    BY <1>0, <2>1 DEF LoopOK, TooBig
<1>9. CASE Stopped \/ UNCHANGED vars
  <2>1. UNCHANGED vars
    BY <1>9 DEF Stopped
  <2> QED
    BY <1>0, <2>1 DEF vars, LoopOK, TooBig, In, Running
<1> QED
  BY <1>1, <1>2, <1>3, <1>4, <1>5, <1>6, <1>7, <1>8, <1>9 DEF Next, Loop

LEMMA ServiceInductive ==
  ASSUME LongOutputs
  PROVE  /\ Init => ServiceInv
         /\ ServiceInv /\ [Next]_vars => ServiceInv'
<1>1. Init => LoopOK
  BY DEF Init, LoopOK
<1>2. CapacityInv <=> TypeInv /\ Fitting(pool)
  BY DEF CapacityInv
<1>3. Init => ServiceInv
  BY <1>1, <1>2, InitTypeInv, InitOrder, InitRefs, CapacityInductive DEF ServiceInv
<1>4. ASSUME ServiceInv, [Next]_vars
      PROVE  ServiceInv'
  <2>1. TypeInv' /\ OrderInv' /\ RefsInv'
    BY <1>4, NextTypeInv, NextOrder, NextRefs DEF ServiceInv
  <2>2. Fitting(pool')
    BY <1>2, <1>4, NextFits DEF ServiceInv
  <2>3. LoopOK'
    BY <1>4, NextLoop
  <2> QED
    BY <2>1, <2>2, <2>3 DEF ServiceInv
<1> QED
  BY <1>3, <1>4

\* When nothing decodes and nothing is in prefill nothing is resident, if every
\* output is longer than one token: the preemption in the stall branch of
\* Engine.run has nobody to preempt.
THEOREM NobodyToPreempt ==
  ASSUME LongOutputs
  PROVE  Spec => []NothingToPreempt
<1>1. ServiceInv => NothingToPreempt
  BY NothingResident DEF ServiceInv, OrderInv, NothingToPreempt
<1> QED
  BY <1>1, ServiceInductive, PTL DEF Spec

\* The stall counter grows only while the prompt at the head of the queue needs
\* more blocks than the pool has, if every output is longer than one token:
\* neither a leaked reference nor a cached prefix can make Engine.run raise.
THEOREM StallsOnlyForSize ==
  ASSUME LongOutputs
  PROVE  Spec => []StallOnlyWhenTooBig
<1>1. ServiceInv => StallOnlyWhenTooBig
  BY DEF ServiceInv, LoopOK, TooBig, StallOnlyWhenTooBig
<1> QED
  BY <1>1, ServiceInductive, PTL DEF Spec

(***************************************************************************)
(* Keys and tokens.                                                        *)
(***************************************************************************)
\* Keys of a session and the tokens they stand for.
LEMMA ChainKey ==
  ASSUME NEW s, NEW m \in Int, NEW n \in Int, NEW k \in Keys(s, m, n)
  PROVE  /\ k[1] \in {Sys, s} /\ k[2] \in m .. n - 1
         /\ k[1] # Sys => k[1] = s /\ k[2] >= SharedBlocks
  BY PoolAssumption DEF Keys, KeyAt

LEMMA BlockKey ==
  ASSUME NEW s, NEW n \in Nat
  PROVE  /\ BlockKeys(s, n) = Keys(s, 0, n)
         /\ \A k \in Key : /\ k[1] = s /\ k[2] >= SharedBlocks /\ k[2] < n
                          => k \in BlockKeys(s, n)
<1>1. BlockKeys(s, n) = Keys(s, 0, n)
  BY DEF BlockKeys, Keys
<1>2. ASSUME NEW k \in Key, k[1] = s, k[2] >= SharedBlocks, k[2] < n
      PROVE  k \in BlockKeys(s, n)
  <2>1. k = <<s, k[2]>> /\ k[2] \in 0 .. n - 1
    BY <1>2 DEF Key
  <2>2. k = KeyAt(s, k[2])
    BY <1>2, <2>1, PoolAssumption DEF KeyAt
  <2> QED
    BY <2>1, <2>2 DEF BlockKeys
<1> QED
  BY <1>1, <1>2

LEMMA TokensOfBlocks ==
  ASSUME NEW i \in Nat, NEW n \in Nat, NEW c \in Nat
  PROVE  /\ i < n /\ n * BlockSize <= c => (i + 1) * BlockSize <= c
         /\ (i + 1) * BlockSize <= c /\ c <= n * BlockSize => i < n
         /\ (n - 1) * BlockSize < c /\ c <= n * BlockSize /\ c % BlockSize = 0
              => c = n * BlockSize
<1> BlockSize \in Nat \ {0}
  BY EngineAssumption
<1>1. ASSUME NEW a \in Nat, NEW b \in Nat, a <= b
      PROVE  a * BlockSize <= b * BlockSize
  <2>1. PICK e \in Nat : b = a + e
    BY <1>1
  <2>2. b * BlockSize = a * BlockSize + e * BlockSize /\ e * BlockSize \in Nat /\ a * BlockSize \in Nat
    BY <2>1
  <2> QED
    BY <2>2
<1>2. (i + 1) * BlockSize = i * BlockSize + BlockSize /\ i * BlockSize \in Nat
  OBVIOUS
<1>3. ASSUME i < n, n * BlockSize <= c
      PROVE  (i + 1) * BlockSize <= c
  <2>1. (i + 1) * BlockSize <= n * BlockSize
    BY <1>1, <1>3
  <2> QED
    BY <1>3, <2>1
<1>4. ASSUME (i + 1) * BlockSize <= c, c <= n * BlockSize, ~(i < n)
      PROVE  FALSE
  <2>1. n * BlockSize <= i * BlockSize
    BY <1>1, <1>4
  <2> QED
    BY <1>2, <1>4, <2>1
<1>5. ASSUME (n - 1) * BlockSize < c, c <= n * BlockSize, c % BlockSize = 0
      PROVE  c = n * BlockSize
  <2> DEFINE j == c \div BlockSize
  <2>1. j \in Nat /\ c = j * BlockSize
    BY <1>5
  <2> HIDE DEF j
  <2>2. CASE j >= n
    <3>1. n * BlockSize <= j * BlockSize
      BY <1>1, <2>1, <2>2
    <3> QED
      BY <1>5, <2>1, <3>1
  <2>3. CASE j < n
    <3>1. n - 1 \in Nat /\ j <= n - 1
      BY <2>1, <2>3
    <3>2. j * BlockSize <= (n - 1) * BlockSize
      BY <1>1, <2>1, <3>1
    <3> QED
      BY <1>5, <2>1, <3>1, <3>2
  <2> QED
    BY <2>1, <2>2, <2>3
<1> QED
  BY <1>3, <1>4, <1>5

(***************************************************************************)
(* What is cached was computed.                                            *)
(***************************************************************************)
Reaches(q, x, k) == x[1] = k[1] /\ q[x].ctx >= (k[2] + 1) * BlockSize

Computed(q, k) == \E x \in Req : q[x].state \in {"decode", "done"} /\ Reaches(q, x, k)

Shared(k) == k[1] = Sys

\* A block without a holder is usable; a usable block of a session was computed;
\* the full blocks of a request that has the pool's blocks are within its context.
CachedOK(p, q) ==
  /\ \A k \in DOMAIN p : p[k].ref = 0 => Usable(p, k)
  /\ \A k \in DOMAIN p : ~Shared(k) => k[2] >= SharedBlocks
  /\ \A k : Usable(p, k) /\ ~Shared(k) => Computed(q, k)
  /\ \A x \in Req : q[x].state \in Busy =>
       \A k \in BlockKeys(x[1], q[x].blocks) :
         k \in DOMAIN p /\ ~Shared(k) /\ p[k].full => Reaches(q, x, k)

\* Every context holds the prompt and what was generated since.
ContextOK(q) ==
  \A x \in Req :
    /\ q[x].state \in Busy => /\ q[x].ctx = Turn(x).prompt + q[x].generated
                              /\ q[x].generated < Turn(x).output
    /\ q[x].state = "done" => q[x].ctx = Turn(x).prompt + Turn(x).output

LEMMA CachedFrame ==
  ASSUME NEW p, NEW q, NEW d, CachedOK(p, q), IsTable(q), IsTable(d), IsPool(p),
         \A x \in Req :
           /\ d[x].state \in Busy =>
                q[x].state \in Busy /\ d[x].blocks = q[x].blocks /\ d[x].ctx >= q[x].ctx
           /\ q[x].state \in {"decode", "done"} =>
                d[x].state \in {"decode", "done"} /\ d[x].ctx >= q[x].ctx
  PROVE  CachedOK(p, d)
<1>1. \A x \in Req : q[x].ctx \in Nat /\ d[x].ctx \in Nat
  BY DEF IsTable, Request
<1>2. \A k \in DOMAIN p : (k[2] + 1) * BlockSize \in Nat
  BY EngineAssumption DEF IsPool, Key
<1>3. \A k \in DOMAIN p, x \in Req :
        Reaches(q, x, k) /\ d[x].ctx >= q[x].ctx => Reaches(d, x, k)
  BY <1>1, <1>2 DEF Reaches
<1>4. \A k : Usable(p, k) /\ ~Shared(k) => Computed(d, k)
  <2> SUFFICES ASSUME NEW k, Usable(p, k), ~Shared(k)
               PROVE  Computed(d, k)
    OBVIOUS
  <2>1. k \in DOMAIN p
    BY DEF Usable
  <2>2. PICK x \in Req : q[x].state \in {"decode", "done"} /\ Reaches(q, x, k)
    BY DEF CachedOK, Computed
  <2> QED
    BY <1>3, <2>1, <2>2 DEF Computed
<1>5. ASSUME NEW x \in Req, d[x].state \in Busy,
             NEW k \in BlockKeys(x[1], d[x].blocks), k \in DOMAIN p, ~Shared(k), p[k].full
      PROVE  Reaches(d, x, k)
  <2>1. Reaches(q, x, k)
    BY <1>5 DEF CachedOK
  <2> QED
    BY <1>3, <1>5, <2>1
<1> QED
  BY <1>4, <1>5 DEF CachedOK

\* A prompt that is computed makes its full blocks usable.
LEMMA CachedReady ==
  ASSUME NEW p, NEW q, NEW d, CachedOK(p, q), IsTable(q), IsTable(d), IsPool(p),
         NEW r \in Req, q[r].state \in Busy,
         d[r].state = "decode", d[r].blocks = q[r].blocks, d[r].ctx = q[r].ctx,
         \A x \in Req \ {r} : d[x] = q[x]
  PROVE  /\ CachedOK(p, d)
         /\ CachedOK(MarkReady(p, BlockKeys(r[1], q[r].blocks)), d)
<1> DEFINE K == BlockKeys(r[1], q[r].blocks)
           g == MarkReady(p, K)
<1>0. \A x \in Req : q[x].ctx \in Nat /\ d[x].ctx \in Nat
  BY DEF IsTable, Request
<1>1. CachedOK(p, d)
  <2>1. \A x \in Req :
           /\ d[x].state \in Busy =>
                q[x].state \in Busy /\ d[x].blocks = q[x].blocks /\ d[x].ctx >= q[x].ctx
           /\ q[x].state \in {"decode", "done"} =>
                d[x].state \in {"decode", "done"} /\ d[x].ctx >= q[x].ctx
    BY <1>0
  <2> QED
    BY <2>1, CachedFrame
<1>2. /\ DOMAIN g = DOMAIN p
      /\ \A k \in DOMAIN p : /\ g[k].ready = (k \in K \/ p[k].ready)
                             /\ g[k].full = p[k].full /\ g[k].ref = p[k].ref
  BY MarkReadyType, MarkReadyMarks
<1> HIDE DEF g
<1>3. ASSUME NEW k, Usable(g, k), ~Shared(k)
      PROVE  Computed(d, k)
  <2>1. k \in DOMAIN p /\ p[k].full /\ (k \in K \/ Usable(p, k))
    BY <1>2, <1>3 DEF Usable
  <2>2. CASE Usable(p, k)
    BY <1>1, <1>3, <2>2 DEF CachedOK
  <2>3. CASE k \in K
    <3>1. Reaches(d, r, k)
      BY <1>1, <1>3, <2>1, <2>3 DEF CachedOK, Busy
    <3> QED
      BY <3>1 DEF Computed
  <2> QED
    BY <2>1, <2>2, <2>3
<1>4. \A k \in DOMAIN g : g[k].ref = 0 => Usable(g, k)
  BY <1>1, <1>2 DEF CachedOK, Usable
<1>5. \A x \in Req : d[x].state \in Busy =>
        \A k \in BlockKeys(x[1], d[x].blocks) :
          k \in DOMAIN g /\ ~Shared(k) /\ g[k].full => Reaches(d, x, k)
  BY <1>1, <1>2 DEF CachedOK
<1>6. \A k \in DOMAIN g : ~Shared(k) => k[2] >= SharedBlocks
  BY <1>1, <1>2 DEF CachedOK
<1>7. CachedOK(g, d)
  BY <1>3, <1>4, <1>5, <1>6 DEF CachedOK
<1> QED
  BY <1>1, <1>7 DEF g

\* A block is sealed when the context of its owner reaches its end.
LEMMA CachedSeal ==
  ASSUME NEW p, NEW q, CachedOK(p, q), IsTable(q), IsPool(p),
         NEW r \in Req, q[r].state \in {"decode", "done"},
         NEW n \in Nat, n > 0, n * BlockSize <= q[r].ctx,
         \A x \in Req : q[x].state \in Busy /\ x[1] = r[1] => x = r
  PROVE  CachedOK(Seal(p, KeyAt(r[1], n - 1)), q)
<1> DEFINE k0 == KeyAt(r[1], n - 1)
           f == MarkFull(p, {k0})
           g == MarkReady(f, {k0})
<1>1. /\ IsPool(f) /\ DOMAIN f = DOMAIN p
      /\ \A k \in DOMAIN p : /\ f[k].full = (k = k0 \/ p[k].full)
                             /\ f[k].ready = p[k].ready /\ f[k].ref = p[k].ref
  BY MarkFullType, MarkFullMarks
<1>2. /\ DOMAIN g = DOMAIN f
      /\ \A k \in DOMAIN f : /\ g[k].ready = (k = k0 \/ f[k].ready)
                             /\ g[k].full = f[k].full /\ g[k].ref = f[k].ref
  <2> HIDE DEF f
  <2> QED
    BY <1>1, MarkReadyType, MarkReadyMarks
<1> HIDE DEF f, g
<1>3. ~Shared(k0) => Reaches(q, r, k0)
  <2>1. q[r].ctx \in Nat /\ n - 1 \in Nat /\ n - 1 < n
    BY DEF IsTable, Request
  <2>2. (n - 1 + 1) * BlockSize <= q[r].ctx
    BY <2>1, TokensOfBlocks
  <2>3. k0[2] = n - 1
    BY DEF KeyAt
  <2>4. ~Shared(k0) => k0[1] = r[1]
    BY DEF KeyAt, Shared
  <2>5. BlockSize \in Nat
    BY EngineAssumption
  <2> HIDE DEF k0
  <2>6. q[r].ctx >= (k0[2] + 1) * BlockSize
    BY <2>1, <2>2, <2>3, <2>5
  <2> QED
    BY <2>4, <2>6 DEF Reaches
<1>4. k0[1] \in {Sys, r[1]}
  BY DEF KeyAt
<1> HIDE DEF k0
<1>5. ASSUME NEW k, Usable(g, k), ~Shared(k)
      PROVE  Computed(q, k)
  <2>1. CASE k = k0
    BY <1>3, <1>5, <2>1 DEF Computed
  <2>2. CASE k # k0
    <3>1. Usable(p, k)
      BY <1>1, <1>2, <1>5, <2>2 DEF Usable
    <3> QED
      BY <1>5, <3>1 DEF CachedOK
  <2> QED
    BY <2>1, <2>2
<1>6. ASSUME NEW x \in Req, q[x].state \in Busy,
             NEW k \in BlockKeys(x[1], q[x].blocks), k \in DOMAIN g, ~Shared(k), g[k].full
      PROVE  Reaches(q, x, k)
  <2>1. CASE k = k0
    <3>1. q[x].blocks \in Nat /\ x[1] \in Nat
      BY ReqFacts DEF IsTable, Request
    <3>2. k[1] = x[1]
      BY <1>6, <3>1, BlockKey, ChainKey DEF Shared
    <3>3. k[1] = r[1]
      BY <1>4, <1>6, <2>1 DEF Shared
    <3>4. x = r
      BY <1>6, <3>2, <3>3
    <3> QED
      BY <1>3, <1>6, <2>1, <3>4
  <2>2. CASE k # k0
    BY <1>1, <1>2, <1>6, <2>2 DEF CachedOK
  <2> QED
    BY <2>1, <2>2
<1>7. \A k \in DOMAIN g : g[k].ref = 0 => Usable(g, k)
  <2> TAKE k \in DOMAIN g
  <2> HAVE g[k].ref = 0
  <2>1. Usable(p, k)
    BY <1>1, <1>2 DEF CachedOK
  <2>2. g[k].full /\ g[k].ready
    BY <1>1, <1>2, <2>1 DEF Usable
  <2> QED
    BY <2>2 DEF Usable
<1>8. \A k \in DOMAIN g : ~Shared(k) => k[2] >= SharedBlocks
  BY <1>1, <1>2 DEF CachedOK
<1>9. CachedOK(g, q)
  BY <1>5, <1>6, <1>7, <1>8 DEF CachedOK
<1> QED
  BY <1>9 DEF Seal, k0, f, g

LEMMA CachedRelease ==
  ASSUME NEW p, NEW q, CachedOK(p, q), IsPool(p), NEW K, NEW c \in BOOLEAN
  PROVE  CachedOK(Release(p, K, c), q)
<1> DEFINE g == Release(p, K, c)
<1>1. \A k \in DOMAIN g :
           /\ k \in DOMAIN p /\ g[k].full = p[k].full /\ g[k].ready = p[k].ready
           /\ g[k].ref = 0 => p[k].ref = 0 \/ (p[k].full /\ p[k].ready)
  BY ReleaseMarks
<1> HIDE DEF g
<1>2. \A k : Usable(g, k) => Usable(p, k)
  BY <1>1 DEF Usable
<1>3. \A k \in DOMAIN g : g[k].ref = 0 => Usable(g, k)
  BY <1>1 DEF CachedOK, Usable
<1>4. CachedOK(g, q)
  BY <1>1, <1>2, <1>3 DEF CachedOK
<1> QED
  BY <1>4 DEF g

\* Nobody else's context reaches into the turn r of its session.
LEMMA EarlierContexts ==
  ASSUME TurnsOK, ContextOK(req), NEW r \in Req, req[r].state \notin {"absent", "done"},
         NEW x \in Req, x[1] = r[1], x # r, req[x].state \in {"decode", "done"}
  PROVE  req[x].state = "done" /\ req[x].ctx <= Turn(r).prompt
<1>1. /\ r[2] \in Nat /\ x[2] \in Nat /\ r = <<r[1], r[2]>> /\ x = <<x[1], x[2]>>
  BY TurnFacts
<1>2. req[x].state = "done"
  BY OneOutstanding
<1>3. ~(r[2] < x[2])
  BY <1>2, EarlierDone
<1>4. x[2] < r[2]
  BY <1>1, <1>3
<1>5. req[x].ctx = Turn(x).prompt + Turn(x).output
  BY <1>2 DEF ContextOK
<1>6. Turn(r).prompt >= Turn(x).prompt + Turn(x).output
  BY <1>4, PromptsGrow
<1> QED
  BY <1>2, <1>5, <1>6, ReqFacts

\* At most the one active turn of a session holds a block of the session.
LEMMA SessionHolders ==
  ASSUME TurnsOK, IsTable(req), NEW r \in Req, req[r].state \notin {"absent", "done"},
         NEW k, k[1] = r[1], ~Shared(k)
  PROVE  HeldBy(Held(req), k) = IF k \in Held(req)[r] THEN {r} ELSE {}
<1>1. ASSUME NEW x \in Req, k \in Held(req)[x]
      PROVE  x = r
  <2>1. req[x].state \in Busy /\ k \in BlockKeys(x[1], req[x].blocks)
    BY <1>1 DEF Held
  <2>2. req[x].blocks \in Nat
    BY DEF IsTable, Request
  <2>3. k[1] = x[1]
    BY <2>1, <2>2, BlockKey, ChainKey DEF Shared
  <2> QED
    BY <2>1, <2>3, OneOutstanding DEF Busy
<1> QED
  BY <1>1 DEF HeldBy

\* The next block of a decode is not in the pool.
LEMMA NextBlockFresh ==
  ASSUME TurnsOK, ContextOK(req), IsTable(req), NEW r \in Req, req[r].state \in Busy,
         CoverOK(req), NEW p, RefsOK(p, Held(req)),
         NEW q, CachedOK(p, q), q[r].ctx = req[r].ctx,
         \A x \in Req \ {r} : q[x] = req[x],
         NEW k, k = KeyAt(r[1], req[r].blocks), ~Shared(k)
  PROVE  k \notin DOMAIN p
<1> DEFINE n == req[r].blocks
           c == req[r].ctx
<1>1. n \in Nat /\ c \in Nat /\ r[1] \in Nat /\ BlockSize \in Nat \ {0}
  BY ReqFacts, EngineAssumption DEF IsTable, Request
<1>2. k[1] = r[1] /\ k[2] = n
  BY DEF KeyAt, Shared
<1>3. SUFFICES ASSUME k \in DOMAIN p PROVE FALSE
  OBVIOUS
<1>4. k \notin Held(req)[r]
  BY <1>1, NextKey DEF Held
<1>5. HeldBy(Held(req), k) = {}
  BY <1>2, <1>4, SessionHolders DEF Busy
<1>6. p[k].ref = 0
  BY <1>3, <1>5, FS_EmptySet DEF RefsOK
<1>7. PICK x \in Req : q[x].state \in {"decode", "done"} /\ Reaches(q, x, k)
  BY <1>3, <1>6 DEF CachedOK, Computed
<1>8. c <= n * BlockSize
  BY DEF CoverOK, Covers
<1>9. c < (n + 1) * BlockSize
  BY <1>1, <1>8
<1>10. x # r /\ x[1] = r[1] /\ req[x].ctx >= (n + 1) * BlockSize
       /\ req[x].state \in {"decode", "done"}
  <2>1. q[x].ctx >= (n + 1) * BlockSize /\ x[1] = r[1]
    BY <1>2, <1>7 DEF Reaches
  <2>2. x # r
    BY <1>1, <1>9, <2>1
  <2> QED
    BY <1>7, <2>1, <2>2
<1>11. req[x].ctx <= Turn(r).prompt
  BY <1>10, EarlierContexts DEF Busy
<1>12. Turn(r).prompt <= c
  <2>1. req[r].generated \in Nat /\ Turn(r).prompt \in Nat
    BY ReqFacts DEF IsTable, Request
  <2> QED
    BY <2>1 DEF ContextOK
<1>13. req[x].ctx \in Nat /\ Turn(r).prompt \in Nat
  BY ReqFacts DEF IsTable, Request
<1> QED
  BY <1>1, <1>9, <1>10, <1>11, <1>12, <1>13

\* A sequence that gets its next block, or needs none.
LEMMA CachedGrown ==
  ASSUME NEW r \in Req, NEW p, NEW q, CachedOK(p, q), IsTable(q), IsPool(p),
         q[r].state = "decode",
         NEW g, NEW b \in Nat, Grown(r, p, q, g, b),
         NeedsBlock(q, r) => CachedOK(Seal(p, TailKey(q, r)), q),
         NeedsBlock(q, r) => IsPool(Seal(p, TailKey(q, r))),
         NeedsBlock(q, r) /\ ~Shared(KeyAt(r[1], q[r].blocks))
            => KeyAt(r[1], q[r].blocks) \notin DOMAIN Seal(p, TailKey(q, r)),
         NEW d, IsTable(d), d[r].state \in {"decode", "done"}, d[r].ctx >= q[r].ctx,
         d[r].state \in Busy => d[r].blocks = b,
         \A x \in Req \ {r} : d[x] = q[x]
  PROVE  CachedOK(g, d) /\ IsPool(g)
<1>0. \A x \in Req : q[x].ctx \in Nat /\ d[x].ctx \in Nat /\ q[x].blocks \in Nat /\ d[x].blocks \in Nat
  BY DEF IsTable, Request
<1>1. CASE ~NeedsBlock(q, r) /\ g = p /\ b = q[r].blocks
  <2>1. \A x \in Req :
           /\ d[x].state \in Busy =>
                q[x].state \in Busy /\ d[x].blocks = q[x].blocks /\ d[x].ctx >= q[x].ctx
           /\ q[x].state \in {"decode", "done"} =>
                d[x].state \in {"decode", "done"} /\ d[x].ctx >= q[x].ctx
    BY <1>0, <1>1 DEF Busy
  <2> QED
    BY <1>1, <2>1, CachedFrame
<1>2. CASE /\ NeedsBlock(q, r) /\ b = q[r].blocks + 1
           /\ g \in Acquired(Seal(p, TailKey(q, r)), {}, {KeyAt(r[1], q[r].blocks)})
  <2> DEFINE sealed == Seal(p, TailKey(q, r))
             k0 == KeyAt(r[1], q[r].blocks)
             news == {k0}
  <2>1. CachedOK(sealed, q) /\ IsPool(sealed) /\ (~Shared(k0) => k0 \notin DOMAIN sealed)
    BY <1>2
  <2>2. k0 \in Key /\ k0[2] = q[r].blocks /\ (~Shared(k0) => k0[2] >= SharedBlocks)
    BY <1>0, ReqFacts, KeyAtType, PoolAssumption DEF KeyAt, Shared
  <2>3. g \in Acquired(sealed, {}, news)
    BY <1>2
  <2>4. BlockKeys(r[1], b) = BlockKeys(r[1], q[r].blocks) \cup {k0}
    BY <1>0, <1>2, ReqFacts, NextKey
  <2> HIDE DEF sealed, k0
  <2>5. /\ IsPool(g) /\ DOMAIN g \subseteq DOMAIN sealed \cup news
        /\ \A k \in DOMAIN g : g[k].ref = (IF k \in DOMAIN sealed THEN sealed[k].ref ELSE 0)
                                            + (IF k \in {} \cup news THEN 1 ELSE 0)
    <3> HIDE DEF news
    <3>1. news \in SUBSET Key /\ {} \cap news = {} /\ {} \subseteq DOMAIN sealed
      BY <2>2 DEF news
    <3> QED
      BY <2>1, <2>3, <3>1, AcquiredRefs
  <2>6. \A k \in DOMAIN g :
           \/ k \in DOMAIN sealed /\ g[k].full = sealed[k].full /\ g[k].ready = sealed[k].ready
           \/ k \in news /\ g[k] = NewBlock
    BY <2>1, <2>3, AcquiredMarks
  <2>7. \A k \in DOMAIN g : g[k].full => k \in DOMAIN sealed /\ sealed[k].full
    BY <2>6 DEF NewBlock
  <2>8. \A k : Usable(g, k) => Usable(sealed, k)
    BY <2>6 DEF NewBlock, Usable
  <2>9. \A k \in DOMAIN g : g[k].ref = 0 => Usable(g, k)
    <3> TAKE k \in DOMAIN g
    <3> HAVE g[k].ref = 0
    <3>1. k \notin news
      BY <2>1, <2>5 DEF IsPool, Block
    <3>2. k \in DOMAIN sealed /\ sealed[k].ref = 0
      BY <2>1, <2>5, <3>1 DEF IsPool, Block
    <3>3. Usable(sealed, k)
      BY <2>1, <3>2 DEF CachedOK
    <3> QED
      BY <2>6, <3>1, <3>3 DEF Usable
  <2>10. \A k \in DOMAIN g : ~Shared(k) => k[2] >= SharedBlocks
    BY <2>1, <2>2, <2>5 DEF CachedOK
  <2>11. \A x \in Req, k \in DOMAIN sealed : Reaches(q, x, k) => Reaches(d, x, k)
    <3> TAKE x \in Req, k \in DOMAIN sealed
    <3>1. (k[2] + 1) * BlockSize \in Nat
      BY <2>1, EngineAssumption DEF IsPool, Key
    <3>2. d[x].ctx >= q[x].ctx
      BY <1>0
    <3> QED
      BY <1>0, <3>1, <3>2 DEF Reaches
  <2>12. \A k : Usable(g, k) /\ ~Shared(k) => Computed(d, k)
    <3> SUFFICES ASSUME NEW k, Usable(g, k), ~Shared(k)
                 PROVE  Computed(d, k)
      OBVIOUS
    <3>1. Usable(sealed, k) /\ k \in DOMAIN sealed
      BY <2>8 DEF Usable
    <3>2. PICK x \in Req : q[x].state \in {"decode", "done"} /\ Reaches(q, x, k)
      BY <2>1, <3>1 DEF CachedOK, Computed
    <3>3. d[x].state \in {"decode", "done"}
      BY <3>2
    <3> QED
      BY <2>11, <3>1, <3>2, <3>3 DEF Computed
  <2>13. ASSUME NEW x \in Req, d[x].state \in Busy,
                NEW k \in BlockKeys(x[1], d[x].blocks), k \in DOMAIN g, ~Shared(k), g[k].full
         PROVE  Reaches(d, x, k)
    <3>1. k \in DOMAIN sealed /\ sealed[k].full
      BY <2>7, <2>13
    <3>2. x = r => k # k0
      BY <2>1, <2>13, <3>1
    <3>3. q[x].state \in Busy /\ k \in BlockKeys(x[1], q[x].blocks)
      BY <2>4, <2>13, <3>2 DEF Busy
    <3>4. Reaches(q, x, k)
      BY <2>1, <2>13, <3>1, <3>3 DEF CachedOK
    <3> QED
      BY <2>11, <3>1, <3>4
  <2> QED
    BY <2>5, <2>9, <2>10, <2>12, <2>13 DEF CachedOK
<1> QED
  BY <1>1, <1>2 DEF Grown

\* The victim of a preemption takes its blocks along: no usable block is left
\* that only its context reached.
LEMMA CachedPreempt ==
  ASSUME TurnsOK, IsTable(req), CoverOK(req),
         NEW v \in Req, req[v].state \in Busy,
         NEW p, RefsOK(p, Held(req)),
         NEW q, CachedOK(p, q), IsTable(q), q[v].ctx = req[v].ctx, q[v].blocks = req[v].blocks,
         NEW d, IsTable(d), d[v].state = "waiting", \A x \in Req \ {v} : d[x] = q[x]
  PROVE  CachedOK(Release(p, BlockKeys(v[1], q[v].blocks), FALSE), d)
<1> DEFINE K == BlockKeys(v[1], q[v].blocks)
           g == Release(p, K, FALSE)
<1>1. IsPool(p) /\ \A k \in DOMAIN p : p[k].ref = Cardinality(HeldBy(Held(req), k))
  BY DEF RefsOK
<1>2. \A k \in DOMAIN g : k \in DOMAIN p /\ (k \in K => p[k].ref > 1)
  <2> HIDE DEF K
  <2>1. FALSE \in BOOLEAN /\ g = Release(p, K, FALSE)
    OBVIOUS
  <2> HIDE DEF g
  <2> QED
    BY <1>1, <2>1, ReleaseMarks
<1>3. CachedOK(g, q)
  BY <1>1, CachedRelease
<1> HIDE DEF g
<1>4. ASSUME NEW k \in DOMAIN g, ~Shared(k), Reaches(q, v, k)
      PROVE  FALSE
  <2>1. /\ k \in DOMAIN p /\ k \in Key /\ k[2] \in Nat /\ k[1] = v[1] /\ k[2] >= SharedBlocks
        /\ q[v].ctx >= (k[2] + 1) * BlockSize
    BY <1>1, <1>2, <1>3, <1>4 DEF IsPool, Key, CachedOK, Reaches
  <2>2. /\ q[v].blocks \in Nat /\ q[v].ctx \in Nat
        /\ q[v].ctx <= q[v].blocks * BlockSize
    BY DEF IsTable, Request, CoverOK, Covers
  <2>3. (k[2] + 1) * BlockSize \in Nat
    BY <2>1, EngineAssumption
  <2>4. k[2] < q[v].blocks
    BY <2>1, <2>2, <2>3, TokensOfBlocks
  <2>5. k \in K
    BY <2>1, <2>2, <2>4, BlockKey
  <2>6. p[k].ref > 1
    BY <1>2, <2>5, <1>4
  <2>7. HeldBy(Held(req), k) \subseteq {v}
    BY <1>4, <2>1, SessionHolders DEF Busy
  <2>8. HeldBy(Held(req), k) = {} \/ HeldBy(Held(req), k) = {v}
    BY <2>7
  <2>9. Cardinality(HeldBy(Held(req), k)) \in {0, 1}
    <3>1. Cardinality({}) = 0
      BY FS_EmptySet
    <3>2. Cardinality({v}) = 1
      BY FS_Singleton
    <3> QED
      BY <2>8, <3>1, <3>2
  <2> QED
    BY <1>1, <2>1, <2>6, <2>9
<1>5. \A k : Usable(g, k) /\ ~Shared(k) => Computed(d, k)
  <2> SUFFICES ASSUME NEW k, Usable(g, k), ~Shared(k)
               PROVE  Computed(d, k)
    OBVIOUS
  <2>1. k \in DOMAIN g
    BY DEF Usable
  <2>2. PICK x \in Req : q[x].state \in {"decode", "done"} /\ Reaches(q, x, k)
    BY <1>3 DEF CachedOK, Computed
  <2>3. x # v
    BY <1>4, <2>1, <2>2
  <2> QED
    BY <2>2, <2>3 DEF Computed, Reaches
<1>6. \A x \in Req : d[x].state \in Busy => x # v
  BY DEF Busy
<1>7. ASSUME NEW x \in Req, d[x].state \in Busy,
             NEW k \in BlockKeys(x[1], d[x].blocks), k \in DOMAIN g, ~Shared(k), g[k].full
      PROVE  Reaches(d, x, k)
  <2>1. d[x] = q[x]
    BY <1>6, <1>7
  <2> QED
    BY <1>3, <1>7, <2>1 DEF CachedOK, Reaches
<1>8. CachedOK(g, d)
  BY <1>3, <1>5, <1>7 DEF CachedOK
<1> QED
  BY <1>8 DEF g

ComputedInv == TypeInv /\ OrderInv /\ RefsInv /\ CoverOK(req) /\ ContextOK(req) /\ CachedOK(pool, req)

\* What a token finds: the pool in which a completed prompt is marked, and the
\* table in which its request decodes.
LEMMA TokenStart ==
  ASSUME ComputedInv, NEW r, NEW p, NEW q, Emitting(r, p, q)
  PROVE  /\ IsPool(p) /\ RefsOK(p, Held(req)) /\ CachedOK(p, q) /\ CoverOK(q)
         /\ IsTable(req) /\ IsTable(q)
<1>0. /\ TypeOK /\ RefsInv /\ CachedOK(pool, req) /\ IsTable(req) /\ CoverOK(req)
  BY DEF ComputedInv, TypeInv, TypeOK, IsTable
<1>1. /\ r \in Req /\ IsTable(q) /\ req[r].state \in Busy
      /\ q[r].state = "decode" /\ q[r].blocks = req[r].blocks /\ q[r].ctx = req[r].ctx
      /\ \A x \in Req \ {r} : q[x] = req[x]
      /\ p = pool \/ p = MarkReady(pool, BlockKeys(r[1], req[r].blocks))
  BY DEF Emitting, Emits, Chain
<1>2. RefsOK(p, Held(req))
  BY <1>0, <1>1, RefsMarks DEF RefsInv
<1>3. IsPool(pool) /\ IsPool(p)
  BY <1>0, <1>2 DEF RefsInv, RefsOK
<1>4. CachedOK(p, q)
  BY <1>0, <1>1, <1>3, CachedReady
<1>5. CoverOK(q)
  BY <1>0, <1>1 DEF CoverOK, Covers
<1> QED
  BY <1>0, <1>1, <1>2, <1>3, <1>4, <1>5

LEMMA CachedSealTail ==
  ASSUME ComputedInv, NEW r, NEW p, NEW q, Emitting(r, p, q), NeedsBlock(q, r)
  PROVE  LET sealed == Seal(p, TailKey(q, r))
         IN  /\ CachedOK(sealed, q) /\ RefsOK(sealed, Held(req)) /\ IsPool(sealed)
             /\ LET k == KeyAt(r[1], q[r].blocks)
                IN  ~Shared(k) => k \notin DOMAIN sealed
<1> DEFINE sealed == Seal(p, TailKey(q, r))
           n == q[r].blocks
           k == KeyAt(r[1], n)
<1>0. /\ TurnsOK /\ AdmitOK /\ ContextOK(req) /\ CoverOK(req)
      /\ IsPool(p) /\ RefsOK(p, Held(req)) /\ CachedOK(p, q) /\ CoverOK(q)
      /\ IsTable(req) /\ IsTable(q)
  BY TokenStart DEF ComputedInv, OrderInv
<1>1. /\ r \in Req /\ req[r].state \in Busy
      /\ q[r].state = "decode" /\ q[r].blocks = req[r].blocks /\ q[r].ctx = req[r].ctx
      /\ \A x \in Req \ {r} : q[x] = req[x]
  BY DEF Emitting, Emits
<1>2. n \in Nat /\ n > 0 /\ n * BlockSize <= q[r].ctx
  <2>1. q[r].blocks \in Nat /\ q[r].ctx \in Nat
    BY <1>0, <1>1 DEF IsTable, Request
  <2>2. q[r].ctx + 1 > q[r].blocks * BlockSize /\ q[r].blocks * BlockSize \in Nat
    <3>1. q[r].ctx + 1 > q[r].blocks * BlockSize
      BY DEF NeedsBlock
    <3>2. BlockSize \in Nat
      BY EngineAssumption
    <3> QED
      BY <2>1, <3>1, <3>2
  <2>3. q[r].blocks > 0
    BY <1>0, <1>1 DEF AdmitOK
  <2> QED
    BY <2>1, <2>2, <2>3
<1>3. \A x \in Req : q[x].state \in Busy /\ x[1] = r[1] => x = r
  BY <1>0, <1>1, OneOutstanding DEF Busy
<1>4. CachedOK(Seal(p, KeyAt(r[1], n - 1)), q)
  <2> HIDE DEF n
  <2> QED
    BY <1>0, <1>1, <1>2, <1>3, CachedSeal
<1>5. CachedOK(sealed, q)
  BY <1>4 DEF TailKey
<1>6. RefsOK(sealed, Held(req))
  BY <1>0, RefsMarks
<1>7. IsPool(sealed)
  BY <1>6 DEF RefsOK
<1> HIDE DEF sealed
<1>8. ~Shared(k) => k \notin DOMAIN sealed
  BY <1>0, <1>1, <1>5, <1>6, NextBlockFresh
<1> QED
  BY <1>5, <1>6, <1>7, <1>8 DEF sealed

LEMMA TokenCached ==
  ASSUME ComputedInv, LongOutputs, FirstToken \/ NextToken, TypeInv'
  PROVE  CachedOK(pool', req')
<1>0. /\ TypeOK /\ OrderInv /\ TurnsOK /\ RefsInv /\ CoverOK(req) /\ ContextOK(req)
      /\ IsTable(req') /\ IsPool(pool')
  BY DEF ComputedInv, TypeInv, OrderInv, TypeOK, IsTable, IsPool
<1>1. PICK r, p, q : Emitting(r, p, q)
  BY <1>0, TokenEmits
<1>2. /\ r \in Req /\ req[r].state \in Busy /\ Emits(r, q) /\ EmitToken(r, p, q)
      /\ q[r].state = "decode" /\ q[r].blocks = req[r].blocks /\ q[r].ctx = req[r].ctx
      /\ \A x \in Req \ {r} : q[x] = req[x]
  BY <1>1 DEF Emitting, Emits
<1>3. /\ IsPool(p) /\ RefsOK(p, Held(req)) /\ CachedOK(p, q) /\ CoverOK(q)
      /\ IsTable(req) /\ IsTable(q)
  BY <1>1, TokenStart
<1> DEFINE sealed == Seal(p, TailKey(q, r))
           k0 == KeyAt(r[1], q[r].blocks)
<1>4. NeedsBlock(q, r) => /\ CachedOK(sealed, q) /\ RefsOK(sealed, Held(req))
                          /\ IsPool(sealed)
                          /\ ~Shared(k0) => k0 \notin DOMAIN sealed
  BY <1>1, CachedSealTail
<1>5. ASSUME NEW g, NEW b \in Nat, Grown(r, p, q, g, b),
             NEW d, IsTable(d), d[r].state \in {"decode", "done"}, d[r].ctx >= q[r].ctx,
             d[r].state \in Busy => d[r].blocks = b,
             \A x \in Req \ {r} : d[x] = q[x]
      PROVE  CachedOK(g, d) /\ IsPool(g)
  BY <1>2, <1>3, <1>4, <1>5, CachedGrown
<1>6. q[r].ctx \in Nat /\ q[r].blocks \in Nat /\ BlockSize \in Nat \ {0}
      /\ q[r].blocks * BlockSize \in Nat
  BY <1>2, <1>3, EngineAssumption DEF IsTable, Request
<1>7. CASE Advanced(r, p, q)
  <2>1. PICK b \in Nat :
          /\ Grown(r, p, q, pool', b)
          /\ req'[r].state = q[r].state /\ req'[r].blocks = b
          /\ req'[r].ctx = q[r].ctx + 1
          /\ \A x \in Req \ {r} : req'[x] = q[x]
    BY <1>7 DEF Advanced
  <2>2. req'[r].ctx >= q[r].ctx
    BY <1>6, <2>1
  <2> QED
    BY <1>0, <1>2, <1>5, <2>1, <2>2
<1>8. CASE Finished(r, p, q)
  <2>1. PICK b \in Nat : \E g, h, d :
          /\ Grown(r, p, q, g, b)
          /\ \/ h = g
             \/ (q[r].ctx + 1) % BlockSize = 0 /\ h = Seal(g, KeyAt(r[1], b - 1))
          /\ pool' = Release(h, BlockKeys(r[1], b), TRUE)
          /\ IsTable(d) /\ d[r].state = "done" /\ d[r].ctx = q[r].ctx + 1
          /\ \A x \in Req \ {r} : d[x] = q[x]
          /\ TurnDone(r, d)
    BY <1>8 DEF Finished
  <2>2. PICK g, h, d :
          /\ Grown(r, p, q, g, b)
          /\ \/ h = g
             \/ (q[r].ctx + 1) % BlockSize = 0 /\ h = Seal(g, KeyAt(r[1], b - 1))
          /\ pool' = Release(h, BlockKeys(r[1], b), TRUE)
          /\ IsTable(d) /\ d[r].state = "done" /\ d[r].ctx = q[r].ctx + 1
          /\ \A x \in Req \ {r} : d[x] = q[x]
          /\ TurnDone(r, d)
    BY <2>1
  <2>3. d[r].ctx >= q[r].ctx
    BY <1>6, <2>2
  <2>4. CachedOK(g, d) /\ IsPool(g)
    BY <1>5, <2>2, <2>3 DEF Busy
  <2>5. (q[r].ctx + 1) % BlockSize = 0 => b > 0 /\ b * BlockSize <= d[r].ctx
    <3>1. Covers(q[r])
      BY <1>2, <1>3 DEF CoverOK, Busy
    <3>2. (b - 1) * BlockSize < q[r].ctx + 1 /\ q[r].ctx + 1 <= b * BlockSize
      <4>1. CASE ~NeedsBlock(q, r) /\ b = q[r].blocks
        <5>1. (b - 1) * BlockSize \in Int
          BY <1>6
        <5> QED
          BY <1>6, <3>1, <4>1, <5>1 DEF NeedsBlock, Covers
      <4>2. CASE NeedsBlock(q, r) /\ b = q[r].blocks + 1
        <5>1. b - 1 = q[r].blocks /\ b * BlockSize = q[r].blocks * BlockSize + BlockSize
          <6>1. q[r].blocks \in Nat /\ BlockSize \in Nat
            BY <1>6
          <6>2. b = q[r].blocks + 1
            BY <4>2
          <6>3. \A x, y \in Nat : (x + 1) - 1 = x /\ (x + 1) * y = x * y + y
            OBVIOUS
          <6>4. /\ (q[r].blocks + 1) - 1 = q[r].blocks
                /\ (q[r].blocks + 1) * BlockSize = q[r].blocks * BlockSize + BlockSize
            BY <6>1, <6>3
          <6> QED
            BY <6>2, <6>4
        <5> QED
          BY <1>6, <3>1, <4>2, <5>1 DEF NeedsBlock, Covers
      <4> QED
        BY <2>2, <4>1, <4>2 DEF Grown
    <3>3. b # 0
      BY <1>6, <3>2
    <3>4. d[r].ctx \in Nat /\ d[r].ctx = q[r].ctx + 1
      BY <1>6, <2>2
    <3>5. d[r].ctx % BlockSize = 0 => d[r].ctx = b * BlockSize
      BY <3>2, <3>4, TokensOfBlocks
    <3> QED
      BY <3>3, <3>4, <3>5
  <2>6. \A x \in Req : d[x].state \in Busy /\ x[1] = r[1] => x = r
    BY <1>0, <1>2, <2>2, OneOutstanding DEF Busy
  <2>7. CachedOK(h, d) /\ IsPool(h)
    <3>1. CASE h = g
      BY <2>4, <3>1
    <3>2. CASE (q[r].ctx + 1) % BlockSize = 0 /\ h = Seal(g, KeyAt(r[1], b - 1))
      <4>1. IsPool(h)
        <5>1. \A K : IsPool(MarkFull(g, K))
          BY <2>4, MarkFullType
        <5> QED
          BY <3>2, <5>1, MarkReadyType DEF Seal
      <4>2. CachedOK(h, d)
        BY <1>2, <2>2, <2>4, <2>5, <2>6, <3>2, CachedSeal
      <4> QED
        BY <4>1, <4>2
    <3> QED
      BY <2>2, <3>1, <3>2
  <2>8. CachedOK(pool', d)
    BY <2>2, <2>7, CachedRelease
  <2>9. CASE req' = d
    BY <2>8, <2>9
  <2>10. ASSUME NEW n \in Req, NEW st \in {"pending", "due"}, Pushed(r, d, n, st)
         PROVE  CachedOK(pool', req')
    <3>1. /\ req[n].state = "absent" /\ req'[n] = NewRequest(st)
          /\ \A x \in Req \ {n} : req'[x] = d[x]
      BY <2>10 DEF Pushed
    <3>2. n # r /\ d[n].state = "absent"
      BY <1>2, <2>2, <3>1 DEF Busy
    <3>3. req'[n].state = st
      BY <3>1 DEF NewRequest
    <3>4. \A x \in Req : d[x].ctx \in Nat
      BY <2>2 DEF IsTable, Request
    <3>5. \A x \in Req :
             /\ req'[x].state \in Busy =>
                  d[x].state \in Busy /\ req'[x].blocks = d[x].blocks /\ req'[x].ctx >= d[x].ctx
             /\ d[x].state \in {"decode", "done"} =>
                  req'[x].state \in {"decode", "done"} /\ req'[x].ctx >= d[x].ctx
      BY <3>1, <3>2, <3>3, <3>4 DEF Busy
    <3> QED
      BY <1>0, <2>2, <2>8, <3>5, CachedFrame
  <2>11. \/ req' = d
         \/ \E n \in Req, st \in {"pending", "due"} : Pushed(r, d, n, st)
    BY <1>0, <1>2, <2>2, TurnDoneEffect
  <2> QED
    BY <2>9, <2>10, <2>11
<1>9. CASE Preempted(r, p, q)
  <2>1. PICK v \in Running :
          /\ NeedsBlock(q, r)
          /\ IsNewest(v, {x \in Running : q[x].blocks > 0})
          /\ pool' = Release(sealed, BlockKeys(v[1], q[v].blocks), FALSE)
          /\ req'[v].state = "waiting"
          /\ \A x \in Req \ {v} : req'[x] = q[x]
    BY <1>9 DEF Preempted
  <2>2. v \in Req /\ req[v].state \in Busy
    BY <1>0, <1>2, <2>1, VictimBusy DEF Running
  <2>3. q[v].ctx = req[v].ctx /\ q[v].blocks = req[v].blocks
    BY <1>2, <2>2
  <2>4. CachedOK(sealed, q) /\ RefsOK(sealed, Held(req))
    BY <1>4, <2>1
  <2> HIDE DEF sealed
  <2> QED
    BY <1>0, <1>3, <2>1, <2>2, <2>3, <2>4, CachedPreempt
<1> QED
  BY <1>2, <1>3, <1>7, <1>8, <1>9, EmitTokenEffect

\* A turn that is admitted finds nothing of its session in the pool beyond its
\* prompt.
LEMMA AdmitCached ==
  ASSUME ComputedInv, Admit, TypeInv'
  PROVE  CachedOK(pool', req')
<1> DEFINE r == Head(waiting)
<1>0. /\ waiting \in Seq(Req) /\ waiting # <<>> /\ QueuesOK /\ TurnsOK
      /\ RefsInv /\ ContextOK(req) /\ CachedOK(pool, req)
      /\ req \in [Req -> Request] /\ IsTable(req) /\ IsTable(req') /\ IsPool(pool)
  BY DEF ComputedInv, OrderInv, TypeInv, TypeOK, Admit, CanAdmit, IsTable, IsPool
<1>1. r \in Req /\ req[r].state = "waiting"
  BY <1>0, InStateTail DEF QueuesOK
<1>2. PICK h \in Hits(r) :
        /\ \E g \in Acquired(pool, Keys(r[1], 0, h), Keys(r[1], h, PromptBlocks(r))) :
             pool' = MarkFull(g, Keys(r[1], h, FullBlocks(r)))
        /\ req' = [req EXCEPT ![r] =
                     [state |-> "prefill", blocks |-> PromptBlocks(r),
                      ctx |-> Turn(r).prompt, prefilled |-> h * BlockSize,
                      generated |-> req[r].generated, scheduled |-> TRUE]]
  BY DEF Admit
<1>3. PICK g \in Acquired(pool, Keys(r[1], 0, h), Keys(r[1], h, PromptBlocks(r))) :
        pool' = MarkFull(g, Keys(r[1], h, FullBlocks(r)))
  BY <1>2
<1>4. /\ req'[r].state = "prefill" /\ req'[r].blocks = PromptBlocks(r)
      /\ req'[r].ctx = Turn(r).prompt
      /\ \A x \in Req \ {r} : req'[x] = req[x]
  <2> DEFINE w == [state |-> "prefill", blocks |-> PromptBlocks(r),
                   ctx |-> Turn(r).prompt, prefilled |-> h * BlockSize,
                   generated |-> req[r].generated, scheduled |-> TRUE]
  <2>1. w.state = "prefill" /\ w.blocks = PromptBlocks(r) /\ w.ctx = Turn(r).prompt
    OBVIOUS
  <2>2. req' = [req EXCEPT ![r] = w]
    BY <1>2
  <2> HIDE DEF w, r
  <2> QED
    BY <1>0, <1>1, <2>1, <2>2
<1> HIDE DEF r
<1> DEFINE s == r[1]
           hits == Keys(s, 0, h)
           news == Keys(s, h, PromptBlocks(r))
           whole == Keys(s, h, FullBlocks(r))
<1>5. /\ s \in Nat /\ PromptBlocks(r) \in Nat /\ FullBlocks(r) \in Nat /\ h \in Nat
      /\ Turn(r).prompt \in Nat /\ FullBlocks(r) * BlockSize <= Turn(r).prompt
      /\ hits \subseteq DOMAIN pool /\ hits \cap news = {} /\ news \in SUBSET Key
  <2>1. /\ s \in Nat /\ PromptBlocks(r) \in Nat /\ FullBlocks(r) \in Nat
        /\ Turn(r).prompt \in Nat /\ FullBlocks(r) * BlockSize <= Turn(r).prompt
    BY <1>1, ReqFacts, PromptBlocksFacts, DivFacts, EngineAssumption DEF Sessions, FullBlocks
  <2>2. h \in 0 .. PromptBlocks(r) /\ hits \subseteq DOMAIN pool
    BY <1>1, <1>2, HitsResident
  <2> QED
    BY <2>1, <2>2, AdmissionKeys
<1>6. /\ IsPool(g) /\ DOMAIN g \subseteq DOMAIN pool \cup news
      /\ \A k \in DOMAIN g :
           g[k].ref = (IF k \in DOMAIN pool THEN pool[k].ref ELSE 0)
                        + (IF k \in hits \cup news THEN 1 ELSE 0)
  BY <1>0, <1>3, <1>5, AcquiredRefs
<1>7. \A k \in DOMAIN g :
         \/ k \in DOMAIN pool /\ g[k].full = pool[k].full /\ g[k].ready = pool[k].ready
         \/ k \in news /\ g[k] = NewBlock
  BY <1>0, <1>3, AcquiredMarks
<1>8. /\ DOMAIN pool' = DOMAIN g
      /\ \A k \in DOMAIN g : /\ pool'[k].full = (k \in whole \/ g[k].full)
                             /\ pool'[k].ready = g[k].ready /\ pool'[k].ref = g[k].ref
  <2> HIDE DEF whole
  <2> QED
    BY <1>3, <1>6, MarkFullType, MarkFullMarks DEF whole
\* What the session left in the pool.
<1>9. ASSUME NEW k \in DOMAIN pool, k[1] = s, ~Shared(k)
      PROVE  Usable(pool, k) /\ (k[2] + 1) * BlockSize <= Turn(r).prompt
  <2>1. k \notin Held(req)[r]
    BY <1>1 DEF Held, Busy
  <2>2. HeldBy(Held(req), k) = {}
    BY <1>0, <1>1, <1>9, <2>1, SessionHolders
  <2>3. pool[k].ref = 0
    BY <1>0, <1>9, <2>2, FS_EmptySet DEF RefsInv, RefsOK
  <2>4. Usable(pool, k)
    BY <1>0, <2>3 DEF CachedOK
  <2>5. PICK x \in Req : req[x].state \in {"decode", "done"} /\ Reaches(req, x, k)
    BY <1>0, <1>9, <2>4 DEF CachedOK, Computed
  <2>6. x # r /\ x[1] = s /\ req[x].ctx >= (k[2] + 1) * BlockSize
    BY <1>1, <1>9, <2>5 DEF Reaches
  <2>7. req[x].ctx <= Turn(r).prompt
    BY <1>0, <1>1, <2>5, <2>6, EarlierContexts
  <2>8. req[x].ctx \in Nat /\ (k[2] + 1) * BlockSize \in Nat
    <3>1. req[x] \in Request /\ k \in Nat \X Nat
      BY <1>0, <1>9 DEF IsPool, Key
    <3>2. req[x].ctx \in Nat /\ k[2] + 1 \in Nat
      BY <3>1 DEF Request
    <3> QED
      BY <3>2, EngineAssumption
  <2> QED
    BY <1>5, <2>4, <2>6, <2>7, <2>8
<1>10. /\ \A k \in whole : /\ ~Shared(k) => k[1] = s
                           /\ (k[2] + 1) * BlockSize <= Turn(r).prompt
       /\ \A k \in news : ~Shared(k) => k[1] = s /\ k[2] >= SharedBlocks
       /\ \A k \in BlockKeys(s, PromptBlocks(r)) : ~Shared(k) => k[1] = s
  <2>1. ASSUME NEW k \in whole
        PROVE  (k[2] + 1) * BlockSize <= Turn(r).prompt
    <3>1. k[2] \in h .. FullBlocks(r) - 1
      BY <1>5, ChainKey
    <3>2. k[2] \in Nat /\ k[2] < FullBlocks(r)
      BY <1>5, <3>1
    <3> QED
      BY <1>5, <3>2, TokensOfBlocks
  <2>2. \A k \in whole : ~Shared(k) => k[1] = s
    BY <1>5, ChainKey DEF Shared
  <2>3. \A k \in news : ~Shared(k) => k[1] = s /\ k[2] >= SharedBlocks
    BY <1>5, ChainKey DEF Shared
  <2>4. \A k \in BlockKeys(s, PromptBlocks(r)) : ~Shared(k) => k[1] = s
    BY <1>5, BlockKey, ChainKey DEF Shared
  <2> QED
    BY <2>1, <2>2, <2>3, <2>4
<1>11. \A k : Computed(req, k) => Computed(req', k)
  BY <1>1, <1>4 DEF Computed, Reaches
<1> HIDE DEF hits, news, whole
<1>12. \A k \in DOMAIN pool' : pool'[k].ref = 0 => Usable(pool', k)
  <2> TAKE k \in DOMAIN pool'
  <2> HAVE pool'[k].ref = 0
  <2>1. k \notin news /\ k \in DOMAIN pool /\ pool[k].ref = 0
    BY <1>0, <1>5, <1>6, <1>8 DEF IsPool, Block
  <2>2. Usable(pool, k) /\ g[k].full = pool[k].full /\ g[k].ready = pool[k].ready
    BY <1>0, <1>7, <1>8, <2>1 DEF CachedOK
  <2> QED
    BY <1>8, <2>2 DEF Usable
<1>13. \A k \in DOMAIN pool' : ~Shared(k) => k[2] >= SharedBlocks
  BY <1>0, <1>6, <1>8, <1>10 DEF CachedOK
<1>14. ASSUME NEW k, Usable(pool', k), ~Shared(k)
       PROVE  Computed(req', k)
  <2>1. k \in DOMAIN g /\ g[k].ready /\ (k \in whole \/ g[k].full)
    BY <1>8, <1>14 DEF Usable
  <2>2. k \in DOMAIN pool /\ g[k].full = pool[k].full /\ g[k].ready = pool[k].ready
    <3>1. ~NewBlock.ready
      BY DEF NewBlock
    <3>2. CASE k \in news /\ g[k] = NewBlock
      BY <2>1, <3>1, <3>2
    <3> QED
      BY <1>7, <2>1, <3>2
  <2>3. Usable(pool, k)
    <3>1. CASE k \in whole
      BY <1>9, <1>10, <1>14, <2>2, <3>1
    <3>2. CASE g[k].full
      BY <2>1, <2>2, <3>2 DEF Usable
    <3> QED
      BY <2>1, <3>1, <3>2
  <2> QED
    BY <1>0, <1>11, <1>14, <2>3 DEF CachedOK
<1>15. ASSUME NEW x \in Req, req'[x].state \in Busy,
              NEW k \in BlockKeys(x[1], req'[x].blocks), k \in DOMAIN pool', ~Shared(k),
              pool'[k].full
       PROVE  Reaches(req', x, k)
  <2>1. k \in DOMAIN g /\ (k \in whole \/ (k \in DOMAIN pool /\ pool[k].full))
    <3>1. ~NewBlock.full
      BY DEF NewBlock
    <3>2. k \in DOMAIN g /\ (k \in whole \/ g[k].full)
      BY <1>8, <1>15
    <3>3. CASE g[k].full
      <4>1. CASE k \in news /\ g[k] = NewBlock
        BY <3>1, <3>3, <4>1
      <4> QED
        BY <1>7, <3>2, <3>3, <4>1
    <3> QED
      BY <3>2, <3>3
  <2>2. CASE x = r
    <3>1. k[1] = s
      BY <1>4, <1>10, <1>15, <2>2
    <3>2. (k[2] + 1) * BlockSize <= Turn(r).prompt
      BY <1>9, <1>10, <1>15, <2>1, <3>1
    <3>3. (k[2] + 1) * BlockSize \in Nat
      BY <1>6, <2>1, EngineAssumption DEF IsPool, Key
    <3> QED
      BY <1>4, <1>5, <2>2, <3>1, <3>2, <3>3 DEF Reaches
  <2>3. CASE x # r
    <3>1. req'[x] = req[x] /\ req[x].state \in Busy
      BY <1>4, <1>15, <2>3
    <3>2. k[1] = x[1]
      <4>1. req[x].blocks \in Nat
        BY <1>0 DEF Request
      <4> QED
        BY <1>15, <3>1, <4>1, BlockKey, ChainKey DEF Shared
    <3>3. k \notin whole
      BY <1>0, <1>1, <1>10, <1>15, <2>3, <3>1, <3>2, OneOutstanding DEF Busy
    <3>4. Reaches(req, x, k)
      BY <1>0, <1>15, <2>1, <3>1, <3>3 DEF CachedOK
    <3> QED
      BY <3>1, <3>4 DEF Reaches
  <2> QED
    BY <2>2, <2>3
<1> QED
  BY <1>12, <1>13, <1>14, <1>15 DEF CachedOK

(***************************************************************************)
(* Contexts.                                                               *)
(***************************************************************************)
LEMMA TokenContext ==
  ASSUME TypeOK, TurnsOK, ContextOK(req), FirstToken \/ NextToken, OrderInv
  PROVE  ContextOK(req')
<1>1. PICK r, p, q : Emitting(r, p, q)
  BY TokenEmits
<1>2. /\ r \in Req /\ IsTable(q) /\ EmitToken(r, p, q) /\ Emits(r, q)
      /\ q[r].state = "decode" /\ req[r].state \in Busy
      /\ q[r].ctx = req[r].ctx /\ q[r].generated = req[r].generated
      /\ \A x \in Req \ {r} : q[x] = req[x]
  BY <1>1 DEF Emitting, Emits
<1>3. ContextOK(q)
  BY <1>2 DEF ContextOK, Busy
<1>4. /\ q[r].ctx = Turn(r).prompt + q[r].generated /\ q[r].generated < Turn(r).output
      /\ q[r].generated \in Nat /\ Turn(r).prompt \in Nat /\ Turn(r).output \in Nat
  BY <1>2, <1>3, ReqFacts DEF ContextOK, Busy, IsTable, Request
<1>5. CASE Advanced(r, p, q)
  <2>1. /\ req'[r].state = "decode" /\ req'[r].ctx = q[r].ctx + 1
        /\ req'[r].generated = q[r].generated + 1 /\ q[r].generated + 1 < Turn(r).output
        /\ \A x \in Req \ {r} : req'[x] = q[x]
    BY <1>2, <1>5 DEF Advanced
  <2>2. /\ req'[r].ctx = Turn(r).prompt + req'[r].generated
        /\ req'[r].generated < Turn(r).output
    BY <1>4, <2>1
  <2> QED
    BY <1>3, <2>1, <2>2 DEF ContextOK
<1>6. CASE Finished(r, p, q)
  <2>1. PICK d :
          /\ q[r].generated + 1 >= Turn(r).output
          /\ IsTable(d) /\ d[r].state = "done" /\ d[r].ctx = q[r].ctx + 1
          /\ \A x \in Req \ {r} : d[x] = q[x]
          /\ TurnDone(r, d)
    BY <1>6 DEF Finished
  <2>2. d[r].ctx = Turn(r).prompt + Turn(r).output
    BY <1>4, <2>1
  <2>3. ContextOK(d)
    BY <1>3, <2>1, <2>2 DEF ContextOK, Busy
  <2>4. ASSUME NEW n \in Req, NEW st \in {"pending", "due"}, Pushed(r, d, n, st)
        PROVE  ContextOK(req')
    <3>1. req'[n].state = st /\ \A x \in Req \ {n} : req'[x] = d[x]
      BY <2>4 DEF Pushed, NewRequest
    <3> QED
      BY <2>3, <3>1 DEF ContextOK, Busy
  <2>5. \/ req' = d
        \/ \E n \in Req, st \in {"pending", "due"} : Pushed(r, d, n, st)
    BY <1>2, <2>1, TurnDoneEffect
  <2> QED
    BY <2>3, <2>4, <2>5
<1>7. CASE Preempted(r, p, q)
  <2>1. PICK v \in Running :
          /\ req'[v].state = "waiting" /\ \A x \in Req \ {v} : req'[x] = q[x]
    BY <1>7 DEF Preempted
  <2> QED
    BY <1>3, <2>1 DEF ContextOK, Busy
<1> QED
  BY <1>2, <1>5, <1>6, <1>7, EmitTokenEffect

LEMMA AdmitContext ==
  ASSUME TypeOK, OrderInv, ContextOK(req), Admit
  PROVE  ContextOK(req')
<1> DEFINE r == Head(waiting)
<1>0. /\ waiting \in Seq(Req) /\ waiting # <<>> /\ QueuesOK /\ TurnsOK
      /\ req \in [Req -> Request]
  BY DEF OrderInv, TypeOK, Admit, CanAdmit
<1>1. r \in Req /\ req[r].state = "waiting"
  BY <1>0, InStateTail DEF QueuesOK
<1>2. PICK w : /\ req' = [req EXCEPT ![r] = w]
               /\ w.state = "prefill" /\ w.ctx = Turn(r).prompt
               /\ w.generated = req[r].generated
  <2> DEFINE new(h) == [state |-> "prefill", blocks |-> PromptBlocks(r),
                        ctx |-> Turn(r).prompt, prefilled |-> h * BlockSize,
                        generated |-> req[r].generated, scheduled |-> TRUE]
  <2>1. PICK h \in Hits(r) : req' = [req EXCEPT ![r] = new(h)]
    BY DEF Admit
  <2>2. /\ new(h).state = "prefill" /\ new(h).ctx = Turn(r).prompt
        /\ new(h).generated = req[r].generated
    OBVIOUS
  <2> HIDE DEF new
  <2> QED
    BY <2>1, <2>2
<1> HIDE DEF r
<1>3. w.generated = 0
  BY <1>0, <1>1, <1>2 DEF TurnsOK
<1>4. Turn(r).prompt \in Nat /\ Turn(r).output \in Nat \ {0}
  BY <1>1, ReqFacts
<1>5. \A x \in Req : req'[x] = IF x = r THEN w ELSE req[x]
  BY <1>0, <1>1, <1>2
<1> QED
  BY <1>2, <1>3, <1>4, <1>5 DEF ContextOK

\* A step that leaves the pool and moves no request into or out of a batch.
LEMMA QuietComputed ==
  ASSUME ContextOK(req), CachedOK(pool, req), TypeOK, TypeOK', pool' = pool,
         \A x \in Req :
            \/ /\ req'[x].state = req[x].state /\ req'[x].blocks = req[x].blocks
               /\ req'[x].ctx = req[x].ctx /\ req'[x].generated = req[x].generated
            \/ {req[x].state, req'[x].state} \cap {"prefill", "decode", "done"} = {}
  PROVE  ContextOK(req') /\ CachedOK(pool', req')
<1>1. IsTable(req) /\ IsTable(req') /\ IsPool(pool)
  BY DEF TypeOK, IsTable, IsPool
<1>2. \A x \in Req : req[x].ctx \in Nat /\ req'[x].ctx \in Nat
  BY <1>1 DEF IsTable, Request
<1>3. \A x \in Req :
         /\ req'[x].state \in Busy =>
              req[x].state \in Busy /\ req'[x].blocks = req[x].blocks /\ req'[x].ctx >= req[x].ctx
         /\ req[x].state \in {"decode", "done"} =>
              req'[x].state \in {"decode", "done"} /\ req'[x].ctx >= req[x].ctx
  <2> TAKE x \in Req
  <2>1. CASE /\ req'[x].state = req[x].state /\ req'[x].blocks = req[x].blocks
             /\ req'[x].ctx = req[x].ctx /\ req'[x].generated = req[x].generated
    BY <1>2, <2>1
  <2>2. CASE {req[x].state, req'[x].state} \cap {"prefill", "decode", "done"} = {}
    <3>1. req[x].state \notin {"prefill", "decode", "done"}
          /\ req'[x].state \notin {"prefill", "decode", "done"}
      BY <2>2
    <3> QED
      BY <3>1 DEF Busy
  <2> QED
    BY <2>1, <2>2
<1>4. CachedOK(pool, req')
  BY <1>1, <1>3, CachedFrame
<1>5. ContextOK(req')
  BY DEF ContextOK, Busy
<1> QED
  BY <1>4, <1>5

LEMMA NextComputed ==
  ASSUME LongOutputs, ComputedInv, [Next]_vars
  PROVE  ComputedInv'
<1>0. /\ TypeInv /\ OrderInv /\ TurnsOK /\ QueuesOK /\ RefsInv /\ CoverOK(req)
      /\ ContextOK(req) /\ CachedOK(pool, req) /\ TypeOK
      /\ waiting \in Seq(Req) /\ due \in Seq(Req) /\ req \in [Req -> Request]
      /\ prefilling \subseteq Req
  BY DEF ComputedInv, OrderInv, TypeInv, TypeOK
<1>1. TypeInv' /\ OrderInv' /\ RefsInv' /\ CoverOK(req)' /\ TypeOK'
  <2>1. TypeInv' /\ OrderInv' /\ RefsInv' /\ CoverOK(req)'
    BY <1>0, NextTypeInv, NextOrder, NextRefs, NextCovers
  <2> QED
    BY <2>1 DEF TypeInv
<1>2. SUFFICES ContextOK(req') /\ CachedOK(pool', req')
  BY <1>1 DEF ComputedInv
<1>3. CASE FirstToken \/ NextToken
  BY <1>0, <1>1, <1>3, TokenContext, TokenCached
<1>4. CASE Admit
  BY <1>0, <1>1, <1>4, AdmitContext, AdmitCached
<1>5. ASSUME NEW r \in Req, NEW st \in {"due", "waiting"},
             req[r].state \in {"pending", "due"},
             req' = [req EXCEPT ![r].state = st], pool' = pool
      PROVE  ContextOK(req') /\ CachedOK(pool', req')
  <2>1. req'[r].state = st /\ \A x \in Req \ {r} : req'[x] = req[x]
    BY <1>0, <1>5
  <2> QED
    BY <1>0, <1>1, <1>5, <2>1, QuietComputed
<1>6. CASE DrainOne
  <2>1. Head(due) \in Req /\ req[Head(due)].state = "due"
    BY <1>0, <1>6, InStateTail DEF DrainOne, QueuesOK
  <2>2. req' = [req EXCEPT ![Head(due)].state = "waiting"] /\ pool' = pool
    BY <1>6 DEF DrainOne
  <2> QED
    BY <1>5, <2>1, <2>2
<1>7. CASE \E r \in Req : PauseElapses(r)
  BY <1>5, <1>7 DEF PauseElapses
<1>8. CASE AllocateChunk
  <2>1. PICK r \in prefilling : \E e : req' = [req EXCEPT ![r].prefilled = e]
    BY <1>8 DEF AllocateChunk
  <2>2. \A x \in Req : /\ req'[x].state = req[x].state /\ req'[x].blocks = req[x].blocks
                       /\ req'[x].ctx = req[x].ctx /\ req'[x].generated = req[x].generated
    BY <1>0, <2>1 DEF Request
  <2>3. pool' = pool
    BY <1>8 DEF AllocateChunk
  <2> QED
    BY <1>0, <1>1, <2>2, <2>3, QuietComputed
<1>9. CASE \/ EnterAdmission \/ GoIdle \/ Wake \/ RunDone \/ BeginStep \/ Stall
           \/ StartClock \/ ClockAdvanced \/ EndStep \/ Stopped \/ UNCHANGED vars
  <2>1. req' = req /\ pool' = pool
    BY <1>9 DEF EnterAdmission, GoIdle, Wake, RunDone, BeginStep, Stall, StartClock,
                ClockAdvanced, EndStep, Stopped, vars
  <2> QED
    BY <1>0, <2>1
<1> QED
  BY <1>3, <1>4, <1>6, <1>7, <1>8, <1>9 DEF Next, Loop

\* A block that the pool offers for reuse, full and ready, was computed, if every
\* output is longer than one token (mark_ready in Engine.run and _seal_tail).
THEOREM CachedIsComputed ==
  ASSUME LongOutputs
  PROVE  Spec => []CachedMeansComputed
<1>1. Init => ComputedInv
  <2> SUFFICES ASSUME Init PROVE CoverOK(req) /\ ContextOK(req) /\ CachedOK(pool, req)
    BY InitTypeInv, InitOrder, InitRefs DEF ComputedInv
  <2>1. \A st : NewRequest(st).state = st
    BY DEF NewRequest
  <2>2. \A x \in Req : req[x].state \in {"absent", "due", "pending"}
    BY <2>1 DEF Init
  <2>3. DOMAIN pool = {}
    BY DEF Init
  <2> QED
    BY <2>2, <2>3 DEF CoverOK, ContextOK, CachedOK, Usable, Busy
<1>2. ComputedInv /\ [Next]_vars => ComputedInv'
  BY NextComputed
<1>3. ComputedInv => CachedMeansComputed
  <2> SUFFICES ASSUME ComputedInv, NEW k \in DOMAIN pool, Usable(pool, k) /\ k[1] # Sys
               PROVE  \E r \in Req :
                        /\ r[1] = k[1]
                        /\ served[r] > 0 \/ req[r].state = "decode"
                        /\ req[r].ctx >= (k[2] + 1) * BlockSize
    BY DEF CachedMeansComputed
  <2>1. PICK r \in Req : req[r].state \in {"decode", "done"} /\ Reaches(req, r, k)
    BY DEF ComputedInv, CachedOK, Computed, Shared
  <2>2. req[r].state = "done" => served[r] > 0
    BY DEF ComputedInv, OrderInv, TurnsOK
  <2> QED
    BY <2>1, <2>2 DEF Reaches
<1> QED
  BY <1>1, <1>2, <1>3, PTL DEF Spec
=============================================================================
