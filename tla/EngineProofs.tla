----------------------------- MODULE EngineProofs -----------------------------
(***************************************************************************)
(* Types and capacity of Engine, for every trace, pool size and engine     *)
(* configuration its assumptions allow, and the lemmas about numbers and   *)
(* about the pool operations of PrefixCache that the other proofs cite.    *)
(***************************************************************************)
EXTENDS Engine, FiniteSetTheorems, TLAPS

\* A set of numbers below a bound has a least one.
LEMMA LeastNumber ==
  ASSUME NEW n \in Nat, NEW S \in SUBSET (0 .. n), S # {}
  PROVE  \E m \in S : \A i \in S : m <= i
<1> DEFINE All == 0 .. n
           Downs == {0 .. m : m \in S}
<1>1. IsFiniteSet(All)
  BY FS_Interval
<1>2. IsWellFoundedOn(StrictSubsetOrdering(All), SUBSET All)
  BY <1>1, FS_FiniteSubsetsOfFinite, FS_StrictSubsetOrderingWellFounded
<1>3. Downs \subseteq SUBSET All
  OBVIOUS
<1>4. PICK D \in Downs : TRUE
  OBVIOUS
<1> HIDE DEF Downs, All
<1>5. PICK M \in Downs : \A T \in Downs : ~(<<T, M>> \in StrictSubsetOrdering(All))
  BY <1>2, <1>3, <1>4, WFMin
<1> USE DEF Downs, All
<1>6. PICK m \in S : M = 0 .. m
  OBVIOUS
<1>7. ASSUME NEW i \in S, ~(m <= i)
      PROVE  FALSE
  <2>1. 0 .. i \in Downs
    OBVIOUS
  <2>2. /\ 0 .. i \subseteq M /\ 0 .. i # M
        /\ M \in SUBSET All /\ 0 .. i \in SUBSET All
    BY <1>6, <1>7
  <2> QED
    BY <1>5, <2>1, <2>2 DEF StrictSubsetOrdering
<1> QED
  BY <1>7

(***************************************************************************)
(* The pool operations.                                                    *)
(***************************************************************************)
IsPool(p) == DOMAIN p \subseteq Key /\ p \in [DOMAIN p -> Block]

\* Chains are made of keys.
LEMMA KeyAtType ==
  ASSUME NEW s \in Nat, NEW i \in Nat
  PROVE  KeyAt(s, i) \in Key
  BY DEF KeyAt, Key, Sys

LEMMA BlockKeysType ==
  ASSUME NEW s \in Nat, NEW n \in Nat
  PROVE  BlockKeys(s, n) \subseteq Key
  BY KeyAtType DEF BlockKeys

\* The operations take pools to pools (the methods of BlockPool leave an index
\* of well-formed blocks).
LEMMA MarkFullType ==
  ASSUME NEW p, IsPool(p), NEW K
  PROVE  /\ IsPool(MarkFull(p, K))
         /\ DOMAIN MarkFull(p, K) = DOMAIN p
         /\ \A k \in DOMAIN p : MarkFull(p, K)[k].ref = p[k].ref
  BY DEF IsPool, MarkFull, Block

LEMMA MarkReadyType ==
  ASSUME NEW p, IsPool(p), NEW K
  PROVE  /\ IsPool(MarkReady(p, K))
         /\ DOMAIN MarkReady(p, K) = DOMAIN p
         /\ \A k \in DOMAIN p : MarkReady(p, K)[k].ref = p[k].ref
  BY DEF IsPool, MarkReady, Block

LEMMA HoldType ==
  ASSUME NEW p, IsPool(p), NEW K
  PROVE  /\ IsPool(Hold(p, K))
         /\ DOMAIN Hold(p, K) = DOMAIN p
         /\ \A k \in DOMAIN p : Hold(p, K)[k].ref = IF k \in K THEN p[k].ref + 1 ELSE p[k].ref
  BY DEF IsPool, Hold, Block

\* A pool after an acquire has exactly one more reference to every key that was
\* asked for, holds them all, and has lost nothing but blocks nobody held.
LEMMA AcquiredRefs ==
  ASSUME NEW p, IsPool(p), NEW hits, NEW news \in SUBSET Key,
         hits \subseteq DOMAIN p, hits \cap news = {},
         NEW g \in Acquired(p, hits, news)
  PROVE  /\ IsPool(g)
         /\ hits \cup news \subseteq DOMAIN g
         /\ DOMAIN g \subseteq DOMAIN p \cup news
         /\ \A k \in DOMAIN p \ DOMAIN g : p[k].ref = 0
         /\ \A k \in DOMAIN g :
              g[k].ref = (IF k \in DOMAIN p THEN p[k].ref ELSE 0)
                           + (IF k \in hits \cup news THEN 1 ELSE 0)
<1> DEFINE held == Hold(p, hits)
<1>1. PICK V \in Victims(held, Cardinality(news)) : g = Materialise(Evict(held, V), news)
  BY DEF Acquired
<1>2. /\ IsPool(held)
      /\ DOMAIN held = DOMAIN p
      /\ \A k \in DOMAIN p : held[k].ref = IF k \in hits THEN p[k].ref + 1 ELSE p[k].ref
  BY HoldType
<1>3. \A k \in V : k \in DOMAIN p /\ k \notin hits /\ p[k].ref = 0
  <2>1. V \subseteq Evictable(held)
    BY DEF Victims
  <2> QED
    BY <2>1, <1>2 DEF Evictable, IsPool, Block
<1> DEFINE e == Evict(held, V)
<1>4. /\ DOMAIN e = DOMAIN p \ V
      /\ \A k \in DOMAIN e : e[k] = held[k]
  BY <1>2 DEF Evict
<1>5. /\ DOMAIN g = DOMAIN e \cup news
      /\ \A k \in DOMAIN g \ news : k \in DOMAIN e /\ g[k] = e[k]
      /\ \A k \in news \cap DOMAIN e : g[k] = [e[k] EXCEPT !.ref = @ + 1]
      /\ \A k \in news \ DOMAIN e : g[k] = NewBlock
  BY <1>1 DEF Materialise
<1>6. IsPool(e)
  BY <1>2, <1>4 DEF Evict, IsPool
<1> HIDE DEF held, e
<1>7. \A k \in DOMAIN g : g[k] \in Block
  <2> TAKE k \in DOMAIN g
  <2>1. CASE k \notin news
    BY <2>1, <1>5, <1>6 DEF IsPool
  <2>2. CASE k \in news /\ k \notin DOMAIN e
    <3>1. g[k] = NewBlock
      BY <2>2, <1>5 
    <3> QED
      BY <3>1 DEF NewBlock, Block
  <2>3. CASE k \in news /\ k \in DOMAIN e
    BY <2>3, <1>5, <1>6 DEF IsPool, Block
  <2> QED
    BY <2>1, <2>2, <2>3
<1>8. IsPool(g)
  <2>1. g = [k \in DOMAIN g |-> g[k]]
    BY <1>1 DEF Materialise
  <2> QED
    BY <2>1, <1>5, <1>6, <1>7 DEF IsPool
<1>9. \A k \in DOMAIN g :
        g[k].ref = (IF k \in DOMAIN p THEN p[k].ref ELSE 0)
                     + (IF k \in hits \cup news THEN 1 ELSE 0)
  <2> TAKE k \in DOMAIN g
  <2>1. CASE k \notin news
    BY <2>1, <1>2, <1>3, <1>4, <1>5 DEF IsPool, Block
  <2>2. CASE k \in news /\ k \notin DOMAIN e
    <3>1. k \in DOMAIN p => p[k].ref = 0
      BY <2>2, <1>3, <1>4
    <3>2. g[k].ref = 1
      BY <2>2, <1>5 DEF NewBlock
    <3> QED
      BY <2>2, <3>1, <3>2
  <2>3. CASE k \in news /\ k \in DOMAIN e
    <3>1. e[k] \in Block /\ e[k].ref = p[k].ref /\ k \in DOMAIN p
      BY <2>3, <1>2, <1>4, <1>6 DEF IsPool
    <3>2. g[k].ref = e[k].ref + 1
      BY <2>3, <1>5, <3>1 DEF Block
    <3> QED
      BY <2>3, <3>1, <3>2 DEF Block
  <2> QED
    BY <2>1, <2>2, <2>3
<1> QED
  BY <1>2, <1>3, <1>4, <1>5, <1>8, <1>9

\* A release takes one reference off every key it names and drops no block that
\* is still referenced.
LEMMA ReleaseRefs ==
  ASSUME NEW p, IsPool(p), NEW K, NEW cacheable \in BOOLEAN
  PROVE  /\ IsPool(Release(p, K, cacheable))
         /\ DOMAIN Release(p, K, cacheable) \subseteq DOMAIN p
         /\ \A k \in DOMAIN p \ DOMAIN Release(p, K, cacheable) : k \in K /\ p[k].ref <= 1
         /\ \A k \in DOMAIN Release(p, K, cacheable) :
              Release(p, K, cacheable)[k].ref =
                IF k \in K THEN (IF p[k].ref > 1 THEN p[k].ref - 1 ELSE 0) ELSE p[k].ref
  BY DEF IsPool, Release, Block

\* Every block after an acquire has the marks it had, or is a new one.
LEMMA AcquiredMarks ==
  ASSUME NEW p, IsPool(p), NEW hits, NEW news, NEW g \in Acquired(p, hits, news)
  PROVE  \A k \in DOMAIN g :
           \/ k \in DOMAIN p /\ g[k].full = p[k].full /\ g[k].ready = p[k].ready
           \/ k \in news /\ g[k] = NewBlock
<1> DEFINE held == Hold(p, hits)
<1>1. PICK V \in Victims(held, Cardinality(news)) : g = Materialise(Evict(held, V), news)
  BY DEF Acquired
<1>2. /\ DOMAIN held = DOMAIN p
      /\ \A k \in DOMAIN p : /\ held[k].full = p[k].full /\ held[k].ready = p[k].ready
                            /\ held[k] \in Block
  BY DEF Hold, IsPool, Block
<1> HIDE DEF held
<1> DEFINE e == Evict(held, V)
<1>3. /\ DOMAIN e = DOMAIN p \ V
      /\ \A k \in DOMAIN e : /\ e[k].full = p[k].full /\ e[k].ready = p[k].ready
                            /\ e[k] \in Block
  BY <1>2 DEF Evict
<1>4. /\ \A k \in DOMAIN g \ news : k \in DOMAIN e /\ g[k] = e[k]
      /\ \A k \in news \cap DOMAIN e : g[k] = [e[k] EXCEPT !.ref = @ + 1]
      /\ \A k \in news \ DOMAIN e : g[k] = NewBlock
  BY <1>1 DEF Materialise
<1> HIDE DEF e
<1> TAKE k \in DOMAIN g
<1>5. CASE k \notin news
  BY <1>3, <1>4, <1>5
<1>6. CASE k \in news /\ k \in DOMAIN e
  <2>1. \A w \in Block : LET u == [w EXCEPT !.ref = @ + 1]
                         IN  u.full = w.full /\ u.ready = w.ready
    BY DEF Block
  <2>2. g[k] = [e[k] EXCEPT !.ref = @ + 1] /\ e[k] \in Block
    BY <1>3, <1>4, <1>6
  <2> QED
    BY <1>3, <1>6, <2>1, <2>2
<1>7. CASE k \in news /\ k \notin DOMAIN e
  BY <1>4, <1>7
<1> QED
  BY <1>5, <1>6, <1>7

\* A release leaves the marks, and a block that it leaves without a holder is
\* full and computed.
LEMMA ReleaseMarks ==
  ASSUME NEW p, IsPool(p), NEW K, NEW c \in BOOLEAN, NEW g, g = Release(p, K, c)
  PROVE  \A k \in DOMAIN g :
           /\ k \in DOMAIN p /\ g[k].full = p[k].full /\ g[k].ready = p[k].ready
           /\ g[k].ref = 0 => p[k].ref = 0 \/ (p[k].full /\ p[k].ready)
           /\ k \in K /\ ~c => p[k].ref > 1
  BY DEF IsPool, Release, Block

LEMMA MarkFullMarks ==
  ASSUME NEW p, IsPool(p), NEW K
  PROVE  \A k \in DOMAIN p : /\ MarkFull(p, K)[k].full = (k \in K \/ p[k].full)
                             /\ MarkFull(p, K)[k].ready = p[k].ready
  BY DEF IsPool, MarkFull, Block

LEMMA MarkReadyMarks ==
  ASSUME NEW p, IsPool(p), NEW K
  PROVE  \A k \in DOMAIN p : /\ MarkReady(p, K)[k].ready = (k \in K \/ p[k].ready)
                             /\ MarkReady(p, K)[k].full = p[k].full
  BY DEF IsPool, MarkReady, Block

(***************************************************************************)
(* Requests and their turns.                                               *)
(***************************************************************************)
LEMMA ReqFacts ==
  ASSUME NEW r \in Req
  PROVE  /\ r[1] \in Sessions /\ r[1] \in Nat
         /\ r[2] \in 1 .. Len(Trace[r[1]])
         /\ r = <<r[1], r[2]>>
         /\ Turn(r) \in TurnRec
         /\ Turn(r).prompt \in Nat \ {0}
         /\ Turn(r).output \in Nat \ {0}
         /\ ~IsLast(r) => NextTurn(r) \in Req
<1>1. PICK s \in Sessions : r \in {<<s, t>> : t \in 1 .. Len(Trace[s])}
  BY DEF Req
<1>2. PICK t \in 1 .. Len(Trace[s]) : r = <<s, t>>
  BY <1>1
<1>3. Trace[s] \in Seq(TurnRec)
  BY EngineAssumption DEF Sessions
<1>4. Trace[s][t] \in TurnRec
  BY <1>3
<1>5. Len(Trace[s]) \in Nat /\ Len(Trace) \in Nat
  BY <1>3, EngineAssumption
<1>6. ~IsLast(r) => t + 1 \in 1 .. Len(Trace[s])
  BY <1>2, <1>5 DEF IsLast
<1>7. ~IsLast(r) => NextTurn(r) \in Req
  BY <1>2, <1>6 DEF NextTurn, Req
<1> QED
  BY <1>2, <1>4, <1>5, <1>7 DEF Turn, TurnRec, Sessions

\* Every session has a first turn.
LEMMA FirstTurn ==
  ASSUME NEW s \in Sessions
  PROVE  <<s, 1>> \in Req
<1>1. Len(Trace[s]) \in Nat /\ Len(Trace[s]) > 0
  BY EngineAssumption DEF Sessions
<1> QED
  BY <1>1 DEF Req

LEMMA InitiallyType == Initially \in 1 .. Len(Trace)
  BY EngineAssumption DEF Initially, Least

(***************************************************************************)
(* Blocks of a prompt.                                                     *)
(***************************************************************************)
LEMMA DivFacts ==
  ASSUME NEW n \in Nat, NEW d \in Nat \ {0}
  PROVE  /\ n \div d \in Nat
         /\ (n \div d) * d <= n
         /\ n < (n \div d) * d + d
<1>1. n \div d \in Nat /\ (n \div d) * d <= n
  OBVIOUS
<1>2. n < (n \div d) * d + d
  OBVIOUS
<1> QED
  BY <1>1, <1>2

\* The blocks of a prompt cover it and the last one is not empty; the full ones
\* are all of them or all but the last.
LEMMA PromptBlocksFacts ==
  ASSUME NEW r \in Req
  PROVE  /\ PromptBlocks(r) \in Nat \ {0} /\ FullBlocks(r) \in Nat
         /\ FullBlocks(r) * BlockSize <= Turn(r).prompt
         /\ Turn(r).prompt <= PromptBlocks(r) * BlockSize
         /\ Turn(r).prompt > (PromptBlocks(r) - 1) * BlockSize
         /\ FullBlocks(r) <= PromptBlocks(r)
<1> DEFINE p == Turn(r).prompt
           m == p + BlockSize - 1
<1>0. p \in Nat \ {0}
  BY ReqFacts
<1>1. p \in Nat \ {0} /\ BlockSize \in Nat \ {0} /\ m \in Nat
  BY <1>0, EngineAssumption
<1> HIDE DEF p
<1>2. /\ m \div BlockSize \in Nat
      /\ (m \div BlockSize) * BlockSize <= m
      /\ m < (m \div BlockSize) * BlockSize + BlockSize
  BY <1>1, DivFacts
<1>3. /\ p \div BlockSize \in Nat
      /\ (p \div BlockSize) * BlockSize <= p
      /\ p < (p \div BlockSize) * BlockSize + BlockSize
  BY <1>1, DivFacts
<1> DEFINE pb == m \div BlockSize
           fb == p \div BlockSize
<1>4. PromptBlocks(r) = pb /\ FullBlocks(r) = fb
  BY DEF PromptBlocks, FullBlocks, CeilDiv, p
<1> HIDE DEF pb, fb
<1>5. pb \in Nat /\ fb \in Nat /\ pb * BlockSize \in Nat /\ fb * BlockSize \in Nat
  BY <1>1, <1>2, <1>3 DEF pb, fb
<1>6. p <= pb * BlockSize /\ pb * BlockSize <= p + BlockSize - 1 /\ fb * BlockSize <= p
  BY <1>1, <1>2, <1>3, <1>5 DEF pb, fb
<1>7. pb # 0
  BY <1>1, <1>5, <1>6
<1>8. (pb - 1) * BlockSize = pb * BlockSize - BlockSize
  BY <1>1, <1>5
<1>9. fb <= pb
  <2>1. SUFFICES ASSUME pb + 1 <= fb PROVE FALSE
    BY <1>5
  <2>2. (pb + 1) * BlockSize <= fb * BlockSize
    BY <1>1, <1>5, <2>1
  <2>3. (pb + 1) * BlockSize = pb * BlockSize + BlockSize
    BY <1>1, <1>5
  <2> QED
    BY <1>1, <1>5, <1>6, <2>2, <2>3
<1> QED
  BY <1>1, <1>4, <1>5, <1>6, <1>7, <1>8, <1>9 DEF p

(***************************************************************************)
(* Type correctness.  The stall counter is past its limit only once the    *)
(* loop has raised: with that TypeOK is inductive.                         *)
(***************************************************************************)
IsTable(q) ==
  /\ q \in [Req -> Request]
  /\ \A r \in Req : q[r].prefilled <= Turn(r).prompt

TypeInv ==
  /\ TypeOK
  /\ pc # "stalled" => stall <= StallLimit

LEMMA NewRequestType ==
  ASSUME NEW st \in States
  PROVE  NewRequest(st) \in Request
  BY DEF NewRequest, Request

LEMMA InitTypeInv == Init => TypeInv
<1> SUFFICES ASSUME Init PROVE TypeInv
  OBVIOUS
<1>1. DOMAIN pool \subseteq Key /\ pool \in [DOMAIN pool -> Block]
  BY DEF Init
<1>2. /\ req \in [Req -> Request]
      /\ \A r \in Req : req[r].prefilled = 0
  BY NewRequestType DEF Init, NewRequest, Request, States
<1>3. \A r \in Req : req[r].prefilled <= Turn(r).prompt
  BY <1>2, ReqFacts
<1>4. due \in Seq(Req)
  <2>1. Initially \in Nat /\ \A s \in 1 .. Initially : <<s, 1>> \in Req
    BY InitiallyType, FirstTurn, EngineAssumption DEF Sessions
  <2> QED
    BY <2>1 DEF Init
<1>5. started \in 1 .. Len(Trace)
  BY InitiallyType, EngineAssumption DEF Init
<1>6. /\ admit \in [Req -> Nat] /\ served \in [Req -> Nat]
      /\ waiting \in Seq(Req)
      /\ live \subseteq Sessions
      /\ budget \in Int
      /\ prefilling \subseteq Req /\ completed \subseteq Req /\ decoding \subseteq Req
      /\ stall \in 0 .. StallLimit + 1 /\ stall <= StallLimit
      /\ pc = "arrive"
  BY DEF Init, StallLimit
<1>7. TypeOK
  BY <1>1, <1>2, <1>3, <1>4, <1>5, <1>6 DEF TypeOK
<1> QED
  BY <1>3, <1>6, <1>7 DEF TypeInv

\* The end of a turn keeps the driver's variables well formed.
LEMMA TurnDoneType ==
  ASSUME TypeOK, NEW r \in Req, NEW q, IsTable(q), TurnDone(r, q)
  PROVE  /\ IsTable(req')
         /\ due' \in Seq(Req)
         /\ started' \in 1 .. Len(Trace)
         /\ live' \subseteq Sessions
<1>0. live \subseteq Sessions /\ started \in 1 .. Len(Trace) /\ due \in Seq(Req)
  BY DEF TypeOK
<1>1. live' \subseteq Sessions
  <2>1. live' = IF IsLast(r) THEN live \ {r[1]} ELSE live
    BY DEF TurnDone
  <2> QED
    BY <1>0, <2>1
<1>2. started' \in 1 .. Len(Trace)
  <2>1. started' = IF StartsAnother(r) THEN started + 1 ELSE started
    BY DEF TurnDone
  <2>2. Len(Trace) \in Nat
    BY EngineAssumption
  <2> QED
    BY <1>0, <2>1, <2>2 DEF StartsAnother
<1> DEFINE next == IF IsLast(r) THEN <<started + 1, 1>> ELSE NextTurn(r)
<1>3. CASE IsLast(r) /\ ~StartsAnother(r)
  <2>1. req' = q /\ due' = due
    BY <1>3 DEF TurnDone
  <2> QED
    BY <1>0, <1>1, <1>2, <2>1
<1>4. CASE ~(IsLast(r) /\ ~StartsAnother(r))
  <2>1. next \in Req
    <3>1. CASE IsLast(r)
      <4>1. started + 1 \in Sessions
        BY <1>0, <1>4, <3>1, EngineAssumption DEF StartsAnother, Sessions
      <4> QED
        BY <4>1, <3>1, FirstTurn
    <3>2. CASE ~IsLast(r)
      BY <3>2, ReqFacts
    <3> QED
      BY <3>1, <3>2
  <2>2. PICK st \in {"pending", "due"} :
          /\ req' = [q EXCEPT ![next] = NewRequest(st)]
          /\ due' = due \/ due' = Append(due, next)
    BY <1>4 DEF TurnDone
  <2> HIDE DEF next
  <2>3. due' \in Seq(Req)
    BY <1>0, <2>1, <2>2
  <2>4. NewRequest(st) \in Request /\ NewRequest(st).prefilled = 0
    BY NewRequestType DEF States, NewRequest
  <2>5. IsTable(req')
    BY <2>1, <2>2, <2>4, ReqFacts DEF IsTable
  <2> QED
    BY <1>1, <1>2, <2>3, <2>5
<1> QED
  BY <1>3, <1>4

TablesOK ==
  /\ IsPool(pool)
  /\ IsTable(req)
  /\ admit \in [Req -> Nat] /\ served \in [Req -> Nat]
  /\ waiting \in Seq(Req) /\ due \in Seq(Req)
  /\ started \in 1 .. Len(Trace) /\ live \subseteq Sessions

LEMMA ProduceTokenType ==
  ASSUME TypeOK, NEW r \in Req, NEW p, IsPool(p),
         NEW q, IsTable(q),
         ProduceToken(r, p, q)
  PROVE  TablesOK'
<1> DEFINE q0 == [q EXCEPT ![r].generated = @ + 1]
           q1 == [q0 EXCEPT ![r].ctx = @ + 1]
           q2 == [q1 EXCEPT ![r].state = "done"]
<1>0. /\ admit \in [Req -> Nat] /\ served \in [Req -> Nat]
      /\ waiting \in Seq(Req) /\ due \in Seq(Req)
      /\ started \in 1 .. Len(Trace) /\ live \subseteq Sessions
  BY DEF TypeOK
<1>1. /\ q[r] \in Request /\ Turn(r).output \in Nat
      /\ q \in [Req -> Request]
  BY ReqFacts DEF IsTable
<1>2. /\ q1 \in [Req -> Request]
      /\ q1[r].generated = q[r].generated + 1
      /\ q1[r].prefilled = q[r].prefilled
      /\ \A x \in Req \ {r} : q1[x] = q[x]
  <2>1. /\ q0 \in [Req -> Request]
        /\ q0[r].generated = q[r].generated + 1
        /\ q0[r].prefilled = q[r].prefilled
        /\ \A x \in Req \ {r} : q0[x] = q[x]
    BY <1>1 DEF Request
  <2> HIDE DEF q0
  <2> QED
    BY <2>1 DEF Request
<1>3. IsTable(q1)
  BY <1>1, <1>2 DEF IsTable, Request
<1> HIDE DEF q1
<1>4. IsTable(q2)
  <2>1. /\ q2 \in [Req -> Request]
        /\ q2[r].generated = q1[r].generated
        /\ q2[r].prefilled = q1[r].prefilled
        /\ q2[r].state = "done"
        /\ \A x \in Req \ {r} : q2[x] = q1[x]
    BY <1>2 DEF Request, States
  <2> QED
    BY <1>3, <2>1 DEF IsTable
<1> HIDE DEF q2
<1>5. CASE OutputDone(q1, r)
  <2>1. Finish(r, p, q1)
    BY <1>5 DEF ProduceToken, q0, q1
  <2>2. TurnDone(r, q2)
    BY <2>1 DEF Finish, q2
  <2>3. /\ IsTable(req')
        /\ due' \in Seq(Req)
        /\ started' \in 1 .. Len(Trace)
        /\ live' \subseteq Sessions
    BY <1>4, <2>2, TurnDoneType
  <2>4. IsPool(pool')
    <3> DEFINE sealed == IF q1[r].ctx % BlockSize = 0 /\ q1[r].blocks > 0
                         THEN Seal(p, TailKey(q1, r)) ELSE p
    <3>1. IsPool(sealed)
      BY MarkFullType, MarkReadyType DEF Seal
    <3>2. pool' = Release(sealed, Chain(q1, r), TRUE)
      BY <2>1 DEF Finish
    <3> QED
      BY <3>1, <3>2, ReleaseRefs
  <2>5. served' \in [Req -> Nat] /\ admit' = admit /\ waiting' = waiting
    BY <1>0, <2>1 DEF Finish
  <2> QED
    BY <1>0, <2>3, <2>4, <2>5 DEF TablesOK, IsTable
<1>6. CASE ~OutputDone(q1, r)
  <2>1. /\ pool' = p /\ req' = q1
        /\ UNCHANGED <<admit, waiting, due, started, live, served>>
    BY <1>6 DEF ProduceToken, q0, q1
  <2>3. IsTable(req')
    BY <1>3, <2>1
  <2> QED
    BY <1>0, <2>1, <2>3 DEF TablesOK, IsTable
<1> QED
  BY <1>5, <1>6

LEMMA PreemptOneType ==
  ASSUME TypeOK, NEW p, IsPool(p),
         NEW q, IsTable(q), PreemptOne(p, q)
  PROVE  TablesOK'
<1>0. /\ admit \in [Req -> Nat] /\ served \in [Req -> Nat]
      /\ waiting \in Seq(Req) /\ due \in Seq(Req)
      /\ started \in 1 .. Len(Trace) /\ live \subseteq Sessions
  BY DEF TypeOK
<1>1. PICK v \in Running :
        /\ pool' = Release(p, Chain(q, v), FALSE)
        /\ req' = [q EXCEPT ![v] = [NewRequest("waiting") EXCEPT !.scheduled = q[v].scheduled]]
        /\ admit' = [admit EXCEPT ![v] = 0]
        /\ waiting' = Requeue(v)
        /\ UNCHANGED <<due, started, live, served>>
  BY DEF PreemptOne
<1>2. v \in Req
  BY DEF Running
<1> DEFINE w == [NewRequest("waiting") EXCEPT !.scheduled = q[v].scheduled]
<1>3. w \in Request /\ w.prefilled = 0
  BY <1>2 DEF NewRequest, Request, States, IsTable
<1> HIDE DEF w
<1>4. req' = [q EXCEPT ![v] = w]
  BY <1>1 DEF w
<1>5. IsTable(req')
  BY <1>2, <1>3, <1>4, ReqFacts DEF IsTable
<1>6. IsPool(pool')
  BY <1>1, ReleaseRefs
<1>7. waiting' \in Seq(Req) /\ admit' \in [Req -> Nat]
  BY <1>0, <1>1, <1>2 DEF Requeue
<1> QED
  BY <1>0, <1>1, <1>5, <1>6, <1>7 DEF TablesOK, IsTable

LEMMA EmitTokenType ==
  ASSUME TypeOK, NEW r \in Req, NEW p, IsPool(p),
         NEW q, IsTable(q),
         EmitToken(r, p, q)
  PROVE  TablesOK'
<1>1. CASE ~NeedsBlock(q, r)
  BY <1>1, ProduceTokenType DEF EmitToken
<1>2. CASE NeedsBlock(q, r)
  <2> DEFINE sealed == Seal(p, TailKey(q, r))
             new    == {KeyAt(r[1], q[r].blocks)}
             grown  == [q EXCEPT ![r].blocks = @ + 1]
  <2>1. IsPool(sealed)
    BY MarkFullType, MarkReadyType DEF Seal
  <2>2. new \subseteq Key
    BY KeyAtType, ReqFacts DEF IsTable, Request
  <2>3. IsTable(grown)
    BY DEF IsTable, Request
  <2> HIDE DEF sealed, new, grown
  <2>4. ASSUME NEW g \in Acquired(sealed, {}, new), ProduceToken(r, g, grown)
        PROVE  TablesOK'
    <3>1. IsPool(g)
      BY <2>1, <2>2, <2>4, AcquiredRefs
    <3> QED
      BY <2>3, <2>4, <3>1, ProduceTokenType
  <2>5. ASSUME PreemptOne(sealed, q)
        PROVE  TablesOK'
    BY <2>1, <2>5, PreemptOneType
  <2> QED
    BY <1>2, <2>4, <2>5 DEF EmitToken, sealed, new, grown
<1> QED
  BY <1>1, <1>2

(***************************************************************************)
(* The requests are finitely many.                                         *)
(***************************************************************************)
LEMMA ReqFinite == IsFiniteSet(Req)
<1> DEFINE TurnsOf(s) == {<<s, t>> : t \in 1 .. Len(Trace[s])}
           f == [s \in Sessions |-> TurnsOf(s)]
           All == {TurnsOf(s) : s \in Sessions}
<1>1. \A s \in Sessions : IsFiniteSet(TurnsOf(s))
  <2> TAKE s \in Sessions
  <2> DEFINE I == 1 .. Len(Trace[s])
  <2>1. Len(Trace[s]) \in Nat
    BY EngineAssumption DEF Sessions
  <2>2. IsFiniteSet(I)
    BY <2>1, FS_Interval
  <2>3. IsFiniteSet({s} \X I)
    BY <2>2, FS_Singleton, FS_Product
  <2>4. TurnsOf(s) \subseteq {s} \X I
    OBVIOUS
  <2> QED
    BY <2>3, <2>4, FS_Subset
<1>2. IsFiniteSet(Sessions)
  BY FS_Interval, EngineAssumption DEF Sessions
<1>3. f \in Surjection(Sessions, All)
  BY DEF Surjection
<1>4. IsFiniteSet(All)
  BY <1>2, <1>3, FS_Surjection
<1>5. Req = UNION All
  BY DEF Req
<1> QED
  BY <1>1, <1>4, <1>5, FS_UNION

LEMMA TokenBudgetType ==
  ASSUME NEW D \in SUBSET Req
  PROVE  TokenBudget(D) \in Int
<1>1. Cardinality(D) \in Nat
  BY ReqFinite, FS_Subset, FS_CardinalityType
<1>2. MaxBatched \in Nat
  BY EngineAssumption
<1> QED
  BY <1>1, <1>2 DEF TokenBudget

(***************************************************************************)
(* One lemma for each group of actions that writes the same variables.     *)
(***************************************************************************)
LEMMA TablesSuffice ==
  ASSUME TablesOK', budget' \in Int,
         prefilling' \subseteq Req, completed' \subseteq Req, decoding' \subseteq Req,
         stall' \in 0 .. StallLimit,
         pc' \in {"arrive", "admit", "chunk", "step", "idle", "emit", "done", "stalled"}
  PROVE  TypeInv'
  BY DEF TypeInv, TypeOK, TablesOK, IsPool, IsTable, StallLimit

LEMMA TypeInvTables ==
  ASSUME TypeInv
  PROVE  TablesOK
  BY DEF TypeInv, TypeOK, TablesOK, IsPool, IsTable

tables == <<pool, req, admit, waiting, due, started, live, served>>

LEMMA TablesFrame ==
  ASSUME TablesOK, UNCHANGED tables
  PROVE  TablesOK'
  BY DEF TablesOK, tables, IsPool, IsTable

\* Actions that move the control, the budget or the loop's lists, and nothing
\* else but the end of the step, which clears admit_seq.
LEMMA ControlType ==
  ASSUME TypeInv,
         \/ EnterAdmission \/ GoIdle \/ Wake \/ RunDone \/ BeginStep \/ Stall
         \/ StartClock \/ ClockAdvanced \/ EndStep
  PROVE  TypeInv'
<1> DEFINE Pcs == {"arrive", "admit", "chunk", "step", "idle", "emit", "done", "stalled"}
<1>0. /\ TablesOK
      /\ budget \in Int
      /\ prefilling \subseteq Req /\ completed \subseteq Req /\ decoding \subseteq Req
      /\ stall \in 0 .. StallLimit + 1 /\ (pc # "stalled" => stall \in 0 .. StallLimit)
      /\ Running \subseteq Req
      /\ 0 \in 0 .. StallLimit
  BY TypeInvTables DEF TypeInv, TypeOK, Running, StallLimit
<1>1. CASE EnterAdmission
  <2>1. /\ UNCHANGED tables
        /\ prefilling' \subseteq Req /\ completed' \subseteq Req /\ decoding' \subseteq Req
        /\ stall' \in 0 .. StallLimit /\ pc' \in Pcs
        /\ budget' = TokenBudget(decoding')
    BY <1>0, <1>1 DEF EnterAdmission, tables
  <2>2. budget' \in Int
    BY <2>1, TokenBudgetType
  <2> QED
    BY <1>0, <2>1, <2>2, TablesFrame, TablesSuffice
<1>2. CASE GoIdle \/ Wake \/ RunDone
  <2>1. /\ UNCHANGED tables
        /\ prefilling' \subseteq Req /\ completed' \subseteq Req /\ decoding' \subseteq Req
        /\ budget' \in Int
        /\ stall' \in 0 .. StallLimit /\ pc' \in Pcs
    BY <1>0, <1>2 DEF GoIdle, Wake, RunDone, tables
  <2> QED
    BY <1>0, <2>1, TablesFrame, TablesSuffice
<1>3. CASE BeginStep
  <2>1. /\ UNCHANGED tables
        /\ prefilling' \subseteq Req /\ completed' \subseteq Req /\ decoding' \subseteq Req
        /\ stall' \in 0 .. StallLimit /\ pc' \in Pcs
        /\ budget' = TokenBudget(decoding)
    BY <1>0, <1>3 DEF BeginStep, tables
  <2>2. budget' \in Int
    BY <1>0, <2>1, TokenBudgetType
  <2> QED
    BY <1>0, <2>1, <2>2, TablesFrame, TablesSuffice
<1>4. CASE StartClock \/ ClockAdvanced
  <2>1. /\ UNCHANGED tables
        /\ prefilling' \subseteq Req /\ completed' \subseteq Req /\ decoding' \subseteq Req
        /\ budget' \in Int
        /\ stall' \in 0 .. StallLimit /\ pc' \in Pcs
    BY <1>0, <1>4 DEF StartClock, ClockAdvanced, tables
  <2> QED
    BY <1>0, <2>1, TablesFrame, TablesSuffice
<1>5. CASE Stall
  <2>1. /\ UNCHANGED tables
        /\ prefilling' \subseteq Req /\ completed' \subseteq Req /\ decoding' \subseteq Req
        /\ budget' \in Int
        /\ pc = "admit" /\ stall' = stall + 1
        /\ pc' = IF stall + 1 > StallLimit THEN "stalled" ELSE "arrive"
    BY <1>0, <1>5 DEF Stall, tables
  <2>2. CASE stall + 1 > StallLimit
    <3>1. TablesOK'
      BY <1>0, <2>1, TablesFrame
    <3>2. stall' \in 0 .. StallLimit + 1 /\ pc' = "stalled"
      BY <1>0, <2>1, <2>2 DEF StallLimit
    <3> QED
      BY <2>1, <3>1, <3>2 DEF TypeInv, TypeOK, TablesOK, IsPool, IsTable
  <2>3. CASE stall + 1 <= StallLimit
    <3>1. stall' \in 0 .. StallLimit /\ pc' \in Pcs
      BY <1>0, <2>1, <2>3 DEF StallLimit
    <3> QED
      BY <1>0, <2>1, <3>1, TablesFrame, TablesSuffice
  <2> QED
    BY <1>0, <2>2, <2>3 DEF StallLimit
<1>6. CASE EndStep
  <2>1. /\ UNCHANGED <<pool, req, waiting, due, started, live, served>>
        /\ prefilling' \subseteq Req /\ completed' \subseteq Req /\ decoding' \subseteq Req
        /\ budget' \in Int
        /\ stall' \in 0 .. StallLimit /\ pc' \in Pcs
    BY <1>0, <1>6 DEF EndStep
  <2>2. admit' \in [Req -> Nat]
    BY <1>0, <1>6 DEF EndStep, TablesOK
  <2>3. TablesOK'
    BY <1>0, <2>1, <2>2 DEF TablesOK, IsPool, IsTable
  <2> QED
    BY <2>1, <2>3, TablesSuffice
<1> QED
  BY <1>1, <1>2, <1>3, <1>4, <1>5, <1>6

LEMMA ArrivalType ==
  ASSUME TypeInv, DrainOne \/ \E r \in Req : PauseElapses(r)
  PROVE  TypeInv'
<1> DEFINE Pcs == {"arrive", "admit", "chunk", "step", "idle", "emit", "done", "stalled"}
<1>0. /\ TablesOK
      /\ budget \in Int
      /\ prefilling \subseteq Req /\ completed \subseteq Req /\ decoding \subseteq Req
      /\ pc \in Pcs /\ (pc # "stalled" => stall \in 0 .. StallLimit)
      /\ due \in Seq(Req) /\ waiting \in Seq(Req) /\ live \subseteq Sessions
      /\ IsTable(req)
  BY TypeInvTables DEF TypeInv, TypeOK, TablesOK, StallLimit
<1>1. ASSUME NEW r \in Req, NEW st \in {"due", "waiting"},
             req' = [req EXCEPT ![r].state = st]
      PROVE  IsTable(req')
  <2>1. req \in [Req -> Request] /\ \A x \in Req : req[x].prefilled <= Turn(x).prompt
    BY <1>0 DEF IsTable
  <2>2. [req[r] EXCEPT !.state = st] \in Request
    BY <1>1, <2>1 DEF Request, States
  <2>3. req' \in [Req -> Request]
    BY <1>1, <2>1, <2>2
  <2>4. \A x \in Req : req'[x].prefilled = req[x].prefilled
    BY <1>1, <2>1 DEF Request
  <2> QED
    BY <2>1, <2>3, <2>4 DEF IsTable
<1>2. CASE DrainOne
  <2> DEFINE r == Head(due)
  <2>1. r \in Req /\ Tail(due) \in Seq(Req)
    BY <1>0, <1>2 DEF DrainOne
  <2>2. /\ UNCHANGED <<pool, admit, started, served, budget, prefilling,
                       completed, decoding, stall, pc>>
        /\ req' = [req EXCEPT ![r].state = "waiting"]
        /\ waiting' = Append(waiting, r)
        /\ due' = Tail(due)
        /\ live' = IF IsFirst(r) THEN live \cup {r[1]} ELSE live
        /\ pc = "arrive"
    BY <1>2 DEF DrainOne
  <2> HIDE DEF r
  <2>3. waiting' \in Seq(Req) /\ due' \in Seq(Req) /\ live' \subseteq Sessions
    BY <1>0, <2>1, <2>2, ReqFacts
  <2>4. IsTable(req')
    BY <1>1, <2>1, <2>2
  <2>5. TablesOK'
    BY <1>0, <2>2, <2>3, <2>4 DEF TablesOK, IsPool, IsTable
  <2> QED
    BY <1>0, <2>2, <2>5, TablesSuffice
<1>3. ASSUME NEW r \in Req, PauseElapses(r)
      PROVE  TypeInv'
  <2>1. /\ UNCHANGED <<pool, admit, waiting, started, live, served, budget,
                       prefilling, completed, decoding, stall, pc>>
        /\ req' = [req EXCEPT ![r].state = "due"]
        /\ due' = Append(due, r)
        /\ pc \in {"step", "idle"}
    BY <1>3 DEF PauseElapses
  <2>2. due' \in Seq(Req)
    BY <1>0, <2>1
  <2>3. IsTable(req')
    BY <1>1, <2>1
  <2>4. TablesOK'
    BY <1>0, <2>1, <2>2, <2>3 DEF TablesOK, IsPool, IsTable
  <2> QED
    BY <1>0, <2>1, <2>4, TablesSuffice
<1> QED
  BY <1>2, <1>3

LEMMA AllocateChunkType ==
  ASSUME TypeInv, AllocateChunk
  PROVE  TypeInv'
<1>0. /\ TablesOK
      /\ budget \in Int /\ budget > 0
      /\ prefilling \subseteq Req /\ completed \subseteq Req /\ decoding \subseteq Req
      /\ stall \in 0 .. StallLimit /\ pc = "chunk"
      /\ IsTable(req)
  BY TypeInvTables DEF TypeInv, TypeOK, TablesOK, AllocateChunk, StallLimit
<1>1. PICK r \in prefilling :
        /\ req' = [req EXCEPT ![r].prefilled = req[r].prefilled + Chunk(r)]
        /\ budget' = budget - Chunk(r)
        /\ completed' \subseteq completed \cup {r}
        /\ prefilling' = prefilling \ {r}
        /\ UNCHANGED <<pool, admit, waiting, due, started, live, served,
                       decoding, stall, pc>>
  BY DEF AllocateChunk
<1>2. /\ r \in Req
      /\ Chunk(r) \in Nat
      /\ req[r].prefilled \in Nat
      /\ req[r].prefilled + Chunk(r) <= Turn(r).prompt
  BY <1>0, <1>1, ReqFacts DEF Chunk, Least, IsTable, Request
<1> DEFINE n == req[r].prefilled + Chunk(r)
<1>3. n \in Nat /\ n <= Turn(r).prompt /\ req' = [req EXCEPT ![r].prefilled = n]
  BY <1>1, <1>2
<1> HIDE DEF n
<1>4. IsTable(req')
  BY <1>0, <1>2, <1>3 DEF IsTable, Request
<1>5. TablesOK'
  BY <1>0, <1>1, <1>4 DEF TablesOK, IsPool, IsTable
<1>6. budget' \in Int /\ completed' \subseteq Req /\ prefilling' \subseteq Req
  BY <1>0, <1>1, <1>2
<1> QED
  BY <1>0, <1>1, <1>5, <1>6, TablesSuffice

\* The hits and the misses of an admission are the chain of the prompt, and
\* every hit is resident.
LEMMA AdmissionKeys ==
  ASSUME NEW s \in Nat, NEW n \in Nat, NEW h \in 0 .. n
  PROVE  /\ Keys(s, 0, h) \cap Keys(s, h, n) = {}
         /\ Keys(s, 0, h) \cup Keys(s, h, n) = BlockKeys(s, n)
         /\ Keys(s, h, n) \subseteq Key
<1>1. ASSUME NEW i \in Nat, NEW j \in Nat, KeyAt(s, i) = KeyAt(s, j)
      PROVE  i = j
  BY <1>1 DEF KeyAt
<1>2. Keys(s, 0, h) \cap Keys(s, h, n) = {}
  <2>1. SUFFICES ASSUME NEW i \in 0 .. h - 1, NEW j \in h .. n - 1,
                        KeyAt(s, i) = KeyAt(s, j)
                 PROVE  FALSE
    BY DEF Keys
  <2> QED
    BY <1>1, <2>1
<1>3. 0 .. n - 1 = (0 .. h - 1) \cup (h .. n - 1)
  OBVIOUS
<1>4. Keys(s, 0, h) \cup Keys(s, h, n) = BlockKeys(s, n)
  BY <1>3 DEF Keys, BlockKeys
<1>5. Keys(s, h, n) \subseteq Key
  BY <1>4, BlockKeysType
<1> QED
  BY <1>2, <1>4, <1>5

LEMMA HitsResident ==
  ASSUME NEW r \in Req, NEW h \in Hits(r)
  PROVE  /\ h \in 0 .. FullBlocks(r) /\ h \in 0 .. PromptBlocks(r) /\ h \in Nat
         /\ h * BlockSize \in Nat /\ h * BlockSize <= Turn(r).prompt
         /\ Keys(r[1], 0, h) \subseteq DOMAIN pool
<1>1. h \in 0 .. FullBlocks(r) /\ IsPrefixHit(pool, r[1], FullBlocks(r), h)
  BY DEF Hits
<1>2. /\ FullBlocks(r) \in Nat /\ PromptBlocks(r) \in Nat
      /\ FullBlocks(r) <= PromptBlocks(r)
      /\ FullBlocks(r) * BlockSize <= Turn(r).prompt
      /\ BlockSize \in Nat /\ Turn(r).prompt \in Nat
  BY PromptBlocksFacts, EngineAssumption, ReqFacts
<1>3. h \in Nat /\ h <= FullBlocks(r)
  BY <1>1, <1>2
<1>4. h * BlockSize \in Nat /\ h * BlockSize <= FullBlocks(r) * BlockSize
  BY <1>2, <1>3
<1>5. FullBlocks(r) * BlockSize \in Nat
  BY <1>2
<1>6. h * BlockSize <= Turn(r).prompt
  BY <1>2, <1>4, <1>5
<1>7. Keys(r[1], 0, h) \subseteq DOMAIN pool
  BY <1>1, <1>3 DEF Keys, IsPrefixHit, Usable
<1> QED
  BY <1>1, <1>2, <1>3, <1>4, <1>6, <1>7

LEMMA AdmitType ==
  ASSUME TypeInv, Admit
  PROVE  TypeInv'
<1> DEFINE r == Head(waiting)
           s == r[1]
<1>0. /\ TablesOK /\ IsPool(pool)
      /\ budget \in Int
      /\ prefilling \subseteq Req /\ completed \subseteq Req /\ decoding \subseteq Req
      /\ stall \in 0 .. StallLimit /\ pc = "admit"
      /\ admit \in [Req -> Nat]
      /\ IsTable(req)
      /\ waiting \in Seq(Req) /\ waiting # <<>>
  <2>1. pc = "admit" /\ waiting # <<>>
    BY DEF Admit, CanAdmit
  <2> QED
    BY <2>1, TypeInvTables DEF TypeInv, TypeOK, TablesOK, StallLimit
<1>1. r \in Req /\ Tail(waiting) \in Seq(Req) /\ s \in Nat
  BY <1>0, ReqFacts
<1>2. /\ \E n \in NextSeqs : admit' = [admit EXCEPT ![r] = n]
      /\ waiting' = Tail(waiting)
      /\ budget' = budget - 1
      /\ UNCHANGED <<due, started, live, served, prefilling, completed, decoding,
                     stall, pc>>
  BY DEF Admit
<1>3. PICK h \in Hits(r) :
        /\ \E p \in Acquired(pool, Keys(s, 0, h), Keys(s, h, PromptBlocks(r))) :
             pool' = MarkFull(p, Keys(s, h, FullBlocks(r)))
        /\ req' = [req EXCEPT ![r] =
                     [state |-> "prefill", blocks |-> PromptBlocks(r),
                      ctx |-> Turn(r).prompt, prefilled |-> h * BlockSize,
                      generated |-> req[r].generated, scheduled |-> TRUE]]
  BY DEF Admit
<1> HIDE DEF r, s
<1>4. \A n \in NextSeqs : n \in Nat
  BY <1>0 DEF NextSeqs, Running
<1>5. admit' \in [Req -> Nat]
  BY <1>0, <1>2, <1>4
<1>6. /\ h \in 0 .. PromptBlocks(r) /\ h * BlockSize \in Nat
      /\ h * BlockSize <= Turn(r).prompt
      /\ Keys(s, 0, h) \subseteq DOMAIN pool
      /\ PromptBlocks(r) \in Nat /\ Turn(r).prompt \in Nat
  BY <1>1, HitsResident, PromptBlocksFacts, ReqFacts DEF s
<1>7. PICK p \in Acquired(pool, Keys(s, 0, h), Keys(s, h, PromptBlocks(r))) :
        pool' = MarkFull(p, Keys(s, h, FullBlocks(r)))
  BY <1>3
<1>8a. IsPool(pool)
  BY <1>0
<1>8. IsPool(p)
  BY <1>1, <1>6, <1>8a, AdmissionKeys, AcquiredRefs
<1>9. IsPool(pool')
  BY <1>7, <1>8, MarkFullType
<1> DEFINE x == [state |-> "prefill", blocks |-> PromptBlocks(r),
                 ctx |-> Turn(r).prompt, prefilled |-> h * BlockSize,
                 generated |-> req[r].generated, scheduled |-> TRUE]
<1>10. req[r].generated \in Nat
  BY <1>0, <1>1 DEF IsTable, Request
<1>11. x \in Request /\ x.prefilled <= Turn(r).prompt
  BY <1>6, <1>10 DEF Request, States
<1>12. req' = [req EXCEPT ![r] = x]
  BY <1>3
<1> HIDE DEF x
<1>13. IsTable(req')
  BY <1>0, <1>1, <1>11, <1>12 DEF IsTable
<1>14. TablesOK'
  BY <1>0, <1>1, <1>2, <1>5, <1>9, <1>13 DEF TablesOK, IsPool, IsTable
<1>15. budget' \in Int
  BY <1>0, <1>2
<1> QED
  BY <1>0, <1>2, <1>14, <1>15, TablesSuffice

LEMMA TokenType ==
  ASSUME TypeInv, FirstToken \/ NextToken
  PROVE  TypeInv'
<1>0. /\ TypeOK /\ IsPool(pool) /\ IsTable(req)
      /\ budget \in Int
      /\ prefilling \subseteq Req /\ completed \subseteq Req /\ decoding \subseteq Req
      /\ stall \in 0 .. StallLimit /\ pc = "emit"
  BY DEF TypeInv, TypeOK, IsPool, IsTable, FirstToken, NextToken, StallLimit
<1>1. CASE FirstToken
  <2> DEFINE q(r) == [req EXCEPT ![r].state = "decode"]
             p(r) == MarkReady(pool, Chain(req, r))
  <2>1. PICK r \in FirstTokens : EmitToken(r, p(r), q(r)) /\ completed' = completed \ {r}
    BY <1>1 DEF FirstToken
  <2>2. r \in Req /\ IsPool(p(r)) /\ IsTable(q(r))
    <3>1. r \in Req
      BY <1>0 DEF FirstTokens
    <3>2. IsPool(p(r))
      BY <1>0, MarkReadyType
    <3>3. IsTable(q(r))
      BY <1>0, <3>1 DEF IsTable, Request, States
    <3> QED
      BY <3>1, <3>2, <3>3
  <2> HIDE DEF p, q
  <2>3. TablesOK'
    BY <1>0, <2>1, <2>2, EmitTokenType
  <2>4. UNCHANGED <<budget, prefilling, decoding, stall, pc>>
    BY <1>1 DEF FirstToken
  <2> QED
    BY <1>0, <2>1, <2>3, <2>4, TablesSuffice
<1>2. CASE NextToken
  <2>1. PICK r \in NextTokens : EmitToken(r, pool, req) /\ decoding' = decoding \ {r}
    BY <1>2 DEF NextToken
  <2>2. r \in Req
    BY <1>0 DEF NextTokens
  <2>3. TablesOK'
    BY <1>0, <2>1, <2>2, EmitTokenType
  <2>4. UNCHANGED <<budget, prefilling, completed, stall, pc>>
    BY <1>2 DEF NextToken
  <2> QED
    BY <1>0, <2>1, <2>3, <2>4, TablesSuffice
<1> QED
  BY <1>1, <1>2

LEMMA NextTypeInv == TypeInv /\ [Next]_vars => TypeInv'
<1> SUFFICES ASSUME TypeInv, [Next]_vars PROVE TypeInv'
  OBVIOUS
<1>1. CASE \/ EnterAdmission \/ GoIdle \/ Wake \/ RunDone \/ BeginStep \/ Stall
           \/ StartClock \/ ClockAdvanced \/ EndStep
  BY <1>1, ControlType
<1>2. CASE DrainOne \/ \E r \in Req : PauseElapses(r)
  BY <1>2, ArrivalType
<1>3. CASE Admit
  BY <1>3, AdmitType
<1>4. CASE AllocateChunk
  BY <1>4, AllocateChunkType
<1>5. CASE FirstToken \/ NextToken
  BY <1>5, TokenType
<1>6. CASE Stopped \/ UNCHANGED vars
  <2>1. UNCHANGED vars
    BY <1>6 DEF Stopped
  <2> QED
    BY <2>1 DEF vars, TypeInv, TypeOK
<1> QED
  BY <1>1, <1>2, <1>3, <1>4, <1>5, <1>6 DEF Next, Loop

\* Every state of a run is well typed: in particular no reference count, no
\* chain length and no token counter goes below zero, no key is malformed,
\* and prefill stops at the prompt (all of sim/engine.py and sim/cache.py, for
\* every trace, also those whose outputs are a single token).
THEOREM TypeCorrect == Spec => []TypeOK
<1>1. TypeInv => TypeOK
  BY DEF TypeInv
<1> QED
  BY <1>1, InitTypeInv, NextTypeInv, PTL DEF Spec

(***************************************************************************)
(* Capacity: the pool stays within it and the feasibility check of acquire *)
(* is exact.                                                               *)
(***************************************************************************)
Fitting(p) == IsFiniteSet(DOMAIN p) /\ Cardinality(DOMAIN p) <= Capacity

\* An acquire evicts enough: whatever victims it takes, the pool it leaves has
\* room for the new blocks (BlockPool._evict after the feasibility check).
LEMMA AcquiredFits ==
  ASSUME NEW p, Fitting(p), NEW hits, NEW news, IsFiniteSet(news),
         NEW g \in Acquired(p, hits, news)
  PROVE  Fitting(g)
<1> DEFINE held == Hold(p, hits)
           n == Cardinality(news)
<1>1. PICK V \in Victims(held, n) : g = Materialise(Evict(held, V), news)
  BY DEF Acquired
<1>2. DOMAIN held = DOMAIN p
  BY DEF Hold
<1> DEFINE D == DOMAIN p
           R == D \ V
<1>3. /\ V \subseteq D
      /\ Cardinality(V) = IF n <= Capacity - Cardinality(D) THEN 0
                          ELSE n - (Capacity - Cardinality(D))
  BY <1>1, <1>2 DEF Victims, Evictable, Free
<1>4. DOMAIN g = R \cup news
  BY <1>1, <1>2 DEF Materialise, Evict
<1>5. IsFiniteSet(D) /\ Cardinality(D) <= Capacity /\ Cardinality(D) \in Nat
  BY FS_CardinalityType DEF Fitting
<1> HIDE DEF D, n
<1>6. IsFiniteSet(V) /\ Cardinality(V) \in Nat
  BY <1>3, <1>5, FS_Subset, FS_CardinalityType
<1>7. D \cap V = V
  BY <1>3
<1>8. IsFiniteSet(R) /\ Cardinality(R) = Cardinality(D) - Cardinality(V)
  BY <1>5, <1>7, FS_Difference
<1> HIDE DEF R
<1>9. n \in Nat
  BY FS_CardinalityType DEF n
<1>10. /\ IsFiniteSet(R \cup news)
       /\ Cardinality(R \cup news) = Cardinality(R) + n - Cardinality(R \cap news)
  BY <1>8, FS_Union DEF n
<1>11. Cardinality(R \cap news) \in Nat
  BY <1>8, FS_Intersection, FS_CardinalityType
<1>12. Capacity \in Nat
  BY PoolAssumption
<1>13. Cardinality(R) + n <= Capacity
  BY <1>3, <1>5, <1>6, <1>8, <1>9, <1>12
<1>14. Cardinality(R \cup news) <= Capacity
  BY <1>5, <1>6, <1>8, <1>9, <1>10, <1>11, <1>12, <1>13
<1> QED
  BY <1>4, <1>10, <1>14 DEF Fitting

(***************************************************************************)
(* The check before an acquire promises nothing it cannot keep.            *)
(***************************************************************************)
LEMMA SubsetOfSize ==
  ASSUME NEW S, IsFiniteSet(S), NEW n \in Nat, n <= Cardinality(S)
  PROVE  \E V \in SUBSET S : Cardinality(V) = n
<1> DEFINE c == Cardinality(S)
<1>1. c \in Nat /\ ExistsBijection(1 .. c, S)
  BY FS_CardinalityType
<1>2. n <= c
  OBVIOUS
<1> HIDE DEF c
<1>3. PICK f : f \in Bijection(1 .. c, S)
  BY <1>1 DEF ExistsBijection
<1>4. /\ f \in [1 .. c -> S]
      /\ \A i, j \in 1 .. c : f[i] = f[j] => i = j
  BY <1>3 DEF Bijection, Injection, IsInjective
<1> DEFINE V == {f[i] : i \in 1 .. n}
           g == [i \in 1 .. n |-> f[i]]
<1>5. 1 .. n \subseteq 1 .. c
  BY <1>1, <1>2
<1>6. V \subseteq S
  BY <1>4, <1>5
<1>7. g \in Bijection(1 .. n, V)
  <2>1. g \in [1 .. n -> V]
    OBVIOUS
  <2>2. \A i, j \in 1 .. n : g[i] = g[j] => i = j
    BY <1>4, <1>5
  <2>3. \A v \in V : \E i \in 1 .. n : g[i] = v
    OBVIOUS
  <2> HIDE DEF V, g
  <2> QED
    BY <2>1, <2>2, <2>3 DEF Bijection, Injection, Surjection, IsInjective
<1>8. Cardinality(V) = n
  <2> HIDE DEF V, g
  <2>1. ExistsBijection(1 .. n, V)
    BY <1>7 DEF ExistsBijection
  <2> QED
    BY <2>1, FS_CountingElements
<1> QED
  BY <1>6, <1>8

\* An acquire that is accepted finds its victims once the hits are held: a hit
\* that was evictable is not counted as room for the misses
\* (BlockPool.acquire, the line after "guaranteed by the check above").
LEMMA AcceptedCanEvict ==
  ASSUME NEW p, IsPool(p), Fitting(p), NEW hits, NEW news, IsFiniteSet(news),
         CanAcquire(p, hits, news)
  PROVE  Acquired(p, hits, news) # {}
<1> DEFINE held == Hold(p, hits)
           E == Evictable(p)
           H == hits \cap E
           n == Cardinality(news)
           free == Capacity - Cardinality(DOMAIN p)
<1>1. Evictable(held) = E \ H /\ Free(held) = free
  <2>1. /\ DOMAIN held = DOMAIN p
        /\ \A k \in DOMAIN p : held[k].ref = IF k \in hits THEN p[k].ref + 1 ELSE p[k].ref
    BY HoldType
  <2>2. \A k \in DOMAIN p : p[k].ref \in Nat
    BY DEF IsPool, Block
  <2>3. \A k \in DOMAIN p : held[k].ref = 0 <=> p[k].ref = 0 /\ k \notin hits
    BY <2>1, <2>2
  <2>4. Evictable(held) = E \ H
    BY <2>1, <2>3 DEF Evictable
  <2> QED
    BY <2>1, <2>4 DEF Free
<1>2. E \subseteq DOMAIN p /\ IsFiniteSet(DOMAIN p)
  BY DEF Evictable, Fitting
<1>3. IsFiniteSet(E)
  BY <1>2, FS_Subset
<1>4. n <= free + Cardinality(E) - Cardinality(H)
  BY DEF CanAcquire, Free
<1>5. free \in Int
  BY <1>2, FS_CardinalityType, PoolAssumption
<1>6. n \in Nat
  BY FS_CardinalityType
<1> HIDE DEF held, E, free, n
<1>7. E \cap H = H /\ E \cap hits = H
  OBVIOUS
<1>8. /\ IsFiniteSet(E \ H)
      /\ Cardinality(E \ H) = Cardinality(E) - Cardinality(H)
  <2> HIDE DEF H
  <2> QED
    BY <1>3, <1>7, FS_Difference
<1>9. Cardinality(E \ H) \in Nat /\ Cardinality(E) \in Nat /\ Cardinality(H) \in Nat
  <2>1. IsFiniteSet(H)
    BY <1>3, FS_Subset
  <2> QED
    BY <2>1, <1>3, <1>8, FS_CardinalityType
<1> DEFINE need == IF n <= free THEN 0 ELSE n - free
<1>10. need \in Nat /\ need <= Cardinality(E \ H)
  <2> HIDE DEF H
  <2> QED
    BY <1>4, <1>5, <1>6, <1>8, <1>9
<1> HIDE DEF need
<1>11. PICK V \in SUBSET (E \ H) : Cardinality(V) = need
  <2> HIDE DEF H
  <2> QED
    BY <1>8, <1>10, SubsetOfSize
<1>12. V \in Victims(held, n)
  BY <1>1, <1>11 DEF Victims, need
<1>13. Materialise(Evict(held, V), news) \in Acquired(p, hits, news)
  BY <1>12 DEF Acquired, held, n
<1> QED
  BY <1>13

LEMMA KeysFinite ==
  ASSUME NEW s, NEW m \in Nat, NEW n \in Nat
  PROVE  IsFiniteSet(Keys(s, m, n))
<1> DEFINE I == m .. n - 1
           f == [i \in I |-> KeyAt(s, i)]
<1>1. IsFiniteSet(I)
  BY FS_Interval
<1>2. f \in Surjection(I, Keys(s, m, n))
  BY DEF Surjection, Keys
<1> HIDE DEF I, f
<1> QED
  BY <1>1, <1>2, FS_Surjection

\* A pool that has lost blocks still fits.
LEMMA SmallerFits ==
  ASSUME NEW p, Fitting(p), NEW g, DOMAIN g \subseteq DOMAIN p
  PROVE  Fitting(g)
<1>1. /\ IsFiniteSet(DOMAIN g) /\ Cardinality(DOMAIN g) <= Cardinality(DOMAIN p)
      /\ Cardinality(DOMAIN g) \in Nat /\ Cardinality(DOMAIN p) \in Nat
  BY FS_Subset, FS_CardinalityType DEF Fitting
<1> QED
  BY <1>1, PoolAssumption DEF Fitting

LEMMA MarksFit ==
  ASSUME NEW p, Fitting(p), NEW K, NEW c \in BOOLEAN
  PROVE  /\ Fitting(MarkFull(p, K)) /\ Fitting(MarkReady(p, K))
         /\ Fitting(Release(p, K, c))
  BY SmallerFits DEF MarkFull, MarkReady, Release

LEMMA SealFits ==
  ASSUME NEW p, Fitting(p), NEW k
  PROVE  Fitting(Seal(p, k))
  BY MarksFit DEF Seal

\* The token handlers leave a pool that fits.
LEMMA ProduceTokenFits ==
  ASSUME NEW r, NEW p, Fitting(p), NEW q, ProduceToken(r, p, q)
  PROVE  Fitting(pool')
<1> DEFINE q0 == [q EXCEPT ![r].generated = @ + 1]
           q1 == [q0 EXCEPT ![r].ctx = @ + 1]
<1> HIDE DEF q1
<1>1. CASE OutputDone(q1, r)
  <2> DEFINE sealed == IF q1[r].ctx % BlockSize = 0 /\ q1[r].blocks > 0
                       THEN Seal(p, TailKey(q1, r)) ELSE p
  <2>1. pool' = Release(sealed, Chain(q1, r), TRUE)
    BY <1>1 DEF ProduceToken, Finish, q1
  <2>2. Fitting(sealed)
    BY SealFits
  <2> QED
    BY <2>1, <2>2, MarksFit
<1>2. CASE ~OutputDone(q1, r)
  <2>1. pool' = p
    BY <1>2 DEF ProduceToken, q1
  <2> QED
    BY <2>1
<1> QED
  BY <1>1, <1>2

LEMMA EmitTokenFits ==
  ASSUME NEW r, NEW p, Fitting(p), NEW q, EmitToken(r, p, q)
  PROVE  Fitting(pool')
<1>1. CASE ~NeedsBlock(q, r)
  BY <1>1, ProduceTokenFits DEF EmitToken
<1>2. CASE NeedsBlock(q, r)
  <2> DEFINE sealed == Seal(p, TailKey(q, r))
             new    == {KeyAt(r[1], q[r].blocks)}
             grown  == [q EXCEPT ![r].blocks = @ + 1]
  <2>1. Fitting(sealed)
    BY SealFits
  <2>2. IsFiniteSet(new)
    BY FS_Singleton
  <2> HIDE DEF sealed, new, grown
  <2>3. ASSUME NEW g \in Acquired(sealed, {}, new), ProduceToken(r, g, grown)
        PROVE  Fitting(pool')
    BY <2>1, <2>2, <2>3, AcquiredFits, ProduceTokenFits
  <2>4. ASSUME PreemptOne(sealed, q)
        PROVE  Fitting(pool')
    BY <2>1, <2>4, MarksFit DEF PreemptOne
  <2> QED
    BY <1>2, <2>3, <2>4 DEF EmitToken, sealed, new, grown
<1> QED
  BY <1>1, <1>2

LEMMA AdmitFits ==
  ASSUME TypeInv, Fitting(pool), Admit
  PROVE  Fitting(pool')
<1> DEFINE r == Head(waiting)
<1>1. PICK h \in Hits(r) :
        \E p \in Acquired(pool, Keys(r[1], 0, h), Keys(r[1], h, PromptBlocks(r))) :
          pool' = MarkFull(p, Keys(r[1], h, FullBlocks(r)))
  BY DEF Admit
<1>2. r \in Req
  <2>1. waiting \in Seq(Req) /\ waiting # <<>>
    BY DEF TypeInv, TypeOK, Admit, CanAdmit
  <2> QED
    BY <2>1
<1> HIDE DEF r
<1>3. h \in Nat /\ PromptBlocks(r) \in Nat
  BY <1>1, <1>2, HitsResident, PromptBlocksFacts
<1> DEFINE news == Keys(r[1], h, PromptBlocks(r))
<1>4. IsFiniteSet(news)
  BY <1>3, KeysFinite
<1> HIDE DEF news
<1> QED
  BY <1>1, <1>4, AcquiredFits, MarksFit DEF news

CapacityInv == TypeInv /\ Fitting(pool)

LEMMA NextFits == CapacityInv /\ [Next]_vars => Fitting(pool')
<1> SUFFICES ASSUME CapacityInv, [Next]_vars PROVE Fitting(pool')
  OBVIOUS
<1>0. TypeInv /\ Fitting(pool)
  BY DEF CapacityInv
<1>1. CASE Admit
  BY <1>0, <1>1, AdmitFits
<1>2. CASE FirstToken
  <2>1. PICK r \in FirstTokens :
          EmitToken(r, MarkReady(pool, Chain(req, r)), [req EXCEPT ![r].state = "decode"])
    BY <1>2 DEF FirstToken
  <2> QED
    BY <1>0, <2>1, MarksFit, EmitTokenFits
<1>3. CASE NextToken
  <2>1. PICK r \in NextTokens : EmitToken(r, pool, req)
    BY <1>3 DEF NextToken
  <2> QED
    BY <1>0, <2>1, EmitTokenFits
<1>4. CASE \/ DrainOne \/ EnterAdmission \/ GoIdle \/ Wake \/ RunDone \/ BeginStep
           \/ Stall \/ AllocateChunk \/ StartClock \/ ClockAdvanced \/ EndStep
           \/ (\E r \in Req : PauseElapses(r)) \/ Stopped \/ UNCHANGED vars
  <2>1. pool' = pool
    BY <1>4 DEF DrainOne, EnterAdmission, GoIdle, Wake, RunDone, BeginStep, Stall,
                AllocateChunk, StartClock, ClockAdvanced, EndStep, PauseElapses, Stopped, vars
  <2> QED
    BY <1>0, <2>1
<1> QED
  BY <1>1, <1>2, <1>3, <1>4 DEF Next, Loop

LEMMA CapacityInductive ==
  /\ Init => CapacityInv
  /\ CapacityInv /\ [Next]_vars => CapacityInv'
<1>1. Init => Fitting(pool)
  <2> SUFFICES ASSUME Init PROVE Fitting(pool)
    OBVIOUS
  <2>1. DOMAIN pool = {}
    BY DEF Init
  <2> QED
    BY <2>1, FS_EmptySet, PoolAssumption DEF Fitting
<1>2. CapacityInv /\ [Next]_vars => CapacityInv'
  BY NextFits, NextTypeInv DEF CapacityInv, Fitting
<1> QED
  BY <1>1, <1>2, InitTypeInv DEF CapacityInv

\* The pool never holds more blocks than it has, whichever blocks an eviction
\* takes, hence under every retention arm (BlockPool.acquire, _evict).
THEOREM WithinCapacity == Spec => []CapacityRespected
<1>1. CapacityInv => CapacityRespected
  BY DEF CapacityInv, Fitting, CapacityRespected
<1> QED
  BY <1>1, CapacityInductive, PTL DEF Spec

\* The prefix walk has one answer (BlockPool.lookup_prefix).
LEMMA HitsUnique ==
  ASSUME NEW r \in Req, NEW h \in Hits(r), NEW i \in Hits(r)
  PROVE  i = h
<1> DEFINE n == FullBlocks(r)
<1>1. /\ h \in 0 .. n /\ IsPrefixHit(pool, r[1], n, h)
      /\ i \in 0 .. n /\ IsPrefixHit(pool, r[1], n, i)
  BY DEF Hits
<1>2. n \in Nat
  BY PromptBlocksFacts
<1> HIDE DEF n
<1>3. CASE PrefixCaching
  <2>1. /\ \A j \in 0 .. h - 1 : Usable(pool, KeyAt(r[1], j))
        /\ \A j \in 0 .. i - 1 : Usable(pool, KeyAt(r[1], j))
        /\ h < n => ~Usable(pool, KeyAt(r[1], h))
        /\ i < n => ~Usable(pool, KeyAt(r[1], i))
    BY <1>1, <1>3 DEF IsPrefixHit
  <2>2. ~(h < i)
    BY <1>1, <1>2, <2>1
  <2>3. ~(i < h)
    BY <1>1, <1>2, <2>1
  <2> QED
    BY <1>1, <1>2, <2>2, <2>3
<1>4. CASE ~PrefixCaching
  BY <1>1, <1>4 DEF IsPrefixHit
<1> QED
  BY <1>3, <1>4

\* Whatever the admission of the head of the queue or the growth of a running
\* sequence asks for, if the feasibility check accepts it then the eviction
\* after it succeeds: the AssertionError of BlockPool.acquire is unreachable.
THEOREM FeasibilityExact == Spec => []EvictionCannotFail
<1>1. CapacityInv => EvictionCannotFail
  <2> SUFFICES ASSUME CapacityInv PROVE EvictionCannotFail
    OBVIOUS
  <2>0. /\ IsPool(pool) /\ Fitting(pool)
        /\ waiting \in Seq(Req)
        /\ IsTable(req)
    BY DEF CapacityInv, TypeInv, TypeOK, IsPool, IsTable
  <2>1. ASSUME pc = "admit", CanAdmit, NEW h \in Hits(Head(waiting)),
               CanAcquire(pool, Keys(Head(waiting)[1], 0, h),
                          Keys(Head(waiting)[1], h, PromptBlocks(Head(waiting))))
        PROVE  Acquired(pool, Keys(Head(waiting)[1], 0, h),
                        Keys(Head(waiting)[1], h, PromptBlocks(Head(waiting)))) # {}
    <3>1. Head(waiting) \in Req
      BY <2>0, <2>1 DEF CanAdmit
    <3>2. h \in Nat /\ PromptBlocks(Head(waiting)) \in Nat
      BY <2>1, <3>1, HitsResident, PromptBlocksFacts
    <3> QED
      BY <2>0, <2>1, <3>2, KeysFinite, AcceptedCanEvict
  <2>2. ASSUME NEW r \in Active, CanAcquire(pool, {}, {KeyAt(r[1], req[r].blocks)})
        PROVE  Acquired(pool, {}, {KeyAt(r[1], req[r].blocks)}) # {}
    BY <2>0, <2>2, FS_Singleton, AcceptedCanEvict
  <2>3. ASSUME pc = "admit", CanAdmit, NEW h \in Hits(Head(waiting))
        PROVE  CanAcquire(pool, Keys(Head(waiting)[1], 0, h),
                          Keys(Head(waiting)[1], h, PromptBlocks(Head(waiting))))
    <3>0. Head(waiting) \in Req
      BY <2>0, <2>3 DEF CanAdmit
    <3>1. PICK i \in Hits(Head(waiting)) :
            CanAcquire(pool, Keys(Head(waiting)[1], 0, i),
                       Keys(Head(waiting)[1], i, PromptBlocks(Head(waiting))))
      BY <2>3 DEF CanAdmit, Fits
    <3>2. i = h
      BY <3>0, <2>3, <3>1, HitsUnique
    <3> QED
      BY <3>1, <3>2
  <2> QED
    BY <2>1, <2>2, <2>3 DEF EvictionCannotFail
<1> QED
  BY <1>1, CapacityInductive, PTL DEF Spec
=============================================================================
