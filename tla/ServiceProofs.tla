---------------------------- MODULE ServiceProofs -----------------------------
(***************************************************************************)
(* What the agents see of the engine: turns run in order, each exactly     *)
(* once, whoever was preempted waits ahead of whoever has not run, a closed *)
(* loop keeps its load, and all of it together is the service TurnService  *)
(* specifies.  Except for the blocks of a context this holds when no output *)
(* is a single token (a request that finishes with its first token can be  *)
(* preempted after it finished: see EachTurnOnce).                         *)
(*                                                                         *)
(* The invariant of the turns ties the three records a request leaves      *)
(* together: its state, its place in the queues, and its admit_seq.  Who   *)
(* decodes is in running from one step to the next, so the steps keep      *)
(* within their token budget.                                              *)
(***************************************************************************)
EXTENDS EngineProofs, EngineService

LongOutputs == \A r \in Req : Turn(r).output > 1

Busy == {"prefill", "decode"}

\* The queue w holds requests of table q in state st, each once.
InState(q, w, st) ==
  \A i \in 1 .. Len(w) :
    /\ q[w[i]].state = st
    /\ \A j \in 1 .. Len(w) : w[i] = w[j] => i = j

QueuesOK == InState(req, waiting, "waiting") /\ InState(req, due, "due")

TurnsOK ==
  /\ \A r \in Req : req[r].state # "absent" /\ ~IsFirst(r)
                      => req[<<r[1], r[2] - 1>>].state = "done"
  /\ \A s \in Sessions : s > started => req[<<s, 1>>].state = "absent"
  /\ \A r \in Req : served[r] = IF req[r].state = "done" THEN 1 ELSE 0
  /\ \A r \in Req : req[r].state \notin {"decode", "done"} => req[r].generated = 0

\* r finished in this step, before every sequence that has yet to emit.
FinishedNow(r) ==
  /\ req[r].state = "done"
  /\ pc = "emit" /\ FirstTokens = {}
  /\ \A x \in NextTokens : admit[r] < admit[x]

AdmitOK ==
  /\ \A r \in Req : req[r].state \in Busy => admit[r] # 0 /\ req[r].blocks > 0
  /\ \A r, x \in Running : admit[r] = admit[x] => r = x
  /\ \A r \in Running : req[r].state \in Busy \/ FinishedNow(r)

OrderInv == QueuesOK /\ TurnsOK /\ AdmitOK

(***************************************************************************)
(* Queues.                                                                 *)
(***************************************************************************)
LEMMA InStateFrame ==
  ASSUME NEW q, NEW q2, NEW w \in Seq(Req), NEW st, InState(q, w, st),
         \A x \in Req : q[x].state = st => q2[x].state = st
  PROVE  InState(q2, w, st)
<1>1. \A i \in 1 .. Len(w) : w[i] \in Req
  OBVIOUS
<1> QED
  BY <1>1 DEF InState

LEMMA InStateAppend ==
  ASSUME NEW q, NEW q2, NEW w \in Seq(Req), NEW st, InState(q, w, st),
         NEW x \in Req, q[x].state # st, q2[x].state = st,
         \A y \in Req \ {x} : q[y].state = st => q2[y].state = st
  PROVE  InState(q2, Append(w, x), st)
<1> DEFINE u == Append(w, x)
<1>1. /\ Len(u) = Len(w) + 1 /\ Len(w) \in Nat
      /\ u[Len(w) + 1] = x
      /\ \A i \in 1 .. Len(w) : u[i] = w[i] /\ w[i] \in Req
  OBVIOUS
<1>2. \A i \in 1 .. Len(w) : w[i] # x /\ q2[w[i]].state = st
  BY <1>1 DEF InState
<1>3. \A i \in 1 .. Len(u) : i \in 1 .. Len(w) \/ i = Len(w) + 1
  BY <1>1
<1> HIDE DEF u
<1>4. \A i \in 1 .. Len(u) : q2[u[i]].state = st
  BY <1>1, <1>2, <1>3
<1>5. \A i, j \in 1 .. Len(u) : u[i] = u[j] => i = j
  BY <1>1, <1>2, <1>3 DEF InState
<1>6. InState(q2, u, st)
  BY <1>4, <1>5 DEF InState
<1> QED
  BY <1>6 DEF u

LEMMA InStatePrepend ==
  ASSUME NEW q, NEW q2, NEW w \in Seq(Req), NEW st, InState(q, w, st),
         NEW x \in Req, q[x].state # st, q2[x].state = st,
         \A y \in Req \ {x} : q[y].state = st => q2[y].state = st
  PROVE  InState(q2, <<x>> \o w, st)
<1> DEFINE u == <<x>> \o w
<1>1. /\ Len(u) = Len(w) + 1 /\ Len(w) \in Nat
      /\ u[1] = x
      /\ \A i \in 2 .. Len(u) : u[i] = w[i - 1] /\ i - 1 \in 1 .. Len(w)
      /\ \A i \in 1 .. Len(w) : w[i] \in Req
  OBVIOUS
<1>2. \A i \in 1 .. Len(w) : w[i] # x /\ q2[w[i]].state = st
  BY <1>1 DEF InState
<1>3. \A i \in 1 .. Len(u) : i \in 2 .. Len(u) \/ i = 1
  BY <1>1
<1> HIDE DEF u
<1>4. \A i \in 1 .. Len(u) : q2[u[i]].state = st
  BY <1>1, <1>2, <1>3
<1>5. \A i, j \in 1 .. Len(u) : u[i] = u[j] => i = j
  <2> TAKE i, j \in 1 .. Len(u)
  <2> HAVE u[i] = u[j]
  <2>1. CASE i = 1 \/ j = 1
    BY <1>1, <1>2, <1>3, <2>1
  <2>2. CASE i \in 2 .. Len(u) /\ j \in 2 .. Len(u)
    <3>1. i - 1 = j - 1
      BY <1>1, <2>2 DEF InState
    <3> QED
      BY <3>1
  <2> QED
    BY <1>3, <2>1, <2>2
<1>6. InState(q2, u, st)
  BY <1>4, <1>5 DEF InState
<1> QED
  BY <1>6 DEF u

LEMMA InStateTail ==
  ASSUME NEW q, NEW q2, NEW w \in Seq(Req), w # <<>>, NEW st, InState(q, w, st),
         \A y \in Req \ {Head(w)} : q[y].state = st => q2[y].state = st
  PROVE  /\ Head(w) \in Req /\ q[Head(w)].state = st
         /\ InState(q2, Tail(w), st)
<1> DEFINE u == Tail(w)
<1>1. /\ Len(w) \in Nat \ {0} /\ Len(u) = Len(w) - 1
      /\ Head(w) = w[1] /\ w[1] \in Req
      /\ \A i \in 1 .. Len(u) : u[i] = w[i + 1] /\ i + 1 \in 1 .. Len(w) /\ w[i + 1] \in Req
  OBVIOUS
<1> HIDE DEF u
<1>2. \A i \in 1 .. Len(u) : u[i] # w[1]
  BY <1>1 DEF InState
<1>3. \A i \in 1 .. Len(u) : q2[u[i]].state = st
  BY <1>1, <1>2 DEF InState
<1>4. \A i, j \in 1 .. Len(u) : u[i] = u[j] => i = j
  <2> TAKE i, j \in 1 .. Len(u)
  <2> HAVE u[i] = u[j]
  <2>1. i + 1 = j + 1
    BY <1>1 DEF InState
  <2> QED
    BY <2>1
<1>5. InState(q2, u, st)
  BY <1>3, <1>4 DEF InState
<1> QED
  BY <1>1, <1>5 DEF u, InState

(***************************************************************************)
(* What a token handler does, field by field.                              *)
(***************************************************************************)
\* The pool g and the b blocks r has once there is room for its next token.
Grown(r, p, q, g, b) ==
  \/ ~NeedsBlock(q, r) /\ g = p /\ b = q[r].blocks
  \/ /\ NeedsBlock(q, r) /\ b = q[r].blocks + 1
     /\ g \in Acquired(Seal(p, TailKey(q, r)), {}, {KeyAt(r[1], q[r].blocks)})

Advanced(r, p, q) ==
  \E b \in Nat :
    /\ Grown(r, p, q, pool', b)
    /\ req'[r].state = q[r].state /\ req'[r].blocks = b
    /\ req'[r].ctx = q[r].ctx + 1 /\ req'[r].generated = q[r].generated + 1
    /\ q[r].generated + 1 < Turn(r).output
    /\ \A x \in Req \ {r} : req'[x] = q[x]
    /\ UNCHANGED <<admit, waiting, due, started, live, served>>

Finished(r, p, q) ==
  \E b \in Nat : \E g, h, d :
    /\ Grown(r, p, q, g, b)
    /\ \/ h = g
       \/ (q[r].ctx + 1) % BlockSize = 0 /\ h = Seal(g, KeyAt(r[1], b - 1))
    /\ pool' = Release(h, BlockKeys(r[1], b), TRUE)
    /\ q[r].generated + 1 >= Turn(r).output
    /\ IsTable(d) /\ d[r].state = "done" /\ d[r].ctx = q[r].ctx + 1
    /\ \A x \in Req \ {r} : d[x] = q[x]
    /\ TurnDone(r, d)
    /\ served' = [served EXCEPT ![r] = @ + 1]
    /\ UNCHANGED <<admit, waiting>>

Preempted(r, p, q) ==
  \E v \in Running :
    /\ NeedsBlock(q, r)
    /\ IsNewest(v, {x \in Running : q[x].blocks > 0})
    /\ pool' = Release(Seal(p, TailKey(q, r)), BlockKeys(v[1], q[v].blocks), FALSE)
    /\ req'[v].state = "waiting" /\ req'[v].generated = 0
    /\ \A x \in Req \ {v} : req'[x] = q[x]
    /\ admit' = [admit EXCEPT ![v] = 0]
    /\ waiting' = <<v>> \o waiting
    /\ UNCHANGED <<due, started, live, served>>

LEMMA ProduceTokenEffect ==
  ASSUME NEW r \in Req, NEW p, NEW q, IsTable(q),
         NEW g, NEW b \in Nat, Grown(r, p, q, g, b),
         NEW q0, IsTable(q0), q0[r].blocks = b, q0[r].state = q[r].state,
         q0[r].generated = q[r].generated, q0[r].ctx = q[r].ctx, \A x \in Req \ {r} : q0[x] = q[x],
         ProduceToken(r, g, q0)
  PROVE  Advanced(r, p, q) \/ Finished(r, p, q)
<1> DEFINE q1 == [q0 EXCEPT ![r].generated = @ + 1]
           q2 == [q1 EXCEPT ![r].ctx = @ + 1]
           d  == [q2 EXCEPT ![r].state = "done"]
<1>1. /\ q1 \in [Req -> Request]
      /\ q1[r].generated = q[r].generated + 1 /\ q1[r].ctx = q[r].ctx
      /\ q1[r].prefilled = q0[r].prefilled
      /\ q1[r].blocks = b /\ q1[r].state = q[r].state
      /\ \A x \in Req \ {r} : q1[x] = q[x]
  BY DEF IsTable, Request
<1> HIDE DEF q1
<1>2. /\ q2 \in [Req -> Request]
      /\ q2[r].generated = q[r].generated + 1 /\ q2[r].ctx = q[r].ctx + 1
      /\ q2[r].prefilled = q0[r].prefilled
      /\ q2[r].blocks = b /\ q2[r].state = q[r].state
      /\ \A x \in Req \ {r} : q2[x] = q[x]
  BY <1>1 DEF Request
<1> HIDE DEF q2
<1>3. /\ d \in [Req -> Request]
      /\ d[r].prefilled = q0[r].prefilled
      /\ d[r].state = "done" /\ d[r].ctx = q[r].ctx + 1
      /\ \A x \in Req \ {r} : d[x] = q[x]
  BY <1>2 DEF Request, States
<1> HIDE DEF d
<1>4. IsTable(d)
  BY <1>3 DEF IsTable
<1>5. CASE ~OutputDone(q2, r)
  <2>1. /\ pool' = g /\ req' = q2
        /\ UNCHANGED <<admit, waiting, due, started, live, served>>
    BY <1>5 DEF ProduceToken, q1, q2
  <2>2. q[r].generated + 1 < Turn(r).output
    <3>1. Turn(r).output \in Nat /\ q2[r].generated \in Nat
      BY <1>2, ReqFacts DEF Request
    <3> QED
      BY <1>2, <1>5, <3>1 DEF OutputDone
  <2> QED
    BY <1>2, <2>1, <2>2 DEF Advanced
<1>6. CASE OutputDone(q2, r)
  <2> DEFINE h == IF q2[r].ctx % BlockSize = 0 /\ q2[r].blocks > 0
                  THEN Seal(g, TailKey(q2, r)) ELSE g
  <2>1. Finish(r, g, q2)
    BY <1>6 DEF ProduceToken, q1, q2
  <2>2. pool' = Release(h, BlockKeys(r[1], b), TRUE)
    BY <1>2, <2>1 DEF Finish, Chain
  <2>3. /\ TurnDone(r, d)
        /\ served' = [served EXCEPT ![r] = @ + 1]
        /\ UNCHANGED <<admit, waiting>>
    BY <2>1 DEF Finish, d
  <2>4. q[r].generated + 1 >= Turn(r).output
    BY <1>2, <1>6 DEF OutputDone
  <2>5. h = g \/ ((q[r].ctx + 1) % BlockSize = 0 /\ h = Seal(g, KeyAt(r[1], b - 1)))
    BY <1>2 DEF TailKey
  <2> HIDE DEF h
  <2> QED
    BY <1>3, <1>4, <2>2, <2>3, <2>4, <2>5 DEF Finished
<1> QED
  BY <1>5, <1>6

LEMMA EmitTokenEffect ==
  ASSUME NEW r \in Req, NEW p, NEW q, IsTable(q), EmitToken(r, p, q)
  PROVE  Advanced(r, p, q) \/ Finished(r, p, q) \/ Preempted(r, p, q)
<1>0. q[r] \in Request /\ q[r].blocks \in Nat /\ q \in [Req -> Request]
  BY DEF IsTable, Request
<1>1. CASE ~NeedsBlock(q, r)
  <2>1. ProduceToken(r, p, q) /\ Grown(r, p, q, p, q[r].blocks)
    BY <1>1 DEF EmitToken, Grown
  <2> QED
    BY <1>0, <2>1, ProduceTokenEffect
<1>2. CASE NeedsBlock(q, r)
  <2> DEFINE sealed == Seal(p, TailKey(q, r))
             new    == {KeyAt(r[1], q[r].blocks)}
             grown  == [q EXCEPT ![r].blocks = @ + 1]
  <2>1. /\ IsTable(grown)
        /\ grown[r].blocks = q[r].blocks + 1 /\ grown[r].state = q[r].state
        /\ grown[r].generated = q[r].generated /\ grown[r].ctx = q[r].ctx
        /\ \A x \in Req \ {r} : grown[x] = q[x]
    BY <1>0 DEF IsTable, Request
  <2> HIDE DEF grown
  <2>2. ASSUME NEW g \in Acquired(sealed, {}, new), ProduceToken(r, g, grown)
        PROVE  Advanced(r, p, q) \/ Finished(r, p, q)
    <3>1. Grown(r, p, q, g, q[r].blocks + 1)
      BY <1>2, <2>2 DEF Grown
    <3> QED
      BY <1>0, <2>1, <2>2, <3>1, ProduceTokenEffect
  <2>3. ASSUME PreemptOne(sealed, q)
        PROVE  Preempted(r, p, q)
    <3>1. PICK v \in Running :
            /\ IsNewest(v, {x \in Running : q[x].blocks > 0})
            /\ pool' = Release(sealed, Chain(q, v), FALSE)
            /\ req' = [q EXCEPT ![v] = [NewRequest("waiting") EXCEPT
                                          !.scheduled = q[v].scheduled]]
            /\ admit' = [admit EXCEPT ![v] = 0]
            /\ waiting' = Requeue(v)
            /\ UNCHANGED <<due, started, live, served>>
      BY <2>3 DEF PreemptOne
    <3> DEFINE w == [NewRequest("waiting") EXCEPT !.scheduled = q[v].scheduled]
    <3>2. w.state = "waiting" /\ w.generated = 0
      BY DEF NewRequest
    <3> HIDE DEF w
    <3>3. v \in Req /\ req' = [q EXCEPT ![v] = w]
      BY <3>1 DEF Running, w
    <3>4. req'[v] = w /\ \A x \in Req \ {v} : req'[x] = q[x]
      BY <1>0, <3>3
    <3> QED
      BY <1>2, <3>1, <3>2, <3>4 DEF Preempted, Chain, Requeue, sealed
  <2> QED
    BY <1>2, <2>2, <2>3 DEF EmitToken, sealed, new, grown
<1> QED
  BY <1>1, <1>2

\* Every turn but the first has one before it.
LEMMA PreviousTurn ==
  ASSUME NEW r \in Req, ~IsFirst(r)
  PROVE  <<r[1], r[2] - 1>> \in Req
<1>1. r[1] \in Sessions /\ r[2] \in 1 .. Len(Trace[r[1]]) /\ r[2] # 1
  BY ReqFacts DEF IsFirst
<1>2. Len(Trace[r[1]]) \in Nat
  BY <1>1, EngineAssumption DEF Sessions
<1>3. r[2] - 1 \in 1 .. Len(Trace[r[1]])
  BY <1>1, <1>2
<1> QED
  BY <1>1, <1>3 DEF Req

(***************************************************************************)
(* Tokens.  r emits; q is the request table with r in decode.              *)
(***************************************************************************)
Emits(r, q) ==
  /\ r \in Req /\ IsTable(q)
  /\ req[r].state \in Busy
  /\ q[r].state = "decode" /\ q[r].blocks = req[r].blocks
  /\ q[r].generated = req[r].generated
  /\ q[r].ctx = req[r].ctx /\ q[r].scheduled = req[r].scheduled
  /\ \A x \in Req \ {r} : q[x] = req[x]
  /\ pc = "emit" /\ pc' = "emit"
  /\ completed' \subseteq completed
  /\ \/ /\ req[r].state = "prefill" /\ r \in FirstTokens
        /\ completed' = completed \ {r} /\ decoding' = decoding
     \/ /\ IsOldest(r, NextTokens) /\ FirstTokens = {}
        /\ decoding' = decoding \ {r}

LEMMA AdvancedOrder ==
  ASSUME TypeOK, OrderInv, NEW r, NEW p, NEW q, Emits(r, q), Advanced(r, p, q)
  PROVE  OrderInv'
<1>0. /\ r \in Req /\ req[r].state \in Busy /\ q[r].state = "decode"
      /\ \A x \in Req \ {r} : q[x] = req[x]
      /\ waiting \in Seq(Req) /\ due \in Seq(Req)
      /\ QueuesOK /\ TurnsOK /\ AdmitOK
  BY DEF Emits, TypeOK, OrderInv
<1>1. /\ req'[r].state = "decode" /\ req'[r].blocks > 0
      /\ \A x \in Req \ {r} : req'[x] = req[x]
      /\ UNCHANGED <<admit, waiting, due, started, served>>
  <2>1. PICK b \in Nat : Grown(r, p, q, pool', b) /\ req'[r].blocks = b
    BY DEF Advanced
  <2>2. q[r].blocks \in Nat /\ q[r].blocks > 0
    BY <1>0 DEF Emits, IsTable, Request, AdmitOK
  <2>3. b > 0
    BY <2>1, <2>2 DEF Grown
  <2> QED
    BY <1>0, <2>1, <2>3 DEF Advanced
<1>2. QueuesOK'
  <2>1. \A x \in Req : req[x].state \in {"waiting", "due"} => req'[x].state = req[x].state
    BY <1>0, <1>1 DEF Busy
  <2>2. InState(req', waiting, "waiting") /\ InState(req', due, "due")
    BY <1>0, <2>1, InStateFrame DEF QueuesOK
  <2> QED
    BY <1>1, <2>2 DEF QueuesOK
<1>3. TurnsOK'
  <2>1. \A x \in Req : /\ req'[x].state = "absent" <=> req[x].state = "absent"
                       /\ req'[x].state = "done" <=> req[x].state = "done"
    BY <1>0, <1>1 DEF Busy
  <2>2. \A x \in Req : ~IsFirst(x) => <<x[1], x[2] - 1>> \in Req
    BY PreviousTurn
  <2>3. \A x \in Req : req'[x].state # "absent" /\ ~IsFirst(x)
                         => req'[<<x[1], x[2] - 1>>].state = "done"
    BY <1>0, <2>1, <2>2 DEF TurnsOK
  <2>4. \A s \in Sessions : s > started => req'[<<s, 1>>].state = "absent"
    BY <1>0, <2>1, FirstTurn DEF TurnsOK
  <2>5. \A x \in Req : req'[x].state \notin {"decode", "done"} => req'[x].generated = 0
    BY <1>0, <1>1 DEF TurnsOK
  <2> QED
    BY <1>0, <1>1, <2>1, <2>3, <2>4, <2>5 DEF TurnsOK
<1>4. AdmitOK'
  <2>1. FirstTokens' \subseteq FirstTokens /\ NextTokens' \subseteq NextTokens \cup {r}
    BY <1>0, <1>1 DEF FirstTokens, NextTokens, Emits, TypeOK
  <2>2. FirstTokens = {} => NextTokens' \subseteq NextTokens
    BY <1>0, <1>1, <2>1 DEF NextTokens, Emits, TypeOK
  <2>3. Running' = Running
    BY <1>1 DEF Running
  <2>4. ASSUME NEW x \in Running, req[x].state \notin Busy
        PROVE  FinishedNow(x)'
    <3>1. FinishedNow(x) /\ x \in Req
      BY <1>0, <2>4 DEF AdmitOK, Running
    <3>2. x # r
      BY <1>0, <2>4
    <3> QED
      BY <1>1, <2>1, <2>2, <3>1, <3>2 DEF FinishedNow, Emits
  <2>5. \A x \in Req : req[x].state \in Busy <=> req'[x].state \in Busy
    BY <1>0, <1>1 DEF Busy
  <2>6. Running \subseteq Req
    BY DEF Running
  <2>7. \A x \in Req : req'[x].state \in Busy => admit'[x] # 0 /\ req'[x].blocks > 0
    BY <1>0, <1>1, <2>5 DEF AdmitOK
  <2>8. \A x, y \in Running' : admit'[x] = admit'[y] => x = y
    BY <1>0, <1>1, <2>3 DEF AdmitOK
  <2>9. \A x \in Running' : req'[x].state \in Busy \/ FinishedNow(x)'
    BY <2>3, <2>4, <2>5, <2>6
  <2> QED
    BY <2>7, <2>8, <2>9 DEF AdmitOK
<1> QED
  BY <1>2, <1>3, <1>4 DEF OrderInv

\* The victim of a preemption is busy: the newest running request that has
\* blocks is never one that finished in this step.
LEMMA VictimBusy ==
  ASSUME TypeOK, OrderInv, NEW r, NEW q, Emits(r, q),
         NEW v \in Running, IsNewest(v, {x \in Running : q[x].blocks > 0})
  PROVE  req[v].state \in Busy
<1>0. /\ r \in Req /\ req[r].state \in Busy /\ AdmitOK /\ admit \in [Req -> Nat]
      /\ v \in Req
  BY DEF Emits, TypeOK, OrderInv, Running
<1>1. r \in Running /\ q[r].blocks > 0
  BY <1>0 DEF AdmitOK, Running, Emits
<1>2. admit[r] <= admit[v]
  BY <1>1 DEF IsNewest
<1>3. SUFFICES ASSUME FinishedNow(v) PROVE FALSE
  BY <1>0 DEF AdmitOK
<1>4. r \in NextTokens
  BY <1>3 DEF FinishedNow, Emits, IsOldest
<1>5. admit[v] < admit[r]
  BY <1>3, <1>4 DEF FinishedNow
<1> QED
  BY <1>0, <1>2, <1>5

LEMMA PreemptedOrder ==
  ASSUME TypeOK, OrderInv, NEW r, NEW p, NEW q, Emits(r, q), Preempted(r, p, q)
  PROVE  OrderInv'
<1>0. /\ r \in Req /\ req[r].state \in Busy /\ q[r].state = "decode"
      /\ \A x \in Req \ {r} : q[x] = req[x]
      /\ waiting \in Seq(Req) /\ due \in Seq(Req)
      /\ QueuesOK /\ TurnsOK /\ AdmitOK
      /\ admit \in [Req -> Nat]
  BY DEF Emits, TypeOK, OrderInv
<1>1. PICK v \in Running :
        /\ IsNewest(v, {x \in Running : q[x].blocks > 0})
        /\ req'[v].state = "waiting" /\ req'[v].generated = 0
        /\ \A x \in Req \ {v} : req'[x] = q[x]
        /\ admit' = [admit EXCEPT ![v] = 0]
        /\ waiting' = <<v>> \o waiting
        /\ UNCHANGED <<due, started, served>>
  BY DEF Preempted
<1>2. v \in Req /\ Running \subseteq Req
  BY DEF Running
<1>3. req[v].state \in Busy
  BY <1>1, VictimBusy
<1>4. \A x \in Req \ {v} : /\ req'[x].state = (IF x = r THEN "decode" ELSE req[x].state)
                           /\ req'[x].blocks = req[x].blocks
                           /\ req'[x].generated = req[x].generated
  BY <1>0, <1>1 DEF Emits
<1>5. QueuesOK'
  <2>1. \A x \in Req \ {v} : req[x].state \in {"waiting", "due"} => req'[x].state = req[x].state
    BY <1>0, <1>4 DEF Busy
  <2>2. req[v].state # "waiting" /\ req[v].state # "due"
    BY <1>3 DEF Busy
  <2>3. InState(req', <<v>> \o waiting, "waiting")
    <3>1. InState(req, waiting, "waiting") /\ waiting \in Seq(Req)
      BY <1>0 DEF QueuesOK
    <3>2. /\ v \in Req /\ req[v].state # "waiting" /\ req'[v].state = "waiting"
          /\ \A y \in Req \ {v} : req[y].state = "waiting" => req'[y].state = "waiting"
      BY <1>1, <1>2, <2>1, <2>2
    <3> QED
      BY <3>1, <3>2, InStatePrepend
  <2>4. InState(req', due, "due")
    BY <1>0, <2>1, <2>2, InStateFrame DEF QueuesOK
  <2> QED
    BY <1>1, <2>3, <2>4 DEF QueuesOK
<1>6. TurnsOK'
  <2>1. \A x \in Req : /\ req'[x].state = "absent" <=> req[x].state = "absent"
                       /\ req'[x].state = "done" <=> req[x].state = "done"
    BY <1>0, <1>1, <1>3, <1>4 DEF Busy
  <2>2. \A x \in Req : ~IsFirst(x) => <<x[1], x[2] - 1>> \in Req
    BY PreviousTurn
  <2>3. \A x \in Req : req'[x].state # "absent" /\ ~IsFirst(x)
                         => req'[<<x[1], x[2] - 1>>].state = "done"
    BY <1>0, <2>1, <2>2 DEF TurnsOK
  <2>4. \A s \in Sessions : s > started => req'[<<s, 1>>].state = "absent"
    BY <1>0, <2>1, FirstTurn DEF TurnsOK
  <2>5. ASSUME NEW x \in Req
        PROVE  req'[x].state \notin {"decode", "done"} => req'[x].generated = 0
    <3>1. CASE x = v
      BY <1>1, <3>1
    <3>2. CASE x = r /\ x # v
      BY <1>4, <3>2
    <3>3. CASE x # r /\ x # v
      <4>1. /\ req'[x].state = req[x].state
            /\ req'[x].generated = req[x].generated
        BY <1>4, <3>3
      <4>2. req[x].state \notin {"decode", "done"} => req[x].generated = 0
        BY <1>0 DEF TurnsOK
      <4> QED
        BY <4>1, <4>2
    <3> QED
      BY <3>1, <3>2, <3>3
  <2> QED
    BY <1>0, <1>1, <2>1, <2>3, <2>4, <2>5 DEF TurnsOK
<1>7. AdmitOK'
  <2>1. FirstTokens' \subseteq FirstTokens
    BY <1>0, <1>1, <1>4 DEF FirstTokens, Emits, TypeOK
  <2>2. FirstTokens = {} => NextTokens' \subseteq NextTokens \ {v}
    BY <1>0, <1>1, <1>4 DEF NextTokens, Emits, TypeOK
  <2>3. /\ Running' = Running \ {v}
        /\ \A x \in Req \ {v} : admit'[x] = admit[x]
        /\ admit'[v] = 0
    BY <1>0, <1>1, <1>2 DEF Running
  <2>4. ASSUME NEW x \in Running \ {v}, req[x].state \notin Busy
        PROVE  FinishedNow(x)'
    <3>1. FinishedNow(x) /\ x \in Req /\ x # r
      BY <1>0, <1>2, <2>4 DEF AdmitOK
    <3>2. req'[x].state = "done" /\ admit'[x] = admit[x]
      BY <1>4, <2>3, <2>4, <3>1 DEF FinishedNow
    <3>3. FirstTokens' = {} /\ pc' = "emit"
      BY <2>1, <3>1 DEF FinishedNow, Emits
    <3>4. \A y \in NextTokens' : admit'[x] < admit'[y]
      <4> TAKE y \in NextTokens'
      <4>1. y \in NextTokens /\ y # v
        BY <2>2, <3>1 DEF FinishedNow
      <4>2. y \in Req
        BY <4>1 DEF NextTokens, TypeOK
      <4> QED
        BY <2>3, <3>1, <3>2, <4>1, <4>2 DEF FinishedNow
    <3> QED
      BY <3>2, <3>3, <3>4 DEF FinishedNow
  <2>5. \A x \in Req \ {v} : req[x].state \in Busy <=> req'[x].state \in Busy
    BY <1>0, <1>4 DEF Busy
  <2>6. \A x \in Req : req'[x].state \in Busy => admit'[x] # 0 /\ req'[x].blocks > 0
    BY <1>0, <1>1, <1>4, <2>3, <2>5 DEF AdmitOK, Busy
  <2>7. \A x, y \in Running' : admit'[x] = admit'[y] => x = y
    BY <1>0, <1>2, <2>3 DEF AdmitOK
  <2>8. \A x \in Running' : req'[x].state \in Busy \/ FinishedNow(x)'
    BY <1>2, <2>3, <2>4, <2>5
  <2> QED
    BY <2>6, <2>7, <2>8 DEF AdmitOK
<1> QED
  BY <1>5, <1>6, <1>7 DEF OrderInv

\* What the end of a turn adds to the table: nothing, the session's next turn, or
\* the first turn of another session; what it adds was absent.
Pushed(r, d, n, st) ==
  /\ n \in Req /\ req[n].state = "absent"
  /\ \/ n = NextTurn(r) /\ started' = started
     \/ n = <<started + 1, 1>> /\ started' = started + 1
  /\ req'[n] = NewRequest(st)
  /\ \A x \in Req \ {n} : req'[x] = d[x]
  /\ due' = IF st = "due" THEN Append(due, n) ELSE due

LEMMA TurnDoneEffect ==
  ASSUME TypeOK, TurnsOK, NEW r \in Req, req[r].state \in Busy,
         NEW d, IsTable(d), TurnDone(r, d)
  PROVE  \/ req' = d /\ due' = due /\ started' = started
         \/ \E n \in Req, st \in {"pending", "due"} : Pushed(r, d, n, st)
<1>a. started \in 1 .. Len(Trace)
  BY DEF TypeOK
<1>b. Len(Trace) \in Nat
  BY <1>a
<1>c. d \in [Req -> Request]
  BY DEF IsTable
<1>0. started \in 1 .. Len(Trace) /\ Len(Trace) \in Nat /\ d \in [Req -> Request]
  BY <1>a, <1>b, <1>c
<1>1. CASE IsLast(r) /\ ~StartsAnother(r)
  <2>1. req' = d /\ due' = due
    BY <1>1 DEF TurnDone
  <2>2. started' = started
    BY <1>1 DEF TurnDone
  <2> QED
    BY <2>1, <2>2
<1>2. CASE ~(IsLast(r) /\ ~StartsAnother(r))
  <2> DEFINE n == IF IsLast(r) THEN <<started + 1, 1>> ELSE NextTurn(r)
  <2>1. PICK st \in {"pending", "due"} :
          /\ req' = [d EXCEPT ![n] = NewRequest(st)]
          /\ due' = IF st = "due" THEN Append(due, n) ELSE due
    BY <1>2 DEF TurnDone
  <2>2. /\ n \in Req /\ req[n].state = "absent"
        /\ \/ n = NextTurn(r) /\ started' = started
           \/ n = <<started + 1, 1>> /\ started' = started + 1
    <3>1. CASE IsLast(r)
      <4>1. started + 1 \in Sessions /\ started + 1 > started
        BY <1>0, <1>2, <3>1 DEF StartsAnother, Sessions
      <4>2. <<started + 1, 1>> \in Req /\ req[<<started + 1, 1>>].state = "absent"
        BY <4>1, FirstTurn DEF TurnsOK
      <4>3. started' = started + 1
        BY <1>2, <3>1 DEF TurnDone
      <4> QED
        BY <3>1, <4>2, <4>3
    <3>2. CASE ~IsLast(r)
      <4>1. NextTurn(r) \in Req
        BY <3>2, ReqFacts
      <4>2. started' = started
        BY <3>2 DEF TurnDone, StartsAnother
      <4>3. r[2] \in Nat /\ r[2] >= 1 /\ r = <<r[1], r[2]>>
        <5>1. r[1] \in Sessions /\ r[2] \in 1 .. Len(Trace[r[1]]) /\ r = <<r[1], r[2]>>
          BY ReqFacts
        <5>2. Len(Trace[r[1]]) \in Nat
          BY <5>1, EngineAssumption DEF Sessions
        <5> QED
          BY <5>1, <5>2
      <4>4. ~IsFirst(NextTurn(r)) /\ <<NextTurn(r)[1], NextTurn(r)[2] - 1>> = r
        BY <4>3 DEF IsFirst, NextTurn
      <4>5. req[NextTurn(r)].state = "absent"
        BY <4>1, <4>4 DEF TurnsOK, Busy
      <4>6. n = NextTurn(r)
        BY <3>2
      <4> HIDE DEF n
      <4> QED
        BY <4>1, <4>2, <4>5, <4>6
    <3> QED
      BY <3>1, <3>2
  <2> HIDE DEF n
  <2>3. req'[n] = NewRequest(st) /\ \A x \in Req \ {n} : req'[x] = d[x]
    BY <1>0, <2>1, <2>2
  <2> QED
    BY <2>1, <2>2, <2>3 DEF Pushed
<1> QED
  BY <1>1, <1>2

LEMMA FinishedOrder ==
  ASSUME TypeOK, LongOutputs, OrderInv, NEW r, NEW p, NEW q, Emits(r, q), Finished(r, p, q)
  PROVE  OrderInv'
<1>0. /\ r \in Req /\ req[r].state \in Busy /\ q[r].state = "decode"
      /\ \A x \in Req \ {r} : q[x] = req[x]
      /\ waiting \in Seq(Req) /\ due \in Seq(Req)
      /\ QueuesOK /\ TurnsOK /\ AdmitOK
      /\ admit \in [Req -> Nat] /\ served \in [Req -> Nat]
      /\ started \in Nat
  <2>1. Len(Trace) \in Nat
    BY EngineAssumption
  <2> QED
    BY <2>1 DEF Emits, TypeOK, OrderInv
<1>1. PICK d :
        /\ q[r].generated + 1 >= Turn(r).output
        /\ IsTable(d) /\ d[r].state = "done"
        /\ \A x \in Req \ {r} : d[x] = q[x]
        /\ TurnDone(r, d)
        /\ served' = [served EXCEPT ![r] = @ + 1]
        /\ UNCHANGED <<admit, waiting>>
  BY DEF Finished
\* It was decoding already: a first token does not finish a long output.
<1>2. /\ req[r].state = "decode" /\ IsOldest(r, NextTokens) /\ FirstTokens = {}
      /\ decoding' = decoding \ {r}
  <2>1. SUFFICES ASSUME req[r].state = "prefill" PROVE FALSE
    BY DEF Emits, IsOldest, NextTokens
  <2>2. q[r].generated = 0
    BY <1>0, <2>1 DEF TurnsOK, Emits
  <2>3. Turn(r).output > 1 /\ Turn(r).output \in Nat
    BY <1>0, ReqFacts DEF LongOutputs
  <2> QED
    BY <1>1, <2>2, <2>3
\* The table after the step: r is done, at most one absent turn was pushed.
<1>3. PICK N \in SUBSET Req :
        /\ \A n \in N : /\ req[n].state = "absent" /\ n # r
                        /\ req'[n].state \in {"pending", "due"} /\ req'[n].generated = 0
                        /\ IsFirst(n) \/ <<n[1], n[2] - 1>> = r
        /\ \A x \in Req \ N : req'[x] = d[x]
        /\ started' >= started /\ started' \in Nat
        /\ \A s \in Sessions : s > started' => <<s, 1>> \notin N
        /\ \/ due' = due /\ \A n \in N : req'[n].state # "due"
           \/ \E n \in N : /\ due' = Append(due, n) /\ req'[n].state = "due"
                           /\ N = {n}
  <2>1. CASE req' = d /\ due' = due /\ started' = started
    <3> WITNESS {} \in SUBSET Req
    <3> QED
      BY <1>0, <2>1
  <2>2. ASSUME NEW n \in Req, NEW st \in {"pending", "due"}, Pushed(r, d, n, st)
        PROVE  \E N \in SUBSET Req :
        /\ \A m \in N : /\ req[m].state = "absent" /\ m # r
                        /\ req'[m].state \in {"pending", "due"} /\ req'[m].generated = 0
                        /\ IsFirst(m) \/ <<m[1], m[2] - 1>> = r
        /\ \A x \in Req \ N : req'[x] = d[x]
        /\ started' >= started /\ started' \in Nat
        /\ \A s \in Sessions : s > started' => <<s, 1>> \notin N
        /\ \/ due' = due /\ \A m \in N : req'[m].state # "due"
           \/ \E m \in N : /\ due' = Append(due, m) /\ req'[m].state = "due"
                           /\ N = {m}
    <3>1. /\ n \in Req /\ req[n].state = "absent"
          /\ req'[n].state = st /\ req'[n].generated = 0
          /\ \A x \in Req \ {n} : req'[x] = d[x]
          /\ due' = IF st = "due" THEN Append(due, n) ELSE due
      BY <2>2 DEF Pushed, NewRequest
    <3>2. n # r
      BY <1>0, <3>1 DEF Busy
    <3>3. r[2] \in Nat /\ r[2] >= 1 /\ r = <<r[1], r[2]>>
      <4>1. r[1] \in Sessions /\ r[2] \in 1 .. Len(Trace[r[1]]) /\ r = <<r[1], r[2]>>
        BY <1>0, ReqFacts
      <4>2. Len(Trace[r[1]]) \in Nat
        BY <4>1, EngineAssumption DEF Sessions
      <4> QED
        BY <4>1, <4>2
    <3>4. /\ IsFirst(n) \/ <<n[1], n[2] - 1>> = r
          /\ started' >= started /\ started' \in Nat
          /\ \A s \in Sessions : s > started' => <<s, 1>> # n
      <4>1. CASE n = NextTurn(r) /\ started' = started
        <5>1. n[1] = r[1] /\ n[2] = r[2] + 1 /\ n[2] # 1 /\ n[2] - 1 = r[2]
          BY <3>3, <4>1 DEF NextTurn
        <5>2. \A s \in Sessions : <<s, 1>>[2] = 1
          OBVIOUS
        <5>3. \A s \in Sessions : <<s, 1>> # n
          BY <5>1, <5>2
        <5> QED
          BY <1>0, <3>3, <4>1, <5>1, <5>3
      <4>2. CASE n = <<started + 1, 1>> /\ started' = started + 1
        <5>1. n[1] = started + 1 /\ n[2] = 1
          BY <4>2
        <5>2. \A s \in Sessions : <<s, 1>>[1] = s
          OBVIOUS
        <5>3. \A s \in Sessions : s > started' => <<s, 1>> # n
          BY <1>0, <4>2, <5>1, <5>2, EngineAssumption DEF Sessions
        <5> QED
          BY <1>0, <4>2, <5>1, <5>3 DEF IsFirst
      <4> QED
        BY <2>2, <4>1, <4>2 DEF Pushed
    <3>5. {n} \in SUBSET Req
      BY <3>1
    <3> USE <3>5
    <3> WITNESS {n} \in SUBSET Req
    <3> QED
      BY <3>1, <3>2, <3>4
  <2> QED
    BY <1>0, <1>1, <2>1, <2>2, TurnDoneEffect
<1>4. /\ req'[r].state = "done"
      /\ \A x \in Req \ ({r} \cup N) : req'[x] = req[x]
  BY <1>0, <1>1, <1>3
<1>5. QueuesOK'
  <2>1. \A x \in Req : req[x].state = "waiting" => req'[x].state = "waiting"
    BY <1>0, <1>3, <1>4 DEF Busy
  <2>2. \A x \in Req : req[x].state = "due" => req'[x].state = "due"
    BY <1>0, <1>3, <1>4 DEF Busy
  <2>3. InState(req', waiting, "waiting")
    BY <1>0, <2>1, InStateFrame DEF QueuesOK
  <2>4. InState(req', due', "due")
    <3>1. CASE due' = due
      BY <1>0, <2>2, <3>1, InStateFrame DEF QueuesOK
    <3>2. ASSUME NEW n \in N, due' = Append(due, n), req'[n].state = "due"
          PROVE  InState(req', due', "due")
      <4>1. n \in Req /\ req[n].state # "due"
        BY <1>3
      <4>2. InState(req', Append(due, n), "due")
        BY <1>0, <2>2, <3>2, <4>1, InStateAppend DEF QueuesOK
      <4> QED
        BY <3>2, <4>2
    <3> QED
      BY <1>3, <3>1, <3>2
  <2> QED
    BY <1>1, <2>3, <2>4 DEF QueuesOK
<1>6. TurnsOK'
  <2>1. \A x \in Req : req[x].state = "done" => req'[x].state = "done"
    BY <1>3, <1>4
  <2>2. \A x \in Req : ~IsFirst(x) => <<x[1], x[2] - 1>> \in Req
    BY PreviousTurn
  <2>3. ASSUME NEW x \in Req, req'[x].state # "absent", ~IsFirst(x)
        PROVE  req'[<<x[1], x[2] - 1>>].state = "done"
    <3>1. CASE x \in N
      BY <1>3, <1>4, <2>3, <3>1
    <3>2. CASE x \notin N
      <4>1. req[x].state # "absent"
        BY <1>0, <1>4, <2>3, <3>2 DEF Busy
      <4> QED
        BY <1>0, <2>1, <2>2, <2>3, <4>1 DEF TurnsOK
    <3> QED
      BY <3>1, <3>2
  <2>4. ASSUME NEW s \in Sessions, s > started'
        PROVE  req'[<<s, 1>>].state = "absent"
    <3>1. s > started
      BY <1>0, <1>3, <2>4, EngineAssumption DEF Sessions
    <3>2. <<s, 1>> \in Req /\ req[<<s, 1>>].state = "absent"
      BY <1>0, <3>1, FirstTurn DEF TurnsOK
    <3>3. <<s, 1>> # r /\ <<s, 1>> \notin N
      BY <1>0, <1>3, <2>4, <3>2 DEF Busy
    <3> QED
      BY <1>4, <3>2, <3>3
  <2>5. ASSUME NEW x \in Req
        PROVE  served'[x] = IF req'[x].state = "done" THEN 1 ELSE 0
    <3>1. CASE x = r
      <4>1. served[r] = 0
        BY <1>0 DEF TurnsOK, Busy
      <4> QED
        BY <1>0, <1>1, <1>4, <3>1, <4>1
    <3>2. CASE x \in N
      BY <1>0, <1>1, <1>3, <3>2 DEF TurnsOK
    <3>3. CASE x \notin N /\ x # r
      BY <1>0, <1>1, <1>4, <3>3 DEF TurnsOK
    <3> QED
      BY <3>1, <3>2, <3>3
  <2>6. ASSUME NEW x \in Req, req'[x].state \notin {"decode", "done"}
        PROVE  req'[x].generated = 0
    <3>1. CASE x \in N
      BY <1>3, <3>1
    <3>2. CASE x \notin N
      <4>1. req'[x] = req[x]
        BY <1>4, <2>6, <3>2
      <4> QED
        BY <1>0, <2>6, <4>1 DEF TurnsOK
    <3> QED
      BY <3>1, <3>2
  <2> QED
    BY <2>3, <2>4, <2>5, <2>6 DEF TurnsOK
<1>7. AdmitOK'
  <2>0. \A x \in Req : req'[x].state \in Busy => req'[x] = req[x] /\ x # r
    BY <1>3, <1>4 DEF Busy
  <2>1. FirstTokens' = {}
    <3>1. \A x \in completed' : x \in Req /\ x \in completed
      BY DEF Emits, TypeOK
    <3>2. \A x \in completed' : req'[x].state # "prefill"
      BY <1>2, <2>0, <3>1 DEF FirstTokens, Busy
    <3> QED
      BY <3>2 DEF FirstTokens
  <2>2. NextTokens' \subseteq NextTokens \ {r}
    <3>1. \A x \in decoding' : x \in Req /\ x \in decoding
      BY <1>2 DEF TypeOK
    <3> QED
      BY <2>0, <3>1 DEF NextTokens, Busy
  <2>3. Running' = Running /\ admit' = admit /\ Running \subseteq Req
    BY <1>1 DEF Running
  <2>4. \A x \in Running : x \notin N
    BY <1>0, <1>3, <2>3 DEF AdmitOK, FinishedNow, Busy
  <2>5. FinishedNow(r)'
    <3>1. \A x \in NextTokens' : admit[r] < admit[x]
      <4> TAKE x \in NextTokens'
      <4>1. x \in NextTokens /\ x # r /\ x \in Req
        BY <2>2 DEF NextTokens, TypeOK
      <4>2. admit[r] <= admit[x]
        BY <1>2, <4>1 DEF IsOldest
      <4>3. r \in Running /\ x \in Running
        BY <1>0, <4>1 DEF AdmitOK, Running, NextTokens, Busy
      <4>4. admit[r] # admit[x]
        BY <1>0, <4>1, <4>3 DEF AdmitOK
      <4> QED
        BY <1>0, <4>1, <4>2, <4>4
    <3> QED
      BY <1>4, <2>1, <2>3, <3>1 DEF FinishedNow, Emits
  <2>6. ASSUME NEW x \in Running, x # r
        PROVE  req'[x].state \in Busy \/ FinishedNow(x)'
    <3>1. req'[x] = req[x] /\ x \in Req
      BY <1>4, <2>3, <2>4, <2>6
    <3>2. CASE req[x].state \in Busy
      BY <3>1, <3>2
    <3>3. CASE FinishedNow(x)
      BY <2>1, <2>2, <2>3, <3>1, <3>3 DEF FinishedNow, Emits
    <3> QED
      BY <1>0, <3>2, <3>3 DEF AdmitOK
  <2>7. \A x \in Req : req'[x].state \in Busy => admit'[x] # 0 /\ req'[x].blocks > 0
    BY <1>0, <1>3, <1>4, <2>3 DEF AdmitOK, Busy
  <2>8. \A x, y \in Running' : admit'[x] = admit'[y] => x = y
    BY <1>0, <2>3 DEF AdmitOK
  <2>9. \A x \in Running' : req'[x].state \in Busy \/ FinishedNow(x)'
    BY <2>3, <2>5, <2>6
  <2> QED
    BY <2>7, <2>8, <2>9 DEF AdmitOK
<1> QED
  BY <1>5, <1>6, <1>7 DEF OrderInv

\* Both token actions are an EmitToken of a busy request.
Emitting(r, p, q) ==
  /\ Emits(r, q) /\ EmitToken(r, p, q)
  /\ p = pool \/ p = MarkReady(pool, Chain(req, r))

LEMMA TokenEmits ==
  ASSUME TypeOK, FirstToken \/ NextToken
  PROVE  \E r, p, q : Emitting(r, p, q)
<1>0. IsTable(req) /\ pc = "emit"
  BY DEF TypeOK, IsTable, FirstToken, NextToken
<1>1. CASE FirstToken
  <2> DEFINE q(r) == [req EXCEPT ![r].state = "decode"]
  <2>1. PICK r \in FirstTokens :
          EmitToken(r, MarkReady(pool, Chain(req, r)), q(r)) /\ completed' = completed \ {r}
    BY <1>1 DEF FirstToken
  <2>2. r \in Req /\ req[r].state = "prefill"
    BY <2>1 DEF FirstTokens, TypeOK
  <2>3. /\ IsTable(q(r))
        /\ q(r)[r].state = "decode" /\ q(r)[r].blocks = req[r].blocks
        /\ q(r)[r].generated = req[r].generated
        /\ q(r)[r].ctx = req[r].ctx /\ q(r)[r].scheduled = req[r].scheduled
        /\ \A x \in Req \ {r} : q(r)[x] = req[x]
    BY <1>0, <2>2 DEF IsTable, Request, States
  <2>4. decoding' = decoding /\ pc' = "emit"
    BY <1>0, <1>1 DEF FirstToken
  <2> HIDE DEF q
  <2>5. Emits(r, q(r))
    BY <1>0, <2>1, <2>2, <2>3, <2>4 DEF Emits, Busy
  <2> QED
    BY <2>1, <2>5 DEF Emitting
<1>2. CASE NextToken
  <2>1. PICK r \in NextTokens :
          IsOldest(r, NextTokens) /\ EmitToken(r, pool, req) /\ decoding' = decoding \ {r}
    BY <1>2 DEF NextToken
  <2>2. r \in Req /\ req[r].state = "decode"
    BY <2>1 DEF NextTokens, TypeOK
  <2>3. completed' = completed /\ pc' = "emit" /\ FirstTokens = {}
    BY <1>0, <1>2 DEF NextToken
  <2>4. Emits(r, req)
    BY <1>0, <2>1, <2>2, <2>3 DEF Emits, Busy
  <2> QED
    BY <2>1, <2>4 DEF Emitting
<1> QED
  BY <1>1, <1>2

LEMMA TokenOrder ==
  ASSUME TypeInv, LongOutputs, OrderInv, FirstToken \/ NextToken
  PROVE  OrderInv'
<1>0. TypeOK
  BY DEF TypeInv
<1>1. PICK r, p, q : Emitting(r, p, q)
  BY <1>0, TokenEmits
<1>2. Advanced(r, p, q) \/ Finished(r, p, q) \/ Preempted(r, p, q)
  <2>1. r \in Req /\ IsTable(q)
    BY <1>1 DEF Emitting, Emits
  <2> QED
    BY <1>1, <2>1, EmitTokenEffect DEF Emitting
<1> QED
  BY <1>0, <1>1, <1>2, AdvancedOrder, FinishedOrder, PreemptedOrder DEF Emitting

(***************************************************************************)
(* The other phases of a pass.                                             *)
(***************************************************************************)
\* Outside the emit phase every running request is busy.
LEMMA RunningBusy ==
  ASSUME AdmitOK, pc # "emit"
  PROVE  \A r \in Running : req[r].state \in Busy
  BY DEF AdmitOK, FinishedNow

LEMMA QuietOrder ==
  ASSUME TypeOK, OrderInv, pc # "emit",
         \A x \in Req : /\ req'[x].state = req[x].state
                        /\ req'[x].generated = req[x].generated
                        /\ req'[x].blocks = req[x].blocks,
         UNCHANGED <<admit, waiting, due, started, served>>
  PROVE  OrderInv'
<1>0. waiting \in Seq(Req) /\ due \in Seq(Req) /\ QueuesOK /\ TurnsOK /\ AdmitOK
  BY DEF OrderInv, TypeOK
<1>1. QueuesOK'
  <2>1. InState(req', waiting, "waiting") /\ InState(req', due, "due")
    BY <1>0, InStateFrame DEF QueuesOK
  <2> QED
    BY <2>1 DEF QueuesOK
<1>2. TurnsOK'
  <2>1. \A x \in Req : ~IsFirst(x) => <<x[1], x[2] - 1>> \in Req
    BY PreviousTurn
  <2>2. \A s \in Sessions : <<s, 1>> \in Req
    BY FirstTurn
  <2> QED
    BY <1>0, <2>1, <2>2 DEF TurnsOK
<1>3. AdmitOK'
  <2>1. Running' = Running /\ Running \subseteq Req
    BY DEF Running
  <2>2. \A x \in Running : req'[x].state \in Busy
    BY <1>0, <2>1, RunningBusy
  <2> QED
    BY <1>0, <2>1, <2>2 DEF AdmitOK
<1> QED
  BY <1>1, <1>2, <1>3 DEF OrderInv

\* A turn that moves on before its first token disturbs no other turn.
LEMMA MovedTurns ==
  ASSUME TypeOK, TurnsOK, NEW r \in Req,
         req[r].state \in {"pending", "due", "waiting"},
         req'[r].state \in {"due", "waiting", "prefill"},
         req'[r].generated = req[r].generated,
         \A x \in Req \ {r} : req'[x] = req[x],
         UNCHANGED <<started, served>>
  PROVE  TurnsOK'
<1>1. \A x \in Req : /\ req'[x].state = "absent" <=> req[x].state = "absent"
                     /\ req'[x].state = "done" <=> req[x].state = "done"
  OBVIOUS
<1>2. \A x \in Req : ~IsFirst(x) => <<x[1], x[2] - 1>> \in Req
  BY PreviousTurn
<1>3. \A s \in Sessions : <<s, 1>> \in Req
  BY FirstTurn
<1>4. \A x \in Req : req'[x].state \notin {"decode", "done"} => req'[x].generated = 0
  BY DEF TurnsOK
<1> QED
  BY <1>1, <1>2, <1>3, <1>4 DEF TurnsOK

LEMMA ArrivalOrder ==
  ASSUME TypeOK, OrderInv, DrainOne \/ \E r \in Req : PauseElapses(r)
  PROVE  OrderInv'
<1>0. /\ waiting \in Seq(Req) /\ due \in Seq(Req) /\ IsTable(req)
      /\ QueuesOK /\ TurnsOK /\ AdmitOK
  BY DEF OrderInv, TypeOK, IsTable
<1>1. ASSUME NEW r \in Req, NEW st \in {"due", "waiting"},
             req' = [req EXCEPT ![r].state = st]
      PROVE  /\ req'[r].state = st /\ req'[r].generated = req[r].generated
             /\ \A x \in Req \ {r} : req'[x] = req[x]
  BY <1>0, <1>1 DEF IsTable, Request
<1>2. ASSUME NEW r \in Req, req[r].state \in {"pending", "due"},
             req'[r].state \in {"due", "waiting"},
             \A x \in Req \ {r} : req'[x] = req[x],
             admit' = admit, pc # "emit"
      PROVE  AdmitOK'
  <2>1. Running' = Running /\ Running \subseteq Req
    BY <1>2 DEF Running
  <2>2. \A x \in Running : req[x].state \in Busy /\ x # r
    BY <1>0, <1>2, RunningBusy DEF Busy
  <2>3. \A x \in Req : req'[x].state \in Busy => req'[x] = req[x]
    BY <1>2 DEF Busy
  <2>4. \A x \in Running' : req'[x].state \in Busy
    BY <1>2, <2>1, <2>2
  <2>5. \A x \in Req : req'[x].state \in Busy => admit'[x] # 0 /\ req'[x].blocks > 0
    BY <1>0, <1>2, <2>3 DEF AdmitOK
  <2>6. \A x, y \in Running' : admit'[x] = admit'[y] => x = y
    BY <1>0, <1>2, <2>1 DEF AdmitOK
  <2> QED
    BY <2>4, <2>5, <2>6 DEF AdmitOK
<1>3. CASE DrainOne
  <2> DEFINE r == Head(due)
  <2>1. /\ due # <<>> /\ pc = "arrive"
        /\ req' = [req EXCEPT ![r].state = "waiting"]
        /\ waiting' = Append(waiting, r) /\ due' = Tail(due)
        /\ UNCHANGED <<admit, started, served>>
    BY <1>3 DEF DrainOne
  <2>2. r \in Req /\ req[r].state = "due"
    BY <1>0, <2>1, InStateTail DEF QueuesOK
  <2> HIDE DEF r
  <2>3. /\ req'[r].state = "waiting" /\ req'[r].generated = req[r].generated
        /\ \A x \in Req \ {r} : req'[x] = req[x]
    BY <1>1, <2>1, <2>2
  <2>4. InState(req', Append(waiting, r), "waiting")
    BY <1>0, <2>2, <2>3, InStateAppend DEF QueuesOK
  <2>5. InState(req', Tail(due), "due")
    <3>1. r = Head(due)
      BY DEF r
    <3>2. \A x \in Req \ {Head(due)} : req[x].state = "due" => req'[x].state = "due"
      BY <2>3, <3>1
    <3>3. due \in Seq(Req) /\ due # <<>> /\ InState(req, due, "due")
      BY <1>0, <2>1 DEF QueuesOK
    <3> QED
      BY <3>2, <3>3, InStateTail
  <2>6. QueuesOK'
    BY <2>1, <2>4, <2>5 DEF QueuesOK
  <2>7. TurnsOK'
    BY <1>0, <2>1, <2>2, <2>3, MovedTurns
  <2>8. AdmitOK'
    BY <1>2, <2>1, <2>2, <2>3
  <2> QED
    BY <2>6, <2>7, <2>8 DEF OrderInv
<1>4. ASSUME NEW r \in Req, PauseElapses(r)
      PROVE  OrderInv'
  <2>1. /\ pc # "emit" /\ req[r].state = "pending"
        /\ req' = [req EXCEPT ![r].state = "due"]
        /\ due' = Append(due, r)
        /\ UNCHANGED <<admit, waiting, started, served>>
    BY <1>4 DEF PauseElapses
  <2>2. /\ req'[r].state = "due" /\ req'[r].generated = req[r].generated
        /\ \A x \in Req \ {r} : req'[x] = req[x]
    BY <1>1, <2>1
  <2>3. InState(req', Append(due, r), "due")
    BY <1>0, <2>1, <2>2, InStateAppend DEF QueuesOK
  <2>4. \A x \in Req : req[x].state = "waiting" => req'[x].state = "waiting"
    BY <2>1, <2>2
  <2>5. InState(req', waiting, "waiting")
    BY <1>0, <2>4, InStateFrame DEF QueuesOK
  <2>6. QueuesOK'
    BY <2>1, <2>3, <2>5 DEF QueuesOK
  <2>7. TurnsOK'
    BY <1>0, <2>1, <2>2, MovedTurns
  <2>8. AdmitOK'
    BY <1>2, <2>1, <2>2
  <2> QED
    BY <2>6, <2>7, <2>8 DEF OrderInv
<1> QED
  BY <1>3, <1>4

\* The new admit_seq is above those of all running requests.
LEMMA AdmitOrder ==
  ASSUME TypeOK, OrderInv, Admit
  PROVE  OrderInv'
<1> DEFINE r == Head(waiting)
<1>0. /\ waiting \in Seq(Req) /\ due \in Seq(Req) /\ waiting # <<>>
      /\ QueuesOK /\ TurnsOK /\ AdmitOK /\ pc = "admit"
      /\ req \in [Req -> Request] /\ admit \in [Req -> Nat]
  BY DEF OrderInv, TypeOK, Admit, CanAdmit
<1>1. r \in Req /\ req[r].state = "waiting"
  BY <1>0, InStateTail DEF QueuesOK
<1>2. PICK n \in NextSeqs : admit' = [admit EXCEPT ![r] = n]
  BY DEF Admit
<1>3. /\ req'[r].state = "prefill" /\ req'[r].blocks = PromptBlocks(r)
      /\ req'[r].generated = req[r].generated
      /\ \A x \in Req \ {r} : req'[x] = req[x]
  <2>1. PICK h \in Hits(r) :
          req' = [req EXCEPT ![r] =
                    [state |-> "prefill", blocks |-> PromptBlocks(r),
                     ctx |-> Turn(r).prompt, prefilled |-> h * BlockSize,
                     generated |-> req[r].generated, scheduled |-> TRUE]]
    BY DEF Admit
  <2> DEFINE w == [state |-> "prefill", blocks |-> PromptBlocks(r),
                   ctx |-> Turn(r).prompt, prefilled |-> h * BlockSize,
                   generated |-> req[r].generated, scheduled |-> TRUE]
  <2>2. w.state = "prefill" /\ w.blocks = PromptBlocks(r) /\ w.generated = req[r].generated
    OBVIOUS
  <2>3. req' = [req EXCEPT ![r] = w]
    BY <2>1
  <2> HIDE DEF w, r
  <2> QED
    BY <1>0, <1>1, <2>2, <2>3
<1>4. waiting' = Tail(waiting) /\ UNCHANGED <<due, started, served>>
  BY DEF Admit
<1>5. QueuesOK'
  <2>1. InState(req', Tail(waiting), "waiting")
    BY <1>0, <1>3, InStateTail DEF QueuesOK
  <2>2. \A x \in Req : req[x].state = "due" => req'[x].state = "due"
    BY <1>1, <1>3
  <2>3. InState(req', due, "due")
    BY <1>0, <2>2, InStateFrame DEF QueuesOK
  <2> QED
    BY <1>4, <2>1, <2>3 DEF QueuesOK
<1> HIDE DEF r
<1>6. TurnsOK'
  BY <1>0, <1>1, <1>3, <1>4, MovedTurns
<1>7. AdmitOK'
  <2>1. Running \subseteq Req /\ \A x \in Running : req[x].state \in Busy /\ x # r
    BY <1>0, <1>1, RunningBusy DEF Busy, Running
  <2>2. n \in Nat /\ n # 0 /\ \A x \in Running : admit[x] < n
    BY <1>0, <2>1 DEF NextSeqs
  <2>3. /\ admit'[r] = n /\ \A x \in Req \ {r} : admit'[x] = admit[x]
        /\ Running' = Running \cup {r}
    BY <1>0, <1>1, <1>2, <2>2 DEF Running
  <2>4. \A x \in Req : req'[x].state \in Busy => admit'[x] # 0 /\ req'[x].blocks > 0
    <3>1. admit'[r] # 0 /\ req'[r].blocks > 0
      BY <1>1, <1>3, <2>2, <2>3, PromptBlocksFacts
    <3>2. \A x \in Req \ {r} :
            req'[x].state \in Busy => admit'[x] # 0 /\ req'[x].blocks > 0
      BY <1>0, <1>3, <2>3 DEF AdmitOK
    <3> QED
      BY <3>1, <3>2
  <2>5. ASSUME NEW x \in Running', NEW y \in Running', admit'[x] = admit'[y]
        PROVE  x = y
    <3>1. \A z \in Running : admit'[z] = admit[z] /\ admit[z] \in Nat
      BY <1>0, <2>1, <2>3
    <3>2. CASE x = r \/ y = r
      BY <2>2, <2>3, <2>5, <3>1, <3>2
    <3>3. CASE x \in Running /\ y \in Running
      BY <1>0, <2>5, <3>1, <3>3 DEF AdmitOK
    <3> QED
      BY <2>3, <3>2, <3>3
  <2>6. \A x \in Running' : req'[x].state \in Busy
    BY <1>3, <2>1, <2>3 DEF Busy
  <2> QED
    BY <2>4, <2>5, <2>6 DEF AdmitOK
<1> QED
  BY <1>5, <1>6, <1>7 DEF OrderInv

LEMMA EndStepOrder ==
  ASSUME TypeOK, OrderInv, EndStep
  PROVE  OrderInv'
<1>0. admit \in [Req -> Nat] /\ QueuesOK /\ TurnsOK /\ AdmitOK /\ StillRunning \subseteq Running
  BY DEF OrderInv, TypeOK, StillRunning
<1>1. /\ UNCHANGED <<req, waiting, due, started, served>>
      /\ admit' = [x \in Req |-> IF x \in StillRunning THEN admit[x] ELSE 0]
  BY DEF EndStep
<1>2. QueuesOK' /\ TurnsOK'
  BY <1>0, <1>1 DEF QueuesOK, TurnsOK, InState
<1>3. AdmitOK'
  <2>1. \A x \in Req : req[x].state \in Busy => x \in StillRunning
    BY <1>0 DEF AdmitOK, StillRunning, Running, Busy
  <2>2. Running' = StillRunning /\ \A x \in StillRunning : admit'[x] = admit[x]
    BY <1>0, <1>1 DEF Running
  <2>3. \A x \in StillRunning : req'[x].state \in Busy
    BY <1>1 DEF StillRunning, Busy
  <2> QED
    BY <1>0, <1>1, <2>1, <2>2, <2>3 DEF AdmitOK
<1> QED
  BY <1>2, <1>3 DEF OrderInv

LEMMA InitOrder == Init => OrderInv
<1> SUFFICES ASSUME Init PROVE OrderInv
  OBVIOUS
<1>0. Initially \in 1 .. Len(Trace) /\ Initially \in Nat /\ Len(Trace) \in Nat
  BY InitiallyType, EngineAssumption
<1>1. \A x \in Req :
        /\ req[x] = NewRequest(IF ~IsFirst(x) THEN "absent"
                               ELSE IF x[1] <= Initially THEN "due"
                               ELSE IF ClosedLoop THEN "absent" ELSE "pending")
        /\ req[x].generated = 0
  BY DEF Init, NewRequest
<1>2. \A x \in Req :
        req[x].state = IF ~IsFirst(x) THEN "absent"
                       ELSE IF x[1] <= Initially THEN "due"
                       ELSE IF ClosedLoop THEN "absent" ELSE "pending"
  <2> TAKE x \in Req
  <2>1. \A st : NewRequest(st).state = st
    BY DEF NewRequest
  <2> QED
    BY <1>1, <2>1
<1>3. QueuesOK
  <2>1. InState(req, waiting, "waiting")
    BY DEF InState, Init
  <2>2. /\ due = [s \in 1 .. Initially |-> <<s, 1>>] /\ Len(due) = Initially
        /\ \A i \in 1 .. Initially : due[i] = <<i, 1>> /\ due[i] \in Req
    BY <1>0, FirstTurn DEF Init, Sessions
  <2>3. \A i \in 1 .. Initially : req[due[i]].state = "due"
    <3> TAKE i \in 1 .. Initially
    <3>1. due[i] \in Req /\ due[i] = <<i, 1>> /\ <<i, 1>>[1] = i /\ IsFirst(<<i, 1>>)
      BY <2>2 DEF IsFirst
    <3>2. i <= Initially
      BY <1>0
    <3> QED
      BY <1>2, <3>1, <3>2
  <2>4. \A i, j \in 1 .. Initially : due[i] = due[j] => i = j
    BY <2>2
  <2> QED
    BY <2>1, <2>2, <2>3, <2>4 DEF QueuesOK, InState
<1>4. TurnsOK
  <2>1. \A s \in Sessions : s > started => req[<<s, 1>>].state = "absent"
    <3> TAKE s \in Sessions
    <3> HAVE s > started
    <3>1. ClosedLoop /\ started = Initially
      BY <1>0 DEF Init, Sessions
    <3>2. <<s, 1>> \in Req /\ IsFirst(<<s, 1>>) /\ <<s, 1>>[1] = s /\ ~(s <= Initially)
      BY <1>0, <3>1, FirstTurn DEF IsFirst, Sessions
    <3> QED
      BY <1>2, <3>1, <3>2
  <2>2. \A x \in Req : served[x] = 0
    BY DEF Init
  <2> QED
    BY <1>1, <1>2, <2>1, <2>2 DEF TurnsOK
<1>5. AdmitOK
  BY <1>2 DEF AdmitOK, Running, Init, Busy
<1> QED
  BY <1>3, <1>4, <1>5 DEF OrderInv

LEMMA NextOrder ==
  ASSUME LongOutputs, TypeInv, OrderInv, [Next]_vars
  PROVE  OrderInv'
<1>0. TypeOK
  BY DEF TypeInv
<1>1. CASE FirstToken \/ NextToken
  BY <1>1, TokenOrder
<1>2. CASE DrainOne \/ \E r \in Req : PauseElapses(r)
  BY <1>0, <1>2, ArrivalOrder
<1>3. CASE Admit
  BY <1>0, <1>3, AdmitOrder
<1>4. CASE EndStep
  BY <1>0, <1>4, EndStepOrder
<1>5. CASE \/ EnterAdmission \/ GoIdle \/ Wake \/ RunDone \/ BeginStep \/ Stall
           \/ StartClock \/ ClockAdvanced
  <2>1. pc # "emit" /\ UNCHANGED <<req, admit, waiting, due, started, served>>
    BY <1>5 DEF EnterAdmission, GoIdle, Wake, RunDone, BeginStep, Stall, StartClock,
                ClockAdvanced
  <2> QED
    BY <1>0, <2>1, QuietOrder
<1>6. CASE AllocateChunk
  <2>1. PICK r \in prefilling : \E e : req' = [req EXCEPT ![r].prefilled = e]
    BY <1>6 DEF AllocateChunk
  <2>2. pc # "emit" /\ UNCHANGED <<admit, waiting, due, started, served>>
    BY <1>6 DEF AllocateChunk
  <2>3. r \in Req /\ req \in [Req -> Request]
    BY <1>0 DEF TypeOK
  <2>4. \A x \in Req : /\ req'[x].state = req[x].state
                       /\ req'[x].generated = req[x].generated
                       /\ req'[x].blocks = req[x].blocks
    BY <2>1, <2>3 DEF Request
  <2> QED
    BY <1>0, <2>2, <2>4, QuietOrder
<1>7. CASE Stopped \/ UNCHANGED vars
  <2>1. UNCHANGED vars
    BY <1>7 DEF Stopped
  <2> QED
    BY <2>1 DEF vars, OrderInv, QueuesOK, TurnsOK, AdmitOK, InState, FinishedNow,
                Running, FirstTokens, NextTokens
<1> QED
  BY <1>1, <1>2, <1>3, <1>4, <1>5, <1>6, <1>7 DEF Next, Loop

\* The turns of a session are served in order, each exactly once, and one at a
\* time, if every output is longer than one token: preemption neither loses nor
\* repeats a turn (Engine._finish, _preempt_one, _on_session_turn_done).
THEOREM TurnsServedInOrder ==
  ASSUME LongOutputs
  PROVE  Spec => []TurnsInOrder
<1> DEFINE I == TypeInv /\ OrderInv
<1>1. Init => I
  BY InitTypeInv, InitOrder
<1>2. I /\ [Next]_vars => I'
  BY NextTypeInv, NextOrder
<1>3. I => TurnsInOrder
  BY DEF OrderInv, TurnsOK, TurnsInOrder
<1> QED
  BY <1>1, <1>2, <1>3, PTL DEF Spec

(***************************************************************************)
(* What a token does to the table and the queue, field by field: r goes    *)
(* on or finishes with one more token in its blocks, or the newest request *)
(* is preempted.                                                           *)
(***************************************************************************)
\* w has the blocks of its context, and tokens in the last one.
Covers(w) == /\ w.ctx <= w.blocks * BlockSize
             /\ w.ctx > (w.blocks - 1) * BlockSize

CoverOK(q) == \A x \in Req : q[x].state \in Busy => Covers(q[x])

GoesOn(r, q) ==
  \E d :
    /\ IsTable(d)
    /\ Covers(d[r])
    /\ d[r].scheduled = q[r].scheduled
    /\ \A x \in Req \ {r} : d[x] = q[x]
    /\ UNCHANGED <<admit, waiting>>
    /\ \/ d[r].state = q[r].state /\ req' = d
       \/ d[r].state = "done" /\ TurnDone(r, d)

GivesWay(q) ==
  \E v \in Running :
    /\ IsNewest(v, {x \in Running : q[x].blocks > 0})
    /\ req'[v].state = "waiting" /\ req'[v].scheduled = q[v].scheduled
    /\ \A x \in Req \ {v} : req'[x] = q[x]
    /\ admit' = [admit EXCEPT ![v] = 0]
    /\ waiting' = <<v>> \o waiting

LEMMA ProduceTokenTable ==
  ASSUME NEW r \in Req, NEW p, NEW q, IsTable(q),
         q[r].ctx + 1 <= q[r].blocks * BlockSize,
         q[r].ctx + 1 > (q[r].blocks - 1) * BlockSize,
         ProduceToken(r, p, q)
  PROVE  GoesOn(r, q)
<1> DEFINE q0 == [q EXCEPT ![r].generated = @ + 1]
           q1 == [q0 EXCEPT ![r].ctx = @ + 1]
           d  == [q1 EXCEPT ![r].state = "done"]
           Same(t) == /\ t[r].scheduled = q[r].scheduled
                      /\ t[r].prefilled = q[r].prefilled
                      /\ t[r].blocks = q[r].blocks
                      /\ \A x \in Req \ {r} : t[x] = q[x]
<1>1. q0 \in [Req -> Request] /\ Same(q0) /\ q0[r].ctx = q[r].ctx /\ q0[r].state = q[r].state
  BY DEF IsTable, Request
<1> HIDE DEF q0
<1>2. /\ q1 \in [Req -> Request] /\ Same(q1)
      /\ q1[r].ctx = q[r].ctx + 1 /\ q1[r].state = q[r].state
  BY <1>1 DEF Request
<1> HIDE DEF q1
<1>3. /\ d \in [Req -> Request] /\ Same(d)
      /\ d[r].ctx = q[r].ctx + 1 /\ d[r].state = "done"
  BY <1>2 DEF Request, States
<1> HIDE DEF d
<1>4. \A t \in [Req -> Request] :
        Same(t) /\ t[r].ctx = q[r].ctx + 1 => IsTable(t) /\ Covers(t[r])
  BY DEF IsTable, Covers
<1> HIDE DEF Same
<1>5. CASE ~OutputDone(q1, r)
  <2>1. req' = q1 /\ UNCHANGED <<admit, waiting>>
    BY <1>5 DEF ProduceToken, q0, q1
  <2> QED
    BY <1>2, <1>4, <2>1 DEF GoesOn, Same
<1>6. CASE OutputDone(q1, r)
  <2>1. Finish(r, p, q1)
    BY <1>6 DEF ProduceToken, q0, q1
  <2>2. TurnDone(r, d) /\ UNCHANGED <<admit, waiting>>
    BY <2>1 DEF Finish, d
  <2> QED
    BY <1>3, <1>4, <2>2 DEF GoesOn, Same
<1> QED
  BY <1>5, <1>6

LEMMA EmitTokenTable ==
  ASSUME NEW r \in Req, NEW p, NEW q, IsTable(q), Covers(q[r]), EmitToken(r, p, q)
  PROVE  GoesOn(r, q) \/ GivesWay(q)
<1>0. /\ q[r].blocks \in Nat /\ q[r].ctx \in Nat /\ q \in [Req -> Request]
      /\ q[r].ctx <= q[r].blocks * BlockSize
      /\ q[r].ctx > (q[r].blocks - 1) * BlockSize
      /\ BlockSize \in Nat \ {0}
  BY EngineAssumption DEF IsTable, Request, Covers
<1>1. CASE ~NeedsBlock(q, r)
  <2>1. q[r].ctx + 1 <= q[r].blocks * BlockSize
    BY <1>0, <1>1 DEF NeedsBlock
  <2>2. q[r].ctx + 1 > (q[r].blocks - 1) * BlockSize
    BY <1>0
  <2>3. ProduceToken(r, p, q)
    BY <1>1 DEF EmitToken
  <2> QED
    BY <2>1, <2>2, <2>3, ProduceTokenTable
<1>2. CASE NeedsBlock(q, r)
  <2> DEFINE sealed == Seal(p, TailKey(q, r))
             new    == {KeyAt(r[1], q[r].blocks)}
             grown  == [q EXCEPT ![r].blocks = @ + 1]
  <2>1. /\ IsTable(grown)
        /\ grown[r].blocks = q[r].blocks + 1 /\ grown[r].state = q[r].state
        /\ grown[r].ctx = q[r].ctx /\ grown[r].scheduled = q[r].scheduled
        /\ \A x \in Req \ {r} : grown[x] = q[x]
    BY <1>0 DEF IsTable, Request
  <2> HIDE DEF grown
  <2>2. ASSUME NEW g \in Acquired(sealed, {}, new), ProduceToken(r, g, grown)
        PROVE  GoesOn(r, q)
    <3>1. q[r].ctx + 1 > q[r].blocks * BlockSize
      BY <1>2 DEF NeedsBlock
    <3>2. (q[r].blocks + 1) * BlockSize = q[r].blocks * BlockSize + BlockSize
      BY <1>0
    <3>3. q[r].blocks + 1 - 1 = q[r].blocks
      BY <1>0
    <3>4. q[r].blocks * BlockSize \in Nat
      BY <1>0
    <3>5. /\ grown[r].ctx + 1 <= grown[r].blocks * BlockSize
          /\ grown[r].ctx + 1 > (grown[r].blocks - 1) * BlockSize
      BY <1>0, <2>1, <3>1, <3>2, <3>3, <3>4
    <3>6. GoesOn(r, grown)
      BY <2>1, <2>2, <3>5, ProduceTokenTable
    <3> QED
      BY <2>1, <3>6 DEF GoesOn
  <2>3. ASSUME PreemptOne(sealed, q)
        PROVE  GivesWay(q)
    <3>1. PICK v \in Running :
            /\ IsNewest(v, {x \in Running : q[x].blocks > 0})
            /\ req' = [q EXCEPT ![v] = [NewRequest("waiting") EXCEPT
                                          !.scheduled = q[v].scheduled]]
            /\ admit' = [admit EXCEPT ![v] = 0]
            /\ waiting' = Requeue(v)
      BY <2>3 DEF PreemptOne
    <3> DEFINE w == [NewRequest("waiting") EXCEPT !.scheduled = q[v].scheduled]
    <3>2. w.state = "waiting" /\ w.scheduled = q[v].scheduled
      BY DEF NewRequest
    <3> HIDE DEF w
    <3>3. v \in Req /\ req' = [q EXCEPT ![v] = w]
      BY <3>1 DEF Running, w
    <3>4. req'[v] = w /\ \A x \in Req \ {v} : req'[x] = q[x]
      BY <1>0, <3>3
    <3> QED
      BY <3>1, <3>2, <3>4 DEF GivesWay, Requeue
  <2> QED
    BY <1>2, <2>2, <2>3 DEF EmitToken, sealed, new, grown
<1> QED
  BY <1>1, <1>2

(***************************************************************************)
(* Blocks cover the context.                                               *)
(***************************************************************************)
\* Whatever a finished turn pushes, it is not running.
LEMMA TurnDoneCovers ==
  ASSUME NEW r \in Req, NEW d, IsTable(d), CoverOK(d), TurnDone(r, d)
  PROVE  CoverOK(req')
<1> DEFINE next == IF IsLast(r) THEN <<started + 1, 1>> ELSE NextTurn(r)
<1>1. \/ req' = d
      \/ req' = [d EXCEPT ![next] = NewRequest("pending")]
      \/ req' = [d EXCEPT ![next] = NewRequest("due")]
  BY DEF TurnDone
<1> HIDE DEF next
<1>2. ASSUME NEW st \in {"pending", "due"}, req' = [d EXCEPT ![next] = NewRequest(st)]
      PROVE  CoverOK(req')
  <2>1. NewRequest(st).state = st
    BY DEF NewRequest
  <2>2. \A x \in Req : req'[x] = IF x = next THEN NewRequest(st) ELSE d[x]
    BY <1>2 DEF IsTable
  <2> QED
    BY <2>1, <2>2 DEF CoverOK, Busy
<1> QED
  BY <1>1, <1>2

LEMMA TokenCovers ==
  ASSUME TypeOK, CoverOK(req), FirstToken \/ NextToken
  PROVE  CoverOK(req')
<1>1. PICK r, p, q : Emitting(r, p, q)
  BY TokenEmits
<1>2. /\ r \in Req /\ IsTable(q) /\ EmitToken(r, p, q)
      /\ q[r].state = "decode" /\ req[r].state \in Busy
      /\ q[r].blocks = req[r].blocks /\ q[r].ctx = req[r].ctx
      /\ \A x \in Req \ {r} : q[x] = req[x]
  BY <1>1 DEF Emitting, Emits
<1>3. Covers(q[r]) /\ CoverOK(q)
  BY <1>2 DEF CoverOK, Covers
<1>4. CASE GoesOn(r, q)
  <2>1. PICK d :
          /\ IsTable(d) /\ Covers(d[r]) /\ \A x \in Req \ {r} : d[x] = q[x]
          /\ req' = d \/ TurnDone(r, d)
    BY <1>4 DEF GoesOn
  <2>2. CoverOK(d)
    BY <1>3, <2>1 DEF CoverOK
  <2> QED
    BY <1>2, <2>1, <2>2, TurnDoneCovers
<1>5. CASE GivesWay(q)
  BY <1>3, <1>5 DEF GivesWay, CoverOK, Busy
<1> QED
  BY <1>2, <1>3, <1>4, <1>5, EmitTokenTable

LEMMA NextCovers == TypeInv /\ CoverOK(req) /\ [Next]_vars => CoverOK(req')
<1> SUFFICES ASSUME TypeInv, CoverOK(req), [Next]_vars PROVE CoverOK(req')
  OBVIOUS
<1>0. /\ TypeOK /\ req \in [Req -> Request] /\ waiting \in Seq(Req) /\ due \in Seq(Req)
      /\ prefilling \subseteq Req
  BY DEF TypeInv, TypeOK
<1>1. CASE FirstToken \/ NextToken
  BY <1>0, <1>1, TokenCovers
<1>2. ASSUME NEW r \in Req, NEW st \in {"due", "waiting"}, req' = [req EXCEPT ![r].state = st]
      PROVE  CoverOK(req')
  <2>1. req'[r].state = st /\ \A x \in Req \ {r} : req'[x] = req[x]
    BY <1>0, <1>2 DEF Request
  <2> QED
    BY <2>1 DEF CoverOK, Busy
<1>3. CASE DrainOne
  <2>1. Head(due) \in Req /\ req' = [req EXCEPT ![Head(due)].state = "waiting"]
    BY <1>0, <1>3 DEF DrainOne
  <2> QED
    BY <1>2, <2>1
<1>4. CASE \E r \in Req : PauseElapses(r)
  BY <1>2, <1>4 DEF PauseElapses
<1>5. CASE Admit
  <2> DEFINE r == Head(waiting)
  <2>1. r \in Req
    BY <1>0, <1>5 DEF Admit, CanAdmit
  <2>2. PICK w : /\ req' = [req EXCEPT ![r] = w]
                 /\ w.blocks = PromptBlocks(r) /\ w.ctx = Turn(r).prompt
    <3> DEFINE new(h) == [state |-> "prefill", blocks |-> PromptBlocks(r),
                          ctx |-> Turn(r).prompt, prefilled |-> h * BlockSize,
                          generated |-> req[r].generated, scheduled |-> TRUE]
    <3>1. PICK h \in Hits(r) : req' = [req EXCEPT ![r] = new(h)]
      BY <1>5 DEF Admit
    <3>2. new(h).blocks = PromptBlocks(r) /\ new(h).ctx = Turn(r).prompt
      OBVIOUS
    <3> HIDE DEF new
    <3> QED
      BY <3>1, <3>2
  <2> HIDE DEF r
  <2>3. Covers(w)
    BY <2>1, <2>2, PromptBlocksFacts DEF Covers
  <2>4. \A x \in Req : req'[x] = IF x = r THEN w ELSE req[x]
    BY <1>0, <2>1, <2>2
  <2> QED
    BY <2>3, <2>4 DEF CoverOK
<1>6. CASE AllocateChunk
  <2>1. PICK r \in prefilling : \E e : req' = [req EXCEPT ![r].prefilled = e]
    BY <1>6 DEF AllocateChunk
  <2>2. \A x \in Req : /\ req'[x].state = req[x].state
                       /\ req'[x].ctx = req[x].ctx /\ req'[x].blocks = req[x].blocks
    BY <1>0, <2>1 DEF Request
  <2> QED
    BY <2>2 DEF CoverOK, Covers
<1>7. CASE \/ EnterAdmission \/ GoIdle \/ Wake \/ RunDone \/ BeginStep \/ Stall
           \/ StartClock \/ ClockAdvanced \/ EndStep \/ Stopped \/ UNCHANGED vars
  <2>1. req' = req
    BY <1>7 DEF EnterAdmission, GoIdle, Wake, RunDone, BeginStep, Stall, StartClock,
                ClockAdvanced, EndStep, Stopped, vars
  <2> QED
    BY <2>1
<1> QED
  BY <1>1, <1>3, <1>4, <1>5, <1>6, <1>7 DEF Next, Loop

\* Space is secured before a token exists: a running sequence never holds fewer
\* blocks than its context needs, and never a block it has no token for
\* (Engine._try_admit, Engine._emit_token).
THEOREM SpaceBeforeTokens == Spec => []BlocksCoverContext
<1> DEFINE I == TypeInv /\ CoverOK(req)
<1>1. Init => I
  <2> SUFFICES ASSUME Init PROVE CoverOK(req)
    BY InitTypeInv
  <2>1. \A st : NewRequest(st).state = st
    BY DEF NewRequest
  <2>2. \A x \in Req : req[x].state \in {"absent", "due", "pending"}
    BY <2>1 DEF Init
  <2> QED
    BY <2>2 DEF CoverOK, Busy
<1>2. I /\ [Next]_vars => I'
  BY NextTypeInv, NextCovers
<1>3. I => BlocksCoverContext
  BY DEF CoverOK, Covers, BlocksCoverContext, Active, In, Busy
<1> QED
  BY <1>1, <1>2, <1>3, PTL DEF Spec

(***************************************************************************)
(* Seniority.                                                              *)
(***************************************************************************)
Early == {"absent", "pending", "due"}

\* In the queue w, whoever has run waits ahead of whoever has not.
Ordered(q, w) ==
  \A i, j \in 1 .. Len(w) : i < j /\ q[w[j]].scheduled => q[w[i]].scheduled

SeniorInv ==
  /\ \A x \in Req : req[x].state \in Early => ~req[x].scheduled
  /\ \A x \in Running : req[x].scheduled
  /\ Ordered(req, waiting)

\* The queue depends only on the marks of those in it.
LEMMA OrderedFrame ==
  ASSUME NEW q, NEW d, NEW w \in Seq(Req), Ordered(q, w),
         \A i \in 1 .. Len(w) : d[w[i]].scheduled = q[w[i]].scheduled
  PROVE  Ordered(d, w)
  BY DEF Ordered

LEMMA SeniorFrame ==
  ASSUME TypeOK, SeniorInv,
         \A x \in Req : /\ req'[x].scheduled = req[x].scheduled
                        /\ req'[x].state \in Early => req[x].state \in Early,
         \A x \in Req : admit'[x] # 0 => admit[x] # 0,
         waiting' = waiting
  PROVE  SeniorInv'
<1>1. waiting \in Seq(Req) /\ \A i \in 1 .. Len(waiting) : waiting[i] \in Req
  BY DEF TypeOK
<1>2. Ordered(req', waiting')
  BY <1>1, OrderedFrame DEF SeniorInv
<1>3. \A x \in Running' : x \in Running /\ x \in Req
  BY DEF Running
<1> QED
  BY <1>2, <1>3 DEF SeniorInv

LEMMA TokenSenior ==
  ASSUME TypeInv, OrderInv, CoverOK(req), SeniorInv, FirstToken \/ NextToken
  PROVE  SeniorInv'
<1>0. /\ TypeOK /\ QueuesOK /\ TurnsOK /\ AdmitOK /\ waiting \in Seq(Req)
      /\ admit \in [Req -> Nat]
  BY DEF TypeInv, TypeOK, OrderInv
<1>1. PICK r, p, q : Emitting(r, p, q)
  BY <1>0, TokenEmits
<1>2. /\ r \in Req /\ IsTable(q) /\ EmitToken(r, p, q)
      /\ q[r].state = "decode" /\ req[r].state \in Busy
      /\ q[r].blocks = req[r].blocks /\ q[r].ctx = req[r].ctx
      /\ q[r].scheduled = req[r].scheduled
      /\ \A x \in Req \ {r} : q[x] = req[x]
  BY <1>1 DEF Emitting, Emits
<1>3. /\ \A x \in Req : q[x].scheduled = req[x].scheduled
      /\ \A x \in Req : q[x].state \in Early => req[x].state \in Early
  BY <1>2 DEF Early
<1>4. GoesOn(r, q) \/ GivesWay(q)
  <2>1. Covers(q[r])
    BY <1>2 DEF CoverOK, Covers
  <2> QED
    BY <1>2, <2>1, EmitTokenTable
<1>5. ASSUME GoesOn(r, q)
      PROVE  SeniorInv'
  <2>1. PICK d :
          /\ IsTable(d) /\ d[r].scheduled = q[r].scheduled
          /\ \A x \in Req \ {r} : d[x] = q[x]
          /\ UNCHANGED <<admit, waiting>>
          /\ \/ d[r].state = q[r].state /\ req' = d
             \/ d[r].state = "done" /\ TurnDone(r, d)
    BY <1>5 DEF GoesOn
  <2>2. \A x \in Req : /\ d[x].scheduled = req[x].scheduled
                       /\ d[x].state \in Early => req[x].state \in Early
    BY <1>2, <1>3, <2>1 DEF Early
  <2>3. CASE req' = d
    BY <1>0, <2>1, <2>2, <2>3, SeniorFrame
  <2>4. ASSUME NEW n \in Req, NEW st \in {"pending", "due"}, Pushed(r, d, n, st)
        PROVE  SeniorInv'
    <3>1. /\ req[n].state = "absent" /\ req'[n] = NewRequest(st)
          /\ \A x \in Req \ {n} : req'[x] = d[x]
      BY <2>4 DEF Pushed
    <3>2. ~req'[n].scheduled
      BY <3>1 DEF NewRequest
    <3>3. n \notin Running
      BY <1>0, <3>1 DEF AdmitOK, Busy, FinishedNow
    <3>4. \A i \in 1 .. Len(waiting) : waiting[i] \in Req /\ waiting[i] # n
      BY <1>0, <3>1 DEF QueuesOK, InState
    <3>5. Ordered(req', waiting')
      BY <1>0, <2>1, <2>2, <3>1, <3>4, OrderedFrame DEF SeniorInv
    <3>6. Running' = Running /\ Running \subseteq Req
      BY <2>1 DEF Running
    <3>7. \A x \in Running' : req'[x].scheduled
      BY <2>2, <3>1, <3>3, <3>6 DEF SeniorInv
    <3>8. \A x \in Req : req'[x].state \in Early => ~req'[x].scheduled
      BY <2>2, <3>1, <3>2 DEF SeniorInv
    <3> QED
      BY <3>5, <3>7, <3>8 DEF SeniorInv
  <2>5. ASSUME TurnDone(r, d)
        PROVE  \/ req' = d
               \/ \E n \in Req, st \in {"pending", "due"} : Pushed(r, d, n, st)
    BY <1>0, <1>2, <2>1, <2>5, TurnDoneEffect
  <2> QED
    BY <2>1, <2>3, <2>4, <2>5
<1>6. ASSUME GivesWay(q)
      PROVE  SeniorInv'
  <2>1. PICK v \in Running :
          /\ req'[v].state = "waiting" /\ req'[v].scheduled = q[v].scheduled
          /\ \A x \in Req \ {v} : req'[x] = q[x]
          /\ admit' = [admit EXCEPT ![v] = 0]
          /\ waiting' = <<v>> \o waiting
    BY <1>6 DEF GivesWay
  <2>2. v \in Req /\ Running' \subseteq Running /\ Running \subseteq Req
    BY <1>0, <2>1 DEF Running
  <2>3. /\ \A x \in Req : req'[x].scheduled = req[x].scheduled
        /\ \A x \in Req : req'[x].state \in Early => req[x].state \in Early
    BY <1>3, <2>1, <2>2 DEF Early
  <2>4. req'[v].scheduled
    BY <2>1, <2>2, <2>3 DEF SeniorInv
  <2> DEFINE u == <<v>> \o waiting
  <2>5. /\ Len(waiting) \in Nat /\ u[1] = v
        /\ \A i \in 2 .. Len(u) : u[i] = waiting[i - 1] /\ i - 1 \in 1 .. Len(waiting)
        /\ \A i \in 1 .. Len(u) : i = 1 \/ i \in 2 .. Len(u)
        /\ \A i \in 1 .. Len(waiting) : waiting[i] \in Req
    BY <1>0, <2>2
  <2>6. u = waiting'
    BY <2>1
  <2> HIDE DEF u
  <2>7. ASSUME NEW i \in 1 .. Len(u), NEW j \in 1 .. Len(u), i < j, req'[u[j]].scheduled
        PROVE  req'[u[i]].scheduled
    <3>1. CASE i = 1
      BY <2>4, <2>5, <3>1
    <3>2. CASE i \in 2 .. Len(u)
      <4>1. j \in 2 .. Len(u) /\ i - 1 < j - 1
        BY <2>7, <3>2
      <4>2. /\ i - 1 \in 1 .. Len(waiting) /\ j - 1 \in 1 .. Len(waiting)
            /\ u[i] = waiting[i - 1] /\ u[j] = waiting[j - 1]
            /\ waiting[i - 1] \in Req /\ waiting[j - 1] \in Req
        BY <2>5, <3>2, <4>1
      <4>3. req[waiting[j - 1]].scheduled
        BY <2>3, <2>7, <4>2
      <4>4. req[waiting[i - 1]].scheduled
        BY <4>1, <4>2, <4>3 DEF SeniorInv, Ordered
      <4> QED
        BY <2>3, <4>2, <4>4
    <3> QED
      BY <2>5, <3>1, <3>2
  <2>8. Ordered(req', waiting')
    BY <2>6, <2>7 DEF Ordered
  <2> QED
    BY <2>2, <2>3, <2>8 DEF SeniorInv
<1> QED
  BY <1>4, <1>5, <1>6

LEMMA ArrivalSenior ==
  ASSUME TypeInv, OrderInv, SeniorInv, DrainOne
  PROVE  SeniorInv'
<1> DEFINE r == Head(due)
           u == Append(waiting, r)
<1>0. /\ waiting \in Seq(Req) /\ due \in Seq(Req) /\ due # <<>> /\ QueuesOK
      /\ req \in [Req -> Request]
      /\ req' = [req EXCEPT ![r].state = "waiting"]
      /\ waiting' = u /\ admit' = admit
  BY DEF TypeInv, TypeOK, OrderInv, DrainOne
<1>1. r \in Req /\ req[r].state = "due"
  BY <1>0, InStateTail DEF QueuesOK
<1>2. ~req[r].scheduled
  BY <1>1 DEF SeniorInv, Early
<1>3. /\ Len(u) = Len(waiting) + 1 /\ Len(waiting) \in Nat /\ u[Len(u)] = r
      /\ \A i \in 1 .. Len(waiting) : u[i] = waiting[i] /\ waiting[i] \in Req
  BY <1>0, <1>1
<1> HIDE DEF u, r
<1>4. \A x \in Req : /\ req'[x].scheduled = req[x].scheduled
                     /\ req'[x].state \in Early => req[x].state \in Early
  BY <1>0, <1>1 DEF Request, Early
<1>5. ASSUME NEW i \in 1 .. Len(u), NEW j \in 1 .. Len(u), i < j, req'[u[j]].scheduled
      PROVE  req'[u[i]].scheduled
  <2>1. u[j] # r
    BY <1>1, <1>2, <1>4, <1>5
  <2>2. i \in 1 .. Len(waiting) /\ j \in 1 .. Len(waiting)
    BY <1>3, <1>5, <2>1
  <2> QED
    BY <1>3, <1>4, <1>5, <2>2 DEF SeniorInv, Ordered
<1>6. Ordered(req', waiting')
  BY <1>0, <1>5 DEF Ordered
<1>7. Running' = Running /\ Running \subseteq Req
  BY <1>0 DEF Running
<1> QED
  BY <1>4, <1>6, <1>7 DEF SeniorInv

LEMMA AdmitSenior ==
  ASSUME TypeInv, OrderInv, SeniorInv, Admit
  PROVE  SeniorInv'
<1> DEFINE r == Head(waiting)
           u == Tail(waiting)
<1>0. /\ waiting \in Seq(Req) /\ waiting # <<>> /\ QueuesOK
      /\ req \in [Req -> Request] /\ admit \in [Req -> Nat] /\ waiting' = u
  BY DEF TypeInv, TypeOK, OrderInv, Admit, CanAdmit
<1>1. r \in Req /\ InState(req, waiting, "waiting")
  BY <1>0 DEF QueuesOK
<1>2. PICK n : admit' = [admit EXCEPT ![r] = n]
  BY DEF Admit
<1>3. PICK w : req' = [req EXCEPT ![r] = w] /\ w.state = "prefill" /\ w.scheduled
  <2> DEFINE new(h) == [state |-> "prefill", blocks |-> PromptBlocks(r),
                        ctx |-> Turn(r).prompt, prefilled |-> h * BlockSize,
                        generated |-> req[r].generated, scheduled |-> TRUE]
  <2>1. PICK h \in Hits(r) : req' = [req EXCEPT ![r] = new(h)]
    BY DEF Admit
  <2>2. new(h).state = "prefill" /\ new(h).scheduled
    OBVIOUS
  <2> HIDE DEF new
  <2> QED
    BY <2>1, <2>2
<1>4. /\ Len(u) = Len(waiting) - 1 /\ Len(waiting) \in Nat /\ r = waiting[1]
      /\ \A i \in 1 .. Len(u) : /\ u[i] = waiting[i + 1] /\ i + 1 \in 1 .. Len(waiting)
                                 /\ waiting[i + 1] \in Req /\ 1 \in 1 .. Len(waiting)
  BY <1>0
<1> HIDE DEF u, r
<1>5. req'[r] = w /\ \A x \in Req \ {r} : req'[x] = req[x]
  BY <1>0, <1>1, <1>3
<1>6. \A i \in 1 .. Len(u) : u[i] \in Req /\ u[i] # r
  BY <1>1, <1>4 DEF InState
<1>7. ASSUME NEW i \in 1 .. Len(u), NEW j \in 1 .. Len(u), i < j, req'[u[j]].scheduled
      PROVE  req'[u[i]].scheduled
  <2>1. req[waiting[j + 1]].scheduled
    BY <1>4, <1>5, <1>6, <1>7
  <2>2. i + 1 < j + 1
    BY <1>7
  <2>3. req[waiting[i + 1]].scheduled
    BY <1>4, <2>1, <2>2 DEF SeniorInv, Ordered
  <2> QED
    BY <1>4, <1>5, <1>6, <2>3
<1>8. Ordered(req', waiting')
  BY <1>0, <1>7 DEF Ordered
<1>9. \A x \in Running' : req'[x].scheduled
  <2>1. \A x \in Running' : x \in Req /\ (x = r \/ x \in Running)
    BY <1>0, <1>2 DEF Running
  <2> QED
    BY <1>3, <1>5, <2>1 DEF SeniorInv
<1>10. \A x \in Req : req'[x].state \in Early => ~req'[x].scheduled
  BY <1>3, <1>5 DEF SeniorInv, Early
<1> QED
  BY <1>8, <1>9, <1>10 DEF SeniorInv

LEMMA NextSenior ==
  ASSUME TypeInv, OrderInv, CoverOK(req), SeniorInv, [Next]_vars
  PROVE  SeniorInv'
<1>0. /\ TypeOK /\ req \in [Req -> Request] /\ admit \in [Req -> Nat] /\ prefilling \subseteq Req
  BY DEF TypeInv, TypeOK
<1>1. CASE FirstToken \/ NextToken
  BY <1>1, TokenSenior
<1>2. CASE DrainOne
  BY <1>2, ArrivalSenior
<1>3. CASE Admit
  BY <1>3, AdmitSenior
<1>4. CASE \E r \in Req : PauseElapses(r)
  <2>1. PICK r \in Req : /\ req[r].state = "pending" /\ UNCHANGED <<admit, waiting>>
                         /\ req' = [req EXCEPT ![r].state = "due"]
    BY <1>4 DEF PauseElapses
  <2>2. \A x \in Req : /\ req'[x].scheduled = req[x].scheduled
                       /\ req'[x].state \in Early => req[x].state \in Early
    BY <1>0, <2>1 DEF Request, Early
  <2> QED
    BY <1>0, <2>1, <2>2, SeniorFrame
<1>5. CASE AllocateChunk
  <2>1. PICK r \in prefilling : \E e : req' = [req EXCEPT ![r].prefilled = e]
    BY <1>5 DEF AllocateChunk
  <2>2. UNCHANGED <<admit, waiting>>
    BY <1>5 DEF AllocateChunk
  <2>3. \A x \in Req : req'[x].scheduled = req[x].scheduled /\ req'[x].state = req[x].state
    BY <1>0, <2>1 DEF Request
  <2> QED
    BY <1>0, <2>2, <2>3, SeniorFrame
<1>6. CASE EndStep
  <2>1. /\ req' = req /\ waiting' = waiting
        /\ \A x \in Req : admit'[x] # 0 => admit[x] # 0
    BY <1>6 DEF EndStep
  <2> QED
    BY <1>0, <2>1, SeniorFrame
<1>7. CASE \/ EnterAdmission \/ GoIdle \/ Wake \/ RunDone \/ BeginStep \/ Stall
           \/ StartClock \/ ClockAdvanced \/ Stopped \/ UNCHANGED vars
  <2>1. UNCHANGED <<req, waiting, admit>>
    BY <1>7 DEF EnterAdmission, GoIdle, Wake, RunDone, BeginStep, Stall, StartClock,
                ClockAdvanced, Stopped, vars
  <2> QED
    BY <1>0, <2>1, SeniorFrame
<1> QED
  BY <1>1, <1>2, <1>3, <1>4, <1>5, <1>6, <1>7 DEF Next, Loop

\* Whoever has run before and was preempted waits ahead of whoever has not run
\* yet, if every output is longer than one token (the appendleft of
\* Engine._preempt_one against the append of Engine._drain_arrivals).
THEOREM SeniorityKept ==
  ASSUME LongOutputs
  PROVE  Spec => []PreemptedGoFirst
<1> DEFINE I == TypeInv /\ OrderInv /\ CoverOK(req) /\ SeniorInv
<1>1. Init => I
  <2> SUFFICES ASSUME Init PROVE CoverOK(req) /\ SeniorInv
    BY InitTypeInv, InitOrder
  <2>1. \A st : NewRequest(st).state = st /\ NewRequest(st).scheduled = FALSE
    BY DEF NewRequest
  <2>2. \A x \in Req : req[x].state \in Early /\ ~req[x].scheduled
    BY <2>1 DEF Init, Early
  <2>3. Running = {} /\ waiting = <<>>
    BY DEF Init, Running
  <2> QED
    BY <2>2, <2>3 DEF CoverOK, Busy, SeniorInv, Ordered, Early
<1>2. I /\ [Next]_vars => I'
  BY NextTypeInv, NextOrder, NextCovers, NextSenior
<1>3. I => PreemptedGoFirst
  BY DEF SeniorInv, Ordered, PreemptedGoFirst
<1> QED
  BY <1>1, <1>2, <1>3, PTL DEF Spec

(***************************************************************************)
(* Turns of one session.                                                   *)
(***************************************************************************)
LEMMA TurnFacts ==
  ASSUME NEW r \in Req
  PROVE  /\ r[1] \in Sessions /\ r[2] \in Nat /\ r[2] >= 1 /\ r = <<r[1], r[2]>>
         /\ \A t \in 1 .. r[2] : <<r[1], t>> \in Req
<1>1. r[1] \in Sessions /\ r[2] \in 1 .. Len(Trace[r[1]]) /\ r = <<r[1], r[2]>>
  BY ReqFacts
<1>2. Len(Trace[r[1]]) \in Nat
  BY <1>1, EngineAssumption DEF Sessions
<1>3. \A t \in 1 .. r[2] : t \in 1 .. Len(Trace[r[1]])
  BY <1>1, <1>2
<1> QED
  BY <1>1, <1>2, <1>3 DEF Req

\* A turn that has been asked for comes after all turns before it.
LEMMA EarlierDone ==
  ASSUME TurnsOK, NEW r \in Req, req[r].state # "absent",
         NEW x \in Req, x[1] = r[1], x[2] < r[2]
  PROVE  req[x].state = "done"
<1> DEFINE S == {t \in x[2] + 1 .. r[2] : req[<<r[1], t>>].state # "absent"}
<1>1. /\ r[2] \in Nat /\ x[2] \in Nat /\ x[2] >= 1
      /\ r = <<r[1], r[2]>> /\ x = <<r[1], x[2]>>
      /\ \A t \in 1 .. r[2] : <<r[1], t>> \in Req
  BY TurnFacts
<1>2. S \in SUBSET (0 .. r[2]) /\ r[2] \in S
  BY <1>1
<1>3. PICK t \in S : \A i \in S : t <= i
  <2> HIDE DEF S
  <2> QED
    BY <1>1, <1>2, LeastNumber
<1>4. t \in x[2] + 1 .. r[2] /\ t \in Nat /\ req[<<r[1], t>>].state # "absent"
  BY <1>1
<1>5. <<r[1], t>> \in Req /\ ~IsFirst(<<r[1], t>>)
  BY <1>1, <1>4 DEF IsFirst
<1>6. req[<<r[1], t - 1>>].state = "done"
  BY <1>4, <1>5 DEF TurnsOK
<1>7. t - 1 \notin S
  BY <1>3, <1>4
<1>8. t - 1 = x[2]
  BY <1>1, <1>4, <1>6, <1>7
<1> QED
  BY <1>1, <1>6, <1>8

\* At most one turn of a session is between its arrival and its last token.
LEMMA OneOutstanding ==
  ASSUME TurnsOK, NEW r \in Req, NEW x \in Req, x[1] = r[1],
         req[r].state \notin {"absent", "done"}, req[x].state \notin {"absent", "done"}
  PROVE  x = r
<1>1. /\ r[2] \in Nat /\ x[2] \in Nat /\ r = <<r[1], r[2]>> /\ x = <<x[1], x[2]>>
  BY TurnFacts
<1>2. ~(x[2] < r[2]) /\ ~(r[2] < x[2])
  BY EarlierDone
<1>3. x[2] = r[2]
  BY <1>1, <1>2
<1> QED
  BY <1>1, <1>3

\* A prompt contains every earlier turn of its session.
LEMMA PromptsGrow ==
  ASSUME NEW r \in Req, NEW x \in Req, x[1] = r[1], x[2] < r[2]
  PROVE  Turn(r).prompt >= Turn(x).prompt + Turn(x).output
<1> DEFINE s == r[1]
           c == Turn(x).prompt + Turn(x).output
           S == {t \in x[2] + 1 .. r[2] : ~(Turn(<<s, t>>).prompt >= c)}
<1>1. /\ r[2] \in Nat /\ x[2] \in Nat /\ x[2] >= 1 /\ s \in Sessions
      /\ r = <<s, r[2]>> /\ x = <<s, x[2]>>
      /\ \A t \in 1 .. r[2] : <<s, t>> \in Req
  BY TurnFacts
<1>2. \A y \in Req : Turn(y).prompt \in Nat /\ Turn(y).output \in Nat
  BY ReqFacts
<1>3. c \in Nat
  BY <1>2
<1>4. SUFFICES ASSUME ~(Turn(r).prompt >= c) PROVE FALSE
  OBVIOUS
<1> HIDE DEF c, s
<1>5. S \in SUBSET (0 .. r[2]) /\ r[2] \in S
  BY <1>1, <1>4
<1>6. PICK t \in S : \A i \in S : t <= i
  <2> HIDE DEF S
  <2> QED
    BY <1>1, <1>5, LeastNumber
<1>7. t \in x[2] + 1 .. r[2] /\ t \in Nat /\ ~(Turn(<<s, t>>).prompt >= c) /\ t - 1 \in 1 .. r[2]
  BY <1>1
<1>8. Turn(<<s, t>>).prompt >= Turn(<<s, t - 1>>).prompt + Turn(<<s, t - 1>>).output
  <2>1. <<s, t>> \in Req
    BY <1>1, <1>7
  <2>2. t \in 1 .. Len(Trace[s]) /\ s \in 1 .. Len(Trace)
    BY <1>1, <2>1, ReqFacts DEF Sessions
  <2>3. t > 1
    BY <1>1, <1>7
  <2> QED
    BY <2>2, <2>3, TraceAssumption DEF Turn
<1>9. <<s, t - 1>> \in Req
  BY <1>1, <1>7
<1>10. CASE t - 1 = x[2]
  BY <1>1, <1>2, <1>7, <1>8, <1>10, <1>3 DEF c
<1>11. CASE t - 1 # x[2]
  <2>1. t - 1 \notin S /\ t - 1 \in x[2] + 1 .. r[2]
    BY <1>1, <1>6, <1>7, <1>11
  <2>2. Turn(<<s, t - 1>>).prompt >= c
    BY <2>1
  <2>3. <<s, t>> \in Req
    BY <1>1, <1>7
  <2> QED
    BY <1>2, <1>3, <1>7, <1>8, <1>9, <2>2, <2>3
<1> QED
  BY <1>10, <1>11

(***************************************************************************)
(* The load of a closed loop.                                              *)
(***************************************************************************)
LastTurn(s) == <<s, Len(Trace[s])>>

\* The sessions among the first n whose last turn is not served yet.
OpenTo(n) == {s \in 1 .. n : served[LastTurn(s)] = 0}

LoadOK ==
  /\ live \subseteq OpenTo(started)
  /\ ClosedLoop => /\ Cardinality(OpenTo(started)) <= Concurrency
                   /\ started < Len(Trace) => Cardinality(OpenTo(started)) = Concurrency

LEMMA LastTurnFacts ==
  ASSUME NEW s \in Sessions
  PROVE  /\ LastTurn(s) \in Req /\ LastTurn(s)[1] = s /\ IsLast(LastTurn(s))
         /\ <<s, 1>> \in Req
         /\ \A r \in Req : r[1] = s => (IsLast(r) <=> r = LastTurn(s)) /\ r[2] <= Len(Trace[s])
<1>1. Len(Trace[s]) \in Nat \ {0}
  BY EngineAssumption DEF Sessions
<1>2. LastTurn(s) \in Req
  BY <1>1 DEF LastTurn, Req
<1>3. \A r \in Req : r[2] \in 1 .. Len(Trace[r[1]]) /\ r = <<r[1], r[2]>>
  BY ReqFacts
<1>4. \A r \in Req : r[1] = s => (IsLast(r) <=> r = LastTurn(s)) /\ r[2] <= Len(Trace[s])
  BY <1>1, <1>3 DEF LastTurn, IsLast
<1> QED
  BY <1>2, <1>4, FirstTurn DEF LastTurn, IsLast

\* A session is open, and started, while one of its turns is between its arrival
\* and its last token.
LEMMA OutstandingOpen ==
  ASSUME TypeOK, TurnsOK, NEW r \in Req, req[r].state \notin {"absent", "done"}
  PROVE  r[1] \in OpenTo(started)
<1>0. r[1] \in Sessions /\ r[1] \in Nat /\ r[1] >= 1 /\ started \in Nat
  BY ReqFacts DEF TypeOK, Sessions
<1> DEFINE s == r[1]
           l == LastTurn(s)
           f == <<s, 1>>
<1>1. /\ l \in Req /\ l[1] = s /\ r[2] \in Nat /\ l[2] \in Nat /\ r[2] <= l[2]
      /\ f \in Req /\ f[1] = s /\ f[2] = 1 /\ r[2] >= 1
      /\ r = <<s, r[2]>> /\ l = <<s, l[2]>>
  BY <1>0, LastTurnFacts, TurnFacts DEF LastTurn
<1> HIDE DEF s, l, f
<1>2. req[l].state # "done"
  <2>1. CASE r[2] < l[2]
    BY <1>1, <2>1, EarlierDone DEF s
  <2>2. CASE r[2] = l[2]
    BY <1>1, <2>2
  <2> QED
    BY <1>1, <2>1, <2>2
<1>3. served[l] = 0
  BY <1>1, <1>2 DEF TurnsOK
<1>4. req[f].state # "absent"
  <2>1. CASE 1 < r[2]
    BY <1>1, <2>1, EarlierDone DEF s
  <2>2. CASE 1 = r[2]
    BY <1>1, <2>2 DEF f
  <2> QED
    BY <1>1, <2>1, <2>2
<1>5. ~(s > started)
  BY <1>0, <1>4 DEF s, f, TurnsOK
<1> QED
  BY <1>0, <1>3, <1>5 DEF OpenTo, s, l

LEMMA OpenFinite ==
  ASSUME NEW n \in Nat
  PROVE  IsFiniteSet(OpenTo(n)) /\ Cardinality(OpenTo(n)) \in Nat
<1>1. IsFiniteSet(1 .. n) /\ OpenTo(n) \in SUBSET (1 .. n)
  BY FS_Interval DEF OpenTo
<1> QED
  BY <1>1, FS_Subset, FS_CardinalityType

\* The end of a turn.
LEMMA TurnDoneLoad ==
  ASSUME TypeOK, TurnsOK, LoadOK, NEW r \in Req, req[r].state \in Busy,
         NEW d, TurnDone(r, d), served' = [served EXCEPT ![r] = @ + 1]
  PROVE  LoadOK'
<1> DEFINE s == r[1]
<1>0. /\ started \in 1 .. Len(Trace) /\ started \in Nat /\ Len(Trace) \in Nat
      /\ served \in [Req -> Nat] /\ s \in Sessions
      /\ s \in OpenTo(started) /\ \A u \in 1 .. started : u \in Sessions
      /\ served[r] = 0
  <2>1. started \in 1 .. Len(Trace) /\ served \in [Req -> Nat]
    BY DEF TypeOK
  <2>2. started \in Nat /\ Len(Trace) \in Nat /\ \A u \in 1 .. started : u \in Sessions
    BY <2>1, EngineAssumption DEF Sessions
  <2>3. s \in Sessions /\ req[r].state \notin {"absent", "done"}
    BY ReqFacts DEF Busy
  <2>4. s \in OpenTo(started)
    BY <2>3, OutstandingOpen
  <2>5. served[r] = 0
    BY <2>3 DEF TurnsOK
  <2> QED
    BY <2>1, <2>2, <2>3, <2>4, <2>5
<1>1. \A x \in Req : served'[x] = IF x = r THEN 1 ELSE served[x]
  BY <1>0
<1>2. \A u \in Sessions : LastTurn(u) \in Req /\ LastTurn(u)[1] = u
  BY LastTurnFacts
<1>3. IsFiniteSet(OpenTo(started)) /\ Cardinality(OpenTo(started)) \in Nat
  BY <1>0, OpenFinite
<1> HIDE DEF s
<1>4. CASE ~IsLast(r)
  <2>1. started' = started /\ live' = live
    BY <1>4 DEF TurnDone, StartsAnother
  <2>2. \A u \in Sessions : served'[LastTurn(u)] = served[LastTurn(u)]
    BY <1>1, <1>2, <1>4, LastTurnFacts
  <2>3. OpenTo(started)' = OpenTo(started)
    BY <1>0, <2>1, <2>2 DEF OpenTo, LastTurn
  <2> QED
    BY <2>1, <2>3 DEF LoadOK
<1>5. CASE IsLast(r)
  <2>1. live' = live \ {s}
    BY <1>5 DEF TurnDone, s
  <2>2. \A u \in Sessions : served'[LastTurn(u)] = 0 <=> served[LastTurn(u)] = 0 /\ u # s
    <3>1. r = LastTurn(s)
      BY <1>0, <1>5, LastTurnFacts DEF s
    <3>2. \A u \in Sessions : LastTurn(u) = r <=> u = s
      BY <1>2, <3>1 DEF s
    <3> QED
      BY <1>1, <1>2, <3>2
  <2>3. CASE ~StartsAnother(r)
    <3>1. started' = started
      BY <2>3 DEF TurnDone
    <3>2. OpenTo(started)' = OpenTo(started) \ {s}
      BY <1>0, <2>2, <3>1 DEF OpenTo, LastTurn
    <3>3. Cardinality(OpenTo(started)') = Cardinality(OpenTo(started)) - 1
      <4>1. Cardinality(OpenTo(started) \ {s}) = Cardinality(OpenTo(started)) - 1
        BY <1>0, <1>3, FS_RemoveElement
      <4> QED
        BY <3>2, <4>1
    <3>4. ClosedLoop => ~(started' < Len(Trace)) /\ Cardinality(OpenTo(started)') <= Concurrency
      BY <1>0, <1>3, <1>5, <2>3, <3>1, <3>3, EngineAssumption DEF LoadOK, StartsAnother
    <3> QED
      BY <2>1, <3>2, <3>4 DEF LoadOK
  <2>4. CASE StartsAnother(r)
    <3> DEFINE n == started + 1
               rest == OpenTo(started) \ {s}
    <3>1. started' = n /\ ClosedLoop /\ started < Len(Trace)
      BY <2>4 DEF TurnDone, StartsAnother
    <3>2. n \in Sessions /\ n \notin OpenTo(started)
      BY <1>0, <3>1 DEF Sessions, OpenTo
    <3>3. served[LastTurn(n)] = 0 /\ n # s
      <4> DEFINE l == LastTurn(n)
      <4>1. /\ l \in Req /\ <<n, 1>> \in Req /\ l[1] = n /\ l[2] \in Nat /\ l[2] >= 1
            /\ l = <<n, l[2]>>
        BY <3>2, LastTurnFacts, TurnFacts DEF LastTurn
      <4>2. req[<<n, 1>>].state = "absent"
        BY <1>0, <3>2 DEF TurnsOK
      <4> HIDE DEF l, n
      <4>3. req[l].state = "absent"
        <5>1. CASE 1 < l[2]
          BY <4>1, <4>2, <5>1, EarlierDone
        <5>2. CASE 1 = l[2]
          BY <4>1, <4>2, <5>2
        <5> QED
          BY <4>1, <5>1, <5>2
      <4>4. served[l] = 0
        BY <4>1, <4>3 DEF TurnsOK
      <4> QED
        BY <1>0, <3>2, <4>4 DEF l
    <3>4. \A u : u \in 1 .. n <=> u \in 1 .. started \/ u = n
      BY <1>0
    <3>5. OpenTo(started)' = rest \cup {n}
      <4> HIDE DEF n
      <4> QED
        BY <1>0, <2>2, <3>1, <3>2, <3>3, <3>4 DEF OpenTo, LastTurn
    <3>6. IsFiniteSet(rest) /\ Cardinality(rest) = Cardinality(OpenTo(started)) - 1 /\ n \notin rest
      BY <1>0, <1>3, <3>2, FS_RemoveElement
    <3>7. Cardinality(OpenTo(started)') = Cardinality(OpenTo(started))
      <4>1. Cardinality(rest \cup {n}) = Cardinality(rest) + 1
        BY <3>6, FS_AddElement
      <4> QED
        BY <1>3, <3>5, <3>6, <4>1
    <3>8. Cardinality(OpenTo(started)) = Concurrency
      BY <3>1 DEF LoadOK
    <3>9. live' \subseteq OpenTo(started)'
      BY <2>1, <3>5 DEF LoadOK
    <3> QED
      BY <3>7, <3>8, <3>9, EngineAssumption DEF LoadOK
  <2> QED
    BY <2>3, <2>4
<1> QED
  BY <1>4, <1>5

LEMMA QuietLoad ==
  ASSUME LoadOK, UNCHANGED <<started, live, served>>
  PROVE  LoadOK'
<1>1. OpenTo(started)' = OpenTo(started)
  BY DEF OpenTo, LastTurn
<1> QED
  BY <1>1 DEF LoadOK

LEMMA NextLoad ==
  ASSUME TypeInv, OrderInv, LoadOK, [Next]_vars
  PROVE  LoadOK'
<1>0. TypeOK /\ TurnsOK /\ QueuesOK /\ due \in Seq(Req)
  BY DEF TypeInv, TypeOK, OrderInv
<1>1. CASE FirstToken \/ NextToken
  <2>1. PICK r, p, q : Emitting(r, p, q)
    BY <1>0, <1>1, TokenEmits
  <2>2. r \in Req /\ req[r].state \in Busy /\ IsTable(q) /\ EmitToken(r, p, q)
    BY <2>1 DEF Emitting, Emits
  <2>3. CASE Finished(r, p, q)
    <3>1. \E d : TurnDone(r, d) /\ served' = [served EXCEPT ![r] = @ + 1]
      BY <2>3 DEF Finished
    <3> QED
      BY <1>0, <2>2, <3>1, TurnDoneLoad
  <2>4. CASE Advanced(r, p, q) \/ Preempted(r, p, q)
    BY <2>4, QuietLoad DEF Advanced, Preempted
  <2> QED
    BY <2>2, <2>3, <2>4, EmitTokenEffect
<1>2. CASE DrainOne
  <2> DEFINE r == Head(due)
  <2>1. r \in Req /\ req[r].state = "due"
    BY <1>0, <1>2, InStateTail DEF DrainOne, QueuesOK
  <2>2. /\ UNCHANGED <<started, served>>
        /\ live' \subseteq live \cup {r[1]}
    BY <1>2 DEF DrainOne
  <2>3. r[1] \in OpenTo(started)
    BY <1>0, <2>1, OutstandingOpen
  <2>4. OpenTo(started)' = OpenTo(started)
    BY <2>2 DEF OpenTo, LastTurn
  <2> QED
    BY <2>2, <2>3, <2>4 DEF LoadOK
<1>3. CASE \E r \in Req : PauseElapses(r)
  BY <1>3, QuietLoad DEF PauseElapses
<1>4. CASE \/ Admit \/ AllocateChunk \/ EnterAdmission \/ GoIdle \/ Wake \/ RunDone \/ BeginStep
           \/ Stall \/ StartClock \/ ClockAdvanced \/ EndStep \/ Stopped \/ UNCHANGED vars
  <2>1. UNCHANGED <<started, live, served>>
    BY <1>4 DEF Admit, AllocateChunk, EnterAdmission, GoIdle, Wake, RunDone, BeginStep, Stall,
                StartClock, ClockAdvanced, EndStep, Stopped, vars
  <2> QED
    BY <2>1, QuietLoad
<1> QED
  BY <1>1, <1>2, <1>3, <1>4 DEF Next, Loop

LEMMA InitLoad ==
  ASSUME Init
  PROVE  LoadOK
<1>1. /\ live = {} /\ \A r \in Req : served[r] = 0
      /\ started = IF ClosedLoop THEN Initially ELSE Len(Trace)
  BY DEF Init
<1>2. Len(Trace) \in Nat /\ Concurrency \in Nat \ {0} /\ Initially \in 1 .. Len(Trace)
  BY EngineAssumption, InitiallyType
<1>3. ASSUME ClosedLoop
      PROVE  /\ Cardinality(OpenTo(started)) <= Concurrency
             /\ started < Len(Trace) => Cardinality(OpenTo(started)) = Concurrency
  <2>1. started \in Nat /\ started <= Concurrency /\ (started < Len(Trace) => started = Concurrency)
        /\ started <= Len(Trace)
    BY <1>1, <1>2, <1>3 DEF Initially, Least
  <2>2. \A s \in 1 .. started : served[LastTurn(s)] = 0
    <3>1. \A s \in 1 .. started : s \in Sessions
      BY <1>2, <2>1 DEF Sessions
    <3> QED
      BY <1>1, <3>1, LastTurnFacts
  <2>3. OpenTo(started) = 1 .. started
    BY <2>2 DEF OpenTo
  <2>4. Cardinality(1 .. started) = started
    BY <2>1, FS_Interval
  <2> QED
    BY <1>2, <2>1, <2>3, <2>4
<1> QED
  BY <1>1, <1>3 DEF LoadOK

\* A closed loop keeps at most Concurrency sessions between their first arrival
\* and their last token, and exactly that many while there are sessions to
\* start, if every output is longer than one token (the session queue of
\* Engine._drain_arrivals and _on_session_turn_done).
THEOREM LoadKept ==
  ASSUME LongOutputs
  PROVE  Spec => []ClosedLoopLoad
<1> DEFINE I == TypeInv /\ OrderInv /\ LoadOK
<1>1. Init => I
  BY InitTypeInv, InitOrder, InitLoad
<1>2. I /\ [Next]_vars => I'
  BY NextTypeInv, NextOrder, NextLoad
<1>3. I => ClosedLoopLoad
  <2> SUFFICES ASSUME TypeOK, LoadOK PROVE ClosedLoopLoad
    BY DEF TypeInv
  <2>1. \A s \in 1 .. started : s \in Sessions
    BY EngineAssumption DEF TypeOK, Sessions
  <2>2. {s \in 1 .. started : \E r \in Req : r[1] = s /\ IsLast(r) /\ served[r] = 0}
          = OpenTo(started)
    BY <2>1, LastTurnFacts DEF OpenTo
  <2> QED
    BY <2>2 DEF LoadOK, ClosedLoopLoad
<1> QED
  BY <1>1, <1>2, <1>3, PTL DEF Spec

(***************************************************************************)
(* The service.                                                            *)
(***************************************************************************)
Waits == {"waiting", "prefill", "decode"}
TurnsOf(s) == {r \in Req : r[1] = s}
AnsweredOf(s) == {r \in Req : r[1] = s /\ served[r] > 0}

LEMMA AskedMeans ==
  ASSUME NEW s
  PROVE  /\ s \in Asked <=> s \in Sessions /\ \E r \in Req : r[1] = s /\ req[r].state \in Waits
         /\ (s \in Asked)' <=> s \in Sessions /\ \E r \in Req : r[1] = s /\ req'[r].state \in Waits
  BY DEF Asked, Active, In, Waits

LEMMA TurnsOfFinite ==
  ASSUME NEW s \in Sessions
  PROVE  IsFiniteSet(TurnsOf(s)) /\ Cardinality(TurnsOf(s)) = Len(Trace[s])
<1> DEFINE n == Len(Trace[s])
           f == [t \in 1 .. n |-> <<s, t>>]
<1>1. n \in Nat
  BY EngineAssumption DEF Sessions
<1>2. \A t \in 1 .. n : <<s, t>> \in TurnsOf(s)
  BY DEF TurnsOf, Req
<1>3. \A r \in TurnsOf(s) : r[2] \in 1 .. n /\ r = <<s, r[2]>>
  BY ReqFacts DEF TurnsOf
<1>4. f \in Bijection(1 .. n, TurnsOf(s))
  <2>1. f \in [1 .. n -> TurnsOf(s)]
    BY <1>2
  <2>2. \A r \in TurnsOf(s) : \E t \in 1 .. n : f[t] = r
    BY <1>3
  <2>3. \A t, u \in 1 .. n : f[t] = f[u] => t = u
    OBVIOUS
  <2>4. IsInjective(f)
    BY <2>3 DEF IsInjective
  <2> QED
    BY <2>1, <2>2, <2>4 DEF Bijection, Injection, Surjection
<1>5. ExistsBijection(1 .. n, TurnsOf(s))
  BY <1>4 DEF ExistsBijection
<1>6. IsFiniteSet(1 .. n)
  BY <1>1, FS_Interval
<1> QED
  BY <1>1, <1>5, <1>6, FS_Bijection, FS_CountingElements

LEMMA AnsweredFacts ==
  ASSUME NEW s \in Sessions
  PROVE  /\ AnsweredOf(s) \in SUBSET TurnsOf(s) /\ IsFiniteSet(AnsweredOf(s))
         /\ Cardinality(AnsweredOf(s)) \in Nat
         /\ Answered[s] = Cardinality(AnsweredOf(s))
         /\ Cardinality(AnsweredOf(s)) < Len(Trace[s]) <=> AnsweredOf(s) # TurnsOf(s)
<1>1. AnsweredOf(s) \in SUBSET TurnsOf(s)
  BY DEF AnsweredOf, TurnsOf
<1>2. Answered[s] = Cardinality(AnsweredOf(s))
  BY DEF Answered, AnsweredOf
<1>3. /\ IsFiniteSet(AnsweredOf(s)) /\ Cardinality(AnsweredOf(s)) <= Len(Trace[s])
      /\ Cardinality(AnsweredOf(s)) = Len(Trace[s]) => AnsweredOf(s) = TurnsOf(s)
      /\ AnsweredOf(s) = TurnsOf(s) => Cardinality(AnsweredOf(s)) = Len(Trace[s])
  BY <1>1, TurnsOfFinite, FS_Subset
<1>4. Cardinality(AnsweredOf(s)) \in Nat /\ Len(Trace[s]) \in Nat
  BY <1>3, FS_CardinalityType, EngineAssumption DEF Sessions
<1> QED
  BY <1>1, <1>2, <1>3, <1>4

\* A session that has turns left has its last turn left.
LEMMA OpenSessions ==
  ASSUME TypeOK, TurnsOK
  PROVE  Service!Open \subseteq OpenTo(started)
<1> SUFFICES ASSUME NEW s \in Sessions, Answered[s] < Len(Trace[s]),
                    Answered[s] > 0 \/ s \in Asked
             PROVE  s \in OpenTo(started)
  BY DEF Service!Open
<1>1. PICK r \in Req : r[1] = s /\ req[r].state # "absent"
  <2>1. CASE Answered[s] > 0
    <3>1. AnsweredOf(s) # {}
      BY <2>1, AnsweredFacts, FS_EmptySet
    <3> QED
      BY <3>1 DEF AnsweredOf, TurnsOK
  <2>2. CASE s \in Asked
    BY <2>2, AskedMeans DEF Waits
  <2> QED
    BY <2>1, <2>2
<1>2. CASE req[r].state # "done"
  BY <1>1, <1>2, OutstandingOpen
<1>3. CASE req[r].state = "done"
  <2>0. started \in Nat /\ s \in Nat /\ s >= 1
    BY DEF TypeOK, Sessions
  <2>1. PICK x \in Req : x[1] = s /\ served[x] = 0
    <3>1. PICK x \in TurnsOf(s) : x \notin AnsweredOf(s)
      BY AnsweredFacts
    <3>2. x \in Req /\ x[1] = s /\ ~(served[x] > 0)
      BY <3>1 DEF TurnsOf, AnsweredOf
    <3>3. served[x] = 0
      BY <3>2 DEF TurnsOK
    <3> QED
      BY <3>2, <3>3
  <2>2. req[x].state # "done"
    BY <2>1 DEF TurnsOK
  <2> DEFINE l == LastTurn(s)
             f == <<s, 1>>
  <2>3. /\ l \in Req /\ l[1] = s /\ l[2] \in Nat /\ x[2] \in Nat /\ x[2] <= l[2]
        /\ f \in Req /\ f[1] = s /\ f[2] = 1 /\ r[2] \in Nat /\ r[2] >= 1
        /\ r = <<s, r[2]>> /\ l = <<s, l[2]>> /\ x = <<s, x[2]>>
    BY <1>1, <2>1, LastTurnFacts, TurnFacts DEF LastTurn
  <2> HIDE DEF l, f
  <2>4. req[l].state # "done"
    <3>1. CASE x[2] < l[2]
      BY <2>1, <2>2, <2>3, <3>1, EarlierDone
    <3>2. CASE x[2] = l[2]
      BY <2>2, <2>3, <3>2
    <3> QED
      BY <2>3, <3>1, <3>2
  <2>5. req[f].state # "absent"
    <3>1. CASE 1 < r[2]
      BY <1>1, <2>3, <3>1, EarlierDone
    <3>2. CASE 1 = r[2]
      BY <1>1, <2>3, <3>2 DEF f
    <3> QED
      BY <2>3, <3>1, <3>2
  <2>6. served[l] = 0 /\ ~(s > started)
    BY <2>3, <2>4, <2>5 DEF TurnsOK, f
  <2> QED
    BY <2>0, <2>6 DEF OpenTo, l
<1> QED
  BY <1>2, <1>3

LEMMA ServiceStutter ==
  ASSUME served' = served,
         \A x \in Req : req'[x].state \in Waits <=> req[x].state \in Waits
  PROVE  UNCHANGED Service!svars
<1>1. Answered' = Answered
  BY DEF Answered
<1>2. \A s : (s \in Asked)' <=> s \in Asked
  BY AskedMeans
<1>3. Asked' = Asked
  BY <1>2 DEF Asked
<1> QED
  BY <1>1, <1>3 DEF Service!svars

\* An arrival that is drained asks for its turn.
LEMMA DrainAsks ==
  ASSUME TypeOK, TurnsOK, QueuesOK, LoadOK, DrainOne
  PROVE  \E s \in Sessions : Service!Ask(s)
<1> DEFINE r == Head(due)
           s == r[1]
<1>0. /\ req \in [Req -> Request] /\ due \in Seq(Req) /\ due # <<>>
      /\ req' = [req EXCEPT ![r].state = "waiting"] /\ served' = served
      /\ started \in Nat /\ Len(Trace) \in Nat
  <2>1. /\ due # <<>> /\ served' = served
        /\ req' = [req EXCEPT ![r].state = "waiting"]
    BY DEF DrainOne
  <2>2. /\ req \in [Req -> Request] /\ due \in Seq(Req) /\ started \in 1 .. Len(Trace)
    BY DEF TypeOK
  <2> HIDE DEF r
  <2> QED
    BY <2>1, <2>2, EngineAssumption
<1>1. r \in Req /\ req[r].state = "due"
  BY <1>0, InStateTail DEF QueuesOK
<1> HIDE DEF r
<1>2. s \in Sessions
  BY <1>1, ReqFacts
<1>3. /\ req'[r].state = "waiting" /\ \A x \in Req \ {r} : req'[x] = req[x]
  BY <1>0, <1>1
<1>4. \A x \in Req : x[1] = s => req[x].state \notin Waits
  BY <1>1, OneOutstanding DEF Waits
<1>5. s \notin Asked
  BY <1>4, AskedMeans
<1>6. Answered[s] < Len(Trace[s])
  <2>1. r \in TurnsOf(s) /\ r \notin AnsweredOf(s)
    BY <1>1 DEF TurnsOf, AnsweredOf, TurnsOK
  <2> QED
    BY <1>2, <2>1, AnsweredFacts
<1>7. Cardinality(Service!Open \cup {s}) <= IF ClosedLoop THEN Concurrency ELSE Len(Trace)
  <2>1. Service!Open \cup {s} \subseteq OpenTo(started)
    BY <1>1, OpenSessions, OutstandingOpen
  <2>2. IsFiniteSet(OpenTo(started)) /\ Cardinality(OpenTo(started)) \in Nat
    BY <1>0, OpenFinite
  <2>3. /\ Cardinality(Service!Open \cup {s}) \in Nat
        /\ Cardinality(Service!Open \cup {s}) <= Cardinality(OpenTo(started))
    BY <2>1, <2>2, FS_Subset, FS_CardinalityType
  <2>4. CASE ClosedLoop
    BY <2>2, <2>3, <2>4, EngineAssumption DEF LoadOK
  <2>5. CASE ~ClosedLoop
    <3>1. OpenTo(started) \subseteq 1 .. Len(Trace)
      BY <1>0 DEF TypeOK, OpenTo
    <3>2. IsFiniteSet(1 .. Len(Trace)) /\ Cardinality(1 .. Len(Trace)) = Len(Trace)
      BY <1>0, FS_Interval
    <3>3. Cardinality(OpenTo(started)) <= Len(Trace)
      BY <3>1, <3>2, FS_Subset
    <3> QED
      BY <1>0, <2>2, <2>3, <2>5, <3>3
  <2> QED
    BY <2>4, <2>5
<1>8. Answered' = Answered
  BY <1>0 DEF Answered
<1>9. Asked' = Asked \cup {s}
  <2>1. \A u : (u \in Asked)' <=> u \in Asked \/ u = s
    BY <1>1, <1>2, <1>3, <1>4, AskedMeans DEF Waits
  <2> QED
    BY <2>1 DEF Asked
<1>10. \A S : Service!Cardinality(S) = Cardinality(S)
  BY DEF Service!Cardinality, Cardinality
<1> HIDE DEF s
<1> QED
  BY <1>2, <1>5, <1>6, <1>7, <1>8, <1>9, <1>10 DEF Service!Ask

\* A turn that finishes is answered.
LEMMA FinishAnswers ==
  ASSUME TypeOK, TurnsOK, NEW r \in Req, req[r].state \in Busy,
         NEW d, IsTable(d), d[r].state = "done", \A x \in Req \ {r} : d[x] = req[x],
         TurnDone(r, d), served' = [served EXCEPT ![r] = @ + 1]
  PROVE  \E s \in Sessions : Service!Answer(s)
<1> DEFINE s == r[1]
<1>1. s \in Sessions /\ served \in [Req -> Nat] /\ served[r] = 0
  BY ReqFacts DEF TypeOK, TurnsOK, Busy
<1>2. s \in Asked
  BY <1>1, AskedMeans DEF Waits, Busy
<1>3. \A x \in Req : served'[x] = IF x = r THEN 1 ELSE served[x]
  BY <1>1
<1>4. /\ AnsweredOf(s)' = AnsweredOf(s) \cup {r} /\ r \notin AnsweredOf(s)
      /\ \A u \in Sessions \ {s} : AnsweredOf(u)' = AnsweredOf(u)
  <2>1. r \notin AnsweredOf(s)
    BY <1>1 DEF AnsweredOf
  <2>2. \A x \in Req : served'[x] > 0 <=> served[x] > 0 \/ x = r
    BY <1>1, <1>3
  <2> QED
    BY <2>1, <2>2 DEF AnsweredOf
<1> HIDE DEF s
<1>5. Cardinality(AnsweredOf(s)') = Cardinality(AnsweredOf(s)) + 1
  <2>1. IsFiniteSet(AnsweredOf(s))
    BY <1>1, AnsweredFacts
  <2>2. Cardinality(AnsweredOf(s) \cup {r}) = Cardinality(AnsweredOf(s)) + 1
    BY <1>4, <2>1, FS_AddElement
  <2> QED
    BY <1>4, <2>2
<1>6. Answered' = [Answered EXCEPT ![s] = @ + 1]
  <2>1. /\ Answered = [u \in Sessions |-> Cardinality(AnsweredOf(u))]
        /\ Answered' = [u \in Sessions |-> Cardinality(AnsweredOf(u)')]
    BY DEF Answered, AnsweredOf
  <2> QED
    BY <1>1, <1>4, <1>5, <2>1
<1>7. \A x \in Req : req'[x].state \in Waits <=> req[x].state \in Waits /\ x # r
  <2>1. \A x \in Req : d[x].state \in Waits <=> req[x].state \in Waits /\ x # r
    BY DEF Waits
  <2>2. ASSUME NEW n \in Req, NEW st \in {"pending", "due"}, Pushed(r, d, n, st)
        PROVE  \A x \in Req : req'[x].state \in Waits <=> req[x].state \in Waits /\ x # r
    <3>1. /\ req[n].state = "absent" /\ req'[n].state = st
          /\ \A x \in Req \ {n} : req'[x] = d[x]
      BY <2>2 DEF Pushed, NewRequest
    <3> QED
      BY <2>1, <3>1 DEF Waits
  <2>3. req' = d \/ \E n \in Req, st \in {"pending", "due"} : Pushed(r, d, n, st)
    BY TurnDoneEffect
  <2> QED
    BY <2>1, <2>2, <2>3
<1>8. \A x \in Req : x[1] = s /\ req[x].state \in Waits => x = r
  BY OneOutstanding DEF Waits, Busy, s
<1>9. Asked' = Asked \ {s}
  <2>1. \A u : (u \in Asked)' <=> u \in Asked /\ u # s
    BY <1>1, <1>7, <1>8, AskedMeans DEF s
  <2> QED
    BY <2>1 DEF Asked
<1> QED
  BY <1>1, <1>2, <1>6, <1>9 DEF Service!Answer

LEMMA TokenService ==
  ASSUME TypeOK, OrderInv, FirstToken \/ NextToken
  PROVE  (\E s \in Sessions : Service!Answer(s)) \/ UNCHANGED Service!svars
<1>1. PICK r, p, q : Emitting(r, p, q)
  BY TokenEmits
<1>2. /\ r \in Req /\ IsTable(q) /\ EmitToken(r, p, q) /\ Emits(r, q)
      /\ q[r].state = "decode" /\ req[r].state \in Busy
      /\ \A x \in Req \ {r} : q[x] = req[x]
  BY <1>1 DEF Emitting, Emits
<1>3. \A x \in Req : q[x].state \in Waits <=> req[x].state \in Waits
  BY <1>2 DEF Waits, Busy
<1>4. CASE Advanced(r, p, q)
  <2>1. /\ served' = served /\ req'[r].state = "decode"
        /\ \A x \in Req \ {r} : req'[x] = q[x]
    BY <1>2, <1>4 DEF Advanced
  <2>2. \A x \in Req : req'[x].state \in Waits <=> req[x].state \in Waits
    BY <1>2, <1>3, <2>1
  <2> QED
    BY <2>1, <2>2, ServiceStutter
<1>5. CASE Finished(r, p, q)
  <2>1. PICK d : /\ IsTable(d) /\ d[r].state = "done" /\ \A x \in Req \ {r} : d[x] = q[x]
                 /\ TurnDone(r, d) /\ served' = [served EXCEPT ![r] = @ + 1]
    BY <1>5 DEF Finished
  <2>2. \A x \in Req \ {r} : d[x] = req[x]
    BY <1>2, <2>1
  <2> QED
    BY <1>2, <2>1, <2>2, FinishAnswers DEF OrderInv
<1>6. CASE Preempted(r, p, q)
  <2>1. PICK v \in Running :
          /\ IsNewest(v, {x \in Running : q[x].blocks > 0}) /\ served' = served
          /\ req'[v].state = "waiting" /\ \A x \in Req \ {v} : req'[x] = q[x]
    BY <1>6 DEF Preempted
  <2>2. v \in Req /\ req[v].state \in Busy
    BY <1>2, <2>1, VictimBusy DEF Running
  <2>3. \A x \in Req : req'[x].state \in Waits <=> req[x].state \in Waits
    BY <1>3, <2>1, <2>2 DEF Waits, Busy
  <2> QED
    BY <2>1, <2>3, ServiceStutter
<1> QED
  BY <1>2, <1>4, <1>5, <1>6, EmitTokenEffect

LEMMA NextService ==
  ASSUME TypeInv, OrderInv, LoadOK, [Next]_vars
  PROVE  [Service!SNext]_(Service!svars)
<1>0. /\ TypeOK /\ TurnsOK /\ QueuesOK /\ waiting \in Seq(Req)
      /\ req \in [Req -> Request] /\ prefilling \subseteq Req
  BY DEF TypeInv, TypeOK, OrderInv
<1> DEFINE Steps == (\E s \in Sessions : Service!Ask(s) \/ Service!Answer(s))
                      \/ UNCHANGED Service!svars
<1>1. SUFFICES Steps
  BY DEF Service!SNext
<1>2. CASE FirstToken \/ NextToken
  BY <1>0, <1>2, TokenService
<1>3. CASE DrainOne
  BY <1>0, <1>3, DrainAsks
<1>4. ASSUME served' = served,
             \A x \in Req : req'[x].state \in Waits <=> req[x].state \in Waits
      PROVE  Steps
  BY <1>4, ServiceStutter
<1> HIDE DEF Steps
<1>5. CASE Admit
  <2> DEFINE r == Head(waiting)
  <2>1. r \in Req /\ req[r].state = "waiting"
    BY <1>0, <1>5, InStateTail DEF Admit, CanAdmit, QueuesOK
  <2>2. PICK w : req' = [req EXCEPT ![r] = w] /\ w.state = "prefill"
    <3> DEFINE new(h) == [state |-> "prefill", blocks |-> PromptBlocks(r),
                          ctx |-> Turn(r).prompt, prefilled |-> h * BlockSize,
                          generated |-> req[r].generated, scheduled |-> TRUE]
    <3>1. PICK h \in Hits(r) : req' = [req EXCEPT ![r] = new(h)]
      BY <1>5 DEF Admit
    <3>2. new(h).state = "prefill"
      OBVIOUS
    <3> HIDE DEF new
    <3> QED
      BY <3>1, <3>2
  <2> HIDE DEF r
  <2>3. \A x \in Req : req'[x].state \in Waits <=> req[x].state \in Waits
    BY <1>0, <2>1, <2>2 DEF Waits
  <2>4. served' = served
    BY <1>5 DEF Admit
  <2> QED
    BY <1>4, <2>3, <2>4
<1>6. CASE \E r \in Req : PauseElapses(r)
  <2>1. PICK r \in Req : /\ req[r].state = "pending" /\ served' = served
                         /\ req' = [req EXCEPT ![r].state = "due"]
    BY <1>6 DEF PauseElapses
  <2>2. \A x \in Req : req'[x].state \in Waits <=> req[x].state \in Waits
    BY <1>0, <2>1 DEF Waits
  <2> QED
    BY <1>4, <2>1, <2>2
<1>7. CASE AllocateChunk
  <2>1. PICK r \in prefilling : \E e : req' = [req EXCEPT ![r].prefilled = e]
    BY <1>7 DEF AllocateChunk
  <2>2. \A x \in Req : req'[x].state = req[x].state
    BY <1>0, <2>1 DEF Request
  <2>3. served' = served
    BY <1>7 DEF AllocateChunk
  <2> QED
    BY <1>4, <2>2, <2>3
<1>8. CASE \/ EnterAdmission \/ GoIdle \/ Wake \/ RunDone \/ BeginStep \/ Stall
           \/ StartClock \/ ClockAdvanced \/ EndStep \/ Stopped \/ UNCHANGED vars
  <2>1. UNCHANGED <<req, served>>
    BY <1>8 DEF EnterAdmission, GoIdle, Wake, RunDone, BeginStep, Stall, StartClock,
                ClockAdvanced, EndStep, Stopped, vars
  <2> QED
    BY <1>4, <2>1
<1> QED
  BY <1>2, <1>3, <1>5, <1>6, <1>7, <1>8 DEF Next, Loop, Steps

\* What the agents see of the engine is the service TurnService specifies: each
\* of its steps asks for a turn, answers one that was asked for, within the load
\* of the loop, or is invisible, if every output is longer than one token
\* (Engine.run; that every question gets its answer is a liveness property).
THEOREM EngineServes ==
  ASSUME LongOutputs
  PROVE  Spec => Service!SInit /\ [][Service!SNext]_(Service!svars)
<1> DEFINE I == TypeInv /\ OrderInv /\ LoadOK
<1>1. Init => I
  BY InitTypeInv, InitOrder, InitLoad
<1>2. I /\ [Next]_vars => I'
  BY NextTypeInv, NextOrder, NextLoad
<1>3. Init => Service!SInit
  <2> SUFFICES ASSUME Init PROVE Service!SInit
    OBVIOUS
  <2>1. \A st : NewRequest(st).state = st
    BY DEF NewRequest
  <2>2. \A x \in Req : req[x].state \notin Waits /\ served[x] = 0
    BY <2>1 DEF Init, Waits
  <2>3. Asked = {}
    BY <2>2, AskedMeans DEF Asked
  <2>4. \A s \in Sessions : Answered[s] = 0
    <3> TAKE s \in Sessions
    <3>1. AnsweredOf(s) = {}
      BY <2>2 DEF AnsweredOf
    <3> QED
      BY <3>1, AnsweredFacts, FS_EmptySet
  <2>5. Answered = [s \in Sessions |-> 0]
    BY <2>4 DEF Answered
  <2> QED
    BY <2>3, <2>5 DEF Service!SInit
<1>4. I /\ [Next]_vars => [Service!SNext]_(Service!svars)
  BY NextService
<1> QED
  BY <1>1, <1>2, <1>3, <1>4, PTL DEF Spec

(***************************************************************************)
(* The token budget.  The requests that decode in the next step are those  *)
(* that decode in this one and the prompts it completes.                   *)
(***************************************************************************)
\* A token takes nobody into running, and nobody but its own request from
\* prefill to decode.
LEMMA TokenMoves ==
  ASSUME TypeOK, FirstToken \/ NextToken
  PROVE  \E r \in Req :
           /\ req[r].state \in Busy /\ req'[r].state # "prefill"
           /\ req[r].state = "prefill" => r \in completed
           /\ \A x \in Req \ {r} : req'[x] = req[x] \/ req'[x].state \notin Busy
           /\ Running' \subseteq Running
           /\ completed \ {r} \subseteq completed' /\ completed' \subseteq completed
           /\ decoding' \subseteq decoding
           /\ pc = "emit" /\ pc' = "emit"
<1>1. PICK r, p, q : Emitting(r, p, q)
  BY TokenEmits
<1>2. /\ r \in Req /\ IsTable(q) /\ EmitToken(r, p, q) /\ Emits(r, q)
  BY <1>1 DEF Emitting, Emits
<1>3. /\ req[r].state \in Busy /\ q[r].state = "decode"
      /\ \A x \in Req \ {r} : q[x] = req[x]
      /\ req[r].state = "prefill" => r \in completed
      /\ completed \ {r} \subseteq completed' /\ completed' \subseteq completed
      /\ decoding' \subseteq decoding
      /\ pc = "emit" /\ pc' = "emit"
  <2>1. completed \ {r} \subseteq completed'
    <3>1. CASE FirstToken /\ r \in FirstTokens /\ completed' = completed \ {r}
      BY <3>1
    <3>2. CASE completed' = completed
      BY <3>2
    <3> QED
      BY <1>2, <3>1, <3>2 DEF Emits, FirstToken, NextToken
  <2> QED
    BY <1>2, <2>1 DEF Emits, FirstTokens, NextTokens, IsOldest
<1>4. /\ req'[r].state # "prefill"
      /\ \A x \in Req \ {r} : req'[x] = req[x] \/ req'[x].state \notin Busy
      /\ \A x \in Req : admit'[x] \in {admit[x], 0}
  <2>1. CASE Advanced(r, p, q)
    BY <1>3, <2>1 DEF Advanced
  <2>2. CASE Preempted(r, p, q)
    <3>1. PICK v \in Running :
            /\ req'[v].state = "waiting" /\ \A x \in Req \ {v} : req'[x] = q[x]
            /\ admit' = [admit EXCEPT ![v] = 0]
      BY <2>2 DEF Preempted
    <3>2. admit \in [Req -> Nat]
      BY DEF TypeOK
    <3> QED
      BY <1>2, <1>3, <3>1, <3>2 DEF Busy
  <2>3. CASE Finished(r, p, q)
    <3>1. PICK d : /\ IsTable(d) /\ d[r].state = "done" /\ \A x \in Req \ {r} : d[x] = q[x]
                   /\ TurnDone(r, d) /\ admit' = admit
      BY <2>3 DEF Finished
    <3> DEFINE next == IF IsLast(r) THEN <<started + 1, 1>> ELSE NextTurn(r)
    <3>2. \/ req' = d
          \/ req' = [d EXCEPT ![next] = NewRequest("pending")]
          \/ req' = [d EXCEPT ![next] = NewRequest("due")]
      BY <3>1 DEF TurnDone
    <3> HIDE DEF next
    <3>3. \A x \in Req : req'[x] = d[x] \/ req'[x].state \in {"pending", "due"}
      BY <3>1, <3>2 DEF IsTable, NewRequest
    <3> QED
      BY <1>2, <1>3, <3>1, <3>3 DEF Busy
  <2> QED
    BY <1>2, <2>1, <2>2, <2>3, EmitTokenEffect
<1>5. Running' \subseteq Running
  BY <1>4 DEF Running
<1> QED
  BY <1>2, <1>3, <1>4, <1>5

\* Sets of requests have sizes.
LEMMA Sizes ==
  ASSUME NEW A \in SUBSET Req, NEW B \in SUBSET Req
  PROVE  /\ Cardinality(A) \in Nat
         /\ A \subseteq B => Cardinality(A) <= Cardinality(B)
         /\ \A x \in Req : /\ Cardinality(A \cup {x}) <= Cardinality(A) + 1
                           /\ x \in A => A \cup {x} = A
<1>1. IsFiniteSet(A) /\ IsFiniteSet(B)
  BY ReqFinite, FS_Subset
<1>2. Cardinality(A) \in Nat /\ Cardinality(B) \in Nat
  BY <1>1, FS_CardinalityType
<1>3. A \subseteq B => Cardinality(A) <= Cardinality(B)
  BY <1>1, FS_Subset
<1>4. ASSUME NEW x \in Req
      PROVE  Cardinality(A \cup {x}) <= Cardinality(A) + 1
  <2>1. CASE x \in A
    <3>1. A \cup {x} = A
      BY <2>1
    <3> QED
      BY <1>2, <3>1
  <2>2. CASE x \notin A
    <3>1. Cardinality(A \cup {x}) = Cardinality(A) + 1
      BY <1>1, <2>2, FS_AddElement
    <3> QED
      BY <1>2, <3>1
  <2> QED
    BY <2>1, <2>2
<1> QED
  BY <1>2, <1>3, <1>4

\* The seats: no more requests run than max_num_seqs.
SeatsOK == Cardinality(Running) <= MaxSeqs

LEMMA NextSeats == TypeInv /\ SeatsOK /\ [Next]_vars => SeatsOK'
<1> SUFFICES ASSUME TypeInv, SeatsOK, [Next]_vars PROVE SeatsOK'
  OBVIOUS
<1>0. /\ TypeOK /\ admit \in [Req -> Nat] /\ waiting \in Seq(Req)
      /\ Running \subseteq Req /\ Running' \subseteq Req /\ MaxSeqs \in Nat
  BY EngineAssumption DEF TypeInv, TypeOK, Running
<1>1. ASSUME Running' \subseteq Running
      PROVE  SeatsOK'
  BY <1>0, <1>1, Sizes DEF SeatsOK
<1>2. CASE FirstToken \/ NextToken
  BY <1>0, <1>1, <1>2, TokenMoves
<1>3. CASE Admit
  <2> DEFINE r == Head(waiting)
  <2>1. /\ Cardinality(Running) < MaxSeqs /\ r \in Req
        /\ \E n \in NextSeqs : admit' = [admit EXCEPT ![r] = n]
    <3>1. waiting # <<>> /\ Cardinality(Running) < MaxSeqs
      BY <1>3 DEF Admit, CanAdmit
    <3>2. r \in Req
      BY <1>0, <3>1
    <3> QED
      BY <1>3, <3>1, <3>2 DEF Admit
  <2> HIDE DEF r
  <2>2. Running' \subseteq Running \cup {r}
    BY <1>0, <2>1 DEF Running
  <2>3. Running \cup {r} \in SUBSET Req
    BY <1>0, <2>1
  <2>4. Cardinality(Running') \in Nat /\ Cardinality(Running') <= Cardinality(Running \cup {r})
    BY <1>0, <2>2, <2>3, Sizes
  <2>5. Cardinality(Running \cup {r}) \in Nat /\ Cardinality(Running) \in Nat
    BY <1>0, <2>3, Sizes
  <2>6. Cardinality(Running \cup {r}) <= Cardinality(Running) + 1
    BY <1>0, <2>1, Sizes
  <2> QED
    BY <1>0, <2>1, <2>4, <2>5, <2>6 DEF SeatsOK
<1>4. CASE EndStep
  <2>1. Running' \subseteq Running
    BY <1>4 DEF EndStep, Running
  <2> QED
    BY <1>1, <2>1
<1>5. CASE \/ DrainOne \/ (\E r \in Req : PauseElapses(r)) \/ EnterAdmission \/ GoIdle \/ Wake
           \/ RunDone \/ BeginStep \/ Stall \/ AllocateChunk \/ StartClock \/ ClockAdvanced
           \/ Stopped \/ UNCHANGED vars
  <2>1. admit' = admit
    BY <1>5 DEF DrainOne, PauseElapses, EnterAdmission, GoIdle, Wake, RunDone, BeginStep, Stall,
                AllocateChunk, StartClock, ClockAdvanced, Stopped, vars
  <2>2. Running' \subseteq Running
    BY <2>1 DEF Running
  <2> QED
    BY <1>1, <2>2
<1> QED
  BY <1>2, <1>3, <1>4, <1>5 DEF Next, Loop

DecodesOK == Cardinality(decoding) <= MaxBatched

\* A step has no more decodes than its token budget, in every configuration with
\* no more seats than tokens (base.json: 64 and 8192), whatever is cached.
THEOREM SeatsWithinBudget ==
  ASSUME MaxSeqs <= MaxBatched
  PROVE  Spec => []DecodesWithinBudget
<1> DEFINE I == TypeInv /\ SeatsOK /\ DecodesOK
<1>0. MaxSeqs \in Nat /\ MaxBatched \in Nat
  BY EngineAssumption
<1>1. Init => I
  <2> SUFFICES ASSUME Init PROVE SeatsOK /\ DecodesOK
    BY InitTypeInv
  <2>1. Running = {} /\ decoding = {}
    BY DEF Init, Running
  <2> QED
    BY <1>0, <2>1, FS_EmptySet DEF SeatsOK, DecodesOK
<1>2. I /\ [Next]_vars => I'
  <2> SUFFICES ASSUME I, [Next]_vars PROVE DecodesOK'
    BY NextTypeInv, NextSeats
  <2>0. TypeOK /\ decoding \subseteq Req /\ Running \subseteq Req
    BY DEF TypeInv, TypeOK, Running
  <2>1. CASE FirstToken \/ NextToken
    <3>1. decoding' \subseteq decoding
      BY <2>0, <2>1, TokenMoves
    <3>2. decoding' \in SUBSET Req
      BY <2>0, <3>1
    <3> QED
      BY <1>0, <2>0, <3>1, <3>2, Sizes DEF DecodesOK
  <2>2. CASE EnterAdmission
    <3>1. decoding' \subseteq Running
      BY <2>2 DEF EnterAdmission
    <3>2. decoding' \in SUBSET Req
      BY <2>0, <3>1
    <3>3. /\ Cardinality(decoding') <= Cardinality(Running)
          /\ Cardinality(decoding') \in Nat /\ Cardinality(Running) \in Nat
      BY <2>0, <3>1, <3>2, Sizes
    <3> QED
      BY <1>0, <3>3 DEF DecodesOK, SeatsOK
  <2>3. CASE EndStep
    BY <1>0, <2>3, FS_EmptySet DEF EndStep, DecodesOK
  <2>4. CASE decoding' = decoding
    BY <2>4 DEF DecodesOK
  <2> QED
    BY <2>1, <2>2, <2>3, <2>4 DEF Next, Loop, DrainOne, PauseElapses, GoIdle, Wake, RunDone, Admit,
       BeginStep, Stall, AllocateChunk, StartClock, ClockAdvanced, Stopped, vars
<1>3. I => DecodesWithinBudget
  BY DEF DecodesOK, DecodesWithinBudget
<1> QED
  BY <1>1, <1>2, <1>3, PTL DEF Spec

\* What decodes already, and what will once its prompt is complete.
Emitters ==
  {r \in Running : req[r].state = "decode" \/ (req[r].state = "prefill" /\ r \in completed)}

\* No prompt ends with a block, so none is found whole in the cache: each one
\* that completes has taken a token of the step's budget.
NoWholePrompts == \A r \in Req : Turn(r).prompt % BlockSize # 0

WorkOK ==
  /\ DecodesOK
  /\ pc # "chunk" => Cardinality(Emitters) <= MaxBatched
  /\ pc = "chunk" => budget >= 0 /\ Cardinality(decoding \cup completed) + budget <= MaxBatched
  /\ pc = "chunk" => \A r \in prefilling : req[r].state = "prefill"
  /\ pc \in {"admit", "chunk", "step"} => \A r \in Running : req[r].state = "decode" => r \in decoding
  /\ pc \in {"arrive", "admit", "idle"} => completed = {}
  /\ \A r \in Req : req[r].state = "prefill" => req[r].prefilled < Turn(r).prompt \/ r \in completed

LEMMA WholeNeeded ==
  ASSUME NoWholePrompts, NEW r \in Req, NEW h \in Hits(r)
  PROVE  h * BlockSize < Turn(r).prompt
<1>1. /\ h \in Nat /\ h * BlockSize <= Turn(r).prompt /\ BlockSize \in Nat \ {0}
      /\ Turn(r).prompt \in Nat
  BY HitsResident, EngineAssumption, ReqFacts
<1>2. (h * BlockSize) % BlockSize = 0
  BY <1>1
<1>3. Turn(r).prompt # h * BlockSize
  BY <1>2 DEF NoWholePrompts
<1>4. h * BlockSize \in Nat
  BY <1>1
<1> QED
  BY <1>1, <1>3, <1>4

LEMMA NextWork ==
  ASSUME NoWholePrompts
  PROVE  TypeInv /\ WorkOK /\ [Next]_vars => WorkOK'
<1> SUFFICES ASSUME TypeInv, WorkOK, [Next]_vars PROVE WorkOK'
  OBVIOUS
<1>0. /\ TypeOK /\ req \in [Req -> Request] /\ waiting \in Seq(Req) /\ due \in Seq(Req)
      /\ admit \in [Req -> Nat] /\ budget \in Int
      /\ prefilling \subseteq Req /\ completed \subseteq Req /\ decoding \subseteq Req
      /\ Running \subseteq Req /\ Emitters \subseteq Req
      /\ MaxBatched \in Nat
      /\ Cardinality(decoding) \in Nat /\ Cardinality(Emitters) \in Nat
      /\ Cardinality(decoding \cup completed) \in Nat
      /\ \A r \in Req : Turn(r).prompt \in Nat \ {0} /\ req[r].prefilled \in Nat
                        /\ req[r].prefilled <= Turn(r).prompt
  <2>1. /\ TypeOK /\ req \in [Req -> Request] /\ waiting \in Seq(Req) /\ due \in Seq(Req)
        /\ admit \in [Req -> Nat] /\ budget \in Int
        /\ prefilling \subseteq Req /\ completed \subseteq Req /\ decoding \subseteq Req
        /\ Running \subseteq Req /\ Emitters \subseteq Req
        /\ \A r \in Req : req[r].prefilled <= Turn(r).prompt
    BY DEF TypeInv, TypeOK, Running, Emitters
  <2>2. MaxBatched \in Nat /\ \A r \in Req : Turn(r).prompt \in Nat \ {0}
    BY EngineAssumption, ReqFacts
  <2>3. \A r \in Req : req[r].prefilled \in Nat
    BY <2>1 DEF Request
  <2>4. decoding \cup completed \in SUBSET Req
    BY <2>1
  <2> QED
    BY <2>1, <2>2, <2>3, <2>4, Sizes
<1>1. ASSUME NEW S \in SUBSET Req, NEW B \in Int, Cardinality(S) <= B,
             NEW Q, Q \subseteq S
      PROVE  Cardinality(Q) <= B
  <2>1. Cardinality(S) \in Nat /\ Q \in SUBSET Req
    BY <1>1, Sizes
  <2>2. Cardinality(Q) \in Nat /\ Cardinality(Q) <= Cardinality(S)
    BY <1>1, <2>1, Sizes
  <2> QED
    BY <1>1, <2>1, <2>2
<1>a. ASSUME pc # "chunk", Emitters' \subseteq Emitters
      PROVE  Cardinality(Emitters') <= MaxBatched
  <2>1. Cardinality(Emitters) <= MaxBatched /\ Emitters \in SUBSET Req /\ MaxBatched \in Int
    BY <1>0, <1>a DEF WorkOK
  <2> QED
    BY <1>1, <1>a, <2>1
<1>2. CASE FirstToken \/ NextToken
  <2>1. PICK r \in Req :
           /\ req[r].state \in Busy /\ req'[r].state # "prefill"
           /\ req[r].state = "prefill" => r \in completed
           /\ \A x \in Req \ {r} : req'[x] = req[x] \/ req'[x].state \notin Busy
           /\ Running' \subseteq Running
           /\ completed \ {r} \subseteq completed' /\ completed' \subseteq completed
           /\ decoding' \subseteq decoding
           /\ pc = "emit" /\ pc' = "emit"
    BY <1>0, <1>2, TokenMoves
  <2>2. DecodesOK'
    <3>1. Cardinality(decoding) <= MaxBatched /\ decoding \in SUBSET Req /\ MaxBatched \in Int
      BY <1>0 DEF WorkOK, DecodesOK
    <3> QED
      BY <1>1, <2>1, <3>1 DEF DecodesOK
  <2>3. Emitters' \subseteq Emitters
    BY <1>0, <2>1 DEF Emitters, Busy
  <2>4. Cardinality(Emitters') <= MaxBatched
    BY <1>a, <2>1, <2>3
  <2>5. \A x \in Req : req'[x].state = "prefill" =>
          req'[x].prefilled < Turn(x).prompt \/ x \in completed'
    BY <2>1 DEF WorkOK, Busy
  <2> QED
    BY <2>1, <2>2, <2>4, <2>5 DEF WorkOK
<1>3. ASSUME NEW r \in Req, NEW st \in {"due", "waiting"}, req' = [req EXCEPT ![r].state = st],
             UNCHANGED <<admit, budget, completed, decoding, pc>>, pc # "chunk"
      PROVE  WorkOK'
  <2>1. req'[r].state = st /\ \A x \in Req \ {r} : req'[x] = req[x]
    BY <1>0, <1>3
  <2>2. Running' = Running
    BY <1>3 DEF Running
  <2>3. Emitters' \subseteq Emitters
    BY <1>0, <1>3, <2>1, <2>2 DEF Emitters
  <2>4. Cardinality(Emitters') <= MaxBatched
    BY <1>a, <1>3, <2>3
  <2> QED
    BY <1>0, <1>3, <2>1, <2>2, <2>4 DEF WorkOK, DecodesOK
<1>4. CASE DrainOne
  <2>1. Head(due) \in Req /\ req' = [req EXCEPT ![Head(due)].state = "waiting"]
    BY <1>0, <1>4 DEF DrainOne
  <2>2. UNCHANGED <<admit, budget, completed, decoding, pc>> /\ pc # "chunk"
    BY <1>4 DEF DrainOne
  <2> QED
    BY <1>3, <2>1, <2>2
<1>5. CASE \E r \in Req : PauseElapses(r)
  BY <1>3, <1>5 DEF PauseElapses
<1>6. CASE EnterAdmission
  <2>1. /\ decoding' \subseteq Emitters /\ Emitters' \subseteq Emitters
        /\ pc = "arrive" /\ pc' = "admit"
        /\ UNCHANGED <<req, admit, completed>> /\ Running' = Running
        /\ decoding' = {x \in Running : req[x].state = "decode"}
    BY <1>6 DEF EnterAdmission, Emitters, Running
  <2>a. Cardinality(Emitters) <= MaxBatched /\ Emitters \in SUBSET Req /\ MaxBatched \in Int
    BY <1>0, <2>1 DEF WorkOK
  <2>2. Cardinality(Emitters') <= MaxBatched /\ Cardinality(decoding') <= MaxBatched
    BY <1>1, <2>1, <2>a
  <2> QED
    BY <2>1, <2>2 DEF WorkOK, DecodesOK
<1>7. CASE Admit
  <2> DEFINE r == Head(waiting)
  <2>1. /\ pc = "admit" /\ pc' = "admit" /\ UNCHANGED <<completed, decoding>> /\ r \in Req
        /\ \E n \in NextSeqs : admit' = [admit EXCEPT ![r] = n]
    <3>1. waiting # <<>>
      BY <1>7 DEF Admit, CanAdmit
    <3>2. r \in Req
      BY <1>0, <3>1
    <3> QED
      BY <1>7, <3>2 DEF Admit
  <2>2. PICK w : /\ req' = [req EXCEPT ![r] = w]
                 /\ w.state = "prefill" /\ w.prefilled < Turn(r).prompt
    <3> DEFINE new(h) == [state |-> "prefill", blocks |-> PromptBlocks(r),
                          ctx |-> Turn(r).prompt, prefilled |-> h * BlockSize,
                          generated |-> req[r].generated, scheduled |-> TRUE]
    <3>1. PICK h \in Hits(r) : req' = [req EXCEPT ![r] = new(h)]
      BY <1>7 DEF Admit
    <3>2. new(h).state = "prefill" /\ new(h).prefilled = h * BlockSize
      OBVIOUS
    <3> HIDE DEF new
    <3>3. h * BlockSize < Turn(r).prompt
      BY <2>1, <3>1, WholeNeeded
    <3> QED
      BY <3>1, <3>2, <3>3
  <2> HIDE DEF r
  <2>3. /\ req'[r] = w /\ \A x \in Req \ {r} : req'[x] = req[x]
        /\ Running' \subseteq Running \cup {r}
    BY <1>0, <2>1, <2>2 DEF Running
  <2>4. completed = {} /\ \A x \in Running : req[x].state = "decode" => x \in decoding
    BY <2>1 DEF WorkOK
  <2>5. Emitters' \subseteq Emitters
    BY <1>0, <2>1, <2>2, <2>3, <2>4 DEF Emitters
  <2>6. Cardinality(Emitters') <= MaxBatched
    BY <1>a, <2>1, <2>5
  <2>7. \A x \in Running' : req'[x].state = "decode" => x \in decoding'
    BY <1>0, <2>1, <2>2, <2>3, <2>4
  <2>8. \A x \in Req : req'[x].state = "prefill" =>
          req'[x].prefilled < Turn(x).prompt \/ x \in completed'
    BY <2>1, <2>2, <2>3 DEF WorkOK
  <2> QED
    BY <2>1, <2>4, <2>6, <2>7, <2>8 DEF WorkOK, DecodesOK
<1>8. CASE BeginStep
  <2>1. /\ pc = "admit" /\ pc' = "chunk" /\ UNCHANGED <<req, admit, completed, decoding>>
        /\ budget' = MaxBatched - Cardinality(decoding) /\ Running' = Running
    BY <1>8 DEF BeginStep, TokenBudget, Running
  <2>b. \A x \in prefilling' : req'[x].state = "prefill"
    BY <1>8, <2>1 DEF BeginStep
  <2>2. completed = {} /\ Cardinality(decoding) <= MaxBatched
    BY <2>1 DEF WorkOK, DecodesOK
  <2>3. decoding' \cup completed' = decoding
    BY <2>1, <2>2
  <2>4. budget' >= 0 /\ Cardinality(decoding' \cup completed') + budget' <= MaxBatched
    BY <1>0, <2>1, <2>2, <2>3
  <2> QED
    BY <1>0, <2>1, <2>2, <2>4, <2>b DEF WorkOK, DecodesOK
<1>9. CASE AllocateChunk
  <2>1. PICK r \in prefilling :
          /\ req' = [req EXCEPT ![r].prefilled = req[r].prefilled + Chunk(r)]
          /\ budget' = budget - Chunk(r)
          /\ completed' = IF req[r].prefilled + Chunk(r) >= Turn(r).prompt
                          THEN completed \cup {r} ELSE completed
    BY <1>9 DEF AllocateChunk
  <2>2. /\ pc = "chunk" /\ pc' = "chunk" /\ UNCHANGED <<admit, decoding>> /\ budget > 0
        /\ Running' = Running /\ r \in Req
    BY <1>0, <1>9 DEF AllocateChunk, Running
  <2>3. /\ Chunk(r) \in Nat /\ Chunk(r) <= budget
        /\ req[r].prefilled < Turn(r).prompt => Chunk(r) >= 1
    BY <1>0, <2>2 DEF Chunk, Least
  <2>4. /\ \A x \in Req : req'[x].state = req[x].state
        /\ \A x \in Req \ {r} : req'[x] = req[x]
        /\ req'[r].prefilled = req[r].prefilled + Chunk(r)
    BY <1>0, <2>1, <2>2 DEF Request
  <2>w. /\ req[r].prefilled < Turn(r).prompt \/ r \in completed
        /\ \A x \in prefilling : req[x].state = "prefill"
    BY <2>2 DEF WorkOK
  <2> DEFINE Taken == decoding \cup completed
  <2>5. Taken \in SUBSET Req /\ Cardinality(Taken) \in Nat /\ Cardinality(Taken) + budget <= MaxBatched
    BY <1>0, <2>2 DEF WorkOK
  <2>6. Cardinality(decoding' \cup completed') + budget' <= MaxBatched
    <3>0. budget' \in Int /\ budget' <= budget /\ budget' = budget - Chunk(r)
      BY <1>0, <2>1, <2>3
    <3>1. CASE decoding' \cup completed' = Taken
      <4> HIDE DEF Taken
      <4>1. Cardinality(decoding' \cup completed') = Cardinality(Taken)
        BY <3>1
      <4> QED
        BY <1>0, <2>5, <3>0, <4>1
    <3>2. CASE decoding' \cup completed' # Taken
      <4>1. decoding' \cup completed' = Taken \cup {r} /\ r \notin Taken
            /\ req[r].prefilled + Chunk(r) >= Turn(r).prompt
        BY <2>1, <2>2, <3>2
      <4>2. Cardinality(Taken \cup {r}) <= Cardinality(Taken) + 1
        BY <2>2, <2>5, Sizes
      <4>3. Cardinality(Taken \cup {r}) \in Nat
        <5>1. Taken \cup {r} \in SUBSET Req
          BY <2>2, <2>5
        <5> QED
          BY <5>1, Sizes
      <4>4. Chunk(r) >= 1
        <5>1. req[r].prefilled < Turn(r).prompt
          BY <2>w, <4>1
        <5> QED
          BY <2>3, <5>1
      <4> HIDE DEF Taken
      <4>5. Cardinality(decoding' \cup completed') = Cardinality(Taken \cup {r})
        BY <4>1
      <4> QED
        BY <1>0, <2>3, <2>5, <3>0, <4>2, <4>3, <4>4, <4>5
    <3> QED
      BY <3>1, <3>2
  <2>7. budget' >= 0
    BY <1>0, <2>1, <2>3
  <2>8. \A x \in Req : req'[x].state = "prefill" =>
          req'[x].prefilled < Turn(x).prompt \/ x \in completed'
    <3>1. \A x \in Req : x # r => (req[x].state = "prefill" => req[x].prefilled < Turn(x).prompt \/ x \in completed)
      BY DEF WorkOK
    <3>2. req[r].prefilled + Chunk(r) < Turn(r).prompt \/ r \in completed'
      BY <1>0, <2>1, <2>2, <2>3
    <3> QED
      BY <2>1, <2>4, <3>1, <3>2
  <2> QED
    <3>1. prefilling' \subseteq prefilling /\ prefilling \subseteq Req
      BY <1>0, <1>9 DEF AllocateChunk
    <3>2. DecodesOK'
      BY <2>2 DEF WorkOK, DecodesOK
    <3>3. \A x \in prefilling' : req'[x].state = "prefill"
      BY <2>w, <2>4, <3>1
    <3>4. \A x \in Running' : req'[x].state = "decode" => x \in decoding'
      BY <1>0, <2>2, <2>4 DEF WorkOK
    <3> QED
      BY <2>2, <2>6, <2>7, <2>8, <3>2, <3>3, <3>4 DEF WorkOK
<1>10. CASE StartClock
  <2>1. /\ pc = "chunk" /\ pc' = "step" /\ UNCHANGED <<req, admit, completed, decoding>>
        /\ Running' = Running
    BY <1>10 DEF StartClock, Running
  <2> DEFINE Taken == decoding \cup completed
  <2>2. Taken \in SUBSET Req /\ Cardinality(Taken) \in Nat /\ Cardinality(Taken) <= MaxBatched
    BY <1>0, <2>1 DEF WorkOK
  <2>3. Emitters' \subseteq Taken
    BY <2>1 DEF Emitters, WorkOK
  <2> HIDE DEF Taken
  <2>a. MaxBatched \in Int
    BY <1>0
  <2>4. Cardinality(Emitters') <= MaxBatched
    BY <1>1, <2>2, <2>3, <2>a
  <2> QED
    BY <2>1, <2>4 DEF WorkOK, DecodesOK
<1>11. CASE EndStep
  <2>1. /\ pc = "emit" /\ pc' = "arrive" /\ req' = req /\ completed' = {} /\ decoding' = {}
        /\ Running' \subseteq Running /\ FirstTokens = {}
    BY <1>11 DEF EndStep, Running
  <2>2. Emitters' \subseteq Emitters
    BY <2>1 DEF Emitters
  <2>3. Cardinality(Emitters') <= MaxBatched
    BY <1>a, <2>1, <2>2
  <2>4. Cardinality(decoding') <= MaxBatched
    BY <1>0, <2>1, FS_EmptySet
  <2>5. \A x \in Req : req[x].state = "prefill" => req[x].prefilled < Turn(x).prompt
    BY <1>0, <2>1 DEF FirstTokens, WorkOK
  <2> QED
    BY <2>1, <2>3, <2>4, <2>5 DEF WorkOK, DecodesOK
<1>12. CASE GoIdle \/ Wake \/ RunDone \/ Stall \/ ClockAdvanced
  <2>1. /\ UNCHANGED <<req, admit, completed, decoding>> /\ Running' = Running
        /\ pc \in {"arrive", "idle", "admit", "step"}
        /\ pc' \in {"arrive", "idle", "done", "stalled", "emit"}
        /\ pc' \in {"arrive", "idle"} => pc \in {"arrive", "idle", "admit"}
    BY <1>12 DEF GoIdle, Wake, RunDone, Stall, ClockAdvanced, Running
  <2>2. Emitters' \subseteq Emitters
    BY <2>1 DEF Emitters
  <2>3. Cardinality(Emitters') <= MaxBatched
    BY <1>a, <2>1, <2>2
  <2>4. DecodesOK'
    BY <2>1 DEF WorkOK, DecodesOK
  <2>5. \A x \in Req : req'[x].state = "prefill" =>
          req'[x].prefilled < Turn(x).prompt \/ x \in completed'
    BY <2>1 DEF WorkOK
  <2>6. pc' \in {"arrive", "admit", "idle"} => completed' = {}
    BY <2>1 DEF WorkOK
  <2> QED
    BY <2>1, <2>3, <2>4, <2>5, <2>6 DEF WorkOK
<1>13. CASE Stopped \/ UNCHANGED vars
  <2>1. UNCHANGED vars
    BY <1>13 DEF Stopped
  <2> QED
    BY <2>1 DEF vars, WorkOK, DecodesOK, Emitters, Running
<1> QED
  BY <1>2, <1>4, <1>5, <1>6, <1>7, <1>8, <1>9, <1>10, <1>11, <1>12, <1>13 DEF Next, Loop

\* A step has no more decodes than its token budget, with any number of seats, if
\* no prompt ends with a block: then none is found whole in the cache, and a
\* prompt starts to decode only after it has taken a token of the budget
\* (the chunk loop of Engine.run).
THEOREM PromptsWithinBudget ==
  ASSUME NoWholePrompts
  PROVE  Spec => []DecodesWithinBudget
<1> DEFINE I == TypeInv /\ WorkOK
<1>1. Init => I
  <2> SUFFICES ASSUME Init PROVE WorkOK
    BY InitTypeInv
  <2>1. \A st : NewRequest(st).state = st
    BY DEF NewRequest
  <2>2. \A x \in Req : req[x].state \in {"absent", "due", "pending"}
    BY <2>1 DEF Init
  <2>3. Emitters = {} /\ decoding = {} /\ completed = {} /\ pc = "arrive" /\ Running = {}
    BY DEF Init, Emitters, Running
  <2>4. MaxBatched \in Nat
    BY EngineAssumption
  <2> QED
    BY <2>2, <2>3, <2>4, FS_EmptySet DEF WorkOK, DecodesOK
<1>2. I /\ [Next]_vars => I'
  BY NextTypeInv, NextWork
<1>3. I => DecodesWithinBudget
  BY DEF WorkOK, DecodesOK, DecodesWithinBudget
<1> QED
  BY <1>1, <1>2, <1>3, PTL DEF Spec
=============================================================================
