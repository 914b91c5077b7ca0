--------------------------- MODULE AdoptionProofs ---------------------------
(***************************************************************************)
(* For any number of rounds, nodes, reruns and experiments: the types of   *)
(* Adoption, the truth of the label in sim/config.py, and the freshness of *)
(* the results of a rerun that completes.                                  *)
(***************************************************************************)
EXTENDS Adoption, TLAPS

(***************************************************************************)
(* Types                                                                   *)
(***************************************************************************)

\* A rerun has its experiments and three more commands, in this order.
LEMMA StepsLength == Len(Steps) = Len(Experiments) + 3 /\ Len(Experiments) \in Nat
  BY AdoptionAssumption DEF Steps

\* The counter of a rerun stays on its list of commands.
LEMMA NextStepType ==
  ASSUME TypeOK, rerun.code = "running", NextStep
  PROVE  rerun' \in [no : 0..Reruns, at : 0..Len(Steps),
                     code : {"idle", "running", "complete", "failed"}]
<1>1. CASE rerun.at < Len(Steps)
  BY <1>1, StepsLength DEF TypeOK, NextStep
<1>2. CASE ~(rerun.at < Len(Steps))
  BY <1>2 DEF TypeOK, NextStep
<1>3. QED
  BY <1>1, <1>2

\* What adoption writes is known by rounds.
LEMMA FittedType ==
  ASSUME TypeOK, NEW c \in Constants
  PROVE  Fitted(c) \in Provenance
  BY DEF TypeOK, Fitted, Provenance, Manifest

\* The round, its files, the configuration and the rerun keep their types.
LEMMA TypeStep == TypeOK /\ [Next]_vars => TypeOK'
<1> SUFFICES ASSUME TypeOK, [Next]_vars PROVE TypeOK'
  OBVIOUS
<1>0. Rounds \in Nat /\ Reruns \in Nat
  BY AdoptionAssumption
<1>1. CASE StartRound
  BY <1>0, <1>1 DEF TypeOK, StartRound, cvars, rvars
<1>2. CASE CheckEnv
  <2>1. round' \in [no : 0..Rounds, at : {"idle", "env", "timing", "batch", "manifest"},
                    hand : BOOLEAN, node : Nodes]
    BY <1>2 DEF TypeOK, CheckEnv, Passed, Problems
  <2>2. files' \in [env : Manifest, timing : 0..Rounds,
                    batch : [by : 0..Rounds, kv : Provenance], manifest : Manifest]
    <3>1. [by |-> round.no, ok |-> ~Problems(round.node)] \in Manifest
      BY DEF TypeOK, Manifest, Problems
    <3>2. QED
      BY <1>2, <3>1 DEF TypeOK, CheckEnv
  <2>3. QED
    BY <1>2, <2>1, <2>2 DEF TypeOK, CheckEnv, cvars, rvars
<1>3. CASE FitTiming
  BY <1>3 DEF TypeOK, FitTiming, cvars, rvars
<1>4. CASE FitBatch
  <2>1. config["decode_s_per_kv_token"] \in Provenance
    BY DEF TypeOK, Constants
  <2>2. QED
    BY <1>4, <2>1 DEF TypeOK, FitBatch, cvars, rvars
<1>5. CASE WriteManifest
  BY <1>5 DEF TypeOK, WriteManifest, cvars, rvars
<1>6. CASE RoundEnds
  BY <1>6 DEF TypeOK, RoundEnds, cvars, rvars
<1>7. ASSUME NEW allow \in BOOLEAN, Adopt(allow) PROVE TypeOK'
  <2>1. config' \in [Constants -> Provenance]
    BY <1>7, FittedType DEF Adopt
  <2>2. marker' \in Manifest
    BY <1>7 DEF TypeOK, Adopt
  <2>3. QED
    BY <1>7, <2>1, <2>2 DEF TypeOK, Adopt, rvars
<1>8. CASE Commit
  BY <1>8 DEF TypeOK, Commit, cvars, rvars, Whole
<1>9. CASE StartRerun
  BY <1>0, <1>9, StepsLength DEF TypeOK, StartRerun, cvars
<1>10. CASE RunExperiment
  BY <1>10, NextStepType DEF TypeOK, RunExperiment, AtExperiment, cvars
<1>11. CASE OtherStep
  BY <1>11, NextStepType DEF TypeOK, OtherStep, cvars
<1>12. CASE StepFails
  <2>1. rerun' \in [no : 0..Reruns, at : 0..Len(Steps),
                    code : {"idle", "running", "complete", "failed"}]
    BY <1>12 DEF TypeOK, StepFails
  <2>2. QED
    BY <1>12, <2>1 DEF TypeOK, StepFails, cvars
<1>13. CASE UNCHANGED vars
  BY <1>13 DEF TypeOK, vars, cvars, rvars
<1>14. QED
  BY <1>1, <1>2, <1>3, <1>4, <1>5, <1>6, <1>7, <1>8, <1>9, <1>10, <1>11, <1>12, <1>13
     DEF Next

\* The files start absent and the constants are those of the local round.
LEMMA TypeInit == Init => TypeOK
<1> SUFFICES ASSUME Init PROVE TypeOK
  OBVIOUS
<1>1. Rounds \in Nat /\ Reruns \in Nat /\ 0 \in 0..Len(Steps)
  BY AdoptionAssumption, StepsLength
<1>2. (CHOOSE n \in Nodes : TRUE) \in Nodes
  BY AdoptionAssumption
<1>3. round \in [no : 0..Rounds, at : {"idle", "env", "timing", "batch", "manifest"},
                  hand : BOOLEAN, node : Nodes]
  BY <1>1, <1>2 DEF Init
<1>4. None \in Manifest
  BY <1>1 DEF None, Manifest
<1>5. [by |-> 0, kv |-> {}] \in [by : 0..Rounds, kv : Provenance]
  BY <1>1 DEF Provenance
<1>6. files \in [env : Manifest, timing : 0..Rounds,
                 batch : [by : 0..Rounds, kv : Provenance], manifest : Manifest]
  BY <1>1, <1>4, <1>5 DEF Init
<1>7. config \in [Constants -> Provenance]
  BY <1>1 DEF Init, Provenance
<1>8. rerun \in [no : 0..Reruns, at : 0..Len(Steps),
                 code : {"idle", "running", "complete", "failed"}]
  BY <1>1 DEF Init
<1>9. QED
  BY <1>3, <1>4, <1>6, <1>7, <1>8 DEF Init, TypeOK

\* The files, the constants and the rerun have their types in every behaviour
\* (the programs of hpc/ and bench/ that write them).
THEOREM TypeCorrect == Spec => []TypeOK
  BY TypeInit, TypeStep, PTL DEF Spec

(***************************************************************************)
(* The label                                                               *)
(***************************************************************************)

\* Unless somebody goes on after a failed check, no manifest is written for a
\* node that failed it: the programs that follow run only after it passed, and
\* its report stays where it is.
ManifestOk ==
  ~careless =>
    /\ round.at \in {"timing", "batch", "manifest"} => files.env.ok
    /\ files.manifest # None => files.manifest.ok

\* A clean tree holds a whole round, unless somebody committed half of one.
CleanIsWhole == ~careless /\ ~dirty => Whole

LabelInv == TypeOK /\ ManifestOk /\ CleanIsWhole /\ LabelTrue

\* What was careless stays so.
LEMMA CarelessForGood == TypeOK /\ [Next]_vars /\ careless => careless'
  BY DEF TypeOK, Next, StartRound, CheckEnv, FitTiming, FitBatch, WriteManifest, RoundEnds, Adopt,
         Commit, StartRerun, RunExperiment, OtherStep, StepFails, vars

\* A manifest is a copy of the report of a check that passed.
LEMMA ManifestStep ==
  ASSUME TypeOK, ManifestOk, [Next]_vars
  PROVE  ManifestOk'
<1> SUFFICES ASSUME ~careless' PROVE ManifestOk'
  BY DEF ManifestOk
<1>0. ~careless
  BY CarelessForGood
<1>1. CASE CheckEnv
  <2>1. files'.manifest = files.manifest
    BY <1>1 DEF TypeOK, CheckEnv
  <2>2. ASSUME round'.at \in {"timing", "batch", "manifest"} PROVE files'.env.ok
    <3>1. round' = [round EXCEPT !.at = IF Passed THEN "timing" ELSE "idle"]
      BY <1>1 DEF CheckEnv
    <3>2. round.node.torch /\ ~Problems(round.node)
      BY <2>2, <3>1 DEF TypeOK, Passed
    <3>3. files' = [files EXCEPT !.env = [by |-> round.no, ok |-> TRUE]]
      BY <1>1, <3>2 DEF CheckEnv
    <3>4. QED
      BY <3>3 DEF TypeOK
  <2>3. QED
    BY <1>0, <2>1, <2>2 DEF ManifestOk
<1>2. CASE FitTiming
  <2>1. files'.env = files.env /\ files'.manifest = files.manifest
    BY <1>2 DEF TypeOK, FitTiming
  <2>2. round.at = "timing"
    BY <1>2 DEF FitTiming
  <2>3. QED
    BY <1>0, <2>1, <2>2 DEF ManifestOk
<1>3. CASE FitBatch
  BY <1>0, <1>3 DEF TypeOK, ManifestOk, FitBatch
<1>4. CASE WriteManifest
  BY <1>0, <1>4 DEF TypeOK, ManifestOk, WriteManifest
<1>5. CASE StartRound \/ RoundEnds
  BY <1>0, <1>5 DEF TypeOK, ManifestOk, StartRound, RoundEnds
<1>6. CASE UNCHANGED <<round, files>>
  BY <1>0, <1>6 DEF ManifestOk
<1>7. QED
  BY <1>1, <1>2, <1>3, <1>4, <1>5, <1>6
     DEF Next, Adopt, Commit, StartRerun, RunExperiment, OtherStep, StepFails, vars

\* Whoever writes a file of the round leaves the tree dirty, and a commit that
\* is not of a whole round is careless.
LEMMA CleanStep ==
  ASSUME TypeOK, CleanIsWhole, [Next]_vars
  PROVE  CleanIsWhole'
<1>1. CASE dirty' = TRUE
  BY <1>1 DEF CleanIsWhole
<1>2. CASE Commit
  BY <1>2 DEF CleanIsWhole, Commit, Whole
<1>3. CASE UNCHANGED <<dirty, files>>
  BY <1>3, CarelessForGood DEF CleanIsWhole, Whole
<1>4. CASE CheckEnv
  <2>1. dirty' = TRUE \/ UNCHANGED <<dirty, files>>
    BY <1>4 DEF CheckEnv
  <2>2. QED
    BY <1>1, <1>3, <2>1
<1>5. QED
  BY <1>1, <1>2, <1>3, <1>4
     DEF Next, StartRound, FitTiming, FitBatch, WriteManifest, RoundEnds,
         Adopt, StartRerun, RunExperiment, OtherStep, StepFails, vars, rvars

\* An adoption that is not careless finds a clean tree, hence a whole round.
LEMMA LabelStep ==
  ASSUME LabelInv, [Next]_vars
  PROVE  LabelTrue'
<1>1. ASSUME NEW allow \in BOOLEAN, Adopt(allow) PROVE LabelTrue'
  <2> SUFFICES ASSUME ~careless' PROVE LabelTrue'
    BY DEF LabelTrue
  <2>1. ~careless /\ ~dirty
    BY <1>1 DEF Adopt, MayEdit
  <2>2. files.timing = files.manifest.by /\ files.batch.by = files.manifest.by
    BY <2>1 DEF LabelInv, CleanIsWhole, Whole
  <2>3. ASSUME NEW c \in Constants PROVE files.manifest.by \in Fitted(c)
    BY <2>2 DEF Fitted
  <2>4. marker' = files.manifest /\ files.manifest.ok
    BY <1>1, <2>1 DEF Adopt, LabelInv, ManifestOk
  <2>5. QED
    BY <1>1, <2>3, <2>4 DEF Adopt, LabelTrue
<1>2. CASE Commit
  BY <1>2 DEF LabelInv, LabelTrue, Commit, cvars
<1>3. CASE UNCHANGED cvars
  BY <1>3, CarelessForGood DEF LabelInv, LabelTrue, cvars
<1>4. QED
  BY <1>1, <1>2, <1>3
     DEF Next, StartRound, CheckEnv, FitTiming, FitBatch, WriteManifest, RoundEnds,
         StartRerun, RunExperiment, OtherStep, StepFails, vars

\* As long as nobody overrides the guards, commits half a round or goes on after
\* a failed check, the constants in sim/config.py were measured in the round
\* their comment names, on a node that passed its check (adopt_constants.py, the
\* refusal of an uncommitted tree; the check is not enforced by write_manifest.py).
THEOREM LabelsTrue == Spec => []LabelTrue
<1>1. Init => LabelInv
  BY TypeInit DEF Init, LabelInv, ManifestOk, CleanIsWhole, Whole, LabelTrue, None
<1>2. LabelInv /\ [Next]_vars => LabelInv'
  BY TypeStep, ManifestStep, CleanStep, LabelStep DEF LabelInv
<1>3. LabelInv => LabelTrue
  BY DEF LabelInv
<1>4. QED
  BY <1>1, <1>2, <1>3, PTL DEF Spec

(***************************************************************************)
(* The results of a rerun                                                  *)
(***************************************************************************)

Fresh(i) == DOMAIN results[i] = 1..3 /\ \A k \in 1..3 : results[i][k].by = rerun.no

\* The experiments behind the command a rerun is at have been written by it.
BehindIsFresh ==
  rerun.code = "running" => \A i \in DOMAIN results : i < rerun.at - 1 => Fresh(i)

FreshInv ==
  /\ TypeOK
  /\ DOMAIN results = 1..Len(Experiments)
  /\ BehindIsFresh
  /\ RerunFresh

\* A step that is carried out either replaces all files of its experiment or
\* is not an experiment.
LEMMA CommandDone ==
  ASSUME FreshInv, RunExperiment \/ OtherStep
  PROVE  /\ DOMAIN results' = 1..Len(Experiments)
         /\ \A i \in DOMAIN results' : i < rerun.at => Fresh(i)'
         /\ NextStep /\ rerun.code = "running"
<1>0. rerun.at \in Nat /\ Len(Experiments) \in Nat
  BY StepsLength DEF FreshInv, TypeOK
<1>1. rerun'.no = rerun.no
  BY DEF FreshInv, TypeOK, RunExperiment, OtherStep, NextStep
<1>2. CASE RunExperiment
  <2>1. rerun.at - 1 \in 1..Len(Experiments)
    BY <1>2, AdoptionAssumption DEF RunExperiment, AtExperiment
  <2>2. results'[rerun.at - 1] = [k \in 1..3 |-> [by |-> rerun.no, consts |-> Loaded]]
    BY <1>2, <2>1 DEF RunExperiment, FreshInv
  <2>3. ASSUME NEW i \in 1..Len(Experiments), i = rerun.at - 1 PROVE Fresh(i)'
    <3>1. results'[i] = [k \in 1..3 |-> [by |-> rerun.no, consts |-> Loaded]]
      BY <2>2, <2>3
    <3>2. QED
      BY <1>1, <3>1 DEF Fresh
  <2>4. ASSUME NEW i \in 1..Len(Experiments), i < rerun.at - 1 PROVE Fresh(i)'
    <3>1. results'[i] = results[i]
      BY <1>0, <1>2, <2>4 DEF RunExperiment, FreshInv
    <3>2. Fresh(i)
      BY <1>2, <2>4 DEF FreshInv, BehindIsFresh, RunExperiment, AtExperiment
    <3>3. QED
      BY <1>1, <3>1, <3>2 DEF Fresh
  <2>5. DOMAIN results' = 1..Len(Experiments)
    BY <1>2 DEF RunExperiment, FreshInv
  <2>6. \A i \in 1..Len(Experiments) : i < rerun.at => i < rerun.at - 1 \/ i = rerun.at - 1
    BY <1>0
  <2>7. QED
    BY <1>2, <2>3, <2>4, <2>5, <2>6 DEF RunExperiment, AtExperiment
<1>3. CASE OtherStep
  <2>1. ~(rerun.at - 1 \in 1..Len(Experiments))
    BY <1>3, AdoptionAssumption DEF OtherStep, AtExperiment
  <2>2. UNCHANGED results /\ NextStep /\ rerun.code = "running"
    BY <1>3 DEF OtherStep
  <2>3. ASSUME NEW i \in 1..Len(Experiments), i < rerun.at PROVE Fresh(i)'
    <3>1. i < rerun.at - 1
      BY <1>0, <2>1, <2>3
    <3>2. Fresh(i)
      BY <2>2, <3>1 DEF FreshInv, BehindIsFresh
    <3>3. QED
      BY <1>1, <2>2, <3>2 DEF Fresh
  <2>4. QED
    BY <2>2, <2>3 DEF FreshInv
<1>4. QED
  BY <1>2, <1>3

\* The end of the list is behind every experiment.
LEMMA FreshStep ==
  ASSUME FreshInv, [Next]_vars
  PROVE  FreshInv'
<1>0. TypeOK'
  BY TypeStep DEF FreshInv
<1>1. CASE RunExperiment \/ OtherStep
  <2>1. rerun.at \in Nat /\ Len(Experiments) \in Nat /\ Len(Steps) = Len(Experiments) + 3
    BY StepsLength DEF FreshInv, TypeOK
  <2>2. CASE rerun.at < Len(Steps)
    <3>1. rerun'.at - 1 = rerun.at /\ rerun'.code = "running"
      BY <1>1, <2>1, <2>2, CommandDone DEF NextStep, FreshInv, TypeOK
    <3>2. \A i \in DOMAIN results' : i < rerun'.at - 1 => Fresh(i)'
      BY <1>1, <3>1, CommandDone
    <3>3. BehindIsFresh' /\ RerunFresh'
      BY <3>1, <3>2 DEF BehindIsFresh, RerunFresh
    <3>4. QED
      BY <1>0, <1>1, <3>3, CommandDone DEF FreshInv
  <2>3. CASE ~(rerun.at < Len(Steps))
    <3>1. rerun'.code = "complete"
      BY <1>1, <2>3, CommandDone DEF NextStep, FreshInv, TypeOK
    <3>2. \A i \in 1..Len(Experiments) : i < rerun.at
      BY <2>1, <2>3
    <3>3. \A i \in DOMAIN results' : Fresh(i)'
      BY <1>1, <3>2, CommandDone
    <3>4. RerunFresh'
      BY <3>3 DEF RerunFresh, Fresh
    <3>5. QED
      BY <1>0, <1>1, <3>1, <3>4, CommandDone DEF FreshInv, BehindIsFresh
  <2>4. QED
    BY <2>2, <2>3
<1>2. CASE StartRerun
  <2>1. rerun'.at = 1 /\ rerun'.code = "running" /\ UNCHANGED results
    BY <1>2 DEF StartRerun
  <2>2. \A i \in 1..Len(Experiments) : ~(i < 1 - 1)
    BY StepsLength
  <2>3. BehindIsFresh' /\ RerunFresh'
    BY <2>1, <2>2 DEF FreshInv, BehindIsFresh, RerunFresh
  <2>4. QED
    BY <1>0, <2>1, <2>3 DEF FreshInv
<1>3. CASE StepFails
  <2>1. rerun'.code = "failed"
    BY <1>3 DEF StepFails, FreshInv, TypeOK
  <2>2. DOMAIN results' = DOMAIN results
    BY <1>3 DEF StepFails
  <2>3. QED
    BY <1>0, <2>1, <2>2 DEF FreshInv, BehindIsFresh, RerunFresh
<1>4. CASE UNCHANGED rvars
  BY <1>0, <1>4 DEF rvars, FreshInv, BehindIsFresh, RerunFresh, Fresh
<1>5. QED
  BY <1>1, <1>2, <1>3, <1>4
     DEF Next, StartRound, CheckEnv, FitTiming, FitBatch, WriteManifest, RoundEnds,
         Adopt, Commit, vars

\* A rerun that completes has written every file of every experiment itself,
\* however many reruns failed before it (step() of rerun_experiments.sh).
THEOREM RerunsFresh == Spec => []RerunFresh
<1>1. Init => FreshInv
  BY TypeInit DEF Init, FreshInv, BehindIsFresh, RerunFresh
<1>2. FreshInv /\ [Next]_vars => FreshInv'
  BY FreshStep
<1>3. FreshInv => RerunFresh
  BY DEF FreshInv
<1>4. QED
  BY <1>1, <1>2, <1>3, PTL DEF Spec
=============================================================================
