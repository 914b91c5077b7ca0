------------------------------ MODULE Adoption ------------------------------
(***************************************************************************)
(* From a calibration round to the constants the experiments run on:       *)
(* bench/check_env.py, bench/fit_timing.py, bench/fit_batch.py and         *)
(* hpc/write_manifest.py write the files of a round, one after the other,  *)
(* into one directory; hpc/adopt_constants.py copies five constants from   *)
(* it into sim/config.py; hpc/rerun_experiments.sh runs the experiments    *)
(* again.  A round or a rerun may be killed between any two files.  A      *)
(* value is known by the rounds it was computed from; round 0 is the local *)
(* one, whose constants the repository starts with.                        *)
(***************************************************************************)
EXTENDS Integers, Sequences

CONSTANTS
  Rounds,       \* calibration rounds
  Nodes,        \* the machines the scheduler may give a round
  Expect,       \* --expect-capability, 0 for "any"
  Reruns,       \* runs of rerun_experiments.sh
  Experiments,  \* the experiments of a rerun, in their order
  BasePins      \* the engine constants configs/base.json gives a value

Constants == {"step_overhead_s", "decode_s_per_seq", "prefill_s_per_token",
              "prefill_s_per_token2", "decode_s_per_kv_token"}

ASSUME AdoptionAssumption ==
  /\ Rounds \in Nat /\ Reruns \in Nat /\ Expect \in Nat
  /\ BasePins \subseteq Constants
  /\ Experiments \in Seq(STRING)
  /\ Nodes # {}
  /\ Nodes \subseteq [torch : BOOLEAN, build : BOOLEAN, capability : Nat,
                      matmul : BOOLEAN, vllm : BOOLEAN]

VARIABLES
  round,     \* the round, the program it is at, its node, who runs the programs
  files,     \* the round's directory; 0 for a file that is not there
  config,    \* sim/config.py: the rounds each constant was computed from
  marker,    \* the manifest the newest "Fitted on" comment quotes
  dirty,     \* git status --porcelain prints something
  careless,  \* somebody passed --allow-dirty, committed a half-written round
             \* or went on after a failed check
  rerun,     \* [no, at, code]: the rerun and the command it is at
  results    \* the three files of every experiment

rvars == <<rerun, results>>
cvars == <<config, marker>>
vars  == <<round, files, cvars, dirty, careless, rvars>>

None == [by |-> 0, ok |-> FALSE]
Steps == <<"tests">> \o Experiments \o <<"sufficiency", "plots">>

Init ==
  /\ round = [no |-> 0, at |-> "idle", hand |-> FALSE, node |-> CHOOSE n \in Nodes : TRUE]
  /\ files = [env |-> None, timing |-> 0, batch |-> [by |-> 0, kv |-> {}], manifest |-> None]
  /\ config = [c \in Constants |-> {0}]
  /\ marker = None
  /\ dirty = FALSE /\ careless = FALSE
  /\ rerun = [no |-> 0, at |-> 0, code |-> "idle"]
  /\ results = [i \in 1..Len(Experiments) |-> <<>>]

(***************************************************************************)
(* A calibration round                                                     *)
(***************************************************************************)

StartRound ==
  /\ round.at = "idle" /\ round.no < Rounds
  /\ \E n \in Nodes, hand \in BOOLEAN :
       round' = [no |-> round.no + 1, at |-> "env", hand |-> hand, node |-> n]
  /\ UNCHANGED <<files, cvars, dirty, careless, rvars>>

\* A capability of 0 stands for torch.cuda.is_available() being False.
Problems(n) ==
  \/ ~n.build \/ n.capability = 0 \/ ~n.vllm
  \/ n.capability # 0 /\ Expect # 0 /\ n.capability # Expect
  \/ n.capability # 0 /\ ~n.matmul

Passed == round.node.torch /\ ~Problems(round.node)

\* The report is written with its problems in it; without torch there is none.
\* A check that fails ends the script; nothing stops a person who types the
\* commands, and to leave the check out is to run it without torch.
CheckEnv ==
  /\ round.at = "env"
  /\ IF round.node.torch
     THEN /\ files' = [files EXCEPT !.env = [by |-> round.no, ok |-> ~Problems(round.node)]]
          /\ dirty' = TRUE
     ELSE UNCHANGED <<files, dirty>>
  /\ \/ round' = [round EXCEPT !.at = IF Passed THEN "timing" ELSE "idle"] /\ UNCHANGED careless
     \/ /\ round.hand /\ ~Passed
        /\ round' = [round EXCEPT !.at = "timing"] /\ careless' = TRUE
  /\ UNCHANGED <<cvars, rvars>>

\* The file is written before the comparison that ends the program with 1:
\* run_calibration.sh then stops, and a person who types the commands goes on.
FitTiming ==
  /\ round.at = "timing"
  /\ files' = [files EXCEPT !.timing = round.no]
  /\ dirty' = TRUE
  /\ round' = [round EXCEPT !.at = IF round.hand THEN "batch" ELSE "idle"]
  /\ UNCHANGED <<cvars, careless, rvars>>

\* The KV term that is subtracted from the slope is the one in sim/config.py.
FitBatch ==
  /\ round.at = "batch"
  /\ files' = [files EXCEPT !.batch =
                 [by |-> round.no, kv |-> config["decode_s_per_kv_token"]]]
  /\ dirty' = TRUE
  /\ round' = [round EXCEPT !.at = "manifest"]
  /\ UNCHANGED <<cvars, careless, rvars>>

\* All it asks of env.json is that the file is there.
WriteManifest ==
  /\ round.at = "manifest"
  /\ files.env # None
  /\ files' = [files EXCEPT !.manifest = files.env]
  /\ dirty' = TRUE
  /\ round' = [round EXCEPT !.at = "idle"]
  /\ UNCHANGED <<cvars, careless, rvars>>

\* A measurement that fails, or the scheduler's time limit.
RoundEnds ==
  /\ round.at # "idle"
  /\ round' = [round EXCEPT !.at = "idle"]
  /\ UNCHANGED <<files, cvars, dirty, careless, rvars>>

(***************************************************************************)
(* Adoption                                                                *)
(***************************************************************************)

\* dig() of the five SOURCES.
Fitted(c) ==
  CASE c = "step_overhead_s"  -> {files.batch.by}
    [] c = "decode_s_per_seq" -> {files.batch.by} \cup files.batch.kv
    [] OTHER                  -> {files.timing}

\* An --apply that does not look at the tree.
Mut_MayEdit(allow) == TRUE

MayEdit(allow) == allow \/ ~dirty

Adopt(allow) ==
  /\ files.manifest # None
  /\ files.timing # 0 /\ files.batch.by # 0
  /\ MayEdit(allow)
  /\ config' = [c \in Constants |-> Fitted(c)]
  /\ marker' = files.manifest
  /\ careless' = (careless \/ (allow /\ dirty))
  /\ dirty' = TRUE
  /\ UNCHANGED <<round, files, rvars>>

\* All files of the directory are those of one round.
Whole ==
  files.timing = files.manifest.by /\ files.batch.by = files.manifest.by

Commit ==
  /\ dirty
  /\ dirty' = FALSE
  /\ careless' = (careless \/ ~Whole)
  /\ UNCHANGED <<round, files, cvars, rvars>>

(***************************************************************************)
(* The rerun of the experiments                                            *)
(***************************************************************************)

\* Config.load: a key of the file, else the default of the class.
Loaded == [c \in Constants |-> IF c \in BasePins THEN {0} ELSE config[c]]

StartRerun ==
  /\ rerun.code # "running" /\ rerun.no < Reruns
  /\ rerun' = [no |-> rerun.no + 1, at |-> 1, code |-> "running"]
  /\ UNCHANGED <<round, files, cvars, dirty, careless, results>>

\* A rerun that counts one command too many.
Mut_NextStep ==
  rerun' = IF rerun.at <= Len(Steps)
           THEN [rerun EXCEPT !.at = @ + 1]
           ELSE [rerun EXCEPT !.code = "complete"]

NextStep ==
  rerun' = IF rerun.at < Len(Steps)
           THEN [rerun EXCEPT !.at = @ + 1]
           ELSE [rerun EXCEPT !.code = "complete"]

AtExperiment == rerun.code = "running" /\ rerun.at - 1 \in DOMAIN Experiments

\* runs.csv, metadata.json and analysis.json of one process that loaded its
\* configuration when it started.
RunExperiment ==
  /\ AtExperiment
  /\ results' = [results EXCEPT ![rerun.at - 1] =
                   [k \in 1..3 |-> [by |-> rerun.no, consts |-> Loaded]]]
  /\ dirty' = TRUE
  /\ NextStep
  /\ UNCHANGED <<round, files, cvars, careless>>

OtherStep ==
  /\ rerun.code = "running" /\ ~AtExperiment
  /\ NextStep
  /\ UNCHANGED <<round, files, cvars, dirty, careless, results>>

\* A step() that goes on after a command failed.
Mut_StepFails ==
  /\ rerun.code = "running"
  /\ NextStep
  /\ UNCHANGED <<round, files, cvars, dirty, careless, results>>

\* exit inside step() ends the script, for the plots and their || true as well;
\* an experiment may have written some of its files by then.
StepFails ==
  /\ rerun.code = "running"
  /\ rerun' = [rerun EXCEPT !.code = "failed"]
  /\ \/ UNCHANGED <<dirty, results>>
     \/ /\ AtExperiment
        /\ \E written \in 1..2 :
             results' = [results EXCEPT ![rerun.at - 1] =
               [k \in 1..3 |-> IF k <= written THEN [by |-> rerun.no, consts |-> Loaded]
                               ELSE IF k \in DOMAIN @ THEN @[k] ELSE [by |-> 0, consts |-> <<>>]]]
        /\ dirty' = TRUE
  /\ UNCHANGED <<round, files, cvars, careless>>

Next ==
  \/ StartRound \/ CheckEnv \/ FitTiming \/ FitBatch \/ WriteManifest \/ RoundEnds
  \/ \E allow \in BOOLEAN : Adopt(allow)
  \/ Commit
  \/ StartRerun \/ RunExperiment \/ OtherStep \/ StepFails

Spec == Init /\ [][Next]_vars

(***************************************************************************)
(* Properties                                                              *)
(***************************************************************************)

Provenance == SUBSET (0..Rounds)
Manifest == [by : 0..Rounds, ok : BOOLEAN]

\* The files of a round and the constants in sim/config.py are known by the
\* rounds they come from, and a rerun stays within its list of commands.
TypeOK ==
  /\ round \in [no : 0..Rounds, at : {"idle", "env", "timing", "batch", "manifest"},
               hand : BOOLEAN, node : Nodes]
  /\ files \in [env : Manifest, timing : 0..Rounds,
                batch : [by : 0..Rounds, kv : Provenance], manifest : Manifest]
  /\ config \in [Constants -> Provenance] /\ marker \in Manifest
  /\ dirty \in BOOLEAN /\ careless \in BOOLEAN
  /\ rerun \in [no : 0..Reruns, at : 0..Len(Steps), code : {"idle", "running", "complete", "failed"}]

\* The five constants in sim/config.py were all measured in the round whose
\* manifest the comment above them quotes, on a node that passed its check, as
\* long as nobody commits a half-written round, passes --allow-dirty or goes on
\* after a failed check: what protects a directory that a second round was
\* overwriting when it died is that adoption refuses an uncommitted tree, and
\* no program protects it from the failed check .
LabelTrue ==
  ~careless /\ marker # None =>
    /\ marker.ok
    /\ \A c \in Constants : marker.by \in config[c]

\* A rerun that reports its results has just written every one of them: none
\* of the files is left over from an earlier rerun that got further.
RerunFresh ==
  rerun.code = "complete" =>
    \A i \in DOMAIN results :
      DOMAIN results[i] = 1..3 /\ \A k \in 1..3 : results[i][k].by = rerun.no

\* A rerun takes whatever constants sim/config.py holds
\* (hpc/rerun_experiments.sh:2).
RerunUsesConfig ==
  [][RunExperiment => results'[rerun.at - 1][1].consts = config]_vars

\* Every adopted constant comes from the round it is labelled with and from
\* no other (hpc/adopt_constants.py:6, "one platform, one round, per figure").
OneRound ==
  ~careless /\ marker # None => \A c \in Constants : config[c] = {marker.by}
=============================================================================
