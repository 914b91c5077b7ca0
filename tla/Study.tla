------------------------------- MODULE Study -------------------------------
(***************************************************************************)
(* One experiment and its result directory.  A run calibrates its rates    *)
(* (exp03), simulates its grid on a pool of workers that answer in any     *)
(* order, and then writes three files, one after the other: runs.csv,      *)
(* metadata.json and analysis.json.  It can be killed anywhere, and        *)
(* "--reanalyze" computes the report again from the files that are there,  *)
(* if they are enough for it.                                              *)
(***************************************************************************)
EXTENDS Experiments

CONSTANTS
  Exps,              \* of "exp01" .. "exp05"
  Grid(_, _, _),     \* the jobs of a run: experiment, seeds, calibrated rates
  Tokens(_, _),      \* what an outcome of the simulator gives for a job
  Outcomes,          \* the outcomes a run may meet
  SeedSets,          \* the values of --seeds
  Lives,             \* mean live sessions of a calibration run
  Target, Tolerance, \* TARGET_LIVE and LIVE_TOLERANCE
  MaxRefinements,    \* MAX_CALIBRATION_REFINEMENTS
  Workers,           \* --workers
  MaxRuns,           \* runs started in the directory
  MaxKills,          \* of these, killed
  MaxLost            \* rows that a cut runs.csv lacks, unless it has none

ASSUME StudyAssumption == /\ Exps \subseteq {"exp01", "exp02", "exp03", "exp04", "exp05"}
                          /\ \A n \in {Target, MaxRefinements, Workers} : n \in Nat \ {0}
                          /\ \A n \in {Tolerance, MaxRuns, MaxKills, MaxLost} : n \in Nat
                          /\ Lives \subseteq Nat /\ PauseGrid \subseteq Nat

VARIABLES
  exp,       \* the experiment of the directory
  pc,        \* "idle" or the part of main() that runs
  run,       \* its number
  last,      \* how the last process ended, "unreported" and "unprinted" with an
             \* exception before analysis.json and after it
  seeds, outcome,
  rates,     \* pause -> what calibrate_rate returned; its rate alone once the grid runs
  trace,     \* samples of the calibration that goes on
  queue,     \* jobs no worker has taken; their order is left to CHOOSE
  busy,      \* jobs the workers simulate
  rows,
  calib,     \* calibration.json: the run it is of
  csv,       \* runs.csv
  meta,      \* metadata.json: the run whose predictor quality it holds
  analysis,  \* analysis.json, and the run whose rows it is of
  kills

job   == <<queue, busy, rows>>
disk  == <<calib, csv, meta, analysis>>
param == <<exp, run, seeds, outcome>>
vars  == <<pc, param, last, rates, trace, job, disk, kills>>

Report(data) ==
  CASE exp = "exp01" -> Exp01Report(data)
    [] exp = "exp02" -> Exp02Report(data)
    [] exp = "exp03" -> Exp03Report(data)
    [] exp = "exp04" -> Exp04Report(data)
    [] OTHER         -> Exp05Report(data)

\* What analyze() raises before it writes the report.
Raises(data) ==
  CASE exp = "exp02" -> Exp02Raises(data)
    [] exp = "exp03" -> PairedRaises(data)
    [] exp = "exp05" -> Exp05Raises(data)
    [] OTHER         -> FALSE

\* A number that print_report() must format is None.
PrintRaises(data) ==
  CASE exp = "exp02" -> \E p \in Points(data) : \E a \in {"lru", "belady"} : DOMAIN BySeed(data, p, a, 0) = {}
    [] exp = "exp03" -> \E p \in Points(data) : DOMAIN BySeed(data, p, "lru", 0) = {}
    [] exp = "exp05" -> LET report == Report(data)
                        IN  \E p \in DOMAIN report : None \in {report[p].share, report[p].gain}
    [] OTHER         -> FALSE

\* exp04 and exp05 report the quality of their predictors with the rows.
HasQuality == exp \in {"exp04", "exp05"}

Init ==
  /\ exp \in Exps /\ pc = "idle" /\ run = 0 /\ last = "none" /\ seeds = {} /\ outcome = "none"
  /\ rates = <<>> /\ trace = <<>> /\ queue = {} /\ busy = {} /\ rows = {}
  /\ calib = 0 /\ csv = None /\ meta = 0 /\ analysis = None /\ kills = 0

ToGrid(some, found) ==
  /\ pc' = "grid" /\ queue' = Grid(exp, some, found) /\ busy' = {} /\ rows' = {}

\* The memory of the process is gone with it.
Exit(how) ==
  /\ pc' = "idle" /\ last' = how
  /\ seeds' = {} /\ outcome' = "none" /\ rates' = <<>> /\ trace' = <<>>
  /\ queue' = {} /\ busy' = {} /\ rows' = {}
  /\ UNCHANGED <<exp, run>>

Start ==
  /\ pc = "idle" /\ run < MaxRuns
  /\ run' = run + 1
  /\ outcome' \in Outcomes
  /\ \E some \in SeedSets :
       /\ seeds' = some
       /\ IF exp = "exp03" THEN pc' = "calibrate" /\ UNCHANGED job ELSE ToGrid(some, <<>>)
  /\ rates' = <<>> /\ trace' = <<>>
  /\ UNCHANGED <<exp, last, disk, kills>>

(***************************************************************************)
(* exp03: the arrival rate of the open loop, one pause after the other.  A *)
(* rate is the sequence of corrections made to the first guess, which is   *)
(* the rate a closed loop completes sessions at.                           *)
(***************************************************************************)

Distance(live) == IF live < Target THEN Target - live ELSE live - Target

\* min(1.6, max(0.5, target / live))
Correction(live) ==
  IF live <= 0 \/ 10 * Target >= 16 * live THEN <<8, 5>>
  ELSE IF 2 * Target <= live THEN <<1, 2>> ELSE <<Target, live>>

NextRate == IF trace = <<>> THEN <<>>
            ELSE Append(trace[Len(trace)].rate, Correction(trace[Len(trace)].live))

\* The last sample instead of the best one.
Mut_Best(samples) == samples[Len(samples)]

\* The first of the closest samples.
Best(samples) ==
  samples[CHOOSE i \in DOMAIN samples :
            /\ \A k \in DOMAIN samples : Distance(samples[i].live) <= Distance(samples[k].live)
            /\ \A k \in 1..(i - 1) : Distance(samples[i].live) < Distance(samples[k].live)]

Calibrated(samples) ==
  [rate |-> Best(samples).rate, live |-> Best(samples).live,
   matched |-> Distance(Best(samples).live) <= Tolerance,
   tried |-> {samples[i].live : i \in DOMAIN samples}]

Sample ==
  /\ pc = "calibrate" /\ DOMAIN rates # PauseGrid
  /\ \E live \in Lives :
       LET samples == Append(trace, [rate |-> NextRate, live |-> live])
           pause == Min(PauseGrid \ DOMAIN rates)
       IN  IF Distance(live) <= Tolerance \/ Len(samples) = MaxRefinements
           THEN /\ rates' = [w \in DOMAIN rates \cup {pause} |->
                               IF w = pause THEN Calibrated(samples) ELSE rates[w]]
                /\ trace' = <<>>
           ELSE trace' = samples /\ UNCHANGED rates
  /\ UNCHANGED <<pc, param, last, job, disk, kills>>

\* A rate that did not match is used all the same.
CalibrationDone ==
  /\ pc = "calibrate" /\ DOMAIN rates = PauseGrid
  /\ calib' = run
  /\ ToGrid(seeds, [w \in PauseGrid |-> rates[w].rate])
  /\ rates' = [w \in PauseGrid |-> rates[w].rate]
  /\ UNCHANGED <<param, last, trace, csv, meta, analysis, kills>>

(***************************************************************************)
(* run_grid: a worker takes the next job; imap_unordered hands the rows    *)
(* over as they come, and raises what a job raised, which ends the run.    *)
(***************************************************************************)

\* Every job is given out at once.
Mut_WorkerFree == TRUE

WorkerFree == Cardinality(busy) < Workers

TakeJob ==
  /\ pc = "grid" /\ queue # {} /\ WorkerFree
  /\ LET j == CHOOSE j \in queue : TRUE
     IN  busy' = busy \cup {j} /\ queue' = queue \ {j}
  /\ UNCHANGED <<pc, param, last, rates, trace, rows, disk, kills>>

JobDone ==
  /\ pc = "grid"
  /\ \E j \in busy :
       /\ busy' = busy \ {j}
       /\ rows' = rows \cup {[point |-> j.point, policy |-> j.policy, ttl |-> j.ttl,
                              seed |-> j.seed, tokens |-> Tokens(outcome, j)]}
  /\ UNCHANGED <<pc, param, last, rates, trace, queue, disk, kills>>

JobRaises ==
  /\ pc = "grid" /\ busy # {}
  /\ Exit("raised")
  /\ UNCHANGED <<disk, kills>>

\* Metadata that is written before the rows.
Mut_MetaFirst ==
  /\ pc = "grid" /\ queue = {} /\ busy = {}
  /\ pc' = "rows" /\ meta' = run
  /\ UNCHANGED <<param, last, rates, trace, job, calib, csv, analysis, kills>>

\* A pool that is left while workers are at their last jobs.
Mut_LeavesPool ==
  /\ pc = "grid" /\ queue = {}
  /\ pc' = "rows"
  /\ UNCHANGED <<param, last, rates, trace, job, disk, kills>>

GridDone ==
  /\ pc = "grid" /\ queue = {} /\ busy = {}
  /\ pc' = "rows"
  /\ UNCHANGED <<param, last, rates, trace, job, disk, kills>>

(***************************************************************************)
(* The three files                                                         *)
(***************************************************************************)

RowsFile(data) == [rows |-> data, run |-> run, cut |-> "no"]

WriteRows ==
  /\ pc = "rows" /\ csv' = RowsFile(rows) /\ pc' = "meta"
  /\ UNCHANGED <<param, last, rates, trace, job, calib, meta, analysis, kills>>

WriteMeta ==
  /\ pc = "meta" /\ meta' = run /\ pc' = "report"
  /\ UNCHANGED <<param, last, rates, trace, job, calib, csv, analysis, kills>>

Analysis(data, by, quality, whole) ==
  [report |-> Report(data), by |-> by, quality |-> IF HasQuality THEN quality ELSE 0, whole |-> whole,
   collapse |-> IF exp = "exp02" THEN {Collapse(data, t) : t \in Targets(data)} ELSE {}]

\* analyze() and print_report(): how the process ends.
Analyzed(data) ==
  IF Raises(data) THEN "unreported" ELSE IF PrintRaises(data) THEN "unprinted" ELSE "done"

WriteReport ==
  /\ pc = "report"
  /\ analysis' = IF Raises(rows) THEN analysis ELSE Analysis(rows, run, run, TRUE)
  /\ Exit(Analyzed(rows))
  /\ UNCHANGED <<calib, csv, meta, kills>>

\* A row that ends early has cells that float() does not take.
Readable == csv # None /\ csv.cut # "row" /\ (HasQuality => meta # 0)

Reanalyze ==
  /\ pc = "idle"
  /\ IF Readable
     THEN /\ analysis' = IF Raises(csv.rows) THEN analysis
                         ELSE Analysis(csv.rows, csv.run, meta, csv.cut = "no")
          /\ last' = Analyzed(csv.rows)
     ELSE last' = "unreported" /\ UNCHANGED analysis
  /\ UNCHANGED <<pc, param, rates, trace, job, calib, csv, meta, kills>>

\* runs.csv, when the process is killed while it writes it: it ends after a row
\* or within one.
CutFiles ==
  {[rows |-> data, run |-> run, cut |-> where] :
     where \in {"lines", "row"},
     data \in {{}} \cup {rows \ {lost[i] : i \in 1..MaxLost} : lost \in [1..MaxLost -> rows]}}

\* A file that is being written is left cut, a JSON file unreadable.
Killed ==
  /\ pc # "idle" /\ kills < MaxKills
  /\ kills' = kills + 1 /\ Exit("killed")
  /\ calib' \in IF pc = "calibrate" /\ DOMAIN rates = PauseGrid THEN {calib, 0} ELSE {calib}
  /\ csv' \in IF pc = "rows" THEN {csv} \cup CutFiles ELSE {csv}
  /\ meta' \in IF pc = "meta" THEN {meta, 0} ELSE {meta}
  /\ analysis' \in IF pc = "report" THEN {analysis, None} ELSE {analysis}

Next ==
  \/ Start \/ Sample \/ CalibrationDone
  \/ TakeJob \/ JobDone \/ JobRaises \/ GridDone
  \/ WriteRows \/ WriteMeta \/ WriteReport \/ Reanalyze \/ Killed

Spec == Init /\ [][Next]_vars

-----------------------------------------------------------------------------

\* No more jobs are out than there are workers, and a job of the grid is
\* queued, out or answered by exactly one row (run_grid).
TypeOK ==
  /\ pc \in {"idle", "calibrate", "grid", "rows", "meta", "report"}
  /\ run \in 0..MaxRuns /\ kills \in 0..MaxKills /\ outcome \in Outcomes \cup {"none"}
  /\ last \in {"none", "done", "raised", "unreported", "unprinted", "killed"}
  /\ DOMAIN rates \subseteq PauseGrid /\ Len(trace) < MaxRefinements
  /\ Cardinality(busy) <= Workers
  /\ pc \in {"grid", "rows", "meta", "report"} =>
       Cardinality(queue) + Cardinality(busy) + Cardinality(rows)
         = Cardinality(Grid(exp, seeds, rates))

Agrees(value, ci) == value = None \/ ci = None \/ Same(value, ci.point)

\* The number a report prints and the point of the interval it prints beside
\* it are computed by different code, means of all rows there and sums over
\* paired seeds here: they are the same number, also for the collapse test of
\* exp02, whenever the rows are those of a whole grid.
HeadroomIsPoint ==
  analysis # None /\ analysis.whole =>
    /\ \A p \in DOMAIN analysis.report :
         LET e == analysis.report[p]
         IN  IF exp = "exp05" THEN Agrees(e.share, e.shareCi) /\ Agrees(e.gain, e.gainCi)
             ELSE /\ Agrees(e.headroom, e.headroomCi)
                  /\ exp = "exp01" => Agrees(e.share, e.shareCi)
                  /\ exp = "exp04" => \A a \in DOMAIN e.shares : Agrees(e.shares[a].share, e.shares[a].ci)
    /\ \A c \in analysis.collapse : c.point = None \/ Same(c.range, c.point)

\* Wherever a run was killed, nothing that is read beside the rows comes from a
\* later run than they do, and the calibration of exp03 from no earlier one: a
\* report may pair rows with the quality of an older run, not the reverse.
FilesInOrder ==
  /\ meta <= IF csv = None THEN 0 ELSE csv.run
  /\ exp = "exp03" /\ csv # None => calib = 0 \/ csv.run <= calib
  /\ analysis # None => csv # None /\ analysis.quality <= analysis.by /\ analysis.by <= csv.run

\* A run whose workers all answered, and a reanalysis of files that no kill has
\* cut, are reported and printed: the rows have every arm that the code
\* subtracts, at every point and for every seed, except that exp05 cannot print
\* a share of nothing.
WholeRowsReported ==
  pc = "idle" =>
    /\ last = "unreported" => csv = None \/ csv.cut # "no" \/ (HasQuality /\ meta = 0)
    /\ last = "unprinted" =>
         csv.cut # "no" \/ (exp = "exp05" /\ \E p \in DOMAIN analysis.report : analysis.report[p].share = None)

\* The rate exp03 goes on with is one whose live sessions were the closest to
\* the target of all that were tried, and it is flagged as matched exactly
\* when one of them was within the tolerance (calibrate_rate).
CalibrationKeepsClosest ==
  pc = "calibrate" => \A w \in DOMAIN rates :
    /\ rates[w].live \in rates[w].tried
    /\ \A live \in rates[w].tried : Distance(rates[w].live) <= Distance(live)
    /\ rates[w].matched <=> \E live \in rates[w].tried : Distance(live) <= Tolerance
=============================================================================
