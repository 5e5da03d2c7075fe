---------------------------- MODULE SweepProofs ----------------------------
(***************************************************************************)
(* Proofs about the start of the laboratory and the sweeps over it, for    *)
(* any number of submodules, kills and sweeps, any sizes, seeds and other  *)
(* parameters.                                                             *)
(***************************************************************************)
EXTENDS Sweep, TLAPS

USE DEF volume, vars, files, loops, sweepVars

-----------------------------------------------------------------------------
(* The laboratory.                                                         *)

\* Once the mark is made the script goes no further than to look at it; what
\* precedes it has been done when it is made; and Cooja runs on a marked volume.
LabInv ==
  /\ TypeOK
  /\ DoneMeansReady
  /\ done => pc \notin {"testGit", "clone", "submodules", "chown", "touch"}
  /\ pc \in {"chown", "touch"} => git = "whole" /\ subs = Submodules
  /\ pc = "touch" => owner = "user"
  /\ pc = "ok" \/ cooja => done

LEMMA InitLab == Init => LabInv
<1> SUFFICES ASSUME Init PROVE LabInv
  OBVIOUS
<1>1. subs \in 0 .. Submodules /\ kills \in 0 .. MaxKills
  BY ParametersAssumption DEF Init
<1>2. TypeOK
  BY <1>1 DEF Init, TypeOK
<1>3. QED
  BY <1>2 DEF Init, LabInv, DoneMeansReady

LEMMA ScriptLab == ASSUME LabInv, Script PROVE LabInv'
<1> USE ParametersAssumption DEF LabInv, TypeOK, DoneMeansReady, Ready, Running
<1>1. CASE TestDone
  BY <1>1 DEF TestDone
<1>2. CASE TestGit
  BY <1>2 DEF TestGit
<1>3. CASE CloneBegins
  BY <1>3 DEF CloneBegins
<1>4. CASE CloneCompletes
  BY <1>4 DEF CloneCompletes
<1>5. CASE CloneFails
  BY <1>5 DEF CloneFails
<1>6. CASE SubmoduleCloned
  BY <1>6 DEF SubmoduleCloned
<1>7. CASE SubmodulesComplete
  BY <1>7 DEF SubmodulesComplete
<1>8. CASE SubmodulesFail
  BY <1>8 DEF SubmodulesFail
<1>9. CASE Chown
  BY <1>9 DEF Chown
<1>10. CASE Touch
  BY <1>10 DEF Touch
<1>11. QED
  BY <1>1, <1>2, <1>3, <1>4, <1>5, <1>6, <1>7, <1>8, <1>9, <1>10 DEF Script

LEMMA LabInvStep == LabInv /\ [Next]_vars => LabInv'
<1> SUFFICES ASSUME LabInv, [Next]_vars PROVE LabInv'
  OBVIOUS
<1> USE ParametersAssumption DEF LabInv, TypeOK, DoneMeansReady, Ready, Running
<1>1. CASE Script
  BY <1>1, ScriptLab
<1>2. CASE Up
  BY <1>2 DEF Up
<1>3. CASE StartCooja
  BY <1>3 DEF StartCooja
<1>4. CASE Down
  BY <1>4 DEF Down
<1>5. CASE Kill
  <2>1. kills' \in 0 .. MaxKills
    BY <1>5 DEF Kill
  <2>2. QED
    BY <1>5, <2>1 DEF Kill
<1>6. CASE WipeVolume
  <2>1. subs' \in 0 .. Submodules
    BY <1>6 DEF WipeVolume
  <2>2. QED
    BY <1>6, <2>1 DEF WipeVolume
<1>7. CASE NetworkChanges
  BY <1>7 DEF NetworkChanges
<1>8. CASE UNCHANGED vars
  BY <1>8
<1>9. QED
  BY <1>1, <1>2, <1>3, <1>4, <1>5, <1>6, <1>7, <1>8 DEF Next

\* The laboratory by itself: every variable keeps its type.
THEOREM LabTypeCorrect == Spec => []TypeOK
<1>1. LabInv => TypeOK
  BY DEF LabInv
<1>2. QED
  BY <1>1, InitLab, LabInvStep, PTL DEF Spec

\* The laboratory by itself: the mark is only ever on a volume that is ready.
THEOREM MarkIsTrue == Spec => []DoneMeansReady
<1>1. LabInv => DoneMeansReady
  BY DEF LabInv
<1>2. QED
  BY <1>1, InitLab, LabInvStep, PTL DEF Spec

-----------------------------------------------------------------------------
(* Every step of a sweep is a step of the laboratory or leaves it alone.   *)

LEMMA SweepLab == [SweepNext]_sweepVars => [Next]_vars
<1> SUFFICES ASSUME [SweepNext]_sweepVars PROVE [Next]_vars
  OBVIOUS
<1>1. CASE Headless
  BY <1>1 DEF Headless, Next
<1>2. CASE LabStep
  BY <1>2 DEF LabStep
<1>3. CASE Start \/ Generate \/ GenerateFails \/ OpenLog \/ Timeout \/ TestOK
           \/ CoojaFails \/ Interrupt \/ UNCHANGED sweepVars
  BY <1>3
  DEF Start, Generate, GenerateFails, OpenLog, Timeout, TestOK, CoojaFails, Interrupt
<1>4. QED
  BY <1>1, <1>2, <1>3 DEF SweepNext

\* Sweeps use the laboratory as anybody does.
THEOREM SweepImplementsLab == SweepSpec => Spec
<1>1. SweepInit => Init
  BY DEF SweepInit
<1>2. QED
  BY <1>1, SweepLab, PTL DEF SweepSpec, Spec

-----------------------------------------------------------------------------
(* Simulations and the laboratory.                                         *)

SimInv == LabInv /\ (step \in {"exec", "simulating"} => cooja)

\* The end of cooja-headless.sh leaves no simulation behind.
LEMMA EndsStep ==
  ASSUME NEW status, HeadlessEnds(status)
  PROVE  step' \in {"seed", "size", "listo", "failed"}
BY DEF HeadlessEnds, NextJob, Fail

LEMMA SimStep == SimInv /\ [SweepNext]_sweepVars => SimInv'
<1> SUFFICES ASSUME SimInv, [SweepNext]_sweepVars PROVE SimInv'
  OBVIOUS
<1>1. LabInv'
  BY SweepLab, LabInvStep DEF SimInv
<1>2. CASE LabStep
  <2>1. CASE ComposeReturns /\ step' = "exec"
    BY <1>1, <2>1 DEF SimInv, ComposeReturns
  <2>2. CASE HeadlessEnds(1)
    BY <1>1, <2>2, EndsStep DEF SimInv
  <2>3. CASE ~ComposeFails /\ step' = step
    BY <1>1, <2>3 DEF SimInv, ComposeFails
  <2>4. QED
    BY <1>2, <2>1, <2>2, <2>3 DEF LabStep
<1>3. CASE TestOK \/ CoojaFails
  BY <1>1, <1>3, EndsStep DEF SimInv, TestOK, CoojaFails
<1>4. CASE Start \/ Generate \/ GenerateFails \/ Headless \/ Interrupt
  BY <1>1, <1>4
  DEF SimInv, Start, Generate, GenerateFails, Headless, Interrupt, Fail
<1>5. CASE OpenLog \/ Timeout \/ UNCHANGED sweepVars
  BY <1>1, <1>5 DEF SimInv, OpenLog, Timeout
<1>6. QED
  BY <1>2, <1>3, <1>4, <1>5 DEF SweepNext

\* A simulation only ever runs on a volume that is whole.
THEOREM SimulationsOnReady == SweepSpec => []SimulatesOnReady
<1>1. SweepInit => SimInv
  BY InitLab DEF SweepInit, SimInv
<1>2. SimInv => SimulatesOnReady
  BY DEF SimInv, LabInv, DoneMeansReady, SimulatesOnReady
<1>3. QED
  BY <1>1, <1>2, SimStep, PTL DEF SweepSpec

-----------------------------------------------------------------------------
(* The rows of a sweep.                                                    *)

Complete(j) == logs[j] # NoFile /\ logs[j].total /\ logs[j].of = setting

AtWork == {"seed", "compose", "exec", "simulating"}

\* The job in hand, while there is one.
JobInv ==
  step \in AtWork =>
    /\ job[1] \in asked.sizes \ sizes /\ job[2] \in seeds
    /\ csc[job[1]] = setting
    /\ step = "simulating" => logs[job] \in [of : {setting}, total : BOOLEAN]

\* Every size that was begun is complete, but for the seeds left of the one in
\* hand.
BegunComplete ==
  step \notin {"idle", "failed"} =>
    \A n \in asked.sizes \ sizes, s \in asked.seeds :
      (n = job[1] /\ s \in seeds) \/ Complete(<<n, s>>)

RowsInv ==
  /\ SweepTypeOK
  /\ JobInv
  /\ BegunComplete
  /\ step \in {"size", "listo"} => seeds = {}
  /\ step = "listo" => sizes = {}

LEMMA NoneTypes == NoSetting \in Settings /\ NoJob \in Jobs
<1>1. \E p \in Settings : TRUE
  BY SweepAssumption
<1>2. \E j \in Jobs : TRUE
  <2>1. PICK n \in Sizes, s \in Seeds : TRUE
    BY SweepAssumption
  <2>2. <<n, s>> \in Jobs
    BY DEF Jobs
  <2>3. QED
    BY <2>2
<1>3. QED
  BY <1>1, <1>2, Zenon DEF NoSetting, NoJob

LEMMA InitRows == SweepInit => RowsInv
<1> SUFFICES ASSUME SweepInit PROVE RowsInv
  OBVIOUS
<1>1. /\ csc \in [Sizes -> Settings \cup {NoFile}]
      /\ logs \in [Jobs -> [of : Settings, total : BOOLEAN] \cup {NoFile}]
      /\ sweeps \in 0 .. MaxSweeps
  BY SweepAssumption DEF SweepInit
<1>2. SweepTypeOK
  BY <1>1, NoneTypes DEF SweepInit, SweepTypeOK, Ended, NothingAsked
<1>3. QED
  BY <1>2 DEF SweepInit, RowsInv, JobInv, BegunComplete, AtWork

\* The end of a failed sweep keeps the invariant whatever the files are.
LEMMA FailRows ==
  ASSUME SweepTypeOK, Fail, UNCHANGED <<csc, logs, sweeps>>
  PROVE  RowsInv'
<1>1. SweepTypeOK'
  BY NoneTypes DEF SweepTypeOK, Fail, Ended, NothingAsked
<1>2. QED
  BY <1>1 DEF Fail, RowsInv, JobInv, BegunComplete, AtWork

LEMMA StartRows == ASSUME RowsInv, Start PROVE RowsInv'
<1>1. /\ asked' \in Asks /\ sizes' = asked'.sizes /\ seeds' = {} /\ step' = "size"
      /\ sweeps' \in 0 .. MaxSweeps
  BY SweepAssumption DEF Start, RowsInv, SweepTypeOK
<1>2. SweepTypeOK'
  BY <1>1 DEF Start, RowsInv, SweepTypeOK
<1>3. QED
  BY <1>1, <1>2 DEF RowsInv, JobInv, BegunComplete, AtWork

LEMMA GenerateRows == ASSUME RowsInv, Generate PROVE RowsInv'
<1>1. PICK n \in sizes :
        /\ csc' = [csc EXCEPT ![n] = setting]
        /\ sizes' = sizes \ {n}
        /\ seeds' = asked.seeds
        /\ \E s \in seeds' : job' = <<n, s>>
  BY DEF Generate
<1>2. PICK s \in asked.seeds : job' = <<n, s>>
  BY <1>1
<1>3. /\ step = "size" /\ step' = "seed" /\ seeds = {}
      /\ UNCHANGED <<setting, asked, logs, sweeps>>
  BY DEF Generate, RowsInv
<1>4. n \in Sizes /\ s \in Seeds /\ n \in asked.sizes
  BY <1>2, SweepAssumption DEF RowsInv, SweepTypeOK, NothingAsked
<1>5. csc' \in [Sizes -> Settings \cup {NoFile}] /\ csc'[n] = setting
  BY <1>1, <1>4 DEF RowsInv, SweepTypeOK
<1>6. SweepTypeOK'
  BY <1>1, <1>2, <1>3, <1>4, <1>5 DEF RowsInv, SweepTypeOK, Jobs
<1>7. JobInv'
  BY <1>1, <1>2, <1>3, <1>4, <1>5 DEF JobInv
<1>8. BegunComplete'
  <2> SUFFICES ASSUME NEW m \in asked.sizes \ sizes', NEW r \in asked.seeds
               PROVE  (m = n /\ r \in seeds') \/ Complete(<<m, r>>)'
    BY <1>2, <1>3 DEF BegunComplete
  <2>1. CASE m = n
    BY <1>1, <2>1
  <2>2. CASE m # n
    BY <1>1, <1>3, <2>2 DEF RowsInv, BegunComplete, Complete
  <2>3. QED
    BY <2>1, <2>2
<1>9. QED
  BY <1>3, <1>6, <1>7, <1>8 DEF RowsInv

\* The log in hand is one of those that are not counted on.
LEMMA LogRows ==
  ASSUME RowsInv, step \in {"exec", "simulating"}, step' = "simulating",
         NEW t \in BOOLEAN,
         logs' = [logs EXCEPT ![job] = [of |-> setting, total |-> t]],
         UNCHANGED <<loops, csc, sweeps>>
  PROVE  RowsInv'
<1>1. job \in Jobs /\ setting \in Settings /\ job = <<job[1], job[2]>>
  BY DEF RowsInv, SweepTypeOK, Jobs
<1>2. /\ logs' \in [Jobs -> [of : Settings, total : BOOLEAN] \cup {NoFile}]
      /\ logs'[job] = [of |-> setting, total |-> t]
      /\ \A j \in Jobs : j # job => logs'[j] = logs[j]
  BY <1>1 DEF RowsInv, SweepTypeOK
<1>3. SweepTypeOK'
  BY <1>2 DEF RowsInv, SweepTypeOK
<1>4. JobInv'
  BY <1>2 DEF RowsInv, JobInv, AtWork
<1>5. BegunComplete'
  <2> SUFFICES ASSUME NEW n \in asked.sizes \ sizes, NEW s \in asked.seeds
               PROVE  (n = job[1] /\ s \in seeds) \/ Complete(<<n, s>>)'
    BY DEF BegunComplete
  <2>1. (n = job[1] /\ s \in seeds) \/ Complete(<<n, s>>)
    BY DEF RowsInv, BegunComplete
  <2>2. CASE <<n, s>> = job
    BY <1>1, <2>2 DEF RowsInv, JobInv, AtWork
  <2>3. CASE <<n, s>> # job
    <3>1. <<n, s>> \in Jobs
      BY SweepAssumption DEF RowsInv, SweepTypeOK, NothingAsked, Jobs
    <3>2. QED
      BY <1>2, <2>1, <2>3, <3>1 DEF Complete
  <2>4. QED
    BY <2>2, <2>3
<1>6. QED
  BY <1>3, <1>4, <1>5 DEF RowsInv

LEMMA OpenLogRows == ASSUME RowsInv, OpenLog PROVE RowsInv'
<1>1. csc[job[1]] = setting
  BY DEF RowsInv, JobInv, AtWork, OpenLog
<1>2. QED
  BY <1>1, LogRows DEF OpenLog

LEMMA TimeoutRows == ASSUME RowsInv, Timeout PROVE RowsInv'
<1>1. logs[job] \in [of : {setting}, total : BOOLEAN]
  BY DEF RowsInv, JobInv, AtWork, Timeout
<1>2. job \in Jobs
  BY DEF RowsInv, SweepTypeOK
<1>3. logs' = [logs EXCEPT ![job] = [of |-> setting, total |-> TRUE]]
  <2>1. PICK t \in BOOLEAN : logs[job] = [of |-> setting, total |-> t]
    <3>1. ASSUME NEW r \in [of : {setting}, total : BOOLEAN]
          PROVE  r = [of |-> setting, total |-> r.total] /\ r.total \in BOOLEAN
      OBVIOUS
    <3>2. QED
      BY <1>1, <3>1
  <2>2. logs' = [logs EXCEPT ![job] = [of |-> logs[job].of, total |-> TRUE]]
    BY DEF Timeout
  <2>3. logs[job].of = setting
    BY <2>1
  <2>4. QED
    BY <2>2, <2>3
<1>4. QED
  BY <1>3, LogRows DEF Timeout

LEMMA TestOKRows == ASSUME RowsInv, TestOK PROVE RowsInv'
<1>1. /\ step = "simulating" /\ logs[job].total /\ NextJob
      /\ UNCHANGED <<csc, logs, sweeps, setting, asked, sizes>>
  BY DEF TestOK, HeadlessEnds, NextJob
<1>2. job[1] \in asked.sizes \ sizes /\ job[2] \in seeds /\ csc[job[1]] = setting
  BY <1>1 DEF RowsInv, JobInv, AtWork
<1>3. Complete(job)
  BY <1>1, SweepAssumption DEF RowsInv, JobInv, AtWork, SweepTypeOK, Complete
<1>4. job \in Jobs /\ job = <<job[1], job[2]>> /\ seeds' = seeds \ {job[2]}
  BY <1>1 DEF RowsInv, SweepTypeOK, Jobs, NextJob
<1>5. \A n \in asked.sizes \ sizes, s \in asked.seeds :
        (n = job[1] /\ s \in seeds') \/ Complete(<<n, s>>)'
  BY <1>1, <1>3, <1>4 DEF RowsInv, BegunComplete, Complete
<1>6. CASE seeds' # {}
  <2>1. PICK s \in seeds' : job' = <<job[1], s>> /\ step' = "seed"
    BY <1>1, <1>4, <1>6 DEF NextJob
  <2>2. job' \in Jobs
    BY <1>4, <2>1, SweepAssumption DEF RowsInv, SweepTypeOK, NothingAsked, Jobs
  <2>3. SweepTypeOK'
    BY <1>1, <1>4, <2>1, <2>2 DEF RowsInv, SweepTypeOK
  <2>4. JobInv' /\ BegunComplete'
    BY <1>1, <1>2, <1>5, <2>1 DEF JobInv, BegunComplete
  <2>5. QED
    BY <2>1, <2>3, <2>4 DEF RowsInv
<1>7. CASE seeds' = {}
  <2>1. /\ UNCHANGED job
        /\ step' = IF sizes # {} THEN "size" ELSE "listo"
    BY <1>1, <1>4, <1>7 DEF NextJob
  <2>2. SweepTypeOK'
    BY <1>1, <1>4, <2>1 DEF RowsInv, SweepTypeOK, Ended
  <2>3. JobInv' /\ BegunComplete'
    BY <1>1, <1>5, <2>1 DEF JobInv, BegunComplete, AtWork
  <2>4. QED
    BY <1>1, <1>7, <2>1, <2>2, <2>3 DEF RowsInv
<1>8. QED
  BY <1>6, <1>7

\* A step that leaves the files and the loops alone.
LEMMA QuietRows ==
  ASSUME RowsInv, UNCHANGED <<loops, files, sweeps>>,
         \/ step' = step
         \/ step \in {"seed", "compose"} /\ step' \in {"compose", "exec"}
  PROVE  RowsInv'
BY DEF RowsInv, SweepTypeOK, JobInv, BegunComplete, Complete, AtWork, Ended

LEMMA RowsStep == RowsInv /\ [SweepNext]_sweepVars => RowsInv'
<1> SUFFICES ASSUME RowsInv, [SweepNext]_sweepVars PROVE RowsInv'
  OBVIOUS
<1>1. CASE GenerateFails \/ CoojaFails \/ Interrupt
  BY <1>1, FailRows
  DEF GenerateFails, CoojaFails, Interrupt, HeadlessEnds, RowsInv
<1>2. CASE LabStep
  <2>1. CASE ComposeReturns /\ step' = "exec" /\ UNCHANGED loops
    BY <1>2, <2>1, QuietRows DEF LabStep, ComposeReturns
  <2>2. CASE HeadlessEnds(1)
    BY <1>2, <2>2, FailRows DEF LabStep, HeadlessEnds, RowsInv
  <2>3. CASE UNCHANGED <<step, loops>>
    BY <1>2, <2>3, QuietRows DEF LabStep
  <2>4. QED
    BY <1>2, <2>1, <2>2, <2>3 DEF LabStep
<1>3. CASE Headless \/ UNCHANGED sweepVars
  BY <1>3, QuietRows DEF Headless
<1>4. QED
  BY <1>1, <1>2, <1>3, StartRows, GenerateRows, OpenLogRows, TimeoutRows, TestOKRows
  DEF SweepNext

\* Every variable of a sweep keeps its type.
THEOREM SweepTypeCorrect == SweepSpec => []SweepTypeOK
<1>1. RowsInv => SweepTypeOK
  BY DEF RowsInv
<1>2. QED
  BY <1>1, InitRows, RowsStep, PTL DEF SweepSpec

\* A sweep that says Listo has a row of its own for every size and seed.
THEOREM ListoIsComplete == SweepSpec => []ListoMeansComplete
<1>1. RowsInv => ListoMeansComplete
  <2> SUFFICES ASSUME RowsInv, step = "listo",
                      NEW n \in asked.sizes, NEW s \in asked.seeds
               PROVE  <<n, s>> \in Rows /\ logs[<<n, s>>].of = setting
    BY DEF ListoMeansComplete
  <2>1. Complete(<<n, s>>)
    BY DEF RowsInv, BegunComplete
  <2>2. <<n, s>> \in Jobs
    BY SweepAssumption DEF RowsInv, SweepTypeOK, NothingAsked, Jobs
  <2>3. QED
    BY <2>1, <2>2 DEF Complete, Rows
<1>2. QED
  BY <1>1, InitRows, RowsStep, PTL DEF SweepSpec
=============================================================================
