------------------------------- MODULE Sweep -------------------------------
(***************************************************************************)
(* Practica 7: the scalability sweep.  run_experiment.sh generates one     *)
(* simulation per network size and runs it with several seeds through      *)
(* scripts/cooja-headless.sh, which first brings the laboratory up         *)
(* (ContikiInit) and then runs Cooja in its container; the simulation      *)
(* script metrics.js ends it and writes the summary that parse_results.py  *)
(* looks for in the logs.                                                  *)
(*                                                                         *)
(* Files outlive the sweeps: sim/n<N>.csc and the logs of every earlier    *)
(* one, whatever its parameters were and however it ended.  What a file    *)
(* says is abstracted to the parameters (AREA, RANGE, INTERVAL, LAYOUT)    *)
(* that it was made with.                                                  *)
(***************************************************************************)
EXTENDS ContikiInit

CONSTANTS
  Sizes,      \* network sizes
  Seeds,
  Asks,       \* [sizes |-> NODES, seeds |-> SEEDS]: what a user may ask for
  Settings,   \* values of the other parameters together
  NoFile,
  MaxSweeps   \* bound: sweeps

ASSUME SweepAssumption ==
  /\ Sizes # {} /\ Seeds # {} /\ Settings # {}
  /\ Asks \subseteq [sizes : (SUBSET Sizes) \ {{}}, seeds : (SUBSET Seeds) \ {{}}]
  /\ NoFile \notin Settings \cup [of : Settings, total : BOOLEAN]
  /\ MaxSweeps \in Nat

VARIABLES
  step,      \* where run_experiment.sh and what it runs are, or how they ended
  setting,   \* the parameters of the sweep
  asked,     \* NODES and SEEDS
  sizes,     \* sizes still to do
  seeds,     \* seeds still to do at this size
  job,       \* the size and the seed in hand
  csc,       \* csc[n]: the parameters in sim/n<n>.csc
  logs,      \* logs[n, s]: resultados/p7_n<n>_s<s>/COOJA.testlog
  sweeps     \* history: sweeps so far

files == <<csc, logs>>
loops == <<setting, asked, sizes, seeds, job>>
sweepVars == <<vars, step, loops, files, sweeps>>

Jobs == Sizes \X Seeds
Ended == {"idle", "listo", "failed"}

\* Values of the script's variables while it does not run.
NoSetting == CHOOSE p \in Settings : TRUE
NothingAsked == [sizes |-> {}, seeds |-> {}]
NoJob == CHOOSE j \in Jobs : TRUE

SweepTypeOK ==
  /\ step \in Ended \cup {"size", "seed", "compose", "exec", "simulating"}
  /\ setting \in Settings
  /\ asked \in Asks \cup {NothingAsked}
  /\ sizes \subseteq asked.sizes
  /\ seeds \subseteq asked.seeds
  /\ job \in Jobs
  /\ csc \in [Sizes -> Settings \cup {NoFile}]
  /\ logs \in [Jobs -> [of : Settings, total : BOOLEAN] \cup {NoFile}]
  /\ sweeps \in 0 .. MaxSweeps

SweepInit ==
  /\ Init
  /\ step = "idle"
  /\ setting = NoSetting
  /\ asked = NothingAsked
  /\ sizes = {}
  /\ seeds = {}
  /\ job = NoJob
  /\ csc = [n \in Sizes |-> NoFile]
  /\ logs = [j \in Jobs |-> NoFile]
  /\ sweeps = 0

-----------------------------------------------------------------------------
(* run_experiment.sh.                                                      *)

\* NODES, SEEDS and the others come from the environment, in any order.
Start ==
  /\ step \in Ended
  /\ sweeps < MaxSweeps
  /\ setting' \in Settings
  /\ asked' \in Asks
  /\ sizes' = asked'.sizes
  /\ seeds' = {}
  /\ step' = "size"
  /\ sweeps' = sweeps + 1
  /\ UNCHANGED <<vars, job, files>>

\* A command fails (set -e), or Ctrl+C: the script ends there, before "Listo".
Fail ==
  /\ step' = "failed"
  /\ setting' = NoSetting
  /\ asked' = NothingAsked
  /\ sizes' = {}
  /\ seeds' = {}
  /\ job' = NoJob

\* The simulation of a size is generated anew, over that of earlier sweeps.
Generate ==
  /\ step = "size"
  /\ \E n \in sizes :
       /\ csc' = [csc EXCEPT ![n] = setting]
       /\ sizes' = sizes \ {n}
       /\ seeds' = asked.seeds
       /\ \E s \in seeds' : job' = <<n, s>>
  /\ step' = "seed"
  /\ UNCHANGED <<vars, setting, asked, logs, sweeps>>

\* gen_csc.py rejects its arguments, or Ctrl+C.
GenerateFails ==
  /\ step = "size"
  /\ Fail
  /\ UNCHANGED <<vars, files, sweeps>>

\* The next seed of this size, or the next size, or the end of both loops.
NextJob ==
  LET left == seeds \ {job[2]}
  IN  /\ seeds' = left
      /\ IF left # {}
         THEN /\ \E s \in left : job' = <<job[1], s>>
              /\ step' = "seed"
         ELSE /\ step' = IF sizes # {} THEN "size" ELSE "listo"
              /\ UNCHANGED job
      /\ UNCHANGED <<setting, asked, sizes>>

\* A plausible slip: without pipefail the pipe's status is that of tail -3.
HeadlessEndsUnnoticed(status) == NextJob

\* cooja-headless.sh ends.  set -euo pipefail: its failure ends the sweep.
HeadlessEnds(status) == IF status = 0 THEN NextJob ELSE Fail

-----------------------------------------------------------------------------
(* cooja-headless.sh, one job.                                             *)

\* docker compose up -d cooja runs the script of contiki-init again, unless it
\* is running or Cooja is about to be started after it.
Headless ==
  /\ step = "seed"
  /\ step' = "compose"
  /\ IF pc \in Running \/ (pc = "ok" /\ ~cooja) THEN UNCHANGED vars ELSE Up
  /\ UNCHANGED <<loops, files, sweeps>>

\* Cooja loads the simulation and opens the log of its directory anew.
OpenLog ==
  /\ step = "exec"
  /\ step' = "simulating"
  /\ logs' = [logs EXCEPT ![job] = [of |-> csc[job[1]], total |-> FALSE]]
  /\ UNCHANGED <<vars, loops, csc, sweeps>>

\* A plausible slip: the script sets no TIMEOUT, and nothing else ends it.
TimeoutMissing == step = "simulating" /\ FALSE /\ UNCHANGED sweepVars

\* metrics.js: after the simulated ten minutes, the summary of every node and
\* the total; testOK then makes Cooja exit with 0.
Timeout ==
  /\ step = "simulating"
  /\ ~logs[job].total
  /\ logs' = [logs EXCEPT ![job] = [of |-> @.of, total |-> TRUE]]
  /\ UNCHANGED <<vars, step, loops, csc, sweeps>>

TestOK ==
  /\ step = "simulating"
  /\ logs[job].total
  /\ HeadlessEnds(0)
  /\ UNCHANGED <<vars, files, sweeps>>

\* The simulation does not build or load, or Cooja dies, before or while it
\* writes.  The log is left as it is.
CoojaFails ==
  /\ step \in {"exec", "simulating"}
  /\ HeadlessEnds(1)
  /\ UNCHANGED <<vars, files, sweeps>>

\* Ctrl+C while the laboratory comes up.  Its containers are not stopped.
Interrupt ==
  /\ step \in {"seed", "compose"}
  /\ Fail
  /\ UNCHANGED <<vars, files, sweeps>>

-----------------------------------------------------------------------------
(* The laboratory meanwhile.                                               *)

\* docker compose up returns when Cooja runs after the script has ended well.
ComposeReturns == step = "compose" /\ pc' = "ok" /\ cooja'

\* It fails when the script does, and docker compose exec fails when Cooja's
\* container is gone.
ComposeFails ==
  \/ step = "compose" /\ pc' \in {"off", "failed"}
  \/ step \in {"exec", "simulating"} /\ ~cooja'

LabStep ==
  /\ Next
  /\ \/ ComposeReturns /\ step' = "exec" /\ UNCHANGED loops
     \/ ComposeFails /\ HeadlessEnds(1)
     \/ ~ComposeReturns /\ ~ComposeFails /\ UNCHANGED <<step, loops>>
  /\ UNCHANGED <<files, sweeps>>

SweepNext ==
  \/ Start \/ Generate \/ GenerateFails
  \/ Headless \/ OpenLog \/ Timeout \/ TestOK \/ CoojaFails \/ Interrupt
  \/ LabStep

SweepSpec == SweepInit /\ [][SweepNext]_sweepVars

\* A started sweep runs on, and so does the laboratory it brings up.
FairSweepSpec ==
  /\ SweepSpec
  /\ WF_sweepVars(Generate) /\ WF_sweepVars(Headless) /\ WF_sweepVars(OpenLog)
  /\ WF_sweepVars(Timeout) /\ WF_sweepVars(TestOK)
  /\ LabFairness

-----------------------------------------------------------------------------
\* parse_results.py: one row for every log with a total.
Rows == {j \in Jobs : logs[j] # NoFile /\ logs[j].total}

\* A simulation only ever runs on a volume that is whole: nobody wipes, refills
\* or leaves half filled the tree that it is built from.
SimulatesOnReady == step \in {"exec", "simulating"} => cooja /\ Ready

\* "Listo. Ejecute: python3 parse_results.py": the table then has a row for
\* every size and seed asked for, made with this sweep's parameters, whatever
\* earlier sweeps left behind and whatever happened to the laboratory.
ListoMeansComplete ==
  step = "listo" =>
    \A j \in asked.sizes \X asked.seeds : j \in Rows /\ logs[j].of = setting

\* A sweep ends, with all its rows or with a failure: it waits neither for a
\* laboratory that does not come up nor for a simulation that does not end.
SweepEnds == step \notin Ended ~> step \in Ended
=============================================================================
