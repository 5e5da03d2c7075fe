----------------------------- MODULE ContikiInit -----------------------------
(***************************************************************************)
(* The start of the laboratory: docker-compose.yml, services contiki-init  *)
(* and cooja.                                                              *)
(*                                                                         *)
(* contiki-init is a shell script (set -e) that fills a volume with the    *)
(* Contiki-NG tree the first time; cooja starts when it has exited with 0. *)
(* The volume outlives the containers, so each run of the script starts    *)
(* from whatever the last one left: a finished tree, nothing, or, when it  *)
(* was killed, part of one.  Docker kills without a clean-up: the script   *)
(* is the container's first process and handles no signal.                 *)
(***************************************************************************)
EXTENDS Naturals

CONSTANTS
  Submodules,  \* how many submodules the script asks for
  MaxKills     \* bound: runs of the script that are killed

ASSUME ParametersAssumption ==
  /\ Submodules \in Nat \ {0}
  /\ MaxKills \in Nat

VARIABLES
  pc,        \* the script's next command, or how it ended
  done,      \* .wsn-init-done exists
  git,       \* the repository: "absent", "partial" or "whole"
  subs,      \* how many submodules are there
  owner,     \* who owns the files: "root", or the local "user"
  cooja,     \* the service cooja runs
  network,   \* github.com can be reached
  kills      \* history: kills so far

volume == <<done, git, subs, owner>>
vars == <<pc, volume, cooja, network, kills>>

Running == {"testDone", "testGit", "clone", "submodules", "chown", "touch"}

TypeOK ==
  /\ pc \in Running \cup {"off", "ok", "failed"}
  /\ done \in BOOLEAN
  /\ git \in {"absent", "partial", "whole"}
  /\ subs \in 0 .. Submodules
  /\ owner \in {"root", "user"}
  /\ cooja \in BOOLEAN
  /\ network \in BOOLEAN
  /\ kills \in 0 .. MaxKills

\* A new volume, and a computer on- or off-line.
Init ==
  /\ pc = "off"
  /\ done = FALSE
  /\ git = "absent"
  /\ subs = 0
  /\ owner = "root"
  /\ cooja = FALSE
  /\ network \in BOOLEAN
  /\ kills = 0

-----------------------------------------------------------------------------
(* The script.                                                             *)

\* if [ -f .wsn-init-done ]; then exit 0
TestDone ==
  /\ pc = "testDone"
  /\ pc' = IF done THEN "ok" ELSE "testGit"
  /\ UNCHANGED <<volume, cooja, network, kills>>

\* A plausible slip: the test is turned around.
TestGitNegated ==
  /\ pc = "testGit"
  /\ pc' = IF git # "absent" THEN "clone" ELSE "submodules"
  /\ UNCHANGED <<volume, cooja, network, kills>>

\* if [ ! -d .git ]: a directory is enough, what is in it is not looked at.
TestGit ==
  /\ pc = "testGit"
  /\ pc' = IF git = "absent" THEN "clone" ELSE "submodules"
  /\ UNCHANGED <<volume, cooja, network, kills>>

\* git clone makes .git first.  It completes, or it fails, removes what it
\* made and ends the script.
CloneBegins ==
  /\ pc = "clone"
  /\ git = "absent"
  /\ network
  /\ git' = "partial"
  /\ owner' = "root"
  /\ UNCHANGED <<pc, done, subs, cooja, network, kills>>

CloneCompletes ==
  /\ pc = "clone"
  /\ git = "partial"
  /\ network
  /\ git' = "whole"
  /\ pc' = "submodules"
  /\ UNCHANGED <<done, subs, owner, cooja, network, kills>>

CloneFails ==
  /\ pc = "clone"
  /\ ~network
  /\ git' = "absent"
  /\ pc' = "failed"
  /\ UNCHANGED <<done, subs, owner, cooja, network, kills>>

\* git submodule update takes the submodules one by one; those of an earlier
\* run are kept, and one that was interrupted is taken up again.
SubmoduleCloned ==
  /\ pc = "submodules"
  /\ git = "whole"
  /\ subs < Submodules
  /\ network
  /\ subs' = subs + 1
  /\ owner' = "root"
  /\ UNCHANGED <<pc, done, git, cooja, network, kills>>

SubmodulesComplete ==
  /\ pc = "submodules"
  /\ git = "whole"
  /\ subs = Submodules
  /\ pc' = "chown"
  /\ UNCHANGED <<volume, cooja, network, kills>>

\* A plausible slip: without set -e the script goes on after the failure.
SubmodulesFailUnnoticed ==
  /\ pc = "submodules"
  /\ git # "whole" \/ (~network /\ subs < Submodules)
  /\ pc' = "chown"
  /\ UNCHANGED <<volume, cooja, network, kills>>

\* It fails off-line, and always on a partial repository: without commit and
\* index there are no submodules in it.
SubmodulesFail ==
  /\ pc = "submodules"
  /\ git # "whole" \/ (~network /\ subs < Submodules)
  /\ pc' = "failed"
  /\ UNCHANGED <<volume, cooja, network, kills>>

\* A plausible slip: chown is left out.
ChownSkipped ==
  /\ pc = "chown"
  /\ pc' = "touch"
  /\ UNCHANGED <<volume, cooja, network, kills>>

Chown ==
  /\ pc = "chown"
  /\ owner' = "user"
  /\ pc' = "touch"
  /\ UNCHANGED <<done, git, subs, cooja, network, kills>>

Touch ==
  /\ pc = "touch"
  /\ done' = TRUE
  /\ pc' = "ok"
  /\ UNCHANGED <<git, subs, owner, cooja, network, kills>>

Script ==
  \/ TestDone \/ TestGit \/ CloneBegins \/ CloneCompletes \/ CloneFails
  \/ SubmoduleCloned \/ SubmodulesComplete \/ SubmodulesFail \/ Chown \/ Touch

-----------------------------------------------------------------------------
(* Docker Compose, the user and the network.                               *)

\* docker compose up -d runs the script again, whatever became of the last run.
Up ==
  /\ pc \in {"off", "failed"} \/ (pc = "ok" /\ cooja)
  /\ pc' = "testDone"
  /\ UNCHANGED <<volume, cooja, network, kills>>

\* depends_on: condition: service_completed_successfully
StartCooja ==
  /\ pc = "ok"
  /\ ~cooja
  /\ cooja' = TRUE
  /\ UNCHANGED <<pc, volume, network, kills>>

\* docker compose down between runs.
Down ==
  /\ pc \in {"ok", "failed"}
  /\ pc' = "off"
  /\ cooja' = FALSE
  /\ UNCHANGED <<volume, network, kills>>

\* docker compose down, or the end of the host, while the script runs.
Kill ==
  /\ pc \in Running
  /\ kills < MaxKills
  /\ kills' = kills + 1
  /\ pc' = "off"
  /\ cooja' = FALSE
  /\ UNCHANGED <<volume, network>>

\* docker compose down -v
WipeVolume ==
  /\ pc \in {"off", "ok", "failed"}
  /\ pc' = "off"
  /\ done' = FALSE
  /\ git' = "absent"
  /\ subs' = 0
  /\ owner' = "root"
  /\ cooja' = FALSE
  /\ UNCHANGED <<network, kills>>

NetworkChanges ==
  /\ network' = ~network
  /\ UNCHANGED <<pc, volume, cooja, kills>>

Next ==
  Script \/ Up \/ StartCooja \/ Down \/ Kill \/ WipeVolume \/ NetworkChanges

Spec == Init /\ [][Next]_vars

\* A started script runs on, Cooja starts after it, and the user starts the
\* laboratory again when it is down or the script has failed.
LabFairness == WF_vars(Script) /\ WF_vars(Up) /\ WF_vars(StartCooja)

FairSpec == Spec /\ LabFairness

-----------------------------------------------------------------------------

Ready == git = "whole" /\ subs = Submodules /\ owner = "user"

\* The mark is never made on a volume that is not ready, whichever runs were
\* killed or failed before, and in whatever state they left the volume.
DoneMeansReady == done => Ready

\* In the end the network stays, and nothing stops the laboratory any more.
Undisturbed == <>[]network /\ <>[][~(Down \/ Kill \/ WipeVolume)]_vars

\* No run of the script was killed during git clone: what is left of it would
\* be taken for a clone by every later run, and end it (see TestGit).
CloneNeverCut == [](pc = "off" => git # "partial")

\* "corrige la conexion y vuelve a ejecutar docker compose up -d": once the
\* laboratory is left alone and started again, Cooja comes up, from whatever
\* state the earlier runs left, unless one of them was killed during git clone.
RetryRecovers == CloneNeverCut /\ Undisturbed => <>[]cooja
=============================================================================
