--------------------------- MODULE IntegrationRun ----------------------------
(***************************************************************************)
(* One run of ci/run-integration.sh: the script brings a worker up for the *)
(* chosen transport, waits for it to announce itself in its log, runs the  *)
(* test suite against it and judges the report; an EXIT trap cleans up.    *)
(*                                                                         *)
(* The script and the worker it launched are two processes.  The worker    *)
(* (external) truncates its log when its redirection is opened, which bash *)
(* does in the forked child, binds, announces, and may die at any moment.  *)
(* The test runner (external) passes, fails or skips each test; it skips   *)
(* when a connection error's text matches its ignore list, and when it     *)
(* lacks an extension a test requires.  What a test loads is decided by the*)
(* rewriting of its directives in ci/preprocess-require.awk.               *)
(***************************************************************************)
EXTENDS Integers, FiniteSets

CONSTANTS
  Transports,   \* subset of {"subprocess", "http", "unix"}
  Presets,      \* VGI_PERF_WORKER on entry: subset of {"none", "command", "url"}
  Stages,       \* subset of {"fresh", "reused"}: may STAGE hold an earlier log?
  MaxPolls      \* the 60 of `seq 1 60'

ASSUME PollsAssumption == MaxPolls \in Nat \ {0}
ASSUME EnvironmentAssumption ==
  /\ Transports \subseteq {"subprocess", "http", "unix"}
  /\ Presets \subseteq {"none", "command", "url"}
  /\ Stages \subseteq {"fresh", "reused"}

VARIABLES
  transport, preset, stage,   \* the environment of the run
  pc,          \* next step of the script
  polls,       \* iterations of the readiness loop begun
  server,      \* "none", "forked", "booting", "announced", "dead"
  bound,       \* does it listen?
  log,         \* the worker's log: "none", "stale", "empty", "own"
  socket,      \* does the socket file exist?
  location,    \* VGI_PERF_WORKER as the suite gets it
  suite,       \* how the tests to run load vgi
  staged,      \* the extensions each of them loads once rewritten
  results,     \* what the tests of the suite did
  status       \* exit status: "none", "green", "red"

env == <<transport, preset, stage, suite>>
vars == <<env, pc, polls, server, bound, log, socket, location, staged, results, status>>

\* A test loads vgi by `require vgi', by `LOAD vgi;' on a line of its own, or in
\* a way the rewriting does not recognise.
Forms == {"require", "load", "unhooked"}

Init ==
  /\ transport \in Transports
  /\ preset \in Presets
  /\ stage \in Stages
  /\ pc = "dispatch"
  /\ polls = 0
  /\ server = "none"
  /\ bound = FALSE
  /\ log = IF stage = "reused" THEN "stale" ELSE "none"
  /\ socket \in {FALSE, transport = "unix"}
  /\ location = "unset"
  /\ suite \in (SUBSET Forms) \ {{}}
  /\ staged = {}
  /\ results = {}
  /\ status = "none"

Running == server \in {"forked", "booting", "announced"}

-----------------------------------------------------------------------------
(* The script.                                                             *)

\* The script exits; the trap is still to run.
Exits(outcome) == pc' = "kill" /\ status' = outcome

\* unix, and http without a pre-launched worker, launch one.
Launches == transport = "unix" \/ (transport = "http" /\ preset # "url")

\* subprocess, or http with a pre-launched worker: the location is known.
UseGiven ==
  /\ pc = "dispatch"
  /\ ~Launches
  /\ location' = IF preset = "none" THEN "binary" ELSE "given"
  /\ pc' = "stage"
  /\ UNCHANGED <<env, polls, server, bound, log, socket, staged, results, status>>

\* The worker binary is missing or not executable.
RefuseLaunch ==
  /\ pc = "dispatch"
  /\ Launches
  /\ Exits("red")
  /\ UNCHANGED <<env, polls, server, bound, log, socket, location, staged, results>>

\* start_server_and_set_location: fork the worker.  A socket file left at the
\* path is removed first.
Launch ==
  /\ pc = "dispatch"
  /\ Launches
  /\ server' = "forked"
  /\ socket' = FALSE
  /\ pc' = "alive"
  /\ UNCHANGED <<env, polls, bound, log, location, staged, results, status>>

\* Mutant: one iteration too many.
AliveOnceMore ==
  /\ pc = "alive"
  /\ IF polls <= MaxPolls /\ Running
       THEN pc' = "probe" /\ polls' = polls + 1 /\ UNCHANGED status
       ELSE Exits("red") /\ UNCHANGED polls
  /\ UNCHANGED <<env, server, bound, log, socket, location, staged, results>>

\* Mutant: the readiness loop has no bound.
AliveUnbounded ==
  /\ pc = "alive"
  /\ IF Running THEN pc' = "probe" /\ UNCHANGED status ELSE Exits("red")
  /\ UNCHANGED <<env, polls, server, bound, log, socket, location, staged, results>>

\* The top of the loop: give up after MaxPolls, or when the worker is gone.
Alive ==
  /\ pc = "alive"
  /\ IF polls < MaxPolls /\ Running
       THEN pc' = "probe" /\ polls' = polls + 1 /\ UNCHANGED status
       ELSE Exits("red") /\ UNCHANGED polls
  /\ UNCHANGED <<env, server, bound, log, socket, location, staged, results>>

\* Mutant: for a unix socket the file's existence is enough.
AnnouncedBySocket == IF transport = "unix" THEN socket ELSE log \in {"own", "stale"}

\* The log has an announcement and, for unix, the socket exists.
Announced == log \in {"own", "stale"} /\ (transport = "unix" => socket)

\* sed cannot open a log that does not exist yet, and under `set -e -o pipefail'
\* the assignment to port then ends the script.  The unix probe is a condition
\* of an `if', where a failing grep only means no.
ProbeMissingLog ==
  /\ pc = "probe"
  /\ transport = "http" /\ log = "none"
  /\ Exits("red")
  /\ UNCHANGED <<env, polls, server, bound, log, socket, location, staged, results>>

\* Read the log once.  The http location is the port found there; the unix one
\* is the path the script chose.
Probe ==
  /\ pc = "probe"
  /\ transport = "http" => log # "none"
  /\ IF Announced
       THEN /\ pc' = "stage"
            /\ location' = IF transport = "http" THEN log ELSE "own"
       ELSE /\ pc' = "alive"
            /\ UNCHANGED location
  /\ UNCHANGED <<env, polls, server, bound, log, socket, staged, results, status>>

\* What a test of this form loads once rewritten: over http, httpfs is loaded
\* after the vgi of either recognised form.  An unrecognised one is left alone.
Loads(form) ==
  {"vgi"} \cup IF transport = "http" /\ form # "unhooked" THEN {"httpfs"} ELSE {}

\* The tests are rewritten into STAGE.  The cache warm-up that follows only warns.
StageTests ==
  /\ pc = "stage"
  /\ staged' = {Loads(form) : form \in suite}
  /\ pc' = "suite"
  /\ UNCHANGED <<env, polls, server, bound, log, socket, location, results, status>>

\* STAGE cannot be written.
StageFails ==
  /\ pc = "stage"
  /\ Exits("red")
  /\ UNCHANGED <<env, polls, server, bound, log, socket, location, staged, results>>

\* What a test needs to run at all rather than be skipped.
Needed == {"vgi"} \cup IF transport = "http" THEN {"httpfs"} ELSE {}

\* What a suite run against the location can report.  A worker that is there
\* throughout is tested; one that is not, or dies on the way, makes tests fail
\* or be skipped; a test without its extensions is skipped.
Reports ==
  {r \in (SUBSET {"passed", "failed", "skipped"}) \ {{}} :
     /\ location = "own" /\ ~(server = "announced" /\ bound) => r # {"passed"}
     /\ (\E loads \in staged : ~(Needed \subseteq loads)) => "skipped" \in r
     /\ (\A loads \in staged : ~(Needed \subseteq loads)) => r = {"skipped"}}

RunSuite ==
  /\ pc = "suite"
  /\ results' \in Reports
  /\ pc' = "judge"
  /\ UNCHANGED <<env, polls, server, bound, log, socket, location, staged, status>>

\* Mutant: only a suite skipped as a whole is refused.
JudgeAllSkipped ==
  /\ pc = "judge"
  /\ Exits(IF results = {"skipped"} \/ "failed" \in results THEN "red" ELSE "green")
  /\ UNCHANGED <<env, polls, server, bound, log, socket, location, staged, results>>

\* Any skip in the report is an error, whatever the runner's exit status;
\* otherwise the runner's status, 0 when nothing failed, is the script's.
Judge ==
  /\ pc = "judge"
  /\ Exits(IF "skipped" \in results \/ "failed" \in results THEN "red" ELSE "green")
  /\ UNCHANGED <<env, polls, server, bound, log, socket, location, staged, results>>

\* Mutant: the worker is signalled but not waited for.
KillNoWait ==
  /\ pc = "kill"
  /\ pc' = "remove"
  /\ UNCHANGED <<env, polls, server, bound, log, socket, location, staged, results, status>>

\* cleanup: kill and wait for the worker, if one was launched ...
Kill ==
  /\ pc = "kill"
  /\ server' = IF server = "none" THEN "none" ELSE "dead"
  /\ pc' = "remove"
  /\ UNCHANGED <<env, polls, bound, log, socket, location, staged, results, status>>

\* ... then remove the socket file, if the script chose a path for one.
Remove ==
  /\ pc = "remove"
  /\ socket' = (socket /\ server = "none")
  /\ pc' = "exited"
  /\ UNCHANGED <<env, polls, server, bound, log, location, staged, results, status>>

-----------------------------------------------------------------------------
(* The worker (external).                                                  *)

OpenLog ==
  /\ server = "forked"
  /\ server' = "booting"
  /\ log' = "empty"
  /\ UNCHANGED <<env, pc, polls, bound, socket, location, staged, results, status>>

Bind ==
  /\ server \in {"booting", "announced"}
  /\ ~bound
  /\ bound' = TRUE
  /\ socket' = (transport = "unix")
  /\ UNCHANGED <<env, pc, polls, server, log, location, staged, results, status>>

\* A port is known only once it is bound; a socket path beforehand.
Announce ==
  /\ server = "booting"
  /\ transport = "http" => bound
  /\ server' = "announced"
  /\ log' = "own"
  /\ UNCHANGED <<env, pc, polls, bound, socket, location, staged, results, status>>

Die ==
  /\ Running
  /\ server' = "dead"
  /\ UNCHANGED <<env, pc, polls, bound, log, socket, location, staged, results, status>>

Exited == pc = "exited" /\ ~Running /\ UNCHANGED vars

-----------------------------------------------------------------------------
ScriptStep ==
  \/ UseGiven
  \/ RefuseLaunch
  \/ Launch
  \/ Alive
  \/ ProbeMissingLog
  \/ Probe
  \/ StageTests
  \/ StageFails
  \/ RunSuite
  \/ Judge
  \/ Kill
  \/ Remove

WorkerStep == OpenLog \/ Bind \/ Announce \/ Die

Next == ScriptStep \/ WorkerStep \/ Exited

Spec == Init /\ [][Next]_vars

\* The script runs on and the test runner it waits for ends.  Nothing is
\* assumed of the worker: it may hang before it ever announces itself.
FairSpec == Spec /\ WF_vars(ScriptStep)

-----------------------------------------------------------------------------
(* Properties.                                                             *)

\* The readiness loop polls at most MaxPolls times, and what the script knows
\* of its worker has the types below.
TypeOK ==
  /\ transport \in Transports /\ preset \in Presets /\ stage \in Stages
  /\ pc \in {"dispatch", "alive", "probe", "stage", "suite", "judge", "kill", "remove", "exited"}
  /\ polls \in 0..MaxPolls
  /\ server \in {"none", "forked", "booting", "announced", "dead"}
  /\ log \in {"none", "stale", "empty", "own"}
  /\ bound \in BOOLEAN /\ socket \in BOOLEAN
  /\ location \in {"unset", "binary", "given", "own", "stale"}
  /\ suite \subseteq Forms
  /\ staged \subseteq SUBSET {"vgi", "httpfs"}
  /\ results \subseteq {"passed", "failed", "skipped"}
  /\ status \in {"none", "green", "red"}

Launched == server # "none"

\* The worker this run launched has announced itself and is listening.
ReadyOnce == log = "own" /\ bound

\* With a log of its own, a run that launched a worker points the suite at it
\* only after that worker announced itself and bound, although it is forked,
\* opens its log, binds and announces while the script polls (65-66, 78-85,
\* 96-104).
SuiteWaitsForWorker ==
  Launched /\ stage = "fresh" /\ location # "unset" => ReadyOnce

\* A green run is one whose every test ran and passed against a worker: never
\* a suite with skips, never a worker that had gone, and over http never a test
\* that the rewriting left without httpfs (137-144, 163-193).
GreenMeansTested ==
  status = "green" =>
    /\ results = {"passed"}
    /\ \A loads \in staged : Needed \subseteq loads
    /\ location # "unset"
    /\ Launched /\ stage = "fresh" => ReadyOnce

\* However a run ends, it leaves neither its worker nor the socket file, and
\* no late start of the worker brings them back (55-62).
NothingLeftBehind ==
  pc = "exited" /\ Launched => ~Running /\ ~socket

\* Every run ends, whatever the worker does.
Terminates == <>(pc = "exited")

-----------------------------------------------------------------------------
(* What a comment says and the code does not do.                           *)

\* run-integration.sh:64-66: the announcement is polled for "before running the
\* suite (readiness gate)".  In a reused STAGE the poll may read the log of an
\* earlier run before the new worker's redirection truncates it.
ReadinessGate == Launched /\ location # "unset" => ReadyOnce

\* run-integration.sh:65-66, 78-86: the log is polled up to 60 times; giving up
\* earlier is for a worker that "exited during startup".  A first poll that
\* comes before the worker's redirection has created the log also gives up.
GivesUpForCause ==
  pc = "kill" /\ Launched /\ location = "unset" =>
    server = "dead" \/ polls = MaxPolls
=============================================================================
