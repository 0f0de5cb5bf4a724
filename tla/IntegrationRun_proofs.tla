------------------------ MODULE IntegrationRun_proofs ------------------------
(***************************************************************************)
(* Proofs about IntegrationRun, for any number of polls and any subset of  *)
(* the environments.                                                       *)
(***************************************************************************)
EXTENDS IntegrationRun, TLAPS

\* What the script has done by each of its steps.
Script ==
  /\ pc = "dispatch" => server = "none" /\ location = "unset"
  /\ pc \in {"stage", "suite", "judge"} => location # "unset"
  /\ pc \notin {"kill", "remove", "exited"} => status = "none"

\* What the log and the socket say of the worker of this run: its announcement
\* is in the log for good, and comes with a port only when that is bound.
Signals ==
  /\ log = "own" => server \in {"announced", "dead"}
  /\ log = "own" /\ transport = "http" => bound
  /\ Launched /\ socket => bound
  /\ Launched => transport \in {"http", "unix"}
  /\ stage = "fresh" => log # "stale"

\* A suite with a test that lacks an extension reports a skip.
Judged ==
  pc = "judge" =>
    /\ results # {}
    /\ (\E loads \in staged : ~(Needed \subseteq loads)) => "skipped" \in results

Tested ==
  status = "green" =>
    /\ results = {"passed"}
    /\ \A loads \in staged : Needed \subseteq loads
    /\ location # "unset"

\* The trap waits for the worker before it removes the socket.
CleanedUp ==
  /\ pc \in {"remove", "exited"} /\ Launched => server = "dead"
  /\ pc = "exited" /\ Launched => ~socket

IInv == TypeOK /\ Script /\ Signals /\ SuiteWaitsForWorker /\ Judged /\ Tested /\ CleanedUp

-----------------------------------------------------------------------------
LEMMA InitIInv == Init => IInv
<1> SUFFICES ASSUME Init PROVE IInv
  OBVIOUS
<1> USE PollsAssumption, EnvironmentAssumption DEF Init
<1>1. socket \in BOOLEAN
  <2>1. (transport = "unix") \in BOOLEAN
    OBVIOUS
  <2> QED
    BY <2>1
<1>2. TypeOK
  <2>1. /\ suite \subseteq Forms /\ staged \subseteq SUBSET {"vgi", "httpfs"}
        /\ results \subseteq {"passed", "failed", "skipped"}
    OBVIOUS
  <2>2. polls \in 0..MaxPolls /\ log \in {"none", "stale", "empty", "own"}
    OBVIOUS
  <2>3. bound \in BOOLEAN
    OBVIOUS
  <2>4. /\ transport \in Transports /\ preset \in Presets /\ stage \in Stages
        /\ pc = "dispatch" /\ server = "none" /\ location = "unset" /\ status = "none"
    OBVIOUS
  <2> QED
    BY <1>1, <2>1, <2>2, <2>3, <2>4 DEF TypeOK
<1>3. Script /\ Signals /\ SuiteWaitsForWorker /\ Judged /\ Tested /\ CleanedUp
  BY DEF Script, Signals, SuiteWaitsForWorker, Judged, Tested, CleanedUp, Launched
<1> QED
  BY <1>2, <1>3 DEF IInv

LEMMA IdleIInv == ASSUME IInv, UNCHANGED vars PROVE IInv'
  BY DEF vars, env, IInv, TypeOK, Script, Signals, SuiteWaitsForWorker, Judged, Tested, CleanedUp,
         Launched, ReadyOnce, Needed

\* Every step keeps the environment, and with it what a test needs.
LEMMA EnvironmentKept == ASSUME Next PROVE UNCHANGED env /\ Needed' = Needed
  BY DEF Next, ScriptStep, WorkerStep, UseGiven, RefuseLaunch, Launch, Alive, ProbeMissingLog,
         Probe, StageTests, StageFails, RunSuite, Judge, Kill, Remove, OpenLog, Bind, Announce,
         Die, Exited, vars, env, Needed

LEMMA TypeStep == ASSUME TypeOK, Next PROVE TypeOK'
<1> USE PollsAssumption DEF TypeOK, env, Exits
<1>1. CASE UseGiven
  BY <1>1 DEF UseGiven
<1>2. CASE RefuseLaunch
  BY <1>2 DEF RefuseLaunch
<1>3. CASE Launch
  BY <1>3 DEF Launch
<1>4. CASE Alive
  BY <1>4 DEF Alive
<1>5. CASE ProbeMissingLog
  BY <1>5 DEF ProbeMissingLog
<1>6. CASE Probe
  BY <1>6 DEF Probe, Announced
<1>7. CASE StageTests
  <2>1. staged' \subseteq SUBSET {"vgi", "httpfs"}
    BY <1>7 DEF StageTests, Loads
  <2> QED
    BY <1>7, <2>1 DEF StageTests
<1>8. CASE StageFails
  BY <1>8 DEF StageFails
<1>9. CASE RunSuite
  <2>1. results' \subseteq {"passed", "failed", "skipped"}
    BY <1>9 DEF RunSuite, Reports
  <2> QED
    BY <1>9, <2>1 DEF RunSuite
<1>10. CASE Judge
  BY <1>10 DEF Judge
<1>11. CASE Kill
  BY <1>11 DEF Kill
<1>12. CASE Remove
  BY <1>12 DEF Remove
<1>13. CASE OpenLog \/ Announce \/ Die
  <2>1. /\ UNCHANGED <<env, pc, polls, bound, socket, location, staged, results, status>>
        /\ server' \in {"booting", "announced", "dead"}
        /\ log' \in {log, "empty", "own"}
    BY <1>13 DEF OpenLog, Announce, Die
  <2> QED
    BY <2>1
<1>14. CASE Bind
  <2>1. socket' \in BOOLEAN
    <3>1. socket' = (transport = "unix")
      BY <1>14 DEF Bind
    <3> QED
      BY <3>1, Zenon
  <2> QED
    BY <1>14, <2>1 DEF Bind
<1>15. CASE Exited
  BY <1>15 DEF Exited, vars
<1> QED
  BY <1>1, <1>2, <1>3, <1>4, <1>5, <1>6, <1>7, <1>8, <1>9, <1>10, <1>11, <1>12, <1>13, <1>14, <1>15
     DEF Next, ScriptStep, WorkerStep

\* The script and the worker keep what the log, the socket and the location mean.
LEMMA ReadinessStep ==
  ASSUME IInv, Next
  PROVE  (Script /\ Signals /\ SuiteWaitsForWorker)'
<1> USE DEF IInv, TypeOK, Script, Signals, SuiteWaitsForWorker, Launched, ReadyOnce, Exits, env
<1>1. CASE UseGiven \/ RefuseLaunch \/ Launch
  BY <1>1, EnvironmentAssumption DEF UseGiven, RefuseLaunch, Launch, Launches
<1>2. CASE Alive \/ ProbeMissingLog
  BY <1>2 DEF Alive, ProbeMissingLog
<1>3. CASE Probe
  BY <1>3, EnvironmentAssumption DEF Probe, Announced
<1>4. CASE StageTests \/ StageFails \/ RunSuite \/ Judge
  BY <1>4 DEF StageTests, StageFails, RunSuite, Judge
<1>5. CASE Kill \/ Remove
  BY <1>5 DEF Kill, Remove
<1>6. CASE OpenLog
  BY <1>6 DEF OpenLog
<1>7. CASE Bind
  BY <1>7 DEF Bind
<1>8. CASE Announce
  BY <1>8 DEF Announce
<1>9. CASE Die
  BY <1>9 DEF Die, Running
<1>10. CASE Exited
  BY <1>10 DEF Exited, vars
<1> QED
  BY <1>1, <1>2, <1>3, <1>4, <1>5, <1>6, <1>7, <1>8, <1>9, <1>10
     DEF Next, ScriptStep, WorkerStep

\* The verdict follows from the report of the suite that was staged.
LEMMA VerdictStep == ASSUME IInv, Next PROVE (Judged /\ Tested)'
<1>1. Needed' = Needed
  BY EnvironmentKept
<1> USE <1>1 DEF IInv, TypeOK, Script, Judged, Tested, Exits, env
<1>2. CASE UseGiven \/ RefuseLaunch \/ Launch \/ Alive \/ ProbeMissingLog \/ Probe
  BY <1>2 DEF UseGiven, RefuseLaunch, Launch, Alive, ProbeMissingLog, Probe
<1>3. CASE StageTests \/ StageFails
  BY <1>3 DEF StageTests, StageFails
<1>4. CASE RunSuite
  <2>1. /\ results' # {}
        /\ (\E loads \in staged : ~(Needed \subseteq loads)) => "skipped" \in results'
    <3>1. results' \in Reports
      BY <1>4 DEF RunSuite
    <3>2. \A r \in Reports :
            r # {} /\ ((\E loads \in staged : ~(Needed \subseteq loads)) => "skipped" \in r)
      <4> SUFFICES ASSUME NEW r \in Reports
                   PROVE  r # {} /\ ((\E loads \in staged : ~(Needed \subseteq loads)) => "skipped" \in r)
        OBVIOUS
      <4>1. r # {}
        BY DEF Reports
      <4>2. (\E loads \in staged : ~(Needed \subseteq loads)) => "skipped" \in r
        BY DEF Reports
      <4> QED
        BY <4>1, <4>2
    <3> QED
      BY <3>1, <3>2, Zenon
  <2>2. staged' = staged /\ status' = status /\ pc = "suite"
    BY <1>4 DEF RunSuite
  <2> QED
    BY <2>1, <2>2
<1>5. CASE Judge
  <2>1. /\ pc = "judge" /\ pc' = "kill"
        /\ results' = results /\ staged' = staged /\ location' = location
        /\ status' = "green" => "skipped" \notin results /\ "failed" \notin results
    BY <1>5 DEF Judge
  <2>2. status' = "green" => results = {"passed"}
    <3>1. results \subseteq {"passed", "failed", "skipped"} /\ results # {}
      BY <2>1
    <3> SUFFICES ASSUME status' = "green" PROVE results = {"passed"}
      OBVIOUS
    <3>2. \A r \in results : r = "passed"
      BY <2>1, <3>1
    <3>3. PICK r \in results : TRUE
      BY <3>1
    <3>4. \A x : x \in results <=> x \in {"passed"}
      BY <3>2, <3>3
    <3> QED
      BY <3>4, Zenon
  <2>3. status' = "green" => \A loads \in staged : Needed \subseteq loads
    BY <2>1
  <2> QED
    BY <2>1, <2>2, <2>3
<1>6. CASE Kill \/ Remove
  BY <1>6 DEF Kill, Remove
<1>7. CASE WorkerStep
  BY <1>7 DEF WorkerStep, OpenLog, Bind, Announce, Die
<1>8. CASE Exited
  BY <1>8 DEF Exited, vars
<1> QED
  BY <1>2, <1>3, <1>4, <1>5, <1>6, <1>7, <1>8 DEF Next, ScriptStep

LEMMA CleanupStep == ASSUME IInv, Next PROVE CleanedUp'
<1> USE DEF IInv, TypeOK, CleanedUp, Launched, Exits
<1>1. CASE ScriptStep
  BY <1>1 DEF ScriptStep, UseGiven, RefuseLaunch, Launch, Alive, ProbeMissingLog, Probe,
              StageTests, StageFails, RunSuite, Judge, Kill, Remove
<1>2. CASE WorkerStep
  BY <1>2 DEF WorkerStep, OpenLog, Bind, Announce, Die, Running
<1>3. CASE Exited
  BY <1>3 DEF Exited, vars
<1> QED
  BY <1>1, <1>2, <1>3 DEF Next

\* The inductive invariant of a run: what each step of the script may rely on,
\* and what the log and the socket mean while the worker comes up or dies.
THEOREM IInvHolds == Spec => []IInv
<1>1. IInv /\ [Next]_vars => IInv'
  BY IdleIInv, TypeStep, ReadinessStep, VerdictStep, CleanupStep DEF IInv
<1> QED
  BY InitIInv, <1>1, PTL DEF Spec

\* The readiness loop polls at most MaxPolls times, for any MaxPolls
\* (run-integration.sh:78-86).
THEOREM TypeCorrect == Spec => []TypeOK
<1>1. IInv => TypeOK
  BY DEF IInv
<1> QED
  BY <1>1, IInvHolds, PTL

\* With a log of its own, the suite waits for a worker that listens
\* (run-integration.sh:78-104).
THEOREM SuiteWaits == Spec => []SuiteWaitsForWorker
<1>1. IInv => SuiteWaitsForWorker
  BY DEF IInv
<1> QED
  BY <1>1, IInvHolds, PTL

\* A green run tested everything against a worker (run-integration.sh:137-193).
THEOREM GreenIsTested == Spec => []GreenMeansTested
<1>1. IInv => GreenMeansTested
  BY DEF IInv, Tested, GreenMeansTested, SuiteWaitsForWorker
<1> QED
  BY <1>1, IInvHolds, PTL

\* However the run and the worker end, neither the worker nor its socket stays
\* (run-integration.sh:55-62).
THEOREM NothingStays == Spec => []NothingLeftBehind
<1>1. IInv => NothingLeftBehind
  BY DEF IInv, CleanedUp, NothingLeftBehind, Running
<1> QED
  BY <1>1, IInvHolds, PTL

-----------------------------------------------------------------------------
(* Two steps for every poll the script may still make, and the steps after.*)

StepsLeft ==
  CASE pc = "dispatch" -> 2 * (MaxPolls - polls) + 8
    [] pc = "alive"    -> 2 * (MaxPolls - polls) + 7
    [] pc = "probe"    -> 2 * (MaxPolls - polls) + 8
    [] pc = "stage"    -> 5
    [] pc = "suite"    -> 4
    [] pc = "judge"    -> 3
    [] pc = "kill"     -> 2
    [] pc = "remove"   -> 1
    [] OTHER           -> 0

\* The safety half of termination, for any number of polls: every step of the
\* script uses up one of a known number, and nothing the worker does gives one
\* back, however late it is and whenever it dies (run-integration.sh:78-104).
THEOREM ScriptAdvances ==
  Spec => [][/\ StepsLeft \in Nat /\ StepsLeft' \in Nat
             /\ IF ScriptStep THEN StepsLeft' < StepsLeft
                              ELSE StepsLeft' = StepsLeft]_vars
<1> DEFINE A == /\ StepsLeft \in Nat /\ StepsLeft' \in Nat
                /\ IF ScriptStep THEN StepsLeft' < StepsLeft ELSE StepsLeft' = StepsLeft
<1>1. ASSUME IInv, Next PROVE A
  <2>1. polls \in Nat /\ MaxPolls \in Nat /\ polls <= MaxPolls
    BY <1>1, PollsAssumption DEF IInv, TypeOK
  <2>2. pc \in {"dispatch", "alive", "probe", "stage", "suite", "judge", "kill", "remove", "exited"}
    BY <1>1 DEF IInv, TypeOK
  <2>3. StepsLeft \in Nat
    BY <2>1, <2>2 DEF StepsLeft
  <2>4. ASSUME ScriptStep PROVE StepsLeft' \in Nat /\ StepsLeft' < StepsLeft
    <3> USE <2>1 DEF StepsLeft, Exits
    <3>1. CASE UseGiven \/ RefuseLaunch \/ Launch
      BY <3>1 DEF UseGiven, RefuseLaunch, Launch
    <3>2. CASE Alive
      BY <3>2 DEF Alive
    <3>3. CASE ProbeMissingLog \/ Probe
      BY <3>3 DEF ProbeMissingLog, Probe
    <3>4. CASE StageTests \/ StageFails \/ RunSuite \/ Judge \/ Kill \/ Remove
      BY <3>4 DEF StageTests, StageFails, RunSuite, Judge, Kill, Remove
    <3> QED
      BY <2>4, <3>1, <3>2, <3>3, <3>4 DEF ScriptStep
  <2>5. ~ScriptStep => pc' = pc /\ polls' = polls
    BY <1>1 DEF Next, WorkerStep, OpenLog, Bind, Announce, Die, Exited, vars
  <2>6. ~ScriptStep => StepsLeft' = StepsLeft
    BY <2>5 DEF StepsLeft
  <2> QED
    BY <2>3, <2>4, <2>6
<1>2. IInv /\ [Next]_vars => [A]_vars
  BY <1>1
<1> QED
  BY IInvHolds, <1>2, PTL DEF Spec
=============================================================================
