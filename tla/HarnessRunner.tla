---------------------------- MODULE HarnessRunner ----------------------------
(***************************************************************************)
(* A verification run of the driver from the selection of harnesses to the *)
(* exit code: verify_project of trust-mc-driver/src/main.rs,               *)
(* determine_targets of metadata.rs, check_all_harnesses of                *)
(* harness_runner.rs and print_final_summary of result_summary.rs.         *)
(*                                                                         *)
(* Workers of a rayon pool check harnesses concurrently.  Rayon starts     *)
(* nothing once an item has failed, lets what has started finish, and      *)
(* returns one of the errors, which one being unspecified.  What           *)
(* check_harness does is HarnessVerdict's subject: here it returns some    *)
(* verdict, or an error.                                                   *)
(***************************************************************************)
EXTENDS Attribution

CONSTANTS
    Harnesses,
    Workers,    \* number of threads in the pool
    Commands,   \* command lines: see CommandType
    Profiles,   \* harnesses: see ProfileType
    Verdicts,   \* what check_harness may return: see VerdictType
    NoHarness

(* filters: how many --harness; auto: an autoharness session *)
CommandType == [failFast : BOOLEAN, quiet : BOOLEAN, exact : BOOLEAN,
                configFree : BOOLEAN, failUnvalidated : BOOLEAN, auto : BOOLEAN,
                filters : Nat]
ProfileType == [auto : BOOLEAN, shouldPanic : BOOLEAN, needsConfig : BOOLEAN]
VerdictType == [status : {"Success", "Failure"},
                failed : {"None", "PanicsOnly", "Other"}, valid : BOOLEAN]

ASSUME RunnerAssumption ==
    /\ IsFiniteSet(Harnesses) /\ NoHarness \notin Harnesses
    /\ Workers \in Nat \ {0}
    /\ Commands \subseteq CommandType
    /\ Profiles \subseteq ProfileType
    /\ Verdicts \subseteq VerdictType

VARIABLES
    opts,
    profile,    \* of every harness
    listed,     \* get_all_harnesses: those the compiler's filter let through
    targets,    \* those to check
    phase,
    started, finished,      \* by the pool
    verdict,    \* of the finished harnesses
    completed,  \* the results kept by the collector
    failfast,   \* harnesses that ended with FailFastHarnessInfo
    broken,     \* harnesses that ended with another error
    results,    \* what check_all_harnesses returned
    exit

vars == <<opts, profile, listed, targets, phase, started, finished, verdict,
          completed, failfast, broken, results, exit>>
input == <<opts, profile, listed>>
pool  == <<started, finished, verdict, completed, failfast, broken>>

NoVerdict == [status |-> "Failure", failed |-> "None", valid |-> FALSE]
Running == started \ finished
Stopped == failfast \union broken # {}

IsAuto(h) == profile[h].auto
Success(h) == verdict[h].status = "Success"
EffectiveHarness(h) ==
    Effective(verdict[h].status, profile[h].shouldPanic, verdict[h].failed)

Init ==
    /\ opts \in Commands
    /\ profile \in [Harnesses -> Profiles]
    /\ \A h \in Harnesses : IsAuto(h) => opts.auto
    /\ listed \in SUBSET Harnesses
    /\ opts.filters > 0 => \A h \in listed : ~IsAuto(h)
    /\ opts.exact => Cardinality(listed) <= opts.filters
    /\ targets = {} /\ phase = "select"
    /\ started = {} /\ finished = {}
    /\ verdict = [h \in Harnesses |-> NoVerdict]
    /\ completed = {} /\ failfast = {} /\ broken = {}
    /\ results = {} /\ exit = -1

Exit(code) == phase' = "exit" /\ exit' = code

-----------------------------------------------------------------------------
(* determine_targets.  An exact filter that selects nothing is an error; a
   --config-free run leaves out what needs configuration. *)
DetermineTargets ==
    /\ phase = "select"
    /\ IF opts.exact /\ Cardinality(listed) < opts.filters
       THEN Exit(1) /\ UNCHANGED targets
       ELSE /\ phase' = "check" /\ UNCHANGED exit
            /\ targets' = IF opts.configFree
                          THEN {h \in listed : ~profile[h].needsConfig}
                          ELSE listed
    /\ UNCHANGED <<input, pool, results>>

(* Mutant: more harnesses in flight than the pool has threads. *)
StartMutant(h) ==
    /\ phase = "check" /\ h \in targets \ started /\ ~Stopped
    /\ started' = started \union {h}
    /\ UNCHANGED <<input, targets, phase, finished, verdict, completed, failfast,
                   broken, results, exit>>
(* A thread of the pool takes the next item. *)
Start(h) ==
    /\ phase = "check" /\ h \in targets \ started /\ ~Stopped
    /\ Cardinality(Running) < Workers
    /\ started' = started \union {h}
    /\ UNCHANGED <<input, targets, phase, finished, verdict, completed, failfast,
                   broken, results, exit>>

(* check_harness returned v: with --fail-fast a failure ends the iteration,
   anything else goes to the collector. *)
Checked(h, v) ==
    /\ h \in Running
    /\ finished' = finished \union {h}
    /\ verdict' = [verdict EXCEPT ![h] = v]
    /\ IF opts.failFast /\ v.status = "Failure"
       THEN failfast' = failfast \union {h} /\ UNCHANGED completed
       ELSE completed' = completed \union {h} /\ UNCHANGED failfast
    /\ UNCHANGED <<input, targets, phase, started, broken, results, exit>>

(* Mutant: the harness is put back and tried again. *)
CheckFailsMutant(h) ==
    /\ h \in Running
    /\ started' = started \ {h}
    /\ UNCHANGED <<input, targets, phase, finished, verdict, completed, failfast,
                   broken, results, exit>>
(* No query file, or check_harness failed. *)
CheckFails(h) ==
    /\ h \in Running
    /\ finished' = finished \union {h}
    /\ broken' = broken \union {h}
    /\ UNCHANGED <<input, targets, phase, started, verdict, completed, failfast,
                   results, exit>>

(* The iteration is over when nothing runs and nothing more may start. *)
Drained == /\ phase = "check" /\ Running = {}
           /\ Stopped \/ started = targets
(* Mutant: a short-circuiting collect keeps the error and drops the rest. *)
ResultsMutant(err) == IF err = NoHarness THEN completed ELSE {err}
(* The results, when the error returned (if any) is that of err. *)
Results(err) == IF err = NoHarness THEN completed ELSE completed \union {err}

(* check_all_harnesses returns. *)
Collect(err) ==
    /\ Drained
    /\ IF Stopped THEN err \in failfast ELSE err = NoHarness
    /\ phase' = "artifacts"
    /\ results' = Results(err)
    /\ UNCHANGED <<input, targets, pool, exit>>

CollectError ==
    /\ Drained /\ broken # {}
    /\ Exit(1)
    /\ UNCHANGED <<input, targets, pool, results>>

-----------------------------------------------------------------------------
(* Coverage, SARIF and the proof summary are written, or cannot be. *)
WriteArtifacts ==
    /\ phase = "artifacts"
    /\ phase' = "summary"
    /\ UNCHANGED <<input, targets, pool, results, exit>>

ArtifactFails ==
    /\ phase = "artifacts"
    /\ Exit(1)
    /\ UNCHANGED <<input, targets, pool, results>>

Manual == {h \in results : ~IsAuto(h)}
ManualFailures == {h \in Manual : ~EffectiveHarness(h)}
(* Mutant: automatic harnesses never fail a run. *)
AutoFailuresMutant == {}
AutoFailures == IF opts.auto THEN {h \in results : IsAuto(h) /\ ~Success(h)} ELSE {}
UnvalidatedSuccesses == {h \in Manual : EffectiveHarness(h) /\ ~verdict[h].valid}

(* Mutant: an unvalidated success fails the run without the flag. *)
ShouldFailMutant(failing, autoFailing, unvalidated, unvalidatedSuccesses) ==
    failing \union autoFailing \union unvalidated \union unvalidatedSuccesses # {}
(* should_fail_final_summary *)
ShouldFail(failing, autoFailing, unvalidated, unvalidatedSuccesses) ==
    \/ failing \union autoFailing \union unvalidated # {}
    \/ opts.failUnvalidated /\ unvalidatedSuccesses # {}

(* Mutant: a should_panic harness is judged by its raw status. *)
QuietExitRaw ==
    IF \/ ShouldFail({h \in Manual : ~Success(h)}, AutoFailures, {}, UnvalidatedSuccesses)
       \/ Manual = {} /\ opts.filters > 0
    THEN 1 ELSE 0
(* print_final_summary under --quiet *)
QuietExit ==
    IF \/ ShouldFail(ManualFailures, AutoFailures, {}, UnvalidatedSuccesses)
       \/ Manual = {} /\ opts.filters > 0
    THEN 1 ELSE 0

(* print_final_summary: failures are told apart by their validation. *)
NormalExit ==
    LET unvalidated == {h \in ManualFailures : ~verdict[h].valid}
        failing     == ManualFailures \ unvalidated
        total       == Cardinality(Manual)
    IN  IF total = 0 /\ opts.filters > 0 THEN 1
        ELSE IF ShouldFail(failing, AutoFailures, unvalidated, UnvalidatedSuccesses)
        THEN 1 ELSE 0

PrintFinalSummary ==
    /\ phase = "summary"
    /\ Exit(IF opts.quiet THEN QuietExit ELSE NormalExit)
    /\ UNCHANGED <<input, targets, pool, results>>

Exited == phase = "exit" /\ UNCHANGED vars

Step ==
    \/ DetermineTargets
    \/ \E h \in Harnesses :
          Start(h) \/ CheckFails(h) \/ \E v \in Verdicts : Checked(h, v)
    \/ \E err \in failfast \union {NoHarness} : Collect(err)
    \/ CollectError \/ WriteArtifacts \/ ArtifactFails \/ PrintFinalSummary

Next == Step \/ Exited

(* check_harness returns: each of its solver calls has a deadline. *)
Spec == Init /\ [][Next]_vars /\ WF_vars(Step)

-----------------------------------------------------------------------------
(* Properties *)

(* Every variable has its type, and no more harnesses are in flight than the
   pool has threads. *)
TypeOK ==
    /\ opts \in Commands
    /\ profile \in [Harnesses -> Profiles]
    /\ listed \subseteq Harnesses /\ targets \subseteq listed
    /\ phase \in {"select", "check", "artifacts", "summary", "exit"}
    /\ started \subseteq targets /\ finished \subseteq started
    /\ Cardinality(Running) <= Workers
    /\ verdict \in [Harnesses -> Verdicts \union {NoVerdict}]
    /\ completed \subseteq finished /\ failfast \subseteq finished
    /\ broken \subseteq finished /\ results \subseteq finished
    /\ exit \in {-1, 0, 1}

(* What the exit code takes for a verified harness. *)
Verified(h) ==
    /\ h \in finished \ broken
    /\ IF IsAuto(h) THEN Success(h)
       ELSE /\ EffectiveHarness(h)
            /\ opts.failUnvalidated => verdict[h].valid

(* topics.rs, EXIT_CODES: "0 every selected harness verified".  A run that
   exits with 0 has checked every target to the end and verified it, however
   the threads interleave and whatever --fail-fast cuts off. *)
ExitZeroMeansVerified ==
    exit = 0 => \A h \in targets : Verified(h)

(* The case the driver handles: --fail-fast judges by the raw status, which for
   a should_panic harness is a failure when it is verified. *)
PanicsNotCutOff ==
    opts.failFast => \A h \in targets : ~profile[h].shouldPanic

(* The same, unless --fail-fast meets a should_panic harness. *)
ExitCodeHonest == PanicsNotCutOff => ExitZeroMeansVerified

(* check_all_harnesses: "Only SUCCESSES are preserved, never the concurrent
   failures".  A harness that was reported as verified is in the results that
   the summary counts, unless --fail-fast meets a should_panic harness. *)
SuccessesPreserved ==
    PanicsNotCutOff /\ phase \in {"artifacts", "summary"} =>
        \A h \in finished \ broken : EffectiveHarness(h) => h \in results

(* marker_println!: "--quiet changes what you see and never what the tool
   concluded or what it exits with".  Both branches of print_final_summary
   compute the same exit code. *)
QuietExitsAlike == phase = "summary" => QuietExit = NormalExit

(* topics.rs, EXIT_CODES: a run that reaches its summary and exits with 1 has
   a cause: a target that is not verified, or a filter that left no harness of
   the user's to verify. *)
FailureHasCause ==
    [][phase = "summary" /\ exit' = 1 =>
          \/ \E h \in targets : ~Verified(h)
          \/ opts.filters > 0 /\ \A h \in targets : IsAuto(h)]_vars

(* The run ends, also when --fail-fast leaves harnesses unstarted. *)
RunEnds == <>(phase = "exit")
=============================================================================
