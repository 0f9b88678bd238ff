------------------------- MODULE HarnessRunner_proofs -------------------------
(***************************************************************************)
(* Proofs about a verification run, for every set of harnesses, every pool *)
(* size and every command line.                                            *)
(*                                                                         *)
(* The inductive invariant says how the pool's books balance: every        *)
(* finished harness is in exactly one of completed, failfast and broken,   *)
(* --fail-fast separates successes from failures between the first two,    *)
(* and what check_all_harnesses returned is complete when nothing stopped  *)
(* it and otherwise has a harness that did.                                *)
(***************************************************************************)
EXTENDS HarnessRunner, FiniteSetTheorems, TLAPS

Booked ==
    /\ finished = completed \union failfast \union broken
    /\ broken \intersect (completed \union failfast) = {}
    /\ \A h \in failfast : opts.failFast /\ verdict[h].status = "Failure"
    /\ \A h \in completed : opts.failFast => verdict[h].status = "Success"

Gathered ==
    phase \in {"artifacts", "summary"} =>
        \/ ~Stopped /\ results = completed /\ finished = targets
        \/ \E e \in failfast : results = completed \union {e}

Phased ==
    /\ phase = "select" => started = {} /\ targets = {}
    /\ phase # "exit" => exit = -1
    /\ \A h \in Harnesses : IsAuto(h) => opts.auto
    /\ phase \in {"select", "check"} => results = {}
    /\ phase # "check" => Running = {}

IInv == TypeOK /\ Booked /\ Gathered /\ Phased

-----------------------------------------------------------------------------
(* The set of harnesses in flight is finite: so are all the driver's sets. *)
LEMMA FiniteSets ==
    ASSUME RunnerAssumption, TypeOK
    PROVE  IsFiniteSet(Running) /\ IsFiniteSet(Manual) /\ Cardinality(Running) \in Nat
<1>1. IsFiniteSet(Harnesses)
  BY DEF RunnerAssumption
<1>2. Running \subseteq Harnesses /\ Manual \subseteq Harnesses
  BY DEF TypeOK, Running, Manual
<1>. QED
  BY <1>1, <1>2, FS_Subset, FS_CardinalityType

(* The two ways print_final_summary tells that there was nothing to report:
   no manual result, and a total of zero. *)
LEMMA NoneIsZero ==
    ASSUME RunnerAssumption, TypeOK
    PROVE  Cardinality(Manual) = 0 <=> Manual = {}
BY FiniteSets, FS_EmptySet

-----------------------------------------------------------------------------
(* At the start the books are empty. *)
LEMMA InitIInv == ASSUME RunnerAssumption, Init PROVE IInv
<1>1. TypeOK
  <2>1. Running = {}
    BY DEF Init, Running
  <2>2. Cardinality(Running) <= Workers
    BY <2>1, FS_EmptySet DEF RunnerAssumption
  <2>. QED
    BY <2>2 DEF Init, TypeOK
<1>. QED
  BY <1>1 DEF Init, IInv, Booked, Gathered, Phased, Running

(* A worker that takes a harness off the list only adds it to the started ones. *)
LEMMA StartIInv ==
    ASSUME RunnerAssumption, IInv, NEW h \in Harnesses, Start(h)
    PROVE  IInv'
<1>1. TypeOK'
  <2>1. Running' = Running \union {h} /\ h \notin Running
    BY DEF Start, Running, IInv, TypeOK
  <2>2. Cardinality(Running') = Cardinality(Running) + 1
    BY <2>1, FiniteSets, FS_AddElement DEF IInv
  <2>3. Cardinality(Running') <= Workers
    BY <2>2, FiniteSets DEF Start, IInv, RunnerAssumption
  <2>. QED
    BY <2>3 DEF Start, IInv, TypeOK, input
<1>. QED
  BY <1>1 DEF Start, IInv, TypeOK, Booked, Gathered, Phased, IsAuto, Stopped, input

(* What Checked and CheckFails do to the harnesses in flight. *)
LEMMA OneLess ==
    ASSUME RunnerAssumption, TypeOK, NEW h \in Running,
           started' = started, finished' = finished \union {h}
    PROVE  Cardinality(Running') <= Workers
<1>1. Running' = Running \ {h}
  BY DEF Running
<1>2. Cardinality(Running') = Cardinality(Running) - 1
  BY <1>1, FiniteSets, FS_RemoveElement
<1>. QED
  BY <1>2, FiniteSets DEF TypeOK, RunnerAssumption

(* A checked harness is booked once: as completed, or under --fail-fast as the
   failure that stops the pool. *)
LEMMA CheckedIInv ==
    ASSUME RunnerAssumption, IInv, NEW h \in Harnesses, NEW v \in Verdicts,
           Checked(h, v)
    PROVE  IInv'
<1>1. /\ h \in Running /\ h \notin finished /\ phase = "check" /\ phase' = "check"
      /\ verdict \in [Harnesses -> Verdicts \union {NoVerdict}]
  BY DEF Checked, IInv, TypeOK, Phased, Running
<1>2. /\ verdict'[h] = v
      /\ \A g \in Harnesses \ {h} : verdict'[g] = verdict[g]
      /\ verdict' \in [Harnesses -> Verdicts \union {NoVerdict}]
  BY <1>1 DEF Checked
<1>3. TypeOK'
  <2>1. Cardinality(Running') <= Workers
    BY <1>1, OneLess DEF Checked, IInv
  <2>. QED
    BY <1>1, <1>2, <2>1 DEF Checked, IInv, TypeOK, input, Running
<1>4. Booked'
  <2>0. completed \union failfast \union broken \subseteq Harnesses \ {h}
    BY <1>1 DEF IInv, Booked, TypeOK
  <2>1. v.status \in {"Success", "Failure"}
    BY DEF RunnerAssumption, VerdictType
  <2>2. CASE opts.failFast /\ v.status = "Failure"
    BY <1>2, <2>0, <2>2 DEF Checked, IInv, Booked, input
  <2>3. CASE ~(opts.failFast /\ v.status = "Failure")
    BY <1>2, <2>0, <2>1, <2>3 DEF Checked, IInv, Booked, input
  <2>. QED
    BY <2>2, <2>3
<1>5. Gathered' /\ Phased'
  BY <1>1 DEF Checked, IInv, Gathered, Phased, IsAuto, input
<1>. QED
  BY <1>3, <1>4, <1>5 DEF IInv

(* A check that returns an error is booked as broken. *)
LEMMA CheckFailsIInv ==
    ASSUME RunnerAssumption, IInv, NEW h \in Harnesses, CheckFails(h)
    PROVE  IInv'
<1>1. h \in Running /\ h \notin finished /\ phase = "check" /\ phase' = "check"
  BY DEF CheckFails, IInv, TypeOK, Phased, Running
<1>2. TypeOK'
  <2>1. Cardinality(Running') <= Workers
    BY <1>1, OneLess DEF CheckFails, IInv
  <2>. QED
    BY <1>1, <2>1 DEF CheckFails, IInv, TypeOK, input, Running
<1>3. Booked'
  BY <1>1 DEF CheckFails, IInv, Booked, input
<1>4. Gathered' /\ Phased'
  BY <1>1 DEF CheckFails, IInv, Gathered, Phased, IsAuto, input
<1>. QED
  BY <1>2, <1>3, <1>4 DEF IInv

(* Selection comes before any book is opened. *)
LEMMA DetermineTargetsIInv ==
    ASSUME RunnerAssumption, IInv, DetermineTargets
    PROVE  IInv'
<1>1. /\ started = {} /\ finished = {} /\ completed = {} /\ failfast = {}
      /\ broken = {} /\ results = {} /\ targets = {} /\ exit = -1
  BY DEF DetermineTargets, IInv, TypeOK, Phased
<1>2. Running' = Running
  BY DEF DetermineTargets, pool, Running
<1>3. TypeOK'
  BY <1>1, <1>2 DEF DetermineTargets, IInv, TypeOK, Exit, input, pool
<1>. QED
  BY <1>1, <1>2, <1>3
     DEF DetermineTargets, IInv, Booked, Gathered, Phased, IsAuto, Stopped, Exit, input,
         pool

(* The collector returns what the books say: one error, or all results. *)
LEMMA CollectIInv ==
    ASSUME RunnerAssumption, IInv, NEW err \in failfast \union {NoHarness},
           Collect(err)
    PROVE  IInv'
<1>1. Running' = Running /\ Running = {}
  BY DEF Collect, Drained, pool, Running
<1>2. started = finished
  BY <1>1 DEF IInv, TypeOK, Running
<1>3. NoHarness \notin failfast
  BY DEF IInv, TypeOK, RunnerAssumption
<1>4. Gathered'
  <2>1. CASE Stopped
    BY <1>3, <2>1 DEF Collect, Results, Gathered, pool
  <2>2. CASE ~Stopped
    BY <1>2, <2>2 DEF Collect, Drained, Results, Gathered, IInv, Booked, Stopped, pool
  <2>. QED
    BY <2>1, <2>2
<1>5. TypeOK'
  BY <1>1, <1>3 DEF Collect, Results, IInv, TypeOK, Booked, input, pool
<1>. QED
  BY <1>1, <1>4, <1>5 DEF Collect, Drained, IInv, Booked, Phased, IsAuto, input, pool

(* The steps after the pool leave its books alone. *)
LEMMA ClosingIInv ==
    ASSUME RunnerAssumption, IInv,
           CollectError \/ WriteArtifacts \/ ArtifactFails \/ PrintFinalSummary
    PROVE  IInv'
<1>1. /\ UNCHANGED <<input, targets, pool, results>>
      /\ Running' = Running /\ Running = {}
  BY DEF CollectError, WriteArtifacts, ArtifactFails, PrintFinalSummary, Drained,
         IInv, Phased, pool, Running
<1>2. \/ phase = "artifacts" /\ phase' = "summary" /\ exit' = exit
      \/ phase # "select" /\ phase' = "exit" /\ exit' \in {0, 1}
  BY DEF CollectError, WriteArtifacts, ArtifactFails, PrintFinalSummary, Drained,
         Exit, QuietExit, NormalExit
<1>3. TypeOK'
  BY <1>1, <1>2 DEF IInv, TypeOK, input, pool
<1>. QED
  BY <1>1, <1>2, <1>3 DEF IInv, Booked, Gathered, Phased, IsAuto, Stopped, input, pool

(* The invariant is inductive. *)
LEMMA NextIInv ==
    ASSUME RunnerAssumption, IInv, [Next]_vars PROVE IInv'
<1>1. CASE UNCHANGED vars
  BY <1>1 DEF vars, IInv, TypeOK, Booked, Gathered, Phased, IsAuto, Running,
              Stopped
<1>2. CASE Step
  BY <1>2, StartIInv, CheckedIInv, CheckFailsIInv, DetermineTargetsIInv,
     CollectIInv, ClosingIInv DEF Step
<1>. QED
  BY <1>1, <1>2 DEF Next, Exited

(* For every pool and command line the invariant holds throughout a run. *)
THEOREM Inductive == Spec => []IInv
<1>1. Init => IInv
  BY InitIInv, RunnerAssumption
<1>2. IInv /\ [Next]_vars => IInv'
  BY NextIInv, RunnerAssumption
<1>. QED
  BY <1>1, <1>2, PTL DEF Spec

(* check_all_harnesses never has more harnesses in flight than threads, and
   every set it keeps is one of harnesses it has finished. *)
THEOREM TypeCorrect == Spec => []TypeOK
<1>1. IInv => TypeOK
  BY DEF IInv
<1>. QED
  BY <1>1, Inductive, PTL

(* The failures, told apart by their validation or not, are the same. *)
LEMMA SameExit ==
    ASSUME RunnerAssumption, IInv PROVE QuietExit = NormalExit
<1>2. Cardinality(Manual) = 0 <=> Manual = {}
  BY NoneIsZero DEF IInv
<1> DEFINE unvalidated == {h \in ManualFailures : ~verdict[h].valid}
           failing == ManualFailures \ unvalidated
<1>3. ShouldFail(failing, AutoFailures, unvalidated, UnvalidatedSuccesses)
      <=> ShouldFail(ManualFailures, AutoFailures, {}, UnvalidatedSuccesses)
  <2>1. failing \union AutoFailures \union unvalidated
        = ManualFailures \union AutoFailures \union {}
    OBVIOUS
  <2>. QED
    BY <2>1 DEF ShouldFail
<1>4. NormalExit = IF \/ Cardinality(Manual) = 0 /\ opts.filters > 0
                      \/ ShouldFail(failing, AutoFailures, unvalidated,
                                    UnvalidatedSuccesses)
                   THEN 1 ELSE 0
  BY DEF NormalExit
<1>. QED
  BY <1>2, <1>3, <1>4 DEF QuietExit

(* The two branches of print_final_summary agree on the exit code. *)
THEOREM QuietAlike == Spec => []QuietExitsAlike
<1>1. IInv => QuietExitsAlike
  BY SameExit, RunnerAssumption DEF QuietExitsAlike
<1>. QED
  BY <1>1, Inductive, PTL

-----------------------------------------------------------------------------
(* What is true of a harness that ended the run early. *)
LEMMA CutOffNotVerified ==
    ASSUME RunnerAssumption, IInv, PanicsNotCutOff, NEW h \in failfast
    PROVE  ~EffectiveHarness(h)
<1>1. opts.failFast /\ verdict[h].status = "Failure"
  BY DEF IInv, Booked
<1>2. h \in targets
  BY DEF IInv, TypeOK
<1>3. ~profile[h].shouldPanic
  BY <1>1, <1>2 DEF PanicsNotCutOff
<1>. QED
  BY <1>1, <1>3 DEF EffectiveHarness, Effective

(* check_all_harnesses keeps every harness that was reported as verified when
   a --fail-fast abort overtakes it, unless --fail-fast meets should_panic. *)
THEOREM Preserved == Spec => []SuccessesPreserved
<1>1. IInv => SuccessesPreserved
  <2>1. SUFFICES ASSUME IInv, PanicsNotCutOff, phase \in {"artifacts", "summary"},
                        NEW h \in finished \ broken, EffectiveHarness(h)
                 PROVE  h \in results
    BY DEF SuccessesPreserved
  <2>2. h \notin failfast
    BY <2>1, CutOffNotVerified, RunnerAssumption
  <2>3. h \in completed
    BY <2>1, <2>2 DEF IInv, Booked
  <2>. QED
    BY <2>1, <2>3 DEF IInv, Gathered
<1>. QED
  BY <1>1, Inductive, PTL

(* What the summary lets pass with exit code 0 is verified. *)
LEMMA SummaryExact ==
    ASSUME RunnerAssumption, IInv, PanicsNotCutOff, PrintFinalSummary, exit' = 0
    PROVE  \A h \in targets : Verified(h)
<1>1. phase = "summary" /\ QuietExit = 0
  BY SameExit DEF PrintFinalSummary, Exit
<1>2. /\ ManualFailures = {} /\ AutoFailures = {}
      /\ opts.failUnvalidated => UnvalidatedSuccesses = {}
  BY <1>1 DEF QuietExit, ShouldFail
<1>3. \A h \in results : IsAuto(h) => opts.auto
  BY DEF IInv, Phased, TypeOK
<1>4. ~Stopped /\ results = completed /\ finished = targets
  <2>1. ASSUME NEW e \in failfast, e \in results PROVE FALSE
    <3>1. ~EffectiveHarness(e) /\ verdict[e].status = "Failure"
      BY CutOffNotVerified DEF IInv, Booked
    <3>. QED
      BY <1>2, <1>3, <2>1, <3>1 DEF Manual, ManualFailures, AutoFailures, Success
  <2>. QED
    BY <1>1, <2>1 DEF IInv, Gathered
<1>5. SUFFICES ASSUME NEW h \in targets PROVE Verified(h)
  OBVIOUS
<1>6. h \in results /\ h \in finished \ broken
  BY <1>4 DEF IInv, Booked, Stopped
<1>. QED
  BY <1>2, <1>3, <1>6
     DEF Verified, Manual, ManualFailures, AutoFailures, UnvalidatedSuccesses

(* Exit code 0 means that every selected harness was checked and verified, as
   the documentation of exit codes says, unless --fail-fast meets
   should_panic. *)
THEOREM ZeroMeansVerified == Spec => []ExitCodeHonest
<1>1. Init => ExitCodeHonest
  BY DEF Init, ExitCodeHonest, ExitZeroMeansVerified
<1>2. IInv /\ ExitCodeHonest /\ [Next]_vars => ExitCodeHonest'
  <2>1. SUFFICES ASSUME IInv, ExitCodeHonest, [Next]_vars, exit' = 0,
                        PanicsNotCutOff'
                 PROVE  \A h \in targets' : Verified(h)'
    BY DEF ExitCodeHonest, ExitZeroMeansVerified
  <2>2. CASE PrintFinalSummary
    <3>0. PanicsNotCutOff
      BY <2>1, <2>2 DEF PrintFinalSummary, PanicsNotCutOff, input
    <3>1. \A h \in targets : Verified(h)
      BY <2>1, <2>2, <3>0, SummaryExact, RunnerAssumption
    <3>. QED
      BY <2>2, <3>1 DEF PrintFinalSummary, input, pool, Verified, IsAuto, Success,
                        EffectiveHarness
  <2>3. CASE Next /\ ~PrintFinalSummary
    <3>1. Step => exit' = 1 \/ (exit' = exit /\ phase # "exit")
      <4>1. ASSUME NEW h \in Harnesses, NEW v \in Verdicts, Checked(h, v)
            PROVE  exit' = exit /\ phase # "exit"
        BY <2>1, <4>1 DEF Checked, IInv, Phased
      <4>2. ASSUME NEW h \in Harnesses, Start(h) \/ CheckFails(h)
            PROVE  exit' = exit /\ phase # "exit"
        BY <2>1, <4>2 DEF Start, CheckFails, IInv, Phased
      <4>. QED
        BY <2>3, <4>1, <4>2 DEF Step, DetermineTargets, Collect, CollectError,
           WriteArtifacts, ArtifactFails, Drained, Exit
    <3>2. exit = 0 => phase = "exit"
      BY <2>1 DEF IInv, Phased
    <3>3. exit = 0 /\ UNCHANGED vars
      BY <2>1, <2>3, <3>1, <3>2 DEF Next, Exited, vars
    <3>. QED
      BY <2>1, <3>3 DEF ExitCodeHonest, ExitZeroMeansVerified, PanicsNotCutOff,
                        vars, Verified, IsAuto, Success,
                        EffectiveHarness
  <2>4. CASE UNCHANGED vars
    BY <2>1, <2>4 DEF ExitCodeHonest, ExitZeroMeansVerified, PanicsNotCutOff,
                      vars, Verified, IsAuto, Success,
                      EffectiveHarness
  <2>. QED
    BY <2>1, <2>2, <2>3, <2>4
<1>. QED
  BY <1>1, <1>2, Inductive, PTL DEF Spec

(* A run that fails in its summary fails for a reason the documentation of
   exit codes names; here --fail-fast and should_panic may meet. *)
THEOREM Caused == Spec => FailureHasCause
<1> DEFINE Cause == \/ \E h \in targets : ~Verified(h)
                    \/ opts.filters > 0 /\ \A h \in targets : IsAuto(h)
<1>1. ASSUME IInv, Next, phase = "summary", exit' = 1 PROVE Cause
  <2>1. exit = -1 /\ Running = {}
    BY <1>1 DEF IInv, Phased
  <2>2. PrintFinalSummary
    BY <1>1, <2>1 DEF Next, Step, Exited, DetermineTargets, Start, CheckFails,
       Checked, Collect, CollectError, WriteArtifacts, ArtifactFails, Drained
  <2>3. QuietExit = 1
    BY <1>1, <2>2, SameExit, RunnerAssumption DEF PrintFinalSummary, Exit
  <2>4. results \subseteq targets
    BY <1>1 DEF IInv, TypeOK
  <2>5. CASE ShouldFail(ManualFailures, AutoFailures, {}, UnvalidatedSuccesses)
    <3>1. PICK h \in results :
              \/ h \in ManualFailures \union AutoFailures
              \/ opts.failUnvalidated /\ h \in UnvalidatedSuccesses
      BY <2>5 DEF ShouldFail, ManualFailures, AutoFailures, UnvalidatedSuccesses, Manual
    <3>2. ~Verified(h)
      BY <3>1 DEF Verified, ManualFailures, AutoFailures, UnvalidatedSuccesses, Manual
    <3>. QED
      BY <2>4, <3>2
  <2>6. CASE Manual = {} /\ opts.filters > 0
    <3>1. \A h \in results : IsAuto(h)
      BY <2>6 DEF Manual
    <3>2. CASE results = completed /\ finished = targets /\ ~Stopped
      BY <1>1, <2>6, <3>1, <3>2 DEF IInv, Booked, Stopped
    <3>3. CASE \E e \in failfast : e \in results
      <4>1. PICK e \in failfast : e \in results
        BY <3>3
      <4>2. ~Verified(e)
        BY <1>1, <3>1, <4>1 DEF IInv, Booked, Verified, Success
      <4>. QED
        BY <2>4, <4>1, <4>2
    <3>. QED
      BY <1>1, <3>2, <3>3 DEF IInv, Gathered
  <2>. QED
    BY <2>3, <2>5, <2>6 DEF QuietExit
<1>2. IInv /\ [Next]_vars => [phase = "summary" /\ exit' = 1 => Cause]_vars
  BY <1>1
<1>. QED
  BY <1>2, Inductive, PTL DEF Spec, FailureHasCause
===============================================================================
