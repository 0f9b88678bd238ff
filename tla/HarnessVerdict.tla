---------------------------- MODULE HarnessVerdict ----------------------------
(***************************************************************************)
(* How the driver turns a solver's answer into a verdict:                  *)
(* KaniSession::check_harness of trust-mc-driver/src/harness_runner.rs     *)
(* with the gates of demotion.rs and verification_result.rs and the        *)
(* two-lane retry of loop_two_lane.rs.                                     *)
(*                                                                         *)
(* The harnesses of one crate are checked one after another (concurrency   *)
(* between them is HarnessRunner's subject; a verdict reads nothing that   *)
(* another harness writes).  Each gate of the pipeline is a step.  The two *)
(* lanes of the retry are child processes that end in either order.        *)
(* It starts from an answer of run_ay, of which SolverAnswer says what it  *)
(* may be and RunAy shows that it is.                                      *)
(***************************************************************************)
EXTENDS Attribution, SolverAnswer

CONSTANTS
    Scenarios,      \* families of inputs, by name: see ScenarioOK
    RetryBudget,    \* RETRY_TOTAL_BUDGET
    MinLane,        \* the least a lane is started with
    Depths,         \* how many unroll depths Lane P tries
    NoHarness

(* shouldPanic and conformance as declared; bare: the body has no obligation
   site; loops: the artifact has loop-contract obligations; sibling: the name
   is contained in that of another harness and --exact is not given *)
AttributeType == [shouldPanic : BOOLEAN, conformance : BOOLEAN, bare : BOOLEAN,
                  loops : BOOLEAN, sibling : BOOLEAN]
OptionType == [allowVacuous : BOOLEAN, strict : BOOLEAN, quiet : BOOLEAN]

(* crates: the unsoundness counts a crate may come with; options: command
   lines; attributes: harnesses; evidence: what the compiler knows of freed
   variables; kinds: the kinds of row in play *)
ScenarioOK(s) ==
    /\ s.options \subseteq OptionType
    /\ s.attributes \subseteq AttributeType
    /\ s.kinds \subseteq AllKinds
    /\ \A c \in s.crates : NoHarness \notin c.names /\ CountsOK(c)

ASSUME VerdictAssumption ==
    /\ \A s \in DOMAIN Scenarios : ScenarioOK(Scenarios[s])
    /\ RetryBudget \in Nat
    /\ MinLane \in 1..RetryBudget
    /\ Depths \in Nat \ {0}

VARIABLES
    scene,      \* the scenario the inputs come from
    crate, opts,
    cur,        \* the harness being checked
    attr, ev,   \* its attributes and evidence
    pc,
    status, failed, rows, feas,     \* VerificationResult
    demoted,    \* demotion_reasons is not empty
    cat,        \* ctrex_category
    answer,     \* history: what the solver said
    lanes,      \* the retry
    done        \* the verdicts so far

result   == <<status, failed, rows, feas, demoted, cat>>
subject  == <<scene, crate, opts, cur, attr, ev>>
vars == <<scene, crate, opts, cur, attr, ev, pc, status, failed, rows, feas, demoted,
          cat, answer, lanes, done>>

NoCat    == Category("None", NoCats)
Unknown  == Category("Unknown", NoCats)
NoReport == [target |-> FALSE, oblig |-> FALSE, sibling |-> FALSE,
             sibOblig |-> FALSE]
Reports  == [target : BOOLEAN, oblig : BOOLEAN, sibling : BOOLEAN,
             sibOblig : BOOLEAN]
NoLanes  == [o |-> "off", p |-> "off", oRep |-> NoReport, pRep |-> NoReport,
             since |-> 0, elapsed |-> 0, depth |-> 0, upgraded |-> FALSE]

EffectiveNow == Effective(status, attr.shouldPanic, failed)

Init ==
    /\ scene \in DOMAIN Scenarios
    /\ crate \in Scenarios[scene].crates
    /\ opts \in Scenarios[scene].options
    /\ cur = NoHarness
    /\ attr = [shouldPanic |-> FALSE, conformance |-> FALSE, bare |-> FALSE,
               loops |-> FALSE, sibling |-> FALSE]
    /\ ev = [found |-> FALSE, complete |-> FALSE, accounted |-> 0,
             independent |-> FALSE]
    /\ pc = "pick"
    /\ status = "Failure" /\ failed = "Other" /\ rows = {}
    /\ feas = "Undetermined" /\ demoted = FALSE /\ cat = NoCat
    /\ answer = "none"
    /\ lanes = NoLanes
    /\ done = << >>

Goto(here, there) == pc = here /\ pc' = there

(* The next harness of the crate. *)
Pick(h, a, e) ==
    /\ Goto("pick", "run")
    /\ h \in crate.names \ DOMAIN done
    /\ cur' = h /\ attr' = a /\ ev' = e
    /\ demoted' = FALSE /\ cat' = NoCat /\ lanes' = NoLanes
    /\ UNCHANGED <<scene, crate, opts, status, failed, rows, feas, answer, done>>

-----------------------------------------------------------------------------
(* run_ay returns a result of the solver lanes *)
RunAy(a) ==
    /\ Goto("run", "demote")
    /\ answer' = a.says
    /\ status' = a.status /\ failed' = a.failed /\ rows' = a.rows /\ feas' = a.feas
    /\ UNCHANGED <<subject, demoted, cat, lanes, done>>

(* run_ay returns an error, which ends the run. *)
RunError ==
    /\ Goto("run", "error")
    /\ UNCHANGED <<subject, result, answer, lanes, done>>

-----------------------------------------------------------------------------
(* The gates.  Each goes on to the next. *)

Fail(f) == status' = "Failure" /\ failed' = f
Keep == UNCHANGED <<status, failed>>
(* fail without overwriting a failure class already found *)
FailKeepingClass == Fail(IF failed = "None" THEN "Other" ELSE failed)

(* Mutant: reports the reasons and leaves the proof standing. *)
DemoteMutant ==
    /\ Goto("demote", "classify")
    /\ demoted' = (status = "Success" /\ Total(Demoting(cur, crate)) > 0)
    /\ Keep
    /\ UNCHANGED <<subject, rows, feas, cat, answer, lanes, done>>
(* demote_for_all_unsoundness *)
Demote ==
    /\ Goto("demote", "classify")
    /\ demoted' = (status = "Success" /\ Total(Demoting(cur, crate)) > 0)
    /\ IF demoted' THEN Fail("Other") ELSE Keep
    /\ UNCHANGED <<subject, rows, feas, cat, answer, lanes, done>>

(* unwind_bound_exhausted *)
UnwindExhausted == "unwind" \in rows

(* The counterexample category.  An exhausted unwind bound or an undecided
   answer (class Other, and no failed row but the aggregate one) is Unknown. *)
Classify ==
    /\ Goto("classify", "vacuity")
    /\ cat' = IF status # "Failure" \/ demoted THEN cat
              ELSE IF \/ UnwindExhausted
                      \/ failed = "Other" /\ rows \intersect Failing \subseteq {"chc"}
              THEN Unknown
              ELSE Recertify(ClassifyCtrex(cur, crate), ev)
    /\ UNCHANGED <<subject, status, failed, rows, feas, demoted, answer, lanes, done>>

(* is_unsat_assumption_vacuous *)
Vacuous(r) == CheckKinds(r) = {"unreach"}

(* Mutant: the relaxation assigns the pass it announces. *)
VacuityGateMutant ==
    /\ Goto("vacuity", "nochecks")
    /\ IF ~attr.shouldPanic /\ Vacuous(rows) /\ opts.allowVacuous
       THEN status' = "Success" /\ failed' = "None"
       ELSE IF ~attr.shouldPanic /\ status # "Failure" /\ Vacuous(rows)
       THEN Fail("Other") ELSE Keep
    /\ UNCHANGED <<subject, rows, feas, demoted, cat, answer, lanes, done>>
(* V4: every check is unreachable.  classify_vacuity only chooses between two
   messages by feas. *)
VacuityGate ==
    /\ Goto("vacuity", "nochecks")
    /\ IF /\ ~attr.shouldPanic /\ status # "Failure" /\ Vacuous(rows)
          /\ ~opts.allowVacuous
       THEN Fail("Other") ELSE Keep
    /\ UNCHANGED <<subject, rows, feas, demoted, cat, answer, lanes, done>>

(* V4b: a proof of no obligations. *)
NoChecksGate ==
    /\ Goto("nochecks", "cover")
    /\ IF ~attr.shouldPanic /\ status # "Failure" /\ rows = {} /\ ~attr.bare
       THEN Fail("Other") ELSE Keep
    /\ UNCHANGED <<subject, rows, feas, demoted, cat, answer, lanes, done>>

(* V5: a declared cover that cannot be reached. *)
CoverGate ==
    /\ Goto("cover", "conformance")
    /\ IF "coverUnsat" \in rows /\ opts.strict THEN FailKeepingClass ELSE Keep
    /\ UNCHANGED <<subject, rows, feas, demoted, cat, answer, lanes, done>>

(* V5, conformance tier: a conformance harness must satisfy a cover. *)
ConformanceGate ==
    /\ Goto("conformance", "fallback")
    /\ IF ~attr.shouldPanic /\ attr.conformance /\ "coverSat" \notin rows
       THEN FailKeepingClass ELSE Keep
    /\ UNCHANGED <<subject, rows, feas, demoted, cat, answer, lanes, done>>

(* apply_sound_fallback_fail_close *)
FallbackGate ==
    /\ Goto("fallback", "panic")
    /\ IF status = "Success" /\ SoundFallbacks(cur, crate) > 0
       THEN /\ Fail("Other")
            /\ cat' = Category("OverApproximation",
                               With(NoCats, [SoundApprox(cur, crate) EXCEPT !["havoc"] = 0]))
       ELSE Keep /\ UNCHANGED cat
    /\ UNCHANGED <<subject, rows, feas, demoted, answer, lanes, done>>

(* Mutant: looks at over-approximations only. *)
PanicGateMutant ==
    /\ Goto("panic", "decide")
    /\ IF /\ attr.shouldPanic /\ failed = "PanicsOnly"
          /\ cat.label = "OverApproximation"
       THEN Fail("Other") ELSE Keep
    /\ UNCHANGED <<subject, rows, feas, demoted, cat, answer, lanes, done>>
(* V6: an uncertified panic proves nothing about a should_panic harness. *)
PanicGate ==
    /\ Goto("panic", "decide")
    /\ IF /\ attr.shouldPanic /\ failed = "PanicsOnly"
          /\ cat.label \in {"EncodingGap", "OverApproximation"}
       THEN Fail("Other") ELSE Keep
    /\ UNCHANGED <<subject, rows, feas, demoted, cat, answer, lanes, done>>

-----------------------------------------------------------------------------
(* The two-lane retry.  A lane is a child driver on this harness's name.  Its
   report says whether the harness itself was proved (target) and whether its
   loop-contract obligations were listed (oblig), and the same of the other
   harnesses that the --harness filter also selects. *)

(* lane_budget *)
LaneBudget == RetryBudget - lanes.elapsed

Decide ==
    /\ pc = "decide"
    /\ IF EffectiveNow \/ ~attr.loops
       THEN pc' = "report" /\ UNCHANGED lanes
       ELSE /\ pc' = "lanes"
            /\ lanes' = [NoLanes EXCEPT !.o = "run", !.p = "run", !.depth = 1]
    /\ UNCHANGED <<subject, result, answer, done>>

(* What a lane on this harness can report: a should_panic success is worded
   differently and a sibling is there only if the filter selects one. *)
Possible(rep) ==
    /\ rep.target => ~attr.shouldPanic
    /\ rep.sibling \/ rep.sibOblig => attr.sibling

EndTime(d) == Max({lanes.elapsed, lanes.since + d})

(* A lane ends after d with a report, or is lost (timeout, failed spawn). *)
LaneOEnds(rep, d, end) ==
    /\ pc = "lanes" /\ lanes.o = "run" /\ Possible(rep)
    /\ lanes.since + d <= RetryBudget
    /\ end = "lost" => rep = NoReport
    /\ lanes' = [lanes EXCEPT !.o = end, !.oRep = rep, !.elapsed = EndTime(d)]
    /\ UNCHANGED <<subject, pc, result, answer, done>>

LanePEnds(rep, d, end) ==
    /\ pc = "lanes" /\ lanes.p = "run" /\ Possible(rep)
    /\ ~rep.oblig /\ ~rep.sibOblig
    /\ lanes.since + d <= RetryBudget
    /\ end = "lost" => rep = NoReport
    /\ lanes' = [lanes EXCEPT !.p = end, !.pRep = rep, !.elapsed = EndTime(d)]
    /\ UNCHANGED <<subject, pc, result, answer, done>>

(* child_proved: some line of the child's output is the positive verdict.  A
   lane inherits --quiet, under which a driver prints no verdict. *)
ChildProved(rep) == ~opts.quiet /\ (rep.target \/ rep.sibling)

(* Mutant: the positive verdict is enough. *)
ObligationsPresentMutant(rep) == TRUE
(* obligations_present_in_report *)
ObligationsPresent(rep) == ~opts.quiet /\ (rep.oblig \/ rep.sibOblig)

Joined == pc = "lanes" /\ lanes.o # "run" /\ lanes.p # "run"

(* The obligations lane did not run or did not prove. *)
GiveUp ==
    /\ Joined /\ ~ChildProved(lanes.oRep)
    /\ pc' = "report"
    /\ UNCHANGED <<subject, result, answer, lanes, done>>

(* Mutant: deeper as long as there is time. *)
CanDeepenMutant == LaneBudget >= MinLane
(* One of LANE_P_DEPTHS is left, and time for it. *)
CanDeepen == lanes.depth < Depths /\ LaneBudget >= MinLane

(* The properties lane again, one unroll depth further. *)
Deepen ==
    /\ Joined /\ ChildProved(lanes.oRep) /\ ~ChildProved(lanes.pRep) /\ CanDeepen
    /\ lanes' = [lanes EXCEPT !.p = "run", !.depth = @ + 1, !.since = lanes.elapsed]
    /\ UNCHANGED <<subject, pc, result, answer, done>>

(* merge: the obligations were there and discharged, and the properties hold. *)
LanesProve == /\ ChildProved(lanes.oRep) /\ ObligationsPresent(lanes.oRep)
              /\ ChildProved(lanes.pRep)

(* Mutant: a proof at a deeper unrolling is not taken into account. *)
MergeMutant ==
    /\ Joined /\ ChildProved(lanes.oRep)
    /\ ChildProved(lanes.pRep) \/ ~CanDeepen
    /\ pc' = "report"
    /\ IF LanesProve /\ lanes.depth = 1
       THEN /\ status' = "Success" /\ failed' = "None"
            /\ rows' = {IF r \in Failing THEN "ok" ELSE r : r \in rows}
            /\ lanes' = [lanes EXCEPT !.upgraded = TRUE]
       ELSE UNCHANGED <<status, failed, rows, lanes>>
    /\ UNCHANGED <<subject, feas, demoted, cat, answer, done>>
(* The outcome of the retry.  An upgrade: failed rows become successes. *)
Merge ==
    /\ Joined /\ ChildProved(lanes.oRep)
    /\ ChildProved(lanes.pRep) \/ ~CanDeepen
    /\ pc' = "report"
    /\ IF LanesProve
       THEN /\ status' = "Success" /\ failed' = "None"
            /\ rows' = {IF r \in Failing THEN "ok" ELSE r : r \in rows}
            /\ lanes' = [lanes EXCEPT !.upgraded = TRUE]
       ELSE UNCHANGED <<status, failed, rows, lanes>>
    /\ UNCHANGED <<subject, feas, demoted, cat, answer, done>>

(* process_output and the return of the result.  That writing the output or the
   playback may fail is HarnessRunner's CheckFails: it leaves no verdict. *)
Report ==
    /\ Goto("report", "pick")
    /\ done' = [h \in DOMAIN done \union {cur} |->
                  IF h = cur
                  THEN [effective |-> EffectiveNow, status |-> status,
                        failed |-> failed, rows |-> rows, cat |-> cat,
                        answer |-> answer, attr |-> attr, ev |-> ev,
                        lanes |-> lanes]
                  ELSE done[h]]
    /\ UNCHANGED <<subject, result, answer, lanes>>

Finished ==
    /\ pc = "error" \/ (pc = "pick" /\ DOMAIN done = crate.names)
    /\ UNCHANGED vars

Lane ==
    /\ pc = "lanes"
    /\ \/ \E rep \in Reports, d \in 0..RetryBudget, end \in {"ended", "lost"} :
             LaneOEnds(rep, d, end) \/ LanePEnds(rep, d, end)
       \/ GiveUp \/ Deepen \/ Merge

Gate == \/ Demote \/ Classify \/ VacuityGate \/ NoChecksGate \/ CoverGate
        \/ ConformanceGate \/ FallbackGate \/ PanicGate

Next ==
    \/ \E h \in crate.names, a \in Scenarios[scene].attributes,
          e \in Scenarios[scene].evidence : Pick(h, a, e)
    \/ pc = "run" /\ \E a \in Results(Scenarios[scene].kinds, opts.strict) : RunAy(a)
    \/ RunError \/ Gate \/ Decide \/ Lane \/ Report \/ Finished

Spec == Init /\ [][Next]_vars

-----------------------------------------------------------------------------
(* Properties *)

(* Every variable has its type. *)
TypeOK ==
    /\ crate \in Scenarios[scene].crates /\ opts \in OptionType
    /\ cur \in crate.names \union {NoHarness}
    /\ attr \in AttributeType
    /\ pc \in {"pick", "run", "demote", "classify", "vacuity", "nochecks",
               "cover", "conformance", "fallback", "panic", "decide", "lanes",
               "report", "error"}
    /\ status \in {"Success", "Failure"}
    /\ failed \in {"None", "PanicsOnly", "Other"}
    /\ rows \subseteq AllKinds
    /\ demoted \in BOOLEAN
    /\ cat.label \in {"None", "Genuine", "Unknown", "EncodingGap", "OverApproximation"}
    /\ answer \in {"none", "proof", "ctrex", "unknown"}
    /\ lanes.o \in {"off", "run", "ended", "lost"}
    /\ lanes.p \in {"off", "run", "ended", "lost"}
    /\ lanes.elapsed \in 0..RetryBudget /\ lanes.depth \in 0..Depths
    /\ DOMAIN done \subseteq crate.names

(* A verdict of this lane's own making, not of the retry. *)
Proved(h)  == /\ done[h].effective /\ ~done[h].attr.shouldPanic
              /\ ~done[h].lanes.upgraded
Panicked(h) == done[h].effective /\ done[h].attr.shouldPanic

(* check_harness: an ordinary harness that ends as verified was answered by a
   proof, no demoting count and no suspect approximation is charged to it, and
   the proof is not vacuous: it has reachable checks, under the relaxations
   given on the command line, and the covers it owes. *)
ProofIsClean ==
    \A h \in DOMAIN done : Proved(h) =>
        LET e == done[h] IN
        /\ e.answer = "proof"
        /\ Total(Demoting(h, crate)) = 0
        /\ SoundFallbacks(h, crate) = 0
        /\ Vacuous(e.rows) => opts.allowVacuous
        /\ e.rows = {} => e.attr.bare
        /\ opts.strict => "coverUnsat" \notin e.rows
        /\ e.attr.conformance => "coverSat" \in e.rows

(* check_harness, V6: a should_panic harness that ends as verified has a
   counterexample that violates panics only, was not cut off by the unwind
   bound, and that no gap and no forced failure of the encoding explains. *)
PanicProofGenuine ==
    \A h \in DOMAIN done : Panicked(h) =>
        LET e == done[h] IN
        /\ e.answer = "ctrex" /\ e.cat.label = "Genuine"
        /\ e.rows \intersect Failing \in {{"panic"}, {"chc"}}
        /\ Demoting(h, crate)["gap"] = 0
        /\ FailClosed(h, crate) = 0

(* The freeing events the fail-closed contract charges to a harness. *)
ChargedEvents(h) ==
    EffectiveTotal(With(Demoting(h, crate), SoundApprox(h, crate)))

(* ... and those of them that the exact lookup finds under its own keys. *)
OwnEvents(h) ==
    EffectiveTotal(With(Demoting(h, crate),
                        Merged(crate.approx, LookupKeys(crate.approx, h))))

(* ctrex_certifiable_genuine: a counterexample called genuine although freeing
   events are charged to its harness comes with complete evidence that some
   violated check is independent of the freed variables.  That evidence accounts
   for every event under the harness's own keys, whatever other keys the crate's
   map holds, and for every event charged to it when all of those are under the
   keys the lookup finds. *)
CertifiedComplete ==
    \A h \in DOMAIN done :
        LET e == done[h] IN
        e.cat.label = "Genuine" /\ ChargedEvents(h) > 0 =>
            /\ e.ev.complete /\ e.ev.independent
            /\ OwnEvents(h) <= e.ev.accounted
            /\ OneKeySpace(h, crate) => e.ev.accounted = ChargedEvents(h)

(* ctrex_certifiable_genuine, as it is documented: "EVERY approximation on the
   harness recorded its freed-var identity".  A counterexample called genuine
   has evidence for every event charged to its harness.  The code does not keep
   this promise on a map that mixes harness and function keys. *)
EveryApproximationAccounted ==
    \A h \in DOMAIN done :
        done[h].cat.label = "Genuine" /\ ChargedEvents(h) > 0 =>
            done[h].ev.accounted = ChargedEvents(h)

(* attributable_to_harness: nothing the compiler counted is lost between the
   harnesses.  When a demoting count or a suspect approximation was recorded
   anywhere in the crate, not all of its harnesses stand as proofs. *)
CrateTaint ==
    \/ \E k \in {"gap", "offset"} :
          IF DOMAIN crate[k].per = {} THEN crate[k].total > 0
          ELSE SumOver(crate[k].per, DOMAIN crate[k].per) > 0
    \/ \E k \in DOMAIN crate.approx :
          crate.approx[k]["drop"] + crate.approx[k]["unhandled"] > 0

CrateTaintSurfaces ==
    DOMAIN done = crate.names /\ crate.names # {} /\ CrateTaint
        => \E h \in crate.names : ~Proved(h)

(* loop_two_lane.rs: "SAFE iff Lane O discharges the obligations AND Lane P
   proves the properties".  An upgraded harness was itself proved in both
   lanes, with its loop-contract obligations in the obligations lane. *)
LaneUpgradeSound ==
    \A h \in DOMAIN done : done[h].lanes.upgraded =>
        /\ done[h].lanes.oRep.target /\ done[h].lanes.oRep.oblig
        /\ done[h].lanes.pRep.target

(* maybe_two_lane_retry: no proof is lost.  A harness that both lanes proved,
   with its obligations, is verified, whichever lane ends first and at whichever
   depth the properties were proved. *)
LaneProofsCount ==
    \A h \in DOMAIN done :
        /\ done[h].lanes.oRep.target /\ done[h].lanes.oRep.oblig
        /\ done[h].lanes.pRep.target
        => done[h].effective

(* The gates only fail closed: between the solver's answer and the retry no
   step turns a result that does not count as verified into one that does. *)
GatesNeverRelax ==
    [][pc \notin {"pick", "run", "lanes"} /\ ~EffectiveNow => ~EffectiveNow']_vars
=============================================================================
