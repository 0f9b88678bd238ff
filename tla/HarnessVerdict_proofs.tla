------------------------- MODULE HarnessVerdict_proofs -------------------------
(***************************************************************************)
(* For every family of crates, command lines, harnesses and evidence, and  *)
(* for every lane budget: what a verdict of check_harness says about the   *)
(* solver's answer, the counts charged to the harness and the retry lanes. *)
(***************************************************************************)
EXTENDS HarnessVerdict, Attribution_proofs

(* How far the pipeline has come: the locations behind each gate. *)
PastPanic       == {"decide", "lanes", "report"}
PastFallback    == PastPanic \union {"panic"}
PastConformance == PastFallback \union {"fallback"}
PastCover       == PastConformance \union {"conformance"}
PastNoChecks    == PastCover \union {"cover"}
PastVacuity     == PastNoChecks \union {"nochecks"}
PastClassify    == PastVacuity \union {"vacuity"}
PastDemote      == PastClassify \union {"classify"}
PastRun         == PastDemote \union {"demote"}
Gates           == PastRun \ PastPanic

LaneStates == {"off", "run", "ended", "lost"}
LaneType == [o : LaneStates, p : LaneStates, oRep : Reports, pRep : Reports,
             since : 0..RetryBudget, elapsed : 0..RetryBudget, depth : 0..Depths,
             upgraded : BOOLEAN]

(* The inputs come from the scenario, and the harness is one of the crate's. *)
SubjectInv ==
    /\ scene \in DOMAIN Scenarios
    /\ opts \in Scenarios[scene].options
    /\ lanes \in LaneType
    /\ pc # "pick" => cur \in crate.names /\ attr \in Scenarios[scene].attributes

(* What the result still has to do with the answer: a success that no lane
   supplied is the solver's, and a class of panics is its counterexample's. *)
ResultInv ==
    /\ pc \in PastRun =>
         /\ status = "Success" /\ ~lanes.upgraded => answer = "proof" /\ failed = "None"
         /\ failed = "PanicsOnly" =>
              /\ status = "Failure" /\ answer = "ctrex"
              /\ rows \intersect Failing \in {{"panic"}, {"chc"}}
         /\ demoted => failed # "PanicsOnly"
    /\ pc \in {"run", "demote"} => ~demoted

(* A success has what the gates behind it demand. *)
ProofInv ==
    status = "Success" /\ ~lanes.upgraded =>
        /\ pc \in PastDemote => Total(Demoting(cur, crate)) = 0
        /\ pc \in PastVacuity /\ ~attr.shouldPanic /\ Vacuous(rows) => opts.allowVacuous
        /\ pc \in PastNoChecks /\ ~attr.shouldPanic /\ rows = {} => attr.bare
        /\ pc \in PastCover /\ opts.strict => "coverUnsat" \notin rows
        /\ pc \in PastConformance /\ ~attr.shouldPanic /\ attr.conformance =>
              "coverSat" \in rows
        /\ pc \in PastFallback => SoundFallbacks(cur, crate) = 0

(* A counterexample that only panics was classified, and behind the last gate
   it is genuine if the harness should panic. *)
PanicInv ==
    failed = "PanicsOnly" =>
        /\ pc \in PastClassify => cat.label \in Labels
        /\ pc \in PastPanic /\ attr.shouldPanic => cat.label = "Genuine"

(* The label Genuine comes from the classification of this harness only. *)
CatInv ==
    pc # "pick" /\ cat.label = "Genuine" =>
        Recertify(ClassifyCtrex(cur, crate), ev).label = "Genuine"

(* Nothing of an earlier retry is left, a report says what a lane on this
   harness can say, and an upgrade or a missing one is the merge's decision. *)
LaneInv ==
    /\ pc \notin {"pick", "lanes", "report"} => lanes = NoLanes
    /\ pc = "lanes" => ~lanes.upgraded
    /\ pc # "pick" => Possible(lanes.oRep) /\ Possible(lanes.pRep)
    /\ pc # "pick" /\ lanes.upgraded => status = "Success" /\ failed = "None" /\ LanesProve
    /\ pc = "report" /\ ~opts.quiet /\ lanes.oRep.target /\ lanes.oRep.oblig
       /\ lanes.pRep.target => EffectiveNow

(* What the properties say of the verdicts given so far, and what they follow
   from for the two that hold under a proviso. *)
GenuineInv ==
    \A h \in DOMAIN done : done[h].cat.label = "Genuine" =>
        Recertify(ClassifyCtrex(h, crate), done[h].ev).label = "Genuine"
UpgradeInv ==
    \A h \in DOMAIN done :
        LET e == done[h] IN
        /\ e.attr \in Scenarios[scene].attributes
        /\ e.lanes.upgraded /\ ~e.attr.sibling =>
              e.lanes.oRep.target /\ e.lanes.oRep.oblig /\ e.lanes.pRep.target
        /\ ~opts.quiet /\ e.lanes.oRep.target /\ e.lanes.oRep.oblig
           /\ e.lanes.pRep.target => e.effective
DoneInv == ProofIsClean /\ PanicProofGenuine /\ GenuineInv /\ UpgradeInv

(* The inductive invariant. *)
IInv == /\ TypeOK /\ SubjectInv /\ ResultInv /\ ProofInv /\ PanicInv /\ CatInv
        /\ LaneInv /\ DoneInv

-----------------------------------------------------------------------------
(* What the scenario says about the crate and the command line. *)
LEMMA Inputs ==
    ASSUME TypeOK, SubjectInv
    PROVE  /\ CountsOK(crate) /\ NoHarness \notin crate.names
           /\ Scenarios[scene].attributes \subseteq AttributeType
           /\ Scenarios[scene].kinds \subseteq AllKinds
    BY VerdictAssumption DEF TypeOK, SubjectInv, ScenarioOK

(* The counts the gates compare with zero are naturals. *)
LEMMA GateCounts ==
    ASSUME TypeOK, SubjectInv
    PROVE  /\ Total(Demoting(cur, crate)) \in Nat
           /\ SoundFallbacks(cur, crate) \in Nat
    <1>1. /\ Demoting(cur, crate) \in [Cats -> Nat]
          /\ SoundApprox(cur, crate) \in [ApproxCats -> Nat]
        BY Inputs, ChargedCounts
    <1>2. /\ SoundApprox(cur, crate)["unhandled"] \in Nat
          /\ SoundApprox(cur, crate)["drop"] \in Nat
        BY <1>1 DEF ApproxCats
    <1> QED BY <1>1, <1>2, TotalOfCounts DEF SoundFallbacks

(* SolverAnswer: a success is a proof, and a class of panics belongs to a
   counterexample whose only failed rows are panics or the aggregate one. *)
LEMMA ResultFacts ==
    ASSUME NEW kinds, kinds \subseteq AllKinds, NEW strict \in BOOLEAN,
           NEW a \in Results(kinds, strict)
    PROVE  /\ a.says \in {"proof", "ctrex", "unknown"}
           /\ a.status \in {"Success", "Failure"}
           /\ a.failed \in {"None", "PanicsOnly", "Other"}
           /\ a.rows \subseteq AllKinds
           /\ a.status = "Success" => a.says = "proof" /\ a.failed = "None"
           /\ a.failed = "PanicsOnly" =>
                /\ a.status = "Failure" /\ a.says = "ctrex"
                /\ a.rows \intersect Failing \in {{"panic"}, {"chc"}}
    <1> USE DEF Result, AllKinds, Failing, Settled, CoverKinds
    <1>1. CASE a \in Proofs(kinds)
        <2>1. CASE a \in {Result("proof", "Success", "None", r, "Undetermined") :
                            r \in ProofRows(kinds)}
            <3>1. PICK r \in ProofRows(kinds) :
                     a = Result("proof", "Success", "None", r, "Undetermined")
                BY <2>1
            <3> QED BY <3>1 DEF ProofRows
        <2>2. CASE a \in {Result("proof", "Success", "None", r, x) :
                            r \in {k \in ProofRows(kinds) : CheckKinds(k) # {}},
                            x \in {"Reachable", "Infeasible"}}
            <3>1. PICK r \in ProofRows(kinds), x \in {"Reachable", "Infeasible"} :
                     a = Result("proof", "Success", "None", r, x)
                BY <2>2
            <3> QED BY <3>1 DEF ProofRows
        <2> QED BY <1>1, <2>1, <2>2 DEF Proofs
    <1>2. CASE a \in Unwitnessed(kinds, strict)
        <2>1. PICK r \in SUBSET kinds :
                 a = Result("proof", "Failure", "Other", r, "Undetermined")
            BY <1>2 DEF Unwitnessed, ProofRows
        <2> QED BY <2>1
    <1>3. CASE a \in Ctrexs(kinds)
        <2>1. PICK r \in SUBSET kinds :
                 a = Result("ctrex", "Failure", DetermineFailed(r), r, "Undetermined")
            BY <1>3 DEF Ctrexs
        <2>2. DetermineFailed(r) \in {"None", "PanicsOnly", "Other"}
            BY DEF DetermineFailed
        <2>3. DetermineFailed(r) = "PanicsOnly" => r \intersect Failing = {"panic"}
            BY DEF DetermineFailed
        <2> QED BY <2>1, <2>2, <2>3
    <1>4. CASE a \in ChcCtrexs
        BY <1>4 DEF ChcCtrexs
    <1>5. CASE a \in Unknowns(kinds)
        <2>1. PICK r \in SUBSET AllKinds :
                 a = Result("unknown", "Failure", "Other", r, "Undetermined")
            BY <1>5 DEF Unknowns
        <2> QED BY <2>1
    <1> QED BY <1>1, <1>2, <1>3, <1>4, <1>5 DEF Results

(* The later of two instants. *)
LEMMA LaterOf ==
    ASSUME NEW a \in Nat, NEW b \in Nat
    PROVE  Max({a, b}) \in {a, b} /\ Max({a, b}) >= a /\ Max({a, b}) >= b
    <1>1. \E x \in {a, b} : \A y \in {a, b} : x >= y
        <2>1. CASE a >= b
            BY <2>1
        <2>2. CASE b >= a
            BY <2>2
        <2> QED BY <2>1, <2>2
    <1> DEFINE m == CHOOSE x \in {a, b} : \A y \in {a, b} : x >= y
    <1>2. m \in {a, b} /\ \A y \in {a, b} : m >= y
        BY <1>1, Zenon
    <1>3. Max({a, b}) = m
        BY Zenon DEF Max
    <1> QED BY <1>2, <1>3

(* Verdicts already given stay as they are. *)
LEMMA DoneKept ==
    ASSUME DoneInv, UNCHANGED <<scene, crate, opts, done>>
    PROVE  DoneInv'
    BY DEF DoneInv, ProofIsClean, PanicProofGenuine, GenuineInv, UpgradeInv,
           Proved, Panicked

-----------------------------------------------------------------------------
(* Every initial state satisfies the invariant. *)
LEMMA InitInv == Init => IInv
    <1> SUFFICES ASSUME Init PROVE IInv
        OBVIOUS
    <1> USE DEF Init
    <1>1. opts \in OptionType /\ RetryBudget \in Nat /\ Depths \in Nat
        BY VerdictAssumption DEF ScenarioOK
    <1>d. DOMAIN done = {}
        OBVIOUS
    <1>2. TypeOK
        <2>1. attr \in AttributeType
            BY DEF AttributeType
        <2>2. lanes.o = "off" /\ lanes.p = "off" /\ lanes.elapsed = 0 /\ lanes.depth = 0
            BY DEF NoLanes
        <2>3. cat.label = "None"
            BY DEF NoCat, Category
        <2>4. demoted \in BOOLEAN
            OBVIOUS
        <2>5. rows \subseteq AllKinds /\ cur \in crate.names \union {NoHarness}
            OBVIOUS
        <2>6. DOMAIN done \subseteq crate.names
            BY <1>d
        <2>7. lanes.elapsed \in 0..RetryBudget /\ lanes.depth \in 0..Depths
            BY <2>2, <1>1
        <2> QED BY <1>1, <2>1, <2>2, <2>3, <2>4, <2>5, <2>6, <2>7 DEF TypeOK
    <1>3. lanes \in LaneType
        BY <1>1 DEF LaneType, NoLanes, NoReport, Reports, LaneStates
    <1>4. SubjectInv
        BY <1>3 DEF SubjectInv
    <1>5. ResultInv /\ ProofInv /\ PanicInv /\ CatInv /\ LaneInv
        BY DEF ResultInv, ProofInv, PanicInv, CatInv, LaneInv, PastPanic, PastFallback,
               PastConformance, PastCover, PastNoChecks, PastVacuity, PastClassify,
               PastDemote, PastRun
    <1>6. DoneInv
        BY DEF DoneInv, ProofIsClean, PanicProofGenuine, GenuineInv, UpgradeInv
    <1> QED BY <1>2, <1>4, <1>5, <1>6 DEF IInv

(* What all gates have in common: they may fail the result, never mend it, and
   touch neither the harness nor the retry nor the verdicts given. *)
LEMMA GateStep ==
    ASSUME IInv, pc \in Gates, pc' \in PastDemote \ {"lanes", "report"},
           UNCHANGED <<subject, rows, answer, lanes, done>>,
           \/ UNCHANGED <<status, failed>>
           \/ status' = "Failure" /\ failed' \in {"Other", failed},
           demoted' \in BOOLEAN, demoted' => failed' # "PanicsOnly",
           cat'.label \in Labels \union {"None", "Unknown"},
           cat'.label = "Genuine" =>
               Recertify(ClassifyCtrex(cur, crate), ev).label = "Genuine"
    PROVE  TypeOK' /\ SubjectInv' /\ ResultInv' /\ CatInv' /\ LaneInv' /\ DoneInv'
    <1> USE DEF subject
    <1>1. pc \in PastRun /\ pc' \in PastRun /\ pc' \notin {"run", "demote", "pick"}
        BY DEF Gates, PastPanic, PastFallback, PastConformance, PastCover, PastNoChecks,
               PastVacuity, PastClassify, PastDemote, PastRun
    <1>2. lanes = NoLanes /\ lanes' = NoLanes /\ ~lanes.upgraded
        BY DEF IInv, LaneInv, Gates, PastPanic, PastFallback, PastConformance, PastCover,
               PastNoChecks, PastVacuity, PastClassify, PastDemote, PastRun, NoLanes
    <1>3. TypeOK'
        BY DEF IInv, TypeOK, Labels, PastPanic, PastFallback, PastConformance, PastCover,
               PastNoChecks, PastVacuity, PastClassify, PastDemote
    <1>4. SubjectInv'
        BY <1>1 DEF IInv, SubjectInv, Gates, PastPanic, PastFallback, PastConformance,
               PastCover, PastNoChecks, PastVacuity, PastClassify, PastDemote, PastRun
    <1>5. ResultInv'
        BY <1>1, <1>2 DEF IInv, ResultInv
    <1>6. CatInv'
        BY DEF CatInv
    <1>7. LaneInv'
        BY <1>1, <1>2 DEF IInv, LaneInv, Possible, NoLanes, NoReport
    <1>8. DoneInv'
        BY DoneKept DEF IInv
    <1> QED BY <1>3, <1>4, <1>5, <1>6, <1>7, <1>8

-----------------------------------------------------------------------------
(* The gates, one by one: the clause each adds. *)

(* demote_for_all_unsoundness: behind it a success has no demoting count. *)
LEMMA DemoteStep == ASSUME IInv, Demote PROVE IInv'
    <1> USE DEF Demote, Goto, Keep, Fail, subject
    <1>1. lanes = NoLanes /\ ~lanes.upgraded
        BY DEF IInv, LaneInv, NoLanes
    <1>2. pc = "demote" /\ pc' = "classify"
        OBVIOUS
    <1>3. demoted' \in BOOLEAN /\ (demoted' => failed' # "PanicsOnly")
        <2>1. demoted' \in BOOLEAN
            BY Zenon
        <2>2. demoted' => failed' # "PanicsOnly"
            OBVIOUS
        <2> QED BY <2>1, <2>2
    <1>4. /\ pc \in Gates /\ pc' \in PastDemote \ {"lanes", "report"}
          /\ UNCHANGED <<subject, rows, answer, lanes, done>>
          /\ \/ UNCHANGED <<status, failed>>
             \/ status' = "Failure" /\ failed' \in {"Other", failed}
          /\ cat'.label \in Labels \union {"None", "Unknown"}
          /\ cat'.label = "Genuine" =>
               Recertify(ClassifyCtrex(cur, crate), ev).label = "Genuine"
        BY <1>2 DEF IInv, TypeOK, CatInv, Labels, Gates, PastPanic, PastFallback,
               PastConformance, PastCover, PastNoChecks, PastVacuity, PastClassify,
               PastDemote, PastRun
    <1>5. TypeOK' /\ SubjectInv' /\ ResultInv' /\ CatInv' /\ LaneInv' /\ DoneInv'
        BY <1>3, <1>4, GateStep
    <1>6. Total(Demoting(cur, crate)) \in Nat
        BY GateCounts DEF IInv
    <1>7. ASSUME status' = "Success" PROVE Total(Demoting(cur, crate)) = 0
        <2>1. ~demoted' /\ status = "Success"
            BY <1>7
        <2>2. ~ (Total(Demoting(cur, crate)) > 0)
            BY <2>1, Zenon
        <2> QED BY <1>6, <2>2
    <1>8. ProofInv'
        BY <1>2, <1>7 DEF ProofInv, PastPanic, PastFallback, PastConformance, PastCover,
               PastNoChecks, PastVacuity, PastClassify
    <1>9. PanicInv'
        BY <1>2 DEF PanicInv, PastPanic, PastFallback, PastConformance, PastCover,
               PastNoChecks, PastVacuity, PastClassify
    <1> QED BY <1>5, <1>8, <1>9 DEF IInv

(* classify_ctrex and its recertification: a failure has a category. *)
LEMMA ClassifyStep == ASSUME IInv, Classify PROVE IInv'
    <1> USE DEF Classify, Goto, subject
    <1> DEFINE found == Recertify(ClassifyCtrex(cur, crate), ev)
    <1>1. pc = "classify" /\ pc' = "vacuity"
        OBVIOUS
    <1>2. found.label \in Labels
        BY ClassifiedLabel
    <1>3. cat' \in {cat, Unknown, found}
        OBVIOUS
    <1>4. Unknown.label = "Unknown"
        BY DEF Unknown, Category
    <1> HIDE DEF found
    <1>5. /\ cat'.label \in Labels \union {"None", "Unknown"}
          /\ cat'.label = "Genuine" => found.label = "Genuine"
        BY <1>1, <1>2, <1>3, <1>4 DEF IInv, TypeOK, CatInv, Labels, found
    <1>6. /\ pc \in Gates /\ pc' \in PastDemote \ {"lanes", "report"}
          /\ pc \in PastRun
        BY <1>1 DEF Gates, PastPanic, PastFallback, PastConformance, PastCover,
               PastNoChecks, PastVacuity, PastClassify, PastDemote, PastRun
    <1>7. demoted' \in BOOLEAN /\ (demoted' => failed' # "PanicsOnly")
        BY <1>6 DEF IInv, TypeOK, ResultInv
    <1>8. TypeOK' /\ SubjectInv' /\ ResultInv' /\ CatInv' /\ LaneInv' /\ DoneInv'
        BY <1>5, <1>6, <1>7, GateStep DEF found
    <1>9. ProofInv'
        BY <1>1 DEF IInv, ProofInv, PastPanic, PastFallback, PastConformance, PastCover,
               PastNoChecks, PastVacuity, PastClassify, PastDemote
    <1>10. ASSUME failed' = "PanicsOnly" PROVE cat'.label \in Labels
        <2>1. /\ status = "Failure" /\ ~demoted
              /\ rows \intersect Failing \in {{"panic"}, {"chc"}}
            BY <1>6, <1>10 DEF IInv, ResultInv
        <2>2. ~UnwindExhausted
            BY <2>1 DEF UnwindExhausted, Failing
        <2>3. cat' = found
            BY <2>1, <2>2, <1>10 DEF found
        <2> QED BY <2>3, <1>2
    <1>11. PanicInv'
        BY <1>1, <1>10 DEF PanicInv, PastPanic
    <1> QED BY <1>8, <1>9, <1>11 DEF IInv

(* A gate that only looks at rows, attributes and options. *)
LEMMA PlainGate ==
    ASSUME IInv, pc \in Gates \ {"demote", "classify", "fallback", "panic"},
           pc' \in PastDemote \ {"lanes", "report"},
           UNCHANGED <<subject, rows, demoted, cat, answer, lanes, done>>,
           \/ UNCHANGED <<status, failed>>
           \/ status' = "Failure" /\ failed' \in {"Other", failed}
    PROVE  /\ TypeOK' /\ SubjectInv' /\ ResultInv' /\ CatInv' /\ LaneInv' /\ DoneInv'
           /\ pc' \notin PastPanic => PanicInv'
    <1>1. /\ cat'.label \in Labels \union {"None", "Unknown"}
          /\ cat'.label = "Genuine" =>
               Recertify(ClassifyCtrex(cur, crate), ev).label = "Genuine"
        BY DEF IInv, TypeOK, CatInv, Labels, Gates, PastPanic, PastFallback,
               PastConformance, PastCover, PastNoChecks, PastVacuity, PastClassify,
               PastDemote, PastRun
    <1>2. demoted' \in BOOLEAN /\ (demoted' => failed' # "PanicsOnly")
        BY DEF IInv, TypeOK, ResultInv, Gates
    <1>3. TypeOK' /\ SubjectInv' /\ ResultInv' /\ CatInv' /\ LaneInv' /\ DoneInv'
        BY <1>1, <1>2, GateStep
    <1>4. pc \in PastClassify
        BY DEF Gates, PastPanic, PastFallback, PastConformance, PastCover, PastNoChecks,
               PastVacuity, PastClassify, PastDemote, PastRun
    <1>5. pc' \notin PastPanic => PanicInv'
        BY <1>4 DEF IInv, PanicInv
    <1> QED BY <1>3, <1>5

(* The vacuity, no-checks, cover and conformance gates only fail the result. *)
LEMMA PlainGateSteps ==
    ASSUME IInv, VacuityGate \/ NoChecksGate \/ CoverGate \/ ConformanceGate
    PROVE  IInv'
    <1> USE DEF Goto, Keep, Fail, FailKeepingClass, subject
    <1> USE DEF PastPanic, PastFallback, PastConformance, PastCover, PastNoChecks,
                PastVacuity, PastClassify, PastDemote, PastRun, Gates
    <1>1. CASE VacuityGate
        <2>1. ProofInv'
            BY <1>1 DEF VacuityGate, IInv, TypeOK, ProofInv, Vacuous
        <2> QED BY <1>1, <2>1, PlainGate DEF VacuityGate, IInv
    <1>2. CASE NoChecksGate
        <2>1. ProofInv'
            BY <1>2 DEF NoChecksGate, IInv, TypeOK, ProofInv, Vacuous
        <2> QED BY <1>2, <2>1, PlainGate DEF NoChecksGate, IInv
    <1>3. CASE CoverGate
        <2>1. ProofInv'
            BY <1>3 DEF CoverGate, IInv, TypeOK, ProofInv, Vacuous
        <2>2. \/ UNCHANGED <<status, failed>>
              \/ status' = "Failure" /\ failed' \in {"Other", failed}
            BY <1>3 DEF CoverGate
        <2> QED BY <1>3, <2>1, <2>2, PlainGate DEF CoverGate, IInv
    <1>4. CASE ConformanceGate
        <2>1. ProofInv'
            BY <1>4 DEF ConformanceGate, IInv, TypeOK, ProofInv, Vacuous
        <2>2. \/ UNCHANGED <<status, failed>>
              \/ status' = "Failure" /\ failed' \in {"Other", failed}
            BY <1>4 DEF ConformanceGate
        <2> QED BY <1>4, <2>1, <2>2, PlainGate DEF ConformanceGate, IInv
    <1> QED BY <1>1, <1>2, <1>3, <1>4

(* apply_sound_fallback_fail_close: behind it a success has no suspect
   approximation. *)
LEMMA FallbackStep == ASSUME IInv, FallbackGate PROVE IInv'
    <1> USE DEF FallbackGate, Goto, Keep, Fail, subject
    <1> USE DEF PastPanic, PastFallback, PastConformance, PastCover, PastNoChecks,
                PastVacuity, PastClassify, PastDemote, PastRun, Gates
    <1>1. pc = "fallback" /\ pc' = "panic"
        OBVIOUS
    <1>2. \/ UNCHANGED <<status, failed, cat>>
          \/ /\ status' = "Failure" /\ failed' = "Other"
             /\ cat'.label = "OverApproximation"
        BY DEF Category
    <1>3. SoundFallbacks(cur, crate) \in Nat
        BY GateCounts DEF IInv
    <1>4. status' = "Success" => SoundFallbacks(cur, crate) = 0
        BY <1>3 DEF IInv, TypeOK
    <1>5. /\ cat'.label \in Labels \union {"None", "Unknown"}
          /\ cat'.label = "Genuine" =>
               Recertify(ClassifyCtrex(cur, crate), ev).label = "Genuine"
        BY <1>1, <1>2 DEF IInv, TypeOK, CatInv, Labels
    <1>6. demoted' \in BOOLEAN /\ (demoted' => failed' # "PanicsOnly")
        BY <1>1, <1>2 DEF IInv, TypeOK, ResultInv
    <1>7. TypeOK' /\ SubjectInv' /\ ResultInv' /\ CatInv' /\ LaneInv' /\ DoneInv'
        BY <1>1, <1>2, <1>5, <1>6, GateStep
    <1>8. ProofInv'
        BY <1>1, <1>2, <1>4 DEF IInv, ProofInv, Vacuous
    <1>9. PanicInv'
        BY <1>1, <1>2 DEF IInv, PanicInv
    <1> QED BY <1>7, <1>8, <1>9 DEF IInv

(* V6: behind it a class of panics of a should_panic harness is genuine. *)
LEMMA PanicStep == ASSUME IInv, PanicGate PROVE IInv'
    <1> USE DEF PanicGate, Goto, Keep, Fail, subject
    <1> USE DEF PastPanic, PastFallback, PastConformance, PastCover, PastNoChecks,
                PastVacuity, PastClassify, PastDemote, PastRun, Gates
    <1>1. pc = "panic" /\ pc' = "decide"
        OBVIOUS
    <1>2. \/ UNCHANGED <<status, failed>>
          \/ status' = "Failure" /\ failed' = "Other"
        OBVIOUS
    <1>3. /\ cat'.label \in Labels \union {"None", "Unknown"}
          /\ cat'.label = "Genuine" =>
               Recertify(ClassifyCtrex(cur, crate), ev).label = "Genuine"
        BY <1>1 DEF IInv, TypeOK, CatInv, Labels
    <1>4. demoted' \in BOOLEAN /\ (demoted' => failed' # "PanicsOnly")
        BY <1>1, <1>2 DEF IInv, TypeOK, ResultInv
    <1>5. TypeOK' /\ SubjectInv' /\ ResultInv' /\ CatInv' /\ LaneInv' /\ DoneInv'
        BY <1>1, <1>2, <1>3, <1>4, GateStep
    <1>6. ProofInv'
        BY <1>1, <1>2 DEF IInv, ProofInv, Vacuous
    <1>7. PanicInv'
        BY <1>1 DEF IInv, PanicInv, Labels
    <1> QED BY <1>5, <1>6, <1>7 DEF IInv

-----------------------------------------------------------------------------
(* Picking a harness and taking the solver's answer. *)

(* The next harness starts without a result, a category or a retry. *)
LEMMA PickStep ==
    ASSUME IInv, NEW h \in crate.names, NEW a \in Scenarios[scene].attributes,
           NEW e, Pick(h, a, e)
    PROVE  IInv'
    <1> USE DEF Pick, Goto
    <1>1. pc = "pick" /\ pc' = "run"
        OBVIOUS
    <1>2. RetryBudget \in Nat /\ Depths \in Nat /\ a \in AttributeType
        BY VerdictAssumption, Inputs DEF IInv
    <1>3. lanes' \in LaneType
        BY <1>2 DEF LaneType, NoLanes, NoReport, Reports, LaneStates
    <1>4. cat'.label = "None"
        BY DEF NoCat, Category
    <1>5. TypeOK'
        <2>1. /\ lanes'.o = "off" /\ lanes'.p = "off" /\ lanes'.elapsed \in 0..RetryBudget
              /\ lanes'.depth \in 0..Depths
            BY <1>2 DEF NoLanes
        <2> QED BY <1>1, <1>2, <1>4, <2>1 DEF IInv, TypeOK
    <1>6. SubjectInv'
        BY <1>3 DEF IInv, SubjectInv
    <1>7. ResultInv' /\ ProofInv' /\ PanicInv' /\ CatInv'
        BY <1>1, <1>4 DEF ResultInv, ProofInv, PanicInv, CatInv, PastPanic, PastFallback,
               PastConformance, PastCover, PastNoChecks, PastVacuity, PastClassify,
               PastDemote, PastRun
    <1>8. LaneInv'
        BY <1>1 DEF LaneInv, NoLanes, NoReport, Possible
    <1>9. DoneInv'
        BY DoneKept DEF IInv
    <1> QED BY <1>5, <1>6, <1>7, <1>8, <1>9 DEF IInv

(* run_ay: a success is a proof, a class of panics a counterexample. *)
LEMMA RunStep ==
    ASSUME IInv, NEW a \in Results(Scenarios[scene].kinds, opts.strict), RunAy(a)
    PROVE  IInv'
    <1> USE DEF RunAy, Goto, subject
    <1>1. pc = "run" /\ pc' = "demote"
        OBVIOUS
    <1>2. Scenarios[scene].kinds \subseteq AllKinds /\ opts.strict \in BOOLEAN
        BY Inputs DEF IInv, TypeOK, OptionType
    <1>3. /\ a.says \in {"proof", "ctrex", "unknown"}
          /\ a.status \in {"Success", "Failure"}
          /\ a.failed \in {"None", "PanicsOnly", "Other"}
          /\ a.rows \subseteq AllKinds
          /\ a.status = "Success" => a.says = "proof" /\ a.failed = "None"
          /\ a.failed = "PanicsOnly" =>
                /\ a.status = "Failure" /\ a.says = "ctrex"
                /\ a.rows \intersect Failing \in {{"panic"}, {"chc"}}
        BY <1>2, ResultFacts
    <1>4. TypeOK'
        BY <1>1, <1>3 DEF IInv, TypeOK
    <1>5. SubjectInv'
        BY <1>1 DEF IInv, SubjectInv
    <1>6. ResultInv'
        BY <1>1, <1>3 DEF IInv, ResultInv
    <1>7. ProofInv' /\ PanicInv'
        BY <1>1 DEF ProofInv, PanicInv, PastPanic, PastFallback,
               PastConformance, PastCover, PastNoChecks, PastVacuity, PastClassify,
               PastDemote
    <1>8. CatInv'
        BY <1>1 DEF IInv, CatInv
    <1>9. LaneInv'
        BY <1>1 DEF IInv, LaneInv, NoLanes, NoReport, Possible
    <1>10. DoneInv'
        BY DoneKept DEF IInv
    <1> QED BY <1>4, <1>5, <1>6, <1>7, <1>8, <1>9, <1>10 DEF IInv

(* An error of run_ay gives no verdict. *)
LEMMA ErrorStep == ASSUME IInv, RunError PROVE IInv'
    <1> USE DEF RunError, Goto, subject, result
    <1>1. pc = "run" /\ pc' = "error"
        OBVIOUS
    <1>2. TypeOK' /\ SubjectInv'
        BY <1>1 DEF IInv, TypeOK, SubjectInv
    <1>3. ResultInv' /\ ProofInv' /\ PanicInv' /\ CatInv'
        BY <1>1 DEF IInv, ResultInv, ProofInv, PanicInv, CatInv, PastPanic, PastFallback,
               PastConformance, PastCover, PastNoChecks, PastVacuity, PastClassify,
               PastDemote, PastRun
    <1>4. LaneInv'
        BY <1>1 DEF IInv, LaneInv, NoLanes, NoReport, Possible
    <1>5. DoneInv'
        BY DoneKept DEF IInv
    <1> QED BY <1>2, <1>3, <1>4, <1>5 DEF IInv

-----------------------------------------------------------------------------
(* The retry. *)

(* A retry starts with two running lanes that have reported nothing. *)
LEMMA DecideStep == ASSUME IInv, Decide PROVE IInv'
    <1> USE DEF Decide, subject, result
    <1>1. pc = "decide" /\ pc' \in {"report", "lanes"}
        OBVIOUS
    <1>2. lanes = NoLanes
        BY <1>1 DEF IInv, LaneInv
    <1> DEFINE started == [NoLanes EXCEPT !.o = "run", !.p = "run", !.depth = 1]
    <1>3. \/ pc' = "report" /\ lanes' = NoLanes
          \/ pc' = "lanes" /\ lanes' = started
        BY <1>2
    <1>4. RetryBudget \in Nat /\ Depths \in Nat \ {0}
        BY VerdictAssumption
    <1>5. /\ started \in LaneType /\ ~started.upgraded
          /\ started.oRep = NoReport /\ started.pRep = NoReport
        <2>1. NoReport \in Reports
            BY DEF NoReport, Reports
        <2>2. 0 \in 0..RetryBudget /\ 0 \in 0..Depths /\ 1 \in 0..Depths
            BY <1>4
        <2>3. /\ NoLanes \in LaneType /\ ~NoLanes.upgraded
              /\ NoLanes.oRep = NoReport /\ NoLanes.pRep = NoReport
            BY <2>1, <2>2 DEF NoLanes, LaneType, LaneStates
        <2> QED BY <2>2, <2>3 DEF LaneType, LaneStates
    <1>6. /\ NoLanes \in LaneType /\ ~NoLanes.upgraded
          /\ NoLanes.oRep = NoReport /\ NoLanes.pRep = NoReport
        BY <1>2 DEF NoLanes, IInv, SubjectInv
    <1> HIDE DEF started
    <1>7. /\ lanes' \in LaneType /\ ~lanes'.upgraded /\ ~lanes.upgraded
          /\ lanes'.oRep = NoReport /\ lanes'.pRep = NoReport
        BY <1>2, <1>3, <1>5, <1>6
    <1>8. TypeOK'
        BY <1>1, <1>7 DEF IInv, TypeOK, LaneType, LaneStates
    <1>9. SubjectInv'
        BY <1>1, <1>7 DEF IInv, SubjectInv
    <1>10. ResultInv' /\ ProofInv' /\ PanicInv' /\ CatInv'
        BY <1>1, <1>7 DEF IInv, ResultInv, ProofInv, PanicInv, CatInv, Vacuous, PastPanic,
               PastFallback, PastConformance, PastCover, PastNoChecks, PastVacuity,
               PastClassify, PastDemote, PastRun
    <1>11. LaneInv'
        BY <1>1, <1>3, <1>7 DEF LaneInv, NoReport, Possible
    <1>12. DoneInv'
        BY DoneKept DEF IInv
    <1> QED BY <1>8, <1>9, <1>10, <1>11, <1>12 DEF IInv

(* A step of the retry that stays in it and changes the lanes only. *)
LEMMA RetryStep ==
    ASSUME IInv, pc = "lanes", UNCHANGED <<subject, pc, result, answer, done>>,
           lanes' \in LaneType, lanes'.upgraded = lanes.upgraded,
           Possible(lanes'.oRep), Possible(lanes'.pRep)
    PROVE  IInv'
    <1> USE DEF subject, result
    <1>1. TypeOK'
        BY DEF IInv, TypeOK, LaneType, LaneStates
    <1>2. SubjectInv'
        BY DEF IInv, SubjectInv
    <1>3. ResultInv' /\ ProofInv' /\ PanicInv' /\ CatInv'
        BY DEF IInv, ResultInv, ProofInv, PanicInv, CatInv, Vacuous
    <1>4. LaneInv'
        BY DEF IInv, LaneInv, Possible
    <1>5. DoneInv'
        BY DoneKept DEF IInv
    <1> QED BY <1>1, <1>2, <1>3, <1>4, <1>5 DEF IInv

(* A lane that ends or is lost leaves a report a lane on this harness can give. *)
LEMMA LaneEndSteps ==
    ASSUME IInv, NEW rep \in Reports, NEW d \in 0..RetryBudget,
           NEW end \in {"ended", "lost"},
           LaneOEnds(rep, d, end) \/ LanePEnds(rep, d, end)
    PROVE  IInv'
    <1>1. lanes \in LaneType /\ RetryBudget \in Nat /\ pc = "lanes"
        BY VerdictAssumption DEF IInv, SubjectInv, LaneOEnds, LanePEnds
    <1>2. EndTime(d) \in 0..RetryBudget
        <2>1. /\ lanes.elapsed \in 0..RetryBudget /\ lanes.since + d \in Nat
              /\ lanes.since + d <= RetryBudget
            BY <1>1 DEF LaneOEnds, LanePEnds, LaneType
        <2>2. Max({lanes.elapsed, lanes.since + d}) \in {lanes.elapsed, lanes.since + d}
            BY <2>1, <1>1, LaterOf
        <2> QED BY <2>1, <2>2, <1>1 DEF EndTime
    <1>3. Possible(lanes.oRep) /\ Possible(lanes.pRep)
        BY <1>1 DEF IInv, LaneInv
    <1>4. CASE LaneOEnds(rep, d, end)
        <2>1. lanes' = [lanes EXCEPT !.o = end, !.oRep = rep, !.elapsed = EndTime(d)]
            BY <1>4 DEF LaneOEnds
        <2>2. /\ lanes' \in LaneType /\ lanes'.upgraded = lanes.upgraded
              /\ lanes'.oRep = rep /\ lanes'.pRep = lanes.pRep
            BY <2>1, <1>1, <1>2 DEF LaneType, LaneStates
        <2>3. Possible(rep) /\ UNCHANGED <<subject, pc, result, answer, done>>
            BY <1>4 DEF LaneOEnds
        <2> QED BY <1>1, <1>3, <2>2, <2>3, RetryStep
    <1>5. CASE LanePEnds(rep, d, end)
        <2>1. lanes' = [lanes EXCEPT !.p = end, !.pRep = rep, !.elapsed = EndTime(d)]
            BY <1>5 DEF LanePEnds
        <2>2. /\ lanes' \in LaneType /\ lanes'.upgraded = lanes.upgraded
              /\ lanes'.pRep = rep /\ lanes'.oRep = lanes.oRep
            BY <2>1, <1>1, <1>2 DEF LaneType, LaneStates
        <2>3. Possible(rep) /\ UNCHANGED <<subject, pc, result, answer, done>>
            BY <1>5 DEF LanePEnds
        <2> QED BY <1>1, <1>3, <2>2, <2>3, RetryStep
    <1> QED BY <1>4, <1>5

(* Another depth of the properties lane stays inside LANE_P_DEPTHS. *)
LEMMA DeepenStep == ASSUME IInv, Deepen PROVE IInv'
    <1>1. lanes \in LaneType /\ pc = "lanes" /\ Depths \in Nat /\ lanes.depth < Depths
        BY VerdictAssumption DEF IInv, SubjectInv, Deepen, Joined, CanDeepen
    <1>2. lanes' = [lanes EXCEPT !.p = "run", !.depth = @ + 1, !.since = lanes.elapsed]
        BY DEF Deepen
    <1>3. /\ lanes' \in LaneType /\ lanes'.upgraded = lanes.upgraded
          /\ lanes'.oRep = lanes.oRep /\ lanes'.pRep = lanes.pRep
        <2>1. lanes.depth + 1 \in 0..Depths /\ lanes.elapsed \in 0..RetryBudget
            BY <1>1 DEF LaneType
        <2>2. lanes' = [lanes EXCEPT !.p = "run", !.depth = lanes.depth + 1,
                                     !.since = lanes.elapsed]
            BY <1>2
        <2> QED BY <1>1, <2>1, <2>2 DEF LaneType, LaneStates
    <1>4. Possible(lanes.oRep) /\ Possible(lanes.pRep)
        BY <1>1 DEF IInv, LaneInv
    <1>5. UNCHANGED <<subject, pc, result, answer, done>>
        BY DEF Deepen
    <1> QED BY <1>1, <1>3, <1>4, <1>5, RetryStep

(* Without a proof of the obligations there was none to lose. *)
LEMMA GiveUpStep == ASSUME IInv, GiveUp PROVE IInv'
    <1> USE DEF GiveUp, Joined, subject, result
    <1>1. pc = "lanes" /\ pc' = "report"
        OBVIOUS
    <1>2. TypeOK' /\ SubjectInv'
        BY <1>1 DEF IInv, TypeOK, SubjectInv
    <1>3. ResultInv' /\ ProofInv' /\ PanicInv' /\ CatInv'
        BY <1>1 DEF IInv, ResultInv, ProofInv, PanicInv, CatInv, Vacuous, PastPanic,
               PastFallback, PastConformance, PastCover, PastNoChecks, PastVacuity,
               PastClassify, PastDemote, PastRun
    <1>4. LaneInv'
        BY <1>1 DEF IInv, LaneInv, Possible, ChildProved
    <1>5. DoneInv'
        BY DoneKept DEF IInv
    <1> QED BY <1>2, <1>3, <1>4, <1>5 DEF IInv

(* merge: the result is upgraded exactly when the lanes prove it. *)
LEMMA MergeStep == ASSUME IInv, Merge PROVE IInv'
    <1> USE DEF subject
    <1>1. /\ pc = "lanes" /\ pc' = "report" /\ ~lanes.upgraded
          /\ UNCHANGED <<subject, feas, demoted, cat, answer, done>>
          /\ lanes \in LaneType
        BY DEF Merge, Joined, IInv, LaneInv, SubjectInv
    <1>2. Possible(lanes.oRep) /\ Possible(lanes.pRep)
        BY <1>1 DEF IInv, LaneInv
    <1>3. DoneInv'
        BY <1>1, DoneKept DEF IInv
    <1>4. CASE LanesProve
        <2>1. /\ status' = "Success" /\ failed' = "None"
              /\ rows' = {IF r \in Failing THEN "ok" ELSE r : r \in rows}
              /\ lanes' = [lanes EXCEPT !.upgraded = TRUE]
            BY <1>4 DEF Merge
        <2>2. /\ lanes' \in LaneType /\ lanes'.upgraded
              /\ lanes'.oRep = lanes.oRep /\ lanes'.pRep = lanes.pRep
            BY <1>1, <2>1 DEF LaneType
        <2>3. rows' \subseteq AllKinds
            BY <2>1 DEF IInv, TypeOK, AllKinds, Failing, Settled, CoverKinds
        <2>4. TypeOK'
            BY <1>1, <2>1, <2>2, <2>3 DEF IInv, TypeOK, LaneType, LaneStates
        <2>5. SubjectInv'
            BY <1>1, <2>2 DEF IInv, SubjectInv
        <2>6. ResultInv' /\ ProofInv' /\ PanicInv' /\ CatInv'
            BY <1>1, <2>1, <2>2 DEF IInv, ResultInv, ProofInv, PanicInv, CatInv
        <2>7. LanesProve'
            BY <1>1, <1>4, <2>2 DEF LanesProve, ChildProved, ObligationsPresent
        <2>8. lanes'.oRep.target => EffectiveNow'
            BY <1>1, <1>2, <2>1, <2>2 DEF Possible, EffectiveNow, Effective
        <2>9. LaneInv'
            BY <1>1, <1>2, <2>1, <2>2, <2>7, <2>8 DEF LaneInv, Possible
        <2> QED BY <1>3, <2>4, <2>5, <2>6, <2>9 DEF IInv
    <1>5. CASE ~LanesProve
        <2>1. UNCHANGED <<status, failed, rows, lanes>>
            BY <1>5 DEF Merge
        <2>2. TypeOK' /\ SubjectInv'
            BY <1>1, <2>1 DEF IInv, TypeOK, SubjectInv
        <2>3. ResultInv' /\ ProofInv' /\ PanicInv' /\ CatInv'
            BY <1>1, <2>1 DEF IInv, ResultInv, ProofInv, PanicInv, CatInv, Vacuous,
                   PastPanic, PastFallback, PastConformance, PastCover, PastNoChecks,
                   PastVacuity, PastClassify, PastDemote, PastRun
        <2>4. LaneInv'
            BY <1>1, <1>2, <1>5, <2>1 DEF LaneInv, Possible, LanesProve, ChildProved,
                   ObligationsPresent
        <2> QED BY <1>3, <2>2, <2>3, <2>4 DEF IInv
    <1> QED BY <1>4, <1>5

(* A verdict is recorded: what the gates and the merge left is what it says. *)
LEMMA ReportStep == ASSUME IInv, Report PROVE IInv'
    <1> USE DEF Report, Goto, subject, result
    <1>1. pc = "report" /\ pc' = "pick" /\ cur \in crate.names
        BY DEF IInv, SubjectInv
    <1> DEFINE entry == [effective |-> EffectiveNow, status |-> status,
                         failed |-> failed, rows |-> rows, cat |-> cat,
                         answer |-> answer, attr |-> attr, ev |-> ev, lanes |-> lanes]
    <1>2. /\ DOMAIN done' = DOMAIN done \union {cur}
          /\ done'[cur] = entry
          /\ \A h \in DOMAIN done : h # cur => done'[h] = done[h]
        OBVIOUS
    <1>3. /\ entry.effective = EffectiveNow /\ entry.rows = rows /\ entry.cat = cat
          /\ entry.answer = answer /\ entry.attr = attr /\ entry.ev = ev
          /\ entry.lanes = lanes
        OBVIOUS
    <1> HIDE DEF entry
    <1>4. TypeOK' /\ SubjectInv'
        BY <1>1, <1>2 DEF IInv, TypeOK, SubjectInv
    <1>5. ResultInv' /\ ProofInv' /\ PanicInv' /\ CatInv' /\ LaneInv'
        BY <1>1 DEF IInv, ResultInv, ProofInv, PanicInv, CatInv, LaneInv, PastPanic,
               PastFallback, PastConformance, PastCover, PastNoChecks, PastVacuity,
               PastClassify, PastDemote, PastRun
    <1>6. pc \in PastPanic /\ pc \in PastRun /\ pc \in PastDemote /\ pc \in PastVacuity
          /\ pc \in PastNoChecks /\ pc \in PastCover /\ pc \in PastConformance
          /\ pc \in PastFallback
        BY <1>1 DEF PastPanic, PastFallback, PastConformance, PastCover, PastNoChecks,
               PastVacuity, PastClassify, PastDemote, PastRun
    <1>7. ProofIsClean'
        <2> SUFFICES ASSUME NEW h \in DOMAIN done', Proved(h)'
                     PROVE  LET e == done'[h] IN
                            /\ e.answer = "proof"
                            /\ Total(Demoting(h, crate)) = 0
                            /\ SoundFallbacks(h, crate) = 0
                            /\ Vacuous(e.rows) => opts.allowVacuous
                            /\ e.rows = {} => e.attr.bare
                            /\ opts.strict => "coverUnsat" \notin e.rows
                            /\ e.attr.conformance => "coverSat" \in e.rows
            BY DEF ProofIsClean, Vacuous
        <2>1. CASE h = cur
            <3>1. EffectiveNow /\ ~attr.shouldPanic /\ ~lanes.upgraded
                BY <2>1, <1>2, <1>3 DEF Proved
            <3>2. status = "Success"
                BY <3>1 DEF EffectiveNow, Effective
            <3> QED BY <2>1, <3>1, <3>2, <1>2, <1>3, <1>6
                    DEF IInv, ResultInv, ProofInv
        <2>2. CASE h # cur
            BY <2>2, <1>2 DEF IInv, DoneInv, ProofIsClean, Proved
        <2> QED BY <2>1, <2>2
    <1>8. PanicProofGenuine'
        <2> SUFFICES ASSUME NEW h \in DOMAIN done', Panicked(h)'
                     PROVE  LET e == done'[h] IN
                            /\ e.answer = "ctrex" /\ e.cat.label = "Genuine"
                            /\ e.rows \intersect Failing \in {{"panic"}, {"chc"}}
                            /\ Demoting(h, crate)["gap"] = 0
                            /\ FailClosed(h, crate) = 0
            BY DEF PanicProofGenuine
        <2>1. CASE h = cur
            <3>1. EffectiveNow /\ attr.shouldPanic
                BY <2>1, <1>2, <1>3 DEF Panicked
            <3>2. failed = "PanicsOnly"
                BY <3>1 DEF EffectiveNow, Effective
            <3>3. cat.label = "Genuine"
                BY <3>1, <3>2, <1>6 DEF IInv, PanicInv
            <3>4. Recertify(ClassifyCtrex(cur, crate), ev).label = "Genuine"
                BY <3>3, <1>1 DEF IInv, CatInv
            <3>5. Demoting(cur, crate)["gap"] = 0 /\ FailClosed(cur, crate) = 0
                BY <3>4, Inputs, GenuineMeans DEF IInv
            <3> QED BY <2>1, <3>2, <3>3, <3>5, <1>2, <1>3, <1>6 DEF IInv, ResultInv
        <2>2. CASE h # cur
            BY <2>2, <1>2 DEF IInv, DoneInv, PanicProofGenuine, Panicked
        <2> QED BY <2>1, <2>2
    <1>9. GenuineInv'
        BY <1>1, <1>2, <1>3 DEF IInv, DoneInv, GenuineInv, CatInv
    <1>10. UpgradeInv'
        <2> SUFFICES ASSUME NEW h \in DOMAIN done'
                     PROVE  LET e == done'[h] IN
                            /\ e.attr \in Scenarios[scene].attributes
                            /\ e.lanes.upgraded /\ ~e.attr.sibling =>
                                  e.lanes.oRep.target /\ e.lanes.oRep.oblig
                                  /\ e.lanes.pRep.target
                            /\ ~opts.quiet /\ e.lanes.oRep.target /\ e.lanes.oRep.oblig
                               /\ e.lanes.pRep.target => e.effective
            BY DEF UpgradeInv
        <2>1. CASE h = cur
            <3>1. attr \in Scenarios[scene].attributes
                BY <1>1 DEF IInv, SubjectInv
            <3>2. Possible(lanes.oRep) /\ Possible(lanes.pRep)
                  /\ (lanes.upgraded => LanesProve)
                BY <1>1 DEF IInv, LaneInv
            <3>3. lanes.upgraded /\ ~attr.sibling =>
                     lanes.oRep.target /\ lanes.oRep.oblig /\ lanes.pRep.target
                BY <3>2 DEF LanesProve, ChildProved, ObligationsPresent, Possible
            <3>4. ~opts.quiet /\ lanes.oRep.target /\ lanes.oRep.oblig
                  /\ lanes.pRep.target => EffectiveNow
                BY <1>1 DEF IInv, LaneInv
            <3> QED BY <2>1, <3>1, <3>3, <3>4, <1>2, <1>3
        <2>2. CASE h # cur
            BY <2>2, <1>2 DEF IInv, DoneInv, UpgradeInv
        <2> QED BY <2>1, <2>2
    <1> QED BY <1>4, <1>5, <1>7, <1>8, <1>9, <1>10 DEF IInv, DoneInv

-----------------------------------------------------------------------------
(* The invariant holds in every reachable state of the pipeline. *)
THEOREM Inductive == Spec => []IInv
    <1>1. ASSUME IInv, [Next]_vars PROVE IInv'
        <2>1. CASE \E h \in crate.names, a \in Scenarios[scene].attributes,
                      e \in Scenarios[scene].evidence : Pick(h, a, e)
            BY <1>1, <2>1, PickStep
        <2>2. CASE pc = "run" /\ \E a \in Results(Scenarios[scene].kinds, opts.strict) :
                                    RunAy(a)
            BY <1>1, <2>2, RunStep
        <2>3. CASE RunError
            BY <1>1, <2>3, ErrorStep
        <2>4. CASE Gate
            BY <1>1, <2>4, DemoteStep, ClassifyStep, PlainGateSteps, FallbackStep,
               PanicStep DEF Gate
        <2>5. CASE Decide
            BY <1>1, <2>5, DecideStep
        <2>6. CASE Lane
            BY <1>1, <2>6, LaneEndSteps, GiveUpStep, DeepenStep, MergeStep DEF Lane
        <2>7. CASE Report
            BY <1>1, <2>7, ReportStep
        <2>8. CASE UNCHANGED vars
            <3>1. TypeOK' /\ SubjectInv' /\ ResultInv' /\ PanicInv' /\ CatInv'
                BY <1>1, <2>8 DEF vars, IInv, TypeOK, SubjectInv, ResultInv, PanicInv, CatInv
            <3>2. ProofInv' /\ LaneInv'
                BY <1>1, <2>8 DEF vars, IInv, ProofInv, Vacuous, LaneInv, Possible,
                    EffectiveNow, LanesProve, ChildProved, ObligationsPresent
            <3>3. DoneInv'
                BY <1>1, <2>8, DoneKept DEF vars, IInv
            <3> QED BY <3>1, <3>2, <3>3 DEF IInv
        <2> QED BY <1>1, <2>1, <2>2, <2>3, <2>4, <2>5, <2>6, <2>7, <2>8
                DEF Next, Finished
    <1> QED BY InitInv, <1>1, PTL DEF Spec

-----------------------------------------------------------------------------
(* Every variable keeps its type, whatever the crate, the command line, the
   solver and the lanes do. *)
THEOREM TypeCorrect == Spec => []TypeOK
    BY Inductive, PTL DEF IInv

(* check_harness: an ordinary harness is verified by a proof, with no demoting
   count and no suspect approximation, and not vacuously. *)
THEOREM CleanProofs == Spec => []ProofIsClean
    BY Inductive, PTL DEF IInv, DoneInv

(* check_harness, V6: a should_panic harness is verified by a counterexample
   that only panics and that no gap or forced failure explains. *)
THEOREM GenuinePanics == Spec => []PanicProofGenuine
    BY Inductive, PTL DEF IInv, DoneInv

(* Between the answer and the retry no gate of check_harness turns a result that
   does not count as verified into one that does. *)
THEOREM NeverRelax == Spec => GatesNeverRelax
    <1>1. IInv /\ [Next]_vars =>
             [pc \notin {"pick", "run", "lanes"} /\ ~EffectiveNow => ~EffectiveNow']_vars
        <2> SUFFICES ASSUME IInv, Next, pc \notin {"pick", "run", "lanes"}, ~EffectiveNow
                     PROVE  ~EffectiveNow'
            OBVIOUS
        <2>1. CASE Gate
            <3>1. /\ attr' = attr
                  /\ \/ UNCHANGED <<status, failed>>
                     \/ /\ status' = "Failure"
                        /\ failed' \in {"Other", failed}
                BY <2>1 DEF Gate, Demote, Classify, VacuityGate, NoChecksGate, CoverGate,
                       ConformanceGate, FallbackGate, PanicGate, Keep, Fail,
                       FailKeepingClass, subject
            <3> QED BY <3>1 DEF EffectiveNow, Effective
        <2>2. CASE Decide \/ Report \/ Finished
            BY <2>2 DEF Decide, Report, Finished, subject, result, vars, EffectiveNow
        <2>3. ~ (Lane \/ RunError)
            BY DEF Lane, RunError, Goto
        <2>4. ~ \E h \in crate.names, a \in Scenarios[scene].attributes,
                   e \in Scenarios[scene].evidence : Pick(h, a, e)
            BY DEF Pick, Goto
        <2> QED BY <2>1, <2>2, <2>3, <2>4 DEF Next
    <1> QED BY <1>1, Inductive, PTL DEF Spec, GatesNeverRelax

(* attributable_to_harness loses nothing: whatever the names of the harnesses
   and the keys the compiler wrote, a taint recorded anywhere in the crate keeps
   some harness from standing as a proof. *)
THEOREM TaintSurfaces == Spec => []CrateTaintSurfaces
    <1>1. IInv => CrateTaintSurfaces
        <2> SUFFICES ASSUME IInv, DOMAIN done = crate.names, crate.names # {}, CrateTaint,
                            \A h \in crate.names : Proved(h)
                     PROVE  FALSE
            BY DEF CrateTaintSurfaces
        <2>1. CountsOK(crate)
            BY Inputs DEF IInv
        <2>2. \A h \in crate.names : /\ Total(Demoting(h, crate)) = 0
                                     /\ SoundFallbacks(h, crate) = 0
            BY DEF IInv, DoneInv, ProofIsClean
        <2>3. ASSUME NEW h \in crate.names
              PROVE  /\ ResolveFailClosed(crate.gap, h, crate) = 0
                     /\ ResolveFailClosed(crate.offset, h, crate) = 0
            <3>1. \A x \in Cats : Demoting(h, crate)[x] = 0
                BY <2>1, <2>2, ChargedCounts, TotalOfCounts
            <3>2. Demoting(h, crate)["gap"] = 0 /\ Demoting(h, crate)["offset"] = 0
                BY <3>1 DEF Cats
            <3>3. /\ Demoting(h, crate)["gap"] = ResolveFailClosed(crate.gap, h, crate)
                  /\ Demoting(h, crate)["offset"] = ResolveFailClosed(crate.offset, h, crate)
                BY DEF Demoting, NoCats, Cats
            <3> QED BY <3>2, <3>3
        <2>4. CASE \E k \in {"gap", "offset"} :
                     IF DOMAIN crate[k].per = {} THEN crate[k].total > 0
                     ELSE SumOver(crate[k].per, DOMAIN crate[k].per) > 0
            <3>1. PICK k \in {"gap", "offset"} :
                     IF DOMAIN crate[k].per = {} THEN crate[k].total > 0
                     ELSE SumOver(crate[k].per, DOMAIN crate[k].per) > 0
                BY <2>4
            <3>2. CategoryOK(crate[k])
                BY <2>1 DEF CountsOK
            <3>3. PICK h \in crate.names : ResolveFailClosed(crate[k], h, crate) > 0
                BY <3>1, <3>2, CategoryCharged
            <3> QED BY <3>3, <2>3
        <2>5. CASE \E k \in DOMAIN crate.approx :
                     crate.approx[k]["drop"] + crate.approx[k]["unhandled"] > 0
            <3>1. PICK h \in crate.names : SoundFallbacks(h, crate) > 0
                BY <2>1, <2>5, ApproximationCharged
            <3> QED BY <3>1, <2>2
        <2> QED BY <2>4, <2>5 DEF CrateTaint
    <1> QED BY <1>1, Inductive, PTL

(* No harness has a name that is part of another's, or --exact is given. *)
NoSiblings == \A s \in DOMAIN Scenarios : \A a \in Scenarios[s].attributes : ~a.sibling

(* loop_two_lane.rs: where the lanes' filter selects one harness only, a harness
   is upgraded when it was itself proved in both lanes, with its obligations. *)
THEOREM UpgradesSound == ASSUME NoSiblings PROVE Spec => []LaneUpgradeSound
    <1>1. IInv => LaneUpgradeSound
        <2> SUFFICES ASSUME IInv, NEW h \in DOMAIN done, done[h].lanes.upgraded
                     PROVE  /\ done[h].lanes.oRep.target /\ done[h].lanes.oRep.oblig
                            /\ done[h].lanes.pRep.target
            BY DEF LaneUpgradeSound
        <2>1. done[h].attr \in Scenarios[scene].attributes /\ scene \in DOMAIN Scenarios
            BY DEF IInv, DoneInv, UpgradeInv, SubjectInv
        <2>2. ~done[h].attr.sibling
            BY <2>1 DEF NoSiblings
        <2> QED BY <2>2 DEF IInv, DoneInv, UpgradeInv
    <1> QED BY <1>1, Inductive, PTL

(* No command line asks the lanes for silence. *)
NoQuiet == \A s \in DOMAIN Scenarios : \A o \in Scenarios[s].options : ~o.quiet

(* maybe_two_lane_retry: without --quiet a harness that both lanes proved, with
   its obligations, is verified, at whichever depth and in whichever order. *)
THEOREM ProofsCount == ASSUME NoQuiet PROVE Spec => []LaneProofsCount
    <1>1. IInv => LaneProofsCount
        <2>1. ASSUME IInv PROVE ~opts.quiet
            BY <2>1 DEF IInv, SubjectInv, NoQuiet
        <2> QED BY <2>1 DEF LaneProofsCount, IInv, DoneInv, UpgradeInv
    <1> QED BY <1>1, Inductive, PTL

(* ctrex_certifiable_genuine, for every crate, mixed key maps included: a
   counterexample called genuine although events are charged to its harness has
   complete and independent evidence for all that stand under its own keys, and
   for all that are charged when they stand nowhere else. *)
THEOREM Certified == Spec => []CertifiedComplete
    <1>1. IInv => CertifiedComplete
        <2> SUFFICES ASSUME IInv, NEW h \in DOMAIN done, done[h].cat.label = "Genuine",
                            ChargedEvents(h) > 0
                     PROVE  /\ done[h].ev.complete /\ done[h].ev.independent
                            /\ OwnEvents(h) <= done[h].ev.accounted
                            /\ OneKeySpace(h, crate) =>
                                  done[h].ev.accounted = ChargedEvents(h)
            BY DEF CertifiedComplete
        <2>1. Recertify(ClassifyCtrex(h, crate), done[h].ev).label = "Genuine"
            BY DEF IInv, DoneInv, GenuineInv
        <2>2. CountsOK(crate)
            BY Inputs DEF IInv
        <2> QED BY <2>1, <2>2, GenuineMeans DEF ChargedEvents, OwnEvents
    <1> QED BY <1>1, Inductive, PTL
=============================================================================
