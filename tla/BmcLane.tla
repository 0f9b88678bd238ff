------------------------------- MODULE BmcLane -------------------------------
(***************************************************************************)
(* The bounded lane of run_ay: KaniSession::try_ay_solver and the probe    *)
(* rounds that follow its main query (trust-mc-driver/src/call_ay.rs).     *)
(*                                                                         *)
(* Every query is a subprocess.  It may answer at any moment, or not at    *)
(* all, in which case it is killed when its budget is spent; an answer is  *)
(* right or inconclusive.                                                  *)
(***************************************************************************)
EXTENDS SolverCall

(* run_ay hands a non-HORN query to the ay binary. *)
StartBmc ==
    /\ pc = "start" /\ ~q.horn /\ opts.ay
    /\ WaitFor("main", Clamp(SolverTimeout))
    /\ UNCHANGED <<callVars, now, tableVars, probeVars, engineVars, claim, error, reply>>

AyMissing ==
    /\ pc = "start" /\ ~q.horn /\ ~opts.ay
    /\ Return(ErrReply)
    /\ UNCHANGED <<callVars, now, tableVars, probeVars, engineVars, claim, error>>

(* The query file is missing, unreadable or cannot be exported, or ay fails to
   run. *)
BmcErr ==
    /\ (pc = "start" /\ ~q.horn) \/ pc = "main"
    /\ Return(ErrReply)
    /\ UNCHANGED <<callVars, now, tableVars, probeVars, engineVars, claim, error>>

(* A probe round over some flags: a slice of the round's budget to each.  An
   empty round is over at once. *)
Probe(g, flags) ==
    /\ goal' = g /\ todo' = flags /\ asking' = {} /\ asked' = 0
    /\ got' = [x \in Checks \union Covers |-> "none"]
    /\ from' = now /\ by' = now + Clamp(SolverTimeout)
    /\ Goto("slice")

(* classify_unreachable_properties asks for the reach flags of the checks that
   stand as SUCCESS. *)
ReachFlags(r) == {c \in q.reachFlags : opts.reachChecks /\ r[c] = "Success"}

(* unsat: every declared check is a SUCCESS until a probe says otherwise. *)
MainUnsat ==
    /\ pc = "main" /\ q.viol = {}
    /\ rows' = AllAs(q.checks, Checks, "Success")
    /\ claim' = "proof"
    /\ Probe("reach", ReachFlags(rows'))
    /\ UNCHANGED <<callVars, now, covers, decided, feas, engineVars, error, reply>>

(* sat: the model falsifies the flags of m, possibly none of them when the
   solver is incomplete, and satisfies the covers of s. *)
MainSat ==
    /\ pc = "main"
    /\ \E m \in SUBSET q.viol, s \in SUBSET q.satisfiable :
         /\ rows' = [c \in Checks |-> IF c \notin q.checks THEN "absent"
                                      ELSE IF c \in m THEN "Failure" ELSE "Success"]
         /\ covers' = [c \in Covers |-> IF c \notin q.covers THEN "absent"
                                        ELSE IF c \in s THEN "Satisfied" ELSE "Unsatisfiable"]
         /\ claim' = "model"
         /\ Probe("requery", q.checks \ m)
    /\ UNCHANGED <<callVars, now, decided, feas, engineVars, error, reply>>

Undecided(r) == Result("unknown", "Failure", "Other", r, "Undetermined")

(* unknown: with no model every declared check and cover is UNDETERMINED. *)
MainUnknown ==
    /\ pc = "main"
    /\ rows' = AllAs(q.checks, Checks, "Undetermined")
    /\ covers' = AllAs(q.covers, Covers, "Undetermined")
    /\ Return(Undecided((IF q.checks # {} THEN {"undet"} ELSE {})
                          \union (IF q.covers # {} THEN {"coverUndet"} ELSE {})))
    /\ UNCHANGED <<callVars, now, decided, feas, probeVars, engineVars, claim, error>>

(* ay rejected commands of the query, or ran out of its budget: the checks are
   listed UNDETERMINED, the covers not at all. *)
ListUndetermined ==
    /\ rows' = AllAs(q.checks, Checks, "Undetermined")
    /\ Return(Undecided(IF q.checks # {} THEN {"undet"} ELSE {}))
    /\ UNCHANGED <<callVars, now, covers, decided, feas, probeVars, engineVars, claim, error>>
MainRejected == pc = "main" /\ ListUndetermined
MainKilled   == pc = "main" /\ now >= until /\ ListUndetermined

-----------------------------------------------------------------------------
(* check_cover_satisfiability: one file per flag while what is left of the budget
   gives each a slice and the first one has not shown them too dear; then one
   file for all the others, or no answer for them when nothing is left. *)
Left == Cardinality(todo)
Rest == Greater(by - now, 0)
BatchRest == Rest < Left \/ (asked = 1 /\ (now - from) * Left > Rest)

AskOne ==
    /\ pc = "slice" /\ todo # {} /\ ~BatchRest
    /\ \E x \in todo : asking' = {x}
    /\ WaitFor("asked", Rest \div Left)
    /\ UNCHANGED <<callVars, now, tableVars, goal, todo, got, asked, by, from, engineVars,
                   claim, error, reply>>

AskRest ==
    /\ pc = "slice" /\ todo # {} /\ BatchRest
    /\ IF Rest > 0 THEN asking' = todo /\ todo' = todo /\ WaitFor("asked", Rest)
                   ELSE asking' = {} /\ todo' = {} /\ Goto("slice")
    /\ UNCHANGED <<callVars, now, tableVars, goal, got, asked, by, from, engineVars, claim,
                   error, reply>>

(* What a flag of the round stands for is possible. *)
Possible(x) == \/ goal = "requery"    /\ x \in q.viol
               \/ goal = "reach"      /\ x \in q.reach
               \/ goal = "cover"      /\ x \in q.satisfiable
               \/ goal = "coverReach" /\ x \in q.coverReach
Decision(x) == IF Possible(x) THEN "sat" ELSE "unsat"

(* run_cover_probe_file: the flags of known are decided, the others not; a
   killed or failed probe decides none. *)
FileDone(known) ==
    /\ got' = [x \in DOMAIN got |-> IF x \in known THEN Decision(x) ELSE got[x]]
    /\ todo' = todo \ asking /\ asking' = {} /\ asked' = asked + 1
    /\ Goto("slice")
    /\ UNCHANGED <<callVars, now, tableVars, goal, by, from, engineVars, claim, error, reply>>
FileAnswered == pc = "asked" /\ \E known \in SUBSET asking : FileDone(known)
FileKilled   == pc = "asked" /\ now >= until /\ FileDone({})

RoundOver(g) == pc = "slice" /\ todo = {} /\ goal = g

(* Re-query of the checks the model did not falsify: only sat changes one. *)
Requeried ==
    /\ RoundOver("requery")
    /\ rows' = [c \in Checks |-> IF got[c] = "sat" THEN "Failure" ELSE rows[c]]
    /\ Probe("reach", ReachFlags(rows'))
    /\ UNCHANGED <<callVars, now, covers, decided, feas, engineVars, claim, error, reply>>

(* Mutant: a probe without an answer counts as unsat. *)
ClassifyUnanswered ==
    /\ rows' = [c \in Checks |-> IF c \in ReachFlags(rows) /\ got[c] # "sat"
                                THEN "Unreachable" ELSE rows[c]]
    /\ decided' = {c \in Checks : got[c] = "sat"}

(* classify_unreachable_properties: only unsat makes a check UNREACHABLE. *)
ClassifyChecks ==
    /\ rows' = [c \in Checks |-> IF got[c] = "unsat" THEN "Unreachable" ELSE rows[c]]
    /\ decided' = {c \in Checks : got[c] = "sat"}

(* On the SAT path this ends the call. *)
ModelClassified ==
    /\ RoundOver("reach") /\ claim = "model"
    /\ ClassifyChecks
    /\ Goto("report")
    /\ UNCHANGED <<callVars, now, covers, feas, probeVars, engineVars, claim, error, reply>>

(* Mutant: the class of the table, even when no check failed. *)
ReportSignalErased ==
    /\ pc = "report" /\ claim = "model"
    /\ Return(Result("ctrex", "Failure", DetermineFailed(TableRows), TableRows, feas))
    /\ UNCHANGED <<callVars, now, tableVars, probeVars, engineVars, claim, error>>

(* determine_failed_from_properties overrides the undecided signal only when a
   check failed. *)
ReportModel ==
    /\ pc = "report" /\ claim = "model"
    /\ Return(IF CheckRows \intersect Failing # {}
              THEN Result("ctrex", "Failure", DetermineFailed(TableRows), TableRows, feas)
              ELSE Undecided(TableRows))
    /\ UNCHANGED <<callVars, now, tableVars, probeVars, engineVars, claim, error>>

(* On the UNSAT path probe_harness_reachable comes next, unless no check is
   listed. *)
ProofClassified ==
    /\ RoundOver("reach") /\ claim = "proof"
    /\ ClassifyChecks
    /\ IF q.checks # {} THEN WaitFor("vacuity", Clamp(SolverTimeout)) /\ UNCHANGED probeVars
                        ELSE Probe("cover", q.covers)
    /\ UNCHANGED <<callVars, now, covers, feas, engineVars, claim, error, reply>>

(* A contradiction flips every SUCCESS that was not decided reachable at its own
   site; a satisfiable harness is remembered; no answer changes nothing. *)
Probed(answer) ==
    /\ feas' = answer
    /\ rows' = [c \in Checks |->
                  IF answer = "Infeasible" /\ rows[c] = "Success" /\ c \notin decided
                  THEN "Unreachable" ELSE rows[c]]
    /\ Probe("cover", q.covers)
    /\ UNCHANGED <<callVars, now, covers, decided, engineVars, claim, error, reply>>
VacuityAnswered ==
    /\ pc = "vacuity"
    /\ Probed("Undetermined") \/ Probed(IF q.feasible THEN "Reachable" ELSE "Infeasible")
VacuityKilled == pc = "vacuity" /\ now >= until /\ Probed("Undetermined")

CoverStatus(answer) == CASE answer = "sat"   -> "Satisfied"
                         [] answer = "unsat" -> "Unsatisfiable"
                         [] OTHER            -> "Undetermined"

CoversChecked ==
    /\ RoundOver("cover")
    /\ covers' = [c \in Covers |-> IF c \in q.covers THEN CoverStatus(got[c]) ELSE "absent"]
    /\ Probe("coverReach",
             {c \in q.coverFlags : opts.reachChecks /\ covers'[c] = "Unsatisfiable"})
    /\ UNCHANGED <<callVars, now, rows, decided, feas, engineVars, claim, error, reply>>

(* classify_unreachable_covers, then the coverage probes of --coverage, whose
   answers are not part of the verdict. *)
CoversClassified ==
    /\ RoundOver("coverReach")
    /\ covers' = [c \in Covers |-> IF got[c] = "unsat" THEN "Unreachable" ELSE covers[c]]
    /\ IF opts.coverage THEN WaitFor("coverage", Clamp(SolverTimeout)) ELSE Goto("report")
    /\ UNCHANGED <<callVars, now, rows, decided, feas, probeVars, engineVars, claim, error,
                   reply>>

CoverageEnds ==
    /\ Goto("report")
    /\ UNCHANGED <<callVars, now, tableVars, probeVars, engineVars, claim, error, reply>>
CoverageAnswered == pc = "coverage" /\ now < until /\ CoverageEnds
CoverageKilled   == pc = "coverage" /\ now >= until /\ CoverageEnds

ReportProof ==
    /\ pc = "report" /\ claim = "proof"
    /\ Return(Result("proof", "Success", "None", TableRows, feas))
    /\ UNCHANGED <<callVars, now, tableVars, probeVars, engineVars, claim, error>>
=============================================================================
