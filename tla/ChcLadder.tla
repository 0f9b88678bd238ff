------------------------------ MODULE ChcLadder ------------------------------
(***************************************************************************)
(* The unbounded lane of run_ay: try_ay_chc_solver with its shortcuts, its *)
(* two solver threads and their guards, the checks of a native verdict,    *)
(* the interpretation of it, and the external proof fallback               *)
(* (trust-mc-driver/src/call_ay.rs and call_ay/chc/*.rs).                  *)
(*                                                                         *)
(* claim is the native verdict on its way to a report: which engine made   *)
(* it and what it says.  error is the class of the Err the ladder ended    *)
(* with, which decides whether the external fallback may run.              *)
(***************************************************************************)
EXTENDS SolverCall

Safe == q.viol = {}

StartChc ==
    /\ pc = "start" /\ q.horn
    /\ Goto("read")
    /\ UNCHANGED <<callVars, now, tableVars, probeVars, engineVars, claim, error, reply>>

ChcErr ==
    /\ pc = "start" /\ q.horn
    /\ Return(ErrReply)
    /\ UNCHANGED <<callVars, now, tableVars, probeVars, engineVars, claim, error>>

Fail(e) ==
    /\ error' = e /\ Goto("err")
    /\ UNCHANGED <<callVars, now, tableVars, probeVars, engineVars, reply>>

(* bail_unknown_if_deadline_exhausted, before every phase up to the solve *)
PreSolve == {"read", "trivial", "parse", "expand", "witness", "transforms", "solve"}
Exhausted == now >= end
BailExhausted == pc \in PreSolve /\ Exhausted /\ Fail("deadline") /\ UNCHANGED claim

Phase(p) == pc = p /\ ~Exhausted

(* A verdict to interpret: "trivial", "lane", "portfolio" and "external" proofs,
   "derived" and "cex" counterexamples. *)
Accept(c) ==
    /\ claim' = c
    /\ Goto(IF c \in {"derived", "cex"} THEN "unsafe" ELSE "safe")
    /\ UNCHANGED <<callVars, now, tableVars, probeVars, error, reply>>

Proceed(p) ==
    /\ Goto(p)
    /\ UNCHANGED <<callVars, now, tableVars, probeVars, engineVars, claim, error, reply>>

ReadSmt == Phase("read") /\ (Proceed("trivial") \/ (Fail("other") /\ UNCHANGED claim))

(* smt_error_query_is_trivially_safe and ..._has_false_error_obligation *)
TrivialCheck ==
    /\ Phase("trivial")
    /\ IF q.shape \in {"noRule", "falseRule"} THEN Accept("trivial") /\ UNCHANGED engineVars
                                              ELSE Proceed("parse")

ParseChc == Phase("parse") /\ (Proceed("expand") \/ (Fail("other") /\ UNCHANGED claim))

(* constraint_free_nullary_error_derivation_relations *)
ExpandNullary ==
    /\ Phase("expand")
    /\ IF q.shape = "nullary" THEN Accept("derived") /\ UNCHANGED engineVars
                              ELSE Proceed("witness")

(* The exact search runs on a slice of what is left of the deadline. *)
SearchWitness ==
    /\ Phase("witness")
    /\ IF q.acyclic THEN WaitFor("searching", Lesser(Remaining \div 5, WitnessCap))
                    ELSE Goto("transforms")
    /\ UNCHANGED <<callVars, now, tableVars, probeVars, engineVars, claim, error, reply>>
WitnessFound == pc = "searching" /\ ~Safe /\ Accept("derived") /\ UNCHANGED engineVars
NoWitness    == pc = "searching" /\ Proceed("transforms")

Transform == Phase("transforms") /\ Proceed("solve")

-----------------------------------------------------------------------------
(* The acyclic BMC lane: a thread, its channel, and a guard.  A thread whose
   receiver was dropped is an orphan; nobody hears its answer. *)
StartLane ==
    /\ Phase("solve")
    /\ full' = Clamp(SolverTimeout)
    /\ IF opts.adaptive /\ q.acyclic
       THEN lane' = "running" /\ WaitFor("lane", full' + Guard)
       ELSE lane' = lane /\ Goto("budget")
    /\ UNCHANGED <<callVars, now, tableVars, probeVars, timeout, portfolio, claim, error, reply>>

(* scalar_acyclic_bmc_safe_is_trusted and ..._counterexample_is_trusted *)
Trusted == q.scalar /\ ~opts.demoted

(* The lane is complete where it is trusted, and a replayed proof is one;
   elsewhere it may be wrong either way. *)
LaneAnswers ==
    /\ lane = "running"
    /\ lane' \in {"Safe", "Replayed", "Unsafe", "ZeroStep", "Unknown", "panic"}
    /\ lane' = "Replayed" => Safe
    /\ Trusted => (lane' = "Safe" => Safe) /\ (lane' = "Unsafe" => ~Safe)
    /\ UNCHANGED <<callVars, now, pc, until, tableVars, probeVars, full, timeout, portfolio,
                   claim, error, reply>>

LaneHeard == pc = "lane" /\ lane' = "off" /\ UNCHANGED <<full, timeout, portfolio>>

LaneProves ==
    /\ lane = "Replayed" \/ (lane = "Safe" /\ Trusted)
    /\ LaneHeard /\ Accept("lane")
LaneRefutes == lane = "Unsafe" /\ Trusted /\ LaneHeard /\ Accept("cex")
LaneZeroStep ==
    /\ lane = "ZeroStep" /\ Trusted /\ LaneHeard
    /\ error' = "other" /\ Goto("err")
    /\ UNCHANGED <<callVars, now, tableVars, probeVars, claim, reply>>
LaneInconclusive ==
    /\ lane \in {"Unknown", "panic"} \/ (lane \in {"Safe", "Unsafe", "ZeroStep"} /\ ~Trusted)
    /\ LaneHeard /\ Goto("budget")
    /\ UNCHANGED <<callVars, now, tableVars, probeVars, claim, error, reply>>

(* The guard cancels, drains for a moment, and goes on without an answer. *)
LaneGuard ==
    /\ pc = "lane" /\ lane = "running" /\ now >= until
    /\ WaitFor("laneDrain", Drain)
    /\ UNCHANGED <<callVars, now, tableVars, probeVars, engineVars, claim, error, reply>>
LaneAbandoned ==
    /\ pc = "laneDrain" /\ (lane # "running" \/ now >= until)
    /\ lane' = IF lane = "running" THEN "orphan" ELSE "off"
    /\ Goto("budget")
    /\ UNCHANGED <<callVars, now, tableVars, probeVars, full, timeout, portfolio, claim, error,
                   reply>>

-----------------------------------------------------------------------------
(* Mutant: the portfolio gets its share of a stale budget. *)
BudgetUnclamped ==
    /\ pc = "budget"
    /\ timeout' = (full * opts.pct) \div 100
    /\ Goto("hints")
    /\ UNCHANGED <<callVars, now, tableVars, probeVars, full, lane, portfolio, claim, error, reply>>

(* The portfolio's budget is clamped here; the hints are computed after. *)
BudgetPortfolio ==
    /\ pc = "budget"
    /\ timeout' = Clamp((full * opts.pct) \div 100)
    /\ Goto("hints")
    /\ UNCHANGED <<callVars, now, tableVars, probeVars, full, lane, portfolio, claim, error, reply>>

StartPortfolio ==
    /\ pc = "hints"
    /\ portfolio' = "running"
    /\ WaitFor("portfolio", timeout + Guard)
    /\ UNCHANGED <<callVars, now, tableVars, probeVars, full, timeout, lane, claim, error, reply>>

(* Its counterexamples are validated; its proofs are candidates. *)
PortfolioAnswers ==
    /\ portfolio = "running"
    /\ portfolio' \in {"Safe", "Unsafe", "ZeroStep", "Unknown", "panic"}
    /\ portfolio' = "Unsafe" => ~Safe
    /\ UNCHANGED <<callVars, now, pc, until, tableVars, probeVars, full, timeout, lane, claim,
                   error, reply>>

PortfolioGuard ==
    /\ pc = "portfolio" /\ portfolio = "running" /\ now >= until
    /\ WaitFor("drain", Drain)
    /\ UNCHANGED <<callVars, now, tableVars, probeVars, engineVars, claim, error, reply>>
PortfolioAbandoned ==
    /\ pc = "drain" /\ (portfolio # "running" \/ now >= until)
    /\ portfolio' = IF portfolio = "running" THEN "orphan" ELSE "off"
    /\ error' = "guard" /\ Goto("err")
    /\ UNCHANGED <<callVars, now, tableVars, probeVars, full, timeout, lane, claim, reply>>

(* An answer in time.  A verdict is cross-checked on this thread, unless
   --ay-chc-skip-verify. *)
PortfolioReceived ==
    /\ pc = "portfolio" /\ portfolio \notin {"off", "running", "orphan"}
    /\ portfolio' = "off"
    /\ \/ portfolio \in {"Unknown", "panic"}
          /\ error' = (IF portfolio = "Unknown" THEN "unknown" ELSE "other")
          /\ Goto("err") /\ claim' = claim
       \/ portfolio \in {"Safe", "Unsafe", "ZeroStep"}
          /\ claim' = portfolio /\ error' = error
          /\ IF opts.skipVerify THEN Goto("checked")
                                ELSE WaitFor("cross", Lesser(CrossCap, timeout))
    /\ UNCHANGED <<callVars, now, tableVars, probeVars, full, timeout, lane, reply>>

(* The bounded cross-check contradicts the verdict, or does not. *)
CrossContradicts == pc = "cross" /\ Fail("refuted") /\ UNCHANGED claim
CrossAgrees == pc = "cross" /\ Proceed(IF claim = "Safe" THEN "validate" ELSE "checked")

(* validate_external_pdr_invariant_model: a fresh solver accepts only a model
   that is one; it may also reject it, time out or fail. *)
Validated ==
    /\ pc = "validate"
    /\ \/ Safe /\ Proceed("checked")
       \/ \E e \in {"refuted", "validation", "other"} : Fail(e) /\ UNCHANGED claim

(* A counterexample without steps is no counterexample. *)
Checked ==
    /\ pc = "checked"
    /\ \/ claim = "ZeroStep" /\ Fail("other") /\ UNCHANGED claim
       \/ claim = "Safe" /\ Accept("portfolio") /\ UNCHANGED engineVars
       \/ claim = "Unsafe" /\ Accept("cex") /\ UNCHANGED engineVars

-----------------------------------------------------------------------------
(* interpret_chc_safe, its two trivial variants and the end of the external
   fallback: the property table, or one aggregate row; the covers get a query of
   their own with the whole solver timeout. *)
Aggregate == ~q.table \/ claim = "external"
ProvedStatus == IF q.vacuous /\ claim # "external" THEN "Unreachable" ELSE "Success"

InterpretSafe ==
    /\ pc = "safe"
    /\ rows' = IF Aggregate THEN NoRows ELSE AllAs(q.checks, Checks, ProvedStatus)
    /\ IF q.covers # {} /\ opts.ay
       THEN covers' = covers /\ WaitFor("chcCovers", SolverTimeout)
       ELSE covers' = AllAs(q.covers, Covers, "Undetermined") /\ Goto("verdict")
    /\ UNCHANGED <<callVars, now, decided, feas, probeVars, engineVars, claim, error, reply>>

(* check_cover_satisfiability_for_chc: the query has lost the program's rules, so
   only unsat, here for the covers of s, says anything about a cover. *)
ChcCoversDone(s) ==
    /\ covers' = [c \in Covers |-> IF c \notin q.covers THEN "absent"
                                   ELSE IF c \in s THEN "Unsatisfiable" ELSE "Undetermined"]
    /\ Goto("verdict")
    /\ UNCHANGED <<callVars, now, rows, decided, feas, probeVars, engineVars, claim, error, reply>>
ChcCoversAnswered == pc = "chcCovers" /\ \E s \in SUBSET (q.covers \ q.alone) : ChcCoversDone(s)
ChcCoversKilled   == pc = "chcCovers" /\ now >= until /\ ChcCoversDone({})

(* apply_recursion_unwind_verdict replaces the whole table. *)
UnwindFailure == Result("ctrex", "Failure", "Other", {"unwind"}, "Undetermined")

SafeRows == CoverRows \union
    (IF Aggregate THEN {IF ProvedStatus = "Success" THEN "ok" ELSE "unreach"} ELSE CheckRows)

(* apply_chc_cover_witness_fail_close is the last word. *)
ReportSafe ==
    /\ pc = "verdict"
    /\ IF q.unwind
       THEN /\ rows' = NoRows /\ covers' = NoCovers
            /\ Return(UnwindFailure)
       ELSE /\ UNCHANGED <<rows, covers>>
            /\ Return(IF opts.strict /\ "coverUndet" \in SafeRows
                      THEN Result("proof", "Failure", "Other", SafeRows, "Undetermined")
                      ELSE Result("proof", "Success", "None", SafeRows, "Undetermined"))
    /\ UNCHANGED <<callVars, now, decided, feas, probeVars, engineVars, claim, error>>

(* interpret_chc_unsafe and interpret_chc_trivial_unsafe: the checks the trace
   names are FAILURE and the others unknown; or one aggregate row, which a
   derivation may class by any relation it can reach. *)
ReportNamed ==
    /\ pc = "unsafe" /\ q.table /\ ~q.unwind
    /\ \E named \in (SUBSET q.viol) \ {{}} :
         /\ rows' = [c \in Checks |-> IF c \in named THEN "Failure"
                                      ELSE IF c \in q.checks THEN "Undetermined" ELSE "absent"]
         /\ LET r == {q.class[c] : c \in named}
                       \union (IF q.checks = named THEN {} ELSE {"undet"})
            IN  Return(Result("ctrex", "Failure", DetermineFailed(r), r, "Undetermined"))
    /\ UNCHANGED <<callVars, now, covers, decided, feas, probeVars, engineVars, claim, error>>

ReportAggregate ==
    /\ pc = "unsafe" /\ ~q.unwind
    /\ \E f \in {"PanicsOnly"} \union (IF claim = "derived" /\ q.table THEN {"Other"} ELSE {}) :
         Return(Result("ctrex", "Failure", f, {"chc"}, "Undetermined"))
    /\ UNCHANGED <<callVars, now, tableVars, probeVars, engineVars, claim, error>>

ReportUnwind ==
    /\ pc = "unsafe" /\ q.unwind
    /\ Return(UnwindFailure)
    /\ UNCHANGED <<callVars, now, tableVars, probeVars, engineVars, claim, error>>

-----------------------------------------------------------------------------
(* Mutant: a refuted candidate falls back as well. *)
AllowsAnyValidationFailure == error \in {"unknown", "guard", "validation", "refuted"}

(* native_chc_error_allows_external_proof_fallback *)
AllowsFallback == error \in {"unknown", "guard", "validation"}

Fallback ==
    /\ pc = "err" /\ AllowsFallback /\ opts.ay
    /\ WaitFor("external", Clamp(SolverTimeout))
    /\ UNCHANGED <<callVars, now, tableVars, probeVars, engineVars, claim, error, reply>>

Inconclusive ==
    /\ Return(Result("unknown", "Failure", "Other", {"chc"}, "Undetermined"))
    /\ UNCHANGED <<callVars, now, tableVars, probeVars, engineVars, claim, error>>
GiveUp == pc = "err" /\ ~(AllowsFallback /\ opts.ay) /\ Inconclusive

(* try_ay_chc_external_proof_fallback: proof-only *)
ExternalProves  == pc = "external" /\ Safe /\ Accept("external") /\ UNCHANGED engineVars
ExternalFails   == pc = "external" /\ now < until /\ Inconclusive
ExternalKilled  == pc = "external" /\ now >= until /\ Inconclusive
=============================================================================
