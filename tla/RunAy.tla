-------------------------------- MODULE RunAy --------------------------------
(***************************************************************************)
(* KaniSession::run_ay: one query, solved by the bounded lane or by the    *)
(* CHC ladder under the deadline of its harness.                           *)
(***************************************************************************)
EXTENDS BmcLane, ChcLadder

(* What the thread that called run_ay does by itself. *)
MainStep ==
    \/ StartBmc \/ AyMissing \/ MainKilled
    \/ AskOne \/ AskRest \/ FileKilled
    \/ Requeried \/ ModelClassified \/ ReportModel \/ ProofClassified \/ VacuityKilled
    \/ CoversChecked \/ CoversClassified \/ CoverageKilled \/ ReportProof
    \/ StartChc \/ BailExhausted \/ ReadSmt \/ TrivialCheck \/ ParseChc \/ ExpandNullary
    \/ SearchWitness \/ NoWitness \/ Transform \/ StartLane
    \/ LaneProves \/ LaneRefutes \/ LaneZeroStep \/ LaneInconclusive
    \/ LaneGuard \/ LaneAbandoned
    \/ BudgetPortfolio \/ StartPortfolio \/ PortfolioReceived
    \/ PortfolioGuard \/ PortfolioAbandoned
    \/ CrossContradicts \/ CrossAgrees \/ Validated \/ Checked
    \/ InterpretSafe \/ ChcCoversKilled \/ ReportSafe
    \/ ReportNamed \/ ReportAggregate \/ ReportUnwind
    \/ Fallback \/ GiveUp \/ ExternalKilled

(* What a subprocess or a solver thread does, or does not, and failures. *)
SolverStep ==
    \/ BmcErr \/ MainUnsat \/ MainSat \/ MainUnknown \/ MainRejected
    \/ FileAnswered \/ VacuityAnswered \/ CoverageAnswered
    \/ ChcErr \/ WitnessFound \/ LaneAnswers \/ PortfolioAnswers
    \/ ChcCoversAnswered \/ ExternalProves \/ ExternalFails

Next == MainStep \/ SolverStep \/ Tick

(* The calling thread runs and time passes; no solver has to answer. *)
Spec == Init /\ [][Next]_vars /\ WF_vars(MainStep) /\ WF_vars(Tick)
-----------------------------------------------------------------------------
Phases == {"start", "slice", "report", "read", "budget", "hints", "checked", "safe",
           "verdict", "unsafe", "err", "done"} \union Waiting \union Working
LaneStates == {"off", "running", "orphan", "Safe", "Replayed", "Unsafe", "ZeroStep",
               "Unknown", "panic"}

TypeOK ==
    /\ q \in Query /\ opts \in Option /\ end \in Ends
    /\ now \in Nat /\ pc \in Phases /\ until \in Nat
    /\ rows \in [Checks -> CheckStatuses] /\ covers \in [Covers -> CoverStatuses]
    /\ decided \subseteq Checks /\ feas \in Feasibility
    /\ goal \in {"none", "requery", "reach", "cover", "coverReach"}
    /\ todo \subseteq Checks \union Covers /\ asking \subseteq todo
    /\ got \in [Checks \union Covers -> {"none", "sat", "unsat"}]
    /\ asked \in Nat /\ by \in Nat /\ from \in Nat
    /\ full \in Nat /\ timeout \in Nat
    /\ lane \in LaneStates /\ portfolio \in LaneStates \ {"Replayed"}
    /\ claim \in {"none", "proof", "model", "Safe", "Unsafe", "ZeroStep", "trivial", "lane",
                  "portfolio", "external", "derived", "cex"}
    /\ error \in {"none", "deadline", "other", "unknown", "guard", "validation", "refuted"}

Replied == pc = "done" /\ reply.says # "error"
Proved  == Replied /\ reply.says = "proof"

(* What every row of a report says is so, whatever the order in which probes
   answered, ran out of budget or were batched: a FAILURE can happen; a check is
   UNREACHABLE only if it is, or if the whole harness is infeasible and its own
   site was not decided reachable before (a later contradictory assume does not
   un-verify it); a SATISFIED cover can be; and in a proof, which a flag of the
   user may leave unchecked, every SUCCESS holds and every UNSATISFIABLE or
   UNREACHABLE cover is. *)
RowsTruthful ==
    Replied =>
      /\ \A c \in Checks :
           /\ rows[c] = "Failure" => c \in q.viol
           /\ rows[c] = "Unreachable" =>
                c \notin q.viol /\ (c \notin q.reach \/ (~q.feasible /\ c \notin decided))
           /\ rows[c] = "Success" /\ Proved /\ ~(q.horn /\ opts.skipVerify) => c \notin q.viol
      /\ \A c \in Covers :
           /\ covers[c] = "Satisfied" => c \in q.satisfiable
           /\ covers[c] = "Unsatisfiable" /\ Proved => c \notin q.satisfiable
           /\ covers[c] = "Unreachable" => c \notin q.coverReach

(* A candidate the ladder saw refuted, or a budget it found spent, ends without
   a proof: neither a cross-check's contradiction nor a rejected model nor the
   exhausted deadline may fall into the external fallback or a success path,
   and a call that starts with no time left on the CHC lane proves nothing. *)
FailClosed ==
    /\ Replied /\ error \in {"refuted", "deadline", "other"} => reply.says = "unknown"
    /\ Replied /\ q.horn /\ end = 0 => reply.says = "unknown"

(* How far the waits of one call run past its deadline.  The bounded lane never
   does; the witness search always leaves time to the lane behind it; and the
   threads of the ladder and the cross-check overrun by their guards, drains and
   the cap of the cross-check at most, as long as no proof-core distillation
   separates the portfolio's budget from its start. *)
OverrunBound == Greater(2 * (Guard + Drain), Guard + CrossCap)
OverrunBounded ==
    /\ ~q.horn => now <= end
    /\ pc = "searching" => until < end
    /\ pc \in {"lane", "laneDrain", "portfolio", "drain", "cross"} /\ ~opts.proofCore =>
         until <= end + OverrunBound

S == INSTANCE Solve WITH q <- q, opts <- opts, reply <- reply

(* run_ay returns once, in the end, and what it returns is a result its caller
   expects and is true of the query. *)
ImplementsSolve == S!Spec

-----------------------------------------------------------------------------
(* guide/src/verification-results.md: SUCCESS "indicates that the check passed
   (i.e., the property holds)", and UNSATISFIABLE that the tool "proved that the
   specified condition is impossible". *)
StatusesProved ==
    Replied /\ ~opts.skipVerify =>
      /\ \A c \in Checks : rows[c] = "Success" => c \notin q.viol
      /\ \A c \in Covers : covers[c] = "Unsatisfiable" => c \notin q.satisfiable

(* deadline.rs: "the sum of all attempts for one harness can never exceed the
   per-harness wall budget". *)
AttemptsInsideDeadline ==
    pc \in {"lane", "portfolio", "cross", "chcCovers", "external", "main", "asked"}
        => now <= end
=============================================================================
