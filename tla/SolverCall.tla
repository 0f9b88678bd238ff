------------------------------ MODULE SolverCall ------------------------------
(***************************************************************************)
(* One call of KaniSession::run_ay (trust-mc-driver/src/call_ay.rs): its   *)
(* inputs, the clock and the per-harness deadline, and the state its two   *)
(* lanes work on.  BmcLane and ChcLadder are the lanes, RunAy the call.    *)
(*                                                                         *)
(* The emitted query is abstracted to what is true of the program it       *)
(* encodes (viol, reach, satisfiable, ...); the lanes never read those     *)
(* fields, only the answers of solvers, which are constrained by them.     *)
(* Times are in units of the smallest probe slice (one second).            *)
(***************************************************************************)
EXTENDS Integers, FiniteSets, SolverAnswer

CONSTANTS
    Checks,         \* violation flags of the query
    Covers,         \* cover flags of the query
    Calls,          \* the pairs of a query and a command line considered
    SolverTimeout,  \* solver_timeout_duration
    Ends,           \* when the per-harness deadline falls; the call starts at 0
    Guard,          \* grace of the recv_timeout guards (5 s)
    Drain,          \* GUARD_CANCEL_DRAIN_SECS
    CrossCap,       \* cap of a BMC cross-check (30 s)
    WitnessCap,     \* cap of the acyclic witness search (3 s)
    Horizon         \* bound: unguarded work is not followed past this time

(* What the encoder put in the query and what is true of it.  A violation needs
   its check reached; a cover holds only where it is reached and only if its
   condition is satisfiable in isolation; a syntactically safe or unsafe clause
   set is so; and the vacuity marker comes with a false error obligation. *)
Query ==
    {x \in [horn : BOOLEAN,
            checks : SUBSET Checks, class : [Checks -> Failing \ {"chc"}],
            viol : SUBSET Checks, reach : SUBSET Checks, reachFlags : SUBSET Checks,
            feasible : BOOLEAN,
            covers : SUBSET Covers, satisfiable : SUBSET Covers, coverReach : SUBSET Covers,
            coverFlags : SUBSET Covers, alone : SUBSET Covers,
            shape : {"noRule", "falseRule", "nullary", "general"},
            acyclic : BOOLEAN, scalar : BOOLEAN, table : BOOLEAN,
            vacuous : BOOLEAN, unwind : BOOLEAN] :
        /\ x.viol \subseteq x.reach /\ x.reach \subseteq x.checks
        /\ x.satisfiable \subseteq x.coverReach /\ x.coverReach \subseteq x.covers
        /\ x.satisfiable \subseteq x.alone
        /\ x.shape \in {"noRule", "falseRule"} => x.viol = {}
        /\ x.shape = "nullary" => x.viol # {}
        /\ x.vacuous => x.shape = "falseRule" /\ x.reach = {}}

Option == [ay : BOOLEAN, reachChecks : BOOLEAN, coverage : BOOLEAN, strict : BOOLEAN,
           adaptive : BOOLEAN, skipVerify : BOOLEAN, proofCore : BOOLEAN,
           demoted : BOOLEAN, pct : 10..100]

ASSUME CallAssumption ==
    /\ IsFiniteSet(Checks) /\ IsFiniteSet(Covers)
    /\ Calls \subseteq Query \X Option
    /\ SolverTimeout \in Nat /\ Ends \subseteq Nat /\ Horizon \in Nat
    /\ Guard \in Nat /\ Drain \in Nat /\ CrossCap \in Nat /\ WitnessCap \in Nat

VARIABLES
    q, opts, end,      \* the call: query, command line, deadline
    now, pc, until,    \* the clock, the main thread, and when its wait is cut off
    rows, covers,      \* statuses of the listed checks and covers ("absent")
    decided, feas,     \* decided_reachable and harness_feasibility
    goal,              \* the probe round running: what its flags stand for
    todo, asking,      \* flags not yet asked, and those in the file being solved
    got, asked,        \* the round's answers, and how many files were solved
    by, from,          \* the round's budget end and its start
    full, timeout,     \* full_timeout and the portfolio's timeout
    lane, portfolio,   \* the two solver threads and their channels
    claim, error,      \* the native verdict being checked; the pending Err
    reply              \* what run_ay returned

callVars    == <<q, opts, end>>
tableVars   == <<rows, covers, decided, feas>>
probeVars   == <<goal, todo, asking, got, asked, by, from>>
engineVars  == <<full, timeout, lane, portfolio>>
vars == <<callVars, now, pc, until, tableVars, probeVars, engineVars, claim, error, reply>>

CheckStatuses == {"absent", "Success", "Failure", "Unreachable", "Undetermined"}
CoverStatuses == {"absent", "Satisfied", "Unsatisfiable", "Unreachable", "Undetermined"}
NoRows   == [c \in Checks |-> "absent"]
NoCovers == [c \in Covers |-> "absent"]
AllAs(present, domain, s) == [c \in domain |-> IF c \in present THEN s ELSE "absent"]

Lesser(a, b) == IF a < b THEN a ELSE b
Greater(a, b) == IF a > b THEN a ELSE b

(* Mutant: the subtraction does not saturate. *)
RemainingUnsaturated == end - now

(* Deadline::remaining and Deadline::clamp *)
Remaining == Greater(end - now, 0)
Clamp(d) == Lesser(d, Remaining)

(* The main thread waits, with a limit, for a subprocess, a thread or a bounded
   search; in the phases of Working it computes with no limit of its own. *)
Waiting == {"main", "asked", "vacuity", "coverage", "searching", "lane", "laneDrain",
            "portfolio", "drain", "cross", "chcCovers", "external"}
Working == {"trivial", "parse", "expand", "witness", "transforms", "solve", "validate"}

WaitFor(p, d) == pc' = p /\ until' = now + d
Goto(p) == pc' = p /\ until' = until

Tick ==
    /\ \/ pc \in Waiting /\ now < until
       \/ (pc \in Working \/ (pc = "hints" /\ opts.proofCore)) /\ now < Horizon
    /\ now' = now + 1
    /\ UNCHANGED <<callVars, pc, until, tableVars, probeVars, engineVars, claim, error, reply>>

NoReply  == Result("none", "none", "none", {}, "Undetermined")
ErrReply == Result("error", "none", "none", {}, "Undetermined")

(* The rows of a table as the kinds SolverAnswer counts. *)
CheckKind(c) == CASE rows[c] = "Success"      -> "ok"
                  [] rows[c] = "Unreachable"  -> "unreach"
                  [] rows[c] = "Undetermined" -> "undet"
                  [] OTHER                    -> q.class[c]
CoverKind(c) == CASE covers[c] = "Satisfied"    -> "coverSat"
                  [] covers[c] = "Undetermined" -> "coverUndet"
                  [] OTHER                      -> "coverUnsat"
CheckRows == {CheckKind(c) : c \in {x \in Checks : rows[x] # "absent"}}
CoverRows == {CoverKind(c) : c \in {x \in Covers : covers[x] # "absent"}}
TableRows == CheckRows \union CoverRows

Return(r) == reply' = r /\ Goto("done")

Init ==
    /\ \E call \in Calls : q = call[1] /\ opts = call[2]
    /\ end \in Ends
    /\ now = 0 /\ pc = "start" /\ until = 0
    /\ rows = NoRows /\ covers = NoCovers /\ decided = {} /\ feas = "Undetermined"
    /\ goal = "none" /\ todo = {} /\ asking = {} /\ asked = 0 /\ by = 0 /\ from = 0
    /\ got = [x \in Checks \union Covers |-> "none"]
    /\ full = 0 /\ timeout = 0 /\ lane = "off" /\ portfolio = "off"
    /\ claim = "none" /\ error = "none" /\ reply = NoReply
=============================================================================
