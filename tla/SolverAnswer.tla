----------------------------- MODULE SolverAnswer -----------------------------
(***************************************************************************)
(* What KaniSession::run_ay (trust-mc-driver/src/call_ay.rs) may return:   *)
(* the interface between the solver lanes, modelled step by step in RunAy, *)
(* and the verdict pipeline, HarnessVerdict, that starts from an answer.   *)
(*                                                                         *)
(* The check table is abstracted to the set of kinds of row it has:        *)
(*   ok, unreach, undet          checks that did not fail                  *)
(*   panic, other, unwind, chc   failed checks, by class                   *)
(*   coverSat, coverUnsat, coverUndet                                      *)
(***************************************************************************)

Failing    == {"panic", "other", "unwind", "chc"}
Settled    == {"ok", "unreach", "undet"}
CoverKinds == {"coverSat", "coverUnsat", "coverUndet"}
AllKinds   == Failing \union Settled \union CoverKinds
CheckKinds(kinds) == kinds \ CoverKinds

Feasibility == {"Reachable", "Infeasible", "Undetermined"}

(* status, failed_properties, results and harness_feasibility of a
   VerificationResult; says is the answer it stands for *)
Result(says, s, f, r, x) ==
    [says |-> says, status |-> s, failed |-> f, rows |-> r, feas |-> x]

(* determine_failed_from_properties *)
DetermineFailed(r) ==
    IF r \intersect (Failing \ {"panic"}) # {} THEN "Other"
    ELSE IF "panic" \in r THEN "PanicsOnly" ELSE "None"

ProofRows(kinds) == SUBSET (kinds \intersect ({"ok", "unreach"} \union CoverKinds))

(* An unsatisfiable query.  Only a table with checks is probed for
   feasibility. *)
Proofs(kinds) ==
    {Result("proof", "Success", "None", r, "Undetermined") : r \in ProofRows(kinds)}
    \union
    {Result("proof", "Success", "None", r, x) :
       r \in {k \in ProofRows(kinds) : CheckKinds(k) # {}},
       x \in {"Reachable", "Infeasible"}}

(* apply_chc_cover_witness_fail_close: on the CHC lane an undecided cover fails
   the result under --strict-vacuity. *)
Unwitnessed(kinds, strict) ==
    {Result("proof", "Failure", "Other", r, "Undetermined") :
       r \in {k \in ProofRows(kinds) : strict /\ "coverUndet" \in k}}

(* A counterexample that names the checks it violates. *)
Ctrexs(kinds) ==
    {Result("ctrex", "Failure", DetermineFailed(r), r, "Undetermined") :
       r \in {k \in SUBSET (kinds \ {"chc"}) : k \intersect Failing # {}}}

(* A CHC counterexample with the aggregate error relation only. *)
ChcCtrexs == {Result("ctrex", "Failure", f, {"chc"}, "Undetermined") :
                f \in {"PanicsOnly", "Other"}}

(* No decision: a model that violates nothing, a timeout, a rejected query, or
   (chc) an inconclusive CHC ladder. *)
Unknowns(kinds) ==
    {Result("unknown", "Failure", "Other", r, "Undetermined") :
       r \in (SUBSET (kinds \ Failing)) \union {{"chc"}}}

Results(kinds, strict) ==
    Proofs(kinds) \union Unwitnessed(kinds, strict) \union Ctrexs(kinds)
        \union ChcCtrexs \union Unknowns(kinds)
=============================================================================
