-------------------------------- MODULE Solve --------------------------------
(***************************************************************************)
(* What a caller of run_ay relies on, with nothing of how it is done: the  *)
(* call returns once, in the end, with an Err or with one of the results   *)
(* SolverAnswer allows, and what that result says is true of the query.    *)
(* RunAy implements this specification; HarnessVerdict takes its answers   *)
(* from the same set of results.                                           *)
(***************************************************************************)
EXTENDS SolverAnswer

VARIABLES q, opts, reply

NoReply  == Result("none", "none", "none", {}, "Undetermined")
ErrReply == Result("error", "none", "none", {}, "Undetermined")

(* The kinds of rows a result for this query can list. *)
Kinds == Settled \union {q.class[c] : c \in q.checks}
            \union (IF q.horn /\ q.unwind THEN {"unwind"} ELSE {})
            \union (IF q.covers # {} THEN CoverKinds ELSE {})

Reply == [says : {"proof", "ctrex", "unknown"}, status : {"Success", "Failure"},
          failed : {"None", "PanicsOnly", "Other"}, rows : SUBSET AllKinds, feas : Feasibility]

(* A proof means no check can be violated, unless --ay-chc-skip-verify asked for
   an unchecked one; a counterexample that one can, or that the encoder marked
   the recursion bound as exhausted; a failed row is one of a violated check; and
   covers and feasibility are reported as they are. *)
Truthful(r) ==
    /\ r.says = "proof" => q.viol = {} \/ (q.horn /\ opts.skipVerify)
    /\ r.says = "ctrex" => q.viol # {} \/ (q.horn /\ q.unwind /\ r.rows = {"unwind"})
    /\ \A k \in r.rows \intersect (Failing \ {"chc"}) :
         (\E c \in q.viol : q.class[c] = k) \/ (q.horn /\ q.unwind /\ r.rows = {"unwind"})
    /\ r.feas = "Reachable" => q.feasible
    /\ r.feas = "Infeasible" => ~q.feasible
    /\ "coverSat" \in r.rows => q.satisfiable # {}
    /\ r.says = "proof" /\ "coverUnsat" \in r.rows => q.satisfiable # q.covers
    /\ "unreach" \in r.rows => q.reach # q.checks \/ ~q.feasible \/ q.vacuous

(* Only the kinds a result lists matter to its being one. *)
Reject == reply' = ErrReply
Decide ==
    /\ reply' \in Reply /\ reply' # reply
    /\ reply' \in Results(Kinds \intersect reply'.rows, opts.strict)
    /\ Truthful(reply')

Answer == reply = NoReply /\ (Reject \/ Decide) /\ UNCHANGED <<q, opts>>

Init == reply = NoReply
Spec == Init /\ [][Answer]_<<q, opts, reply>> /\ WF_<<q, opts, reply>>(Answer)
=============================================================================
