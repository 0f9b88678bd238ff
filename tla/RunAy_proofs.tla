----------------------------- MODULE RunAy_proofs -----------------------------
(***************************************************************************)
(* Proofs about RunAy, for any query, command line, timeouts and deadline. *)
(*                                                                         *)
(* IInv is the inductive invariant.  ControlInv says which lane a phase    *)
(* belongs to and where an Err can lead, TimeInv where each wait ends,     *)
(* ClaimInv what the verdict under way rests on, RoundInv that the answers *)
(* of the running probe round are right and about rows it may change, and  *)
(* TableInv what the rows say.  Each is preserved given the ones before    *)
(* it; ClaimInv, RoundInv and TableInv need one another.                   *)
(***************************************************************************)
EXTENDS RunAy, FiniteSetTheorems, TLAPS

(* What the fields of a query and of a command line are. *)
LEMMA QueryFacts ==
    ASSUME q \in Query
    PROVE  /\ q.horn \in BOOLEAN /\ q.feasible \in BOOLEAN /\ q.acyclic \in BOOLEAN
           /\ q.scalar \in BOOLEAN /\ q.table \in BOOLEAN /\ q.vacuous \in BOOLEAN
           /\ q.unwind \in BOOLEAN
           /\ q.checks \subseteq Checks /\ q.reachFlags \subseteq Checks
           /\ q.viol \subseteq q.reach /\ q.reach \subseteq q.checks
           /\ q.covers \subseteq Covers /\ q.coverFlags \subseteq Covers
           /\ q.satisfiable \subseteq q.coverReach /\ q.coverReach \subseteq q.covers
           /\ q.satisfiable \subseteq q.alone
           /\ q.class \in [Checks -> Failing \ {"chc"}]
           /\ q.shape \in {"noRule", "falseRule"} => q.viol = {}
           /\ q.shape = "nullary" => q.viol # {}
           /\ q.vacuous => q.reach = {}
  BY DEF Query

(* The fields of a command line. *)
LEMMA OptionFacts ==
    ASSUME opts \in Option
    PROVE  /\ opts.ay \in BOOLEAN /\ opts.reachChecks \in BOOLEAN /\ opts.coverage \in BOOLEAN
           /\ opts.strict \in BOOLEAN /\ opts.adaptive \in BOOLEAN
           /\ opts.skipVerify \in BOOLEAN /\ opts.proofCore \in BOOLEAN
           /\ opts.demoted \in BOOLEAN /\ opts.pct \in 10..100
  BY DEF Option

(* A share of a budget is a natural number and no larger. *)
LEMMA Shares ==
    ASSUME NEW a \in Nat, NEW b \in Nat \ {0}
    PROVE  a \div b \in Nat /\ a \div b <= a
  OBVIOUS

(* A percentage of a budget is no more than the budget. *)
LEMMA Portions ==
    ASSUME NEW a \in Nat, NEW p \in 10..100
    PROVE  (a * p) \div 100 \in Nat /\ (a * p) \div 100 <= a
  <1>1. a * p \in Nat
    OBVIOUS
  <1>2. a * p <= a * 100
    OBVIOUS
  <1> QED
    BY <1>1, <1>2

(* A round that is not over has flags to divide its budget by. *)
LEMMA TodoCounted ==
    ASSUME TypeOK, todo # {}
    PROVE  Left \in Nat \ {0}
  <1>1. IsFiniteSet(todo)
    BY CallAssumption, FS_Union, FS_Subset DEF TypeOK
  <1> QED
    BY <1>1, FS_CardinalityType, FS_EmptySet DEF Left

(* The type invariant: every budget, wait and clock is a natural number, and the
   tables and rounds range over the query's flags. *)
LEMMA TypeInit == Init => TypeOK
  BY CallAssumption DEF Init, TypeOK, NoRows, NoCovers, CheckStatuses,
     CoverStatuses, Feasibility, Phases, LaneStates

(* Every step of either lane keeps the types. *)
LEMMA TypeStep == TypeOK /\ [Next]_vars => TypeOK'
  <1> SUFFICES ASSUME TypeOK, [Next]_vars PROVE TypeOK'
    OBVIOUS
  <1> USE DEF TypeOK, CheckStatuses, CoverStatuses, Feasibility, Phases, Waiting, Working,
             LaneStates, callVars, tableVars, probeVars, engineVars
  <1>q. q \in Query /\ opts \in Option
    OBVIOUS
  <1>f. /\ q.checks \subseteq Checks /\ q.viol \subseteq Checks /\ q.covers \subseteq Covers
        /\ q.reachFlags \subseteq Checks /\ q.coverFlags \subseteq Covers
    BY <1>q, QueryFacts
  <1>t. /\ SolverTimeout \in Nat /\ Guard \in Nat /\ Drain \in Nat /\ CrossCap \in Nat
        /\ WitnessCap \in Nat /\ end \in Nat
    BY CallAssumption
  <1>c. Remaining \in Nat /\ Clamp(SolverTimeout) \in Nat /\ Rest \in Nat
    BY <1>t DEF Remaining, Clamp, Rest, Greater, Lesser
  <1>d. todo # {} => Rest \div Left \in Nat
    <2> HAVE todo # {}
    <2>1. IsFiniteSet(todo)
      BY CallAssumption, FS_Union, FS_Subset
    <2>2. Left \in Nat \ {0}
      BY <2>1, FS_CardinalityType, FS_EmptySet DEF Left
    <2> HIDE DEF Left
    <2> QED
      BY <1>c, <2>2, Shares
  <1>s. /\ Lesser(Remaining \div 5, WitnessCap) \in Nat
        /\ Lesser(CrossCap, timeout) \in Nat
    BY <1>t, <1>c DEF Lesser
  <1>p. Clamp((full * opts.pct) \div 100) \in Nat
    BY <1>q, <1>c, OptionFacts, Portions DEF Clamp, Lesser
  <1>1. CASE StartBmc
    BY <1>1, <1>f, <1>t, <1>c DEF StartBmc, WaitFor
  <1>2. CASE AyMissing
    BY <1>2, <1>f, <1>t, <1>c DEF AyMissing, Return, Goto
  <1>3. CASE MainKilled
    BY <1>3, <1>f, <1>t, <1>c DEF MainKilled, ListUndetermined, AllAs, Return, Goto
  <1>4. CASE AskOne
    BY <1>4, <1>f, <1>t, <1>c, <1>d DEF AskOne, WaitFor
  <1>5. CASE AskRest
    BY <1>5, <1>f, <1>t, <1>c DEF AskRest, WaitFor, Goto
  <1>6. CASE FileKilled
    BY <1>6, <1>f, <1>t, <1>c DEF FileKilled, FileDone, Decision, Goto
  <1>7. CASE Requeried
    BY <1>7, <1>f, <1>t, <1>c DEF Requeried, RoundOver, Probe, ReachFlags, Goto
  <1>8. CASE ModelClassified
    BY <1>8, <1>f, <1>t, <1>c DEF ModelClassified, RoundOver, ClassifyChecks, Goto
  <1>9. CASE ReportModel
    BY <1>9, <1>f, <1>t, <1>c DEF ReportModel, Return, Goto
  <1>10. CASE ProofClassified
    BY <1>10, <1>f, <1>t, <1>c DEF ProofClassified, RoundOver, ClassifyChecks, WaitFor,
       Probe, Goto
  <1>11. CASE VacuityKilled
    BY <1>11, <1>f, <1>t, <1>c DEF VacuityKilled, Probed, Probe, Goto
  <1>12. CASE CoversChecked
    BY <1>12, <1>f, <1>t, <1>c DEF CoversChecked, RoundOver, CoverStatus, Probe, Goto
  <1>13. CASE CoversClassified
    BY <1>13, <1>f, <1>t, <1>c DEF CoversClassified, RoundOver, WaitFor, Goto
  <1>14. CASE CoverageKilled
    BY <1>14, <1>f, <1>t, <1>c DEF CoverageKilled, CoverageEnds, Goto
  <1>15. CASE ReportProof
    BY <1>15, <1>f, <1>t, <1>c DEF ReportProof, Return, Goto
  <1>16. CASE StartChc
    BY <1>16, <1>f, <1>t, <1>c DEF StartChc, Goto
  <1>17. CASE BailExhausted
    BY <1>17, <1>f, <1>t, <1>c DEF BailExhausted, Fail, Goto
  <1>18. CASE ReadSmt
    BY <1>18, <1>f, <1>t, <1>c DEF ReadSmt, Phase, Proceed, Fail, Goto
  <1>19. CASE TrivialCheck
    BY <1>19, <1>f, <1>t, <1>c DEF TrivialCheck, Phase, Accept, Proceed, Goto
  <1>20. CASE ParseChc
    BY <1>20, <1>f, <1>t, <1>c DEF ParseChc, Phase, Proceed, Fail, Goto
  <1>21. CASE ExpandNullary
    BY <1>21, <1>f, <1>t, <1>c DEF ExpandNullary, Phase, Accept, Proceed, Goto
  <1>22. CASE SearchWitness
    BY <1>22, <1>f, <1>t, <1>c, <1>s DEF SearchWitness, Phase, WaitFor, Goto
  <1>23. CASE NoWitness
    BY <1>23, <1>f, <1>t, <1>c DEF NoWitness, Proceed, Goto
  <1>24. CASE Transform
    BY <1>24, <1>f, <1>t, <1>c DEF Transform, Phase, Proceed, Goto
  <1>25. CASE StartLane
    BY <1>25, <1>f, <1>t, <1>c DEF StartLane, Phase, WaitFor, Goto
  <1>26. CASE LaneProves
    BY <1>26, <1>f, <1>t, <1>c DEF LaneProves, LaneHeard, Accept, Goto
  <1>27. CASE LaneRefutes
    BY <1>27, <1>f, <1>t, <1>c DEF LaneRefutes, LaneHeard, Accept, Goto
  <1>28. CASE LaneZeroStep
    BY <1>28, <1>f, <1>t, <1>c DEF LaneZeroStep, LaneHeard, Goto
  <1>29. CASE LaneInconclusive
    BY <1>29, <1>f, <1>t, <1>c DEF LaneInconclusive, LaneHeard, Goto
  <1>30. CASE LaneGuard
    BY <1>30, <1>f, <1>t, <1>c DEF LaneGuard, WaitFor
  <1>31. CASE LaneAbandoned
    BY <1>31, <1>f, <1>t, <1>c DEF LaneAbandoned, Goto
  <1>32. CASE BudgetPortfolio
    BY <1>32, <1>f, <1>t, <1>c, <1>p DEF BudgetPortfolio, Goto
  <1>33. CASE StartPortfolio
    BY <1>33, <1>f, <1>t, <1>c DEF StartPortfolio, WaitFor
  <1>34. CASE PortfolioReceived
    BY <1>34, <1>f, <1>t, <1>c, <1>s DEF PortfolioReceived, Goto, WaitFor
  <1>35. CASE PortfolioGuard
    BY <1>35, <1>f, <1>t, <1>c DEF PortfolioGuard, WaitFor
  <1>36. CASE PortfolioAbandoned
    BY <1>36, <1>f, <1>t, <1>c DEF PortfolioAbandoned, Goto
  <1>37. CASE CrossContradicts
    BY <1>37, <1>f, <1>t, <1>c DEF CrossContradicts, Fail, Goto
  <1>38. CASE CrossAgrees
    BY <1>38, <1>f, <1>t, <1>c DEF CrossAgrees, Proceed, Goto
  <1>39. CASE Validated
    BY <1>39, <1>f, <1>t, <1>c DEF Validated, Proceed, Fail, Goto
  <1>40. CASE Checked
    BY <1>40, <1>f, <1>t, <1>c DEF Checked, Fail, Accept, Goto
  <1>41. CASE InterpretSafe
    BY <1>41, <1>f, <1>t, <1>c DEF InterpretSafe, NoRows, AllAs, ProvedStatus, WaitFor,
       Goto
  <1>42. CASE ChcCoversKilled
    BY <1>42, <1>f, <1>t, <1>c DEF ChcCoversKilled, ChcCoversDone, Goto
  <1>43. CASE ReportSafe
    BY <1>43, <1>f, <1>t, <1>c DEF ReportSafe, NoRows, NoCovers, Return, Goto
  <1>44. CASE ReportNamed
    BY <1>44, <1>f, <1>t, <1>c DEF ReportNamed, Return, Goto
  <1>45. CASE ReportAggregate
    BY <1>45, <1>f, <1>t, <1>c DEF ReportAggregate, Return, Goto
  <1>46. CASE ReportUnwind
    BY <1>46, <1>f, <1>t, <1>c DEF ReportUnwind, Return, Goto
  <1>47. CASE Fallback
    BY <1>47, <1>f, <1>t, <1>c DEF Fallback, WaitFor
  <1>48. CASE GiveUp
    BY <1>48, <1>f, <1>t, <1>c DEF GiveUp, Inconclusive, Return, Goto
  <1>49. CASE ExternalKilled
    BY <1>49, <1>f, <1>t, <1>c DEF ExternalKilled, Inconclusive, Return, Goto
  <1>50. CASE BmcErr
    BY <1>50, <1>f, <1>t, <1>c DEF BmcErr, Return, Goto
  <1>51. CASE MainUnsat
    BY <1>51, <1>f, <1>t, <1>c DEF MainUnsat, AllAs, Probe, ReachFlags, Goto
  <1>52. CASE MainSat
    BY <1>52, <1>f, <1>t, <1>c DEF MainSat, Probe, Goto
  <1>53. CASE MainUnknown
    BY <1>53, <1>f, <1>t, <1>c DEF MainUnknown, AllAs, Return, Goto
  <1>54. CASE MainRejected
    BY <1>54, <1>f, <1>t, <1>c DEF MainRejected, ListUndetermined, AllAs, Return, Goto
  <1>55. CASE FileAnswered
    BY <1>55, <1>f, <1>t, <1>c DEF FileAnswered, FileDone, Decision, Goto
  <1>56. CASE VacuityAnswered
    BY <1>56, <1>f, <1>t, <1>c DEF VacuityAnswered, Probed, Probe, Goto
  <1>57. CASE CoverageAnswered
    BY <1>57, <1>f, <1>t, <1>c DEF CoverageAnswered, CoverageEnds, Goto
  <1>58. CASE ChcErr
    BY <1>58, <1>f, <1>t, <1>c DEF ChcErr, Return, Goto
  <1>59. CASE WitnessFound
    BY <1>59, <1>f, <1>t, <1>c DEF WitnessFound, Accept, Goto
  <1>60. CASE LaneAnswers
    BY <1>60, <1>f, <1>t, <1>c DEF LaneAnswers
  <1>61. CASE PortfolioAnswers
    BY <1>61, <1>f, <1>t, <1>c DEF PortfolioAnswers
  <1>62. CASE ChcCoversAnswered
    BY <1>62, <1>f, <1>t, <1>c DEF ChcCoversAnswered, ChcCoversDone, Goto
  <1>63. CASE ExternalProves
    BY <1>63, <1>f, <1>t, <1>c DEF ExternalProves, Accept, Goto
  <1>64. CASE ExternalFails
    BY <1>64, <1>f, <1>t, <1>c DEF ExternalFails, Inconclusive, Return, Goto
  <1>65. CASE Tick
    BY <1>65, <1>f, <1>t, <1>c DEF Tick
  <1>66. CASE UNCHANGED vars
    BY <1>66 DEF vars
  <1> QED
    BY <1>1, <1>2, <1>3, <1>4, <1>5, <1>6, <1>7, <1>8, <1>9, <1>10, <1>11, <1>12, <1>13,
       <1>14, <1>15, <1>16, <1>17, <1>18, <1>19, <1>20, <1>21, <1>22, <1>23, <1>24,
       <1>25, <1>26, <1>27, <1>28, <1>29, <1>30, <1>31, <1>32, <1>33, <1>34, <1>35,
       <1>36, <1>37, <1>38, <1>39, <1>40, <1>41, <1>42, <1>43, <1>44, <1>45, <1>46,
       <1>47, <1>48, <1>49, <1>50, <1>51, <1>52, <1>53, <1>54, <1>55, <1>56, <1>57,
       <1>58, <1>59, <1>60, <1>61, <1>62, <1>63, <1>64, <1>65, <1>66 DEF Next, MainStep,
       SolverStep
-----------------------------------------------------------------------------
(* Control: a call replies once, a lane keeps to its own phases, and an Err that
   must not be retried goes nowhere but to the report. *)
BmcPhases == {"main", "slice", "asked", "vacuity", "coverage", "report"}
Closed == {"refuted", "deadline", "other"}
ControlInv ==
    /\ pc # "done" => reply = NoReply
    /\ pc \in BmcPhases => ~q.horn
    /\ pc \notin BmcPhases \union {"start", "done"} => q.horn
    /\ error \in Closed => pc \in {"err", "done"}
    /\ pc = "done" /\ error \in Closed => reply.says = "unknown"
    /\ q.horn /\ end = 0 =>
         /\ pc \in {"start", "read", "err", "done"}
         /\ pc = "err" => error = "deadline"
         /\ pc = "done" => reply.says \in {"unknown", "error"}

(* Time: where each wait is cut off, relative to the deadline. *)
TimeInv ==
    /\ pc \in Waiting => now <= until
    /\ ~q.horn => now <= end /\ (pc \in Waiting => until <= end)
    /\ pc \in {"slice", "asked"} => by <= end
    /\ pc = "searching" => until < end
    /\ pc = "lane" => until <= end + Guard
    /\ pc = "laneDrain" => until <= end + Guard + Drain
    /\ pc = "budget" => now <= end + Guard + Drain
    /\ ~opts.proofCore =>
         /\ pc = "hints" => \/ now + timeout <= end
                            \/ timeout = 0 /\ now <= end + Guard + Drain
         /\ pc = "portfolio" => \/ until <= end + Guard
                                \/ timeout = 0 /\ until <= end + 2 * Guard + Drain
         /\ pc = "drain" => until <= end + 2 * (Guard + Drain)
         /\ pc = "cross" => \/ until <= end + Guard + CrossCap
                            \/ until <= end + 2 * Guard + Drain

(* Claims: what the verdict on its way to a report rests on. *)
Proofs4 == {"trivial", "lane", "portfolio", "external"}
ClaimInv ==
    /\ lane = "Replayed" => Safe
    /\ Trusted => (lane = "Safe" => Safe) /\ (lane = "Unsafe" => ~Safe)
    /\ portfolio = "Unsafe" => ~Safe
    /\ claim \in {"proof", "trivial", "lane", "external"} => Safe
    /\ claim = "portfolio" => Safe \/ opts.skipVerify
    /\ claim \in {"Unsafe", "derived", "cex"} => ~Safe
    /\ pc \in {"start", "main"} => claim = "none"
    /\ pc \in {"slice", "asked", "report"} => claim \in {"proof", "model"}
    /\ pc \in {"vacuity", "coverage"} => claim = "proof"
    /\ pc \in {"cross", "checked"} => claim \in {"Safe", "Unsafe", "ZeroStep"}
    /\ pc = "validate" => claim = "Safe"
    /\ pc = "checked" /\ claim = "Safe" => Safe \/ opts.skipVerify
    /\ pc \in {"safe", "chcCovers", "verdict"} => claim \in Proofs4
    /\ pc = "unsafe" => claim \in {"derived", "cex"}
    /\ q.horn => claim \notin {"proof", "model"}
    /\ ~q.horn => claim \in {"none", "proof", "model"}
    /\ pc = "done" /\ reply.says = "proof" => claim \in Proofs4 \union {"proof"}

(* Rounds: every answer of the running probe round is right, and the flags it
   asks for are those of rows the answer may change. *)
RoundInv ==
    pc \in {"slice", "asked"} =>
      /\ \A x \in Checks \union Covers : got[x] # "none" => got[x] = Decision(x)
      /\ \A x \in Checks \union Covers : x \in todo \/ got[x] # "none" =>
           /\ goal = "reach" => x \in Checks /\ rows[x] = "Success"
           /\ goal = "coverReach" => x \in Covers /\ covers[x] = "Unsatisfiable"
      /\ goal \in {"requery", "reach", "cover", "coverReach"}
      /\ goal = "requery" => claim = "model"
      /\ goal \in {"cover", "coverReach"} => claim = "proof"
      /\ goal \in {"requery", "reach"} => feas = "Undetermined"

(* Tables: what every row says is so. *)
TableInv ==
    /\ \A c \in Checks :
         /\ rows[c] # "absent" => c \in q.checks
         /\ rows[c] = "Failure" => c \in q.viol
         /\ rows[c] = "Unreachable" =>
              c \notin q.viol /\ (c \notin q.reach \/ (~q.feasible /\ c \notin decided))
         /\ rows[c] = "Unreachable" /\ goal \in {"none", "requery", "reach"} => c \notin q.reach
         /\ claim = "proof" => rows[c] \notin {"Failure", "Undetermined"}
         /\ claim = "proof" /\ c \in q.checks => rows[c] # "absent"
         /\ pc \in {"chcCovers", "verdict"} => rows[c] \in {"absent", "Success", "Unreachable"}
    /\ \A c \in Covers :
         /\ covers[c] # "absent" => c \in q.covers
         /\ covers[c] = "Satisfied" => c \in q.satisfiable
         /\ covers[c] = "Unsatisfiable" /\ claim # "model" => c \notin q.satisfiable
         /\ covers[c] = "Unreachable" => c \notin q.coverReach
         /\ q.horn => covers[c] # "Satisfied"
    /\ feas = "Reachable" => q.feasible
    /\ feas = "Infeasible" => ~q.feasible
    /\ claim # "proof" => feas = "Undetermined"
    /\ pc = "vacuity" \/ feas # "Undetermined" => q.checks # {}

IInv == TypeOK /\ ControlInv /\ TimeInv /\ ClaimInv /\ RoundInv /\ TableInv
-----------------------------------------------------------------------------
(* A call stays on its lane and an Err that must not be retried goes to the report. *)
LEMMA ControlStep ==
    ASSUME TypeOK, ControlInv, [Next]_vars
    PROVE  ControlInv'
  <1> USE DEF ControlInv, BmcPhases, Closed, callVars, tableVars, probeVars, engineVars
  <1>n. now \in Nat /\ end \in Nat
    BY CallAssumption DEF TypeOK
  <1>1. CASE StartBmc
    BY <1>1 DEF StartBmc, WaitFor
  <1>2. CASE AyMissing
    BY <1>2 DEF AyMissing, Return, Goto, Result, ErrReply
  <1>3. CASE MainKilled
    BY <1>3 DEF MainKilled, ListUndetermined, Return, Goto, Result, Undecided
  <1>4. CASE AskOne
    BY <1>4 DEF AskOne, WaitFor
  <1>5. CASE AskRest
    BY <1>5 DEF AskRest, WaitFor, Goto
  <1>6. CASE FileKilled
    BY <1>6 DEF FileKilled, FileDone, Goto
  <1>7. CASE Requeried
    BY <1>7 DEF Requeried, RoundOver, Probe, Goto
  <1>8. CASE ModelClassified
    BY <1>8 DEF ModelClassified, RoundOver, Goto
  <1>9. CASE ReportModel
    BY <1>9 DEF ReportModel, Return, Goto, Result, Undecided
  <1>10. CASE ProofClassified
    BY <1>10 DEF ProofClassified, RoundOver, WaitFor, Probe, Goto
  <1>11. CASE VacuityKilled
    BY <1>11 DEF VacuityKilled, Probed, Probe, Goto
  <1>12. CASE CoversChecked
    BY <1>12 DEF CoversChecked, RoundOver, Probe, Goto
  <1>13. CASE CoversClassified
    BY <1>13 DEF CoversClassified, RoundOver, WaitFor, Goto
  <1>14. CASE CoverageKilled
    BY <1>14 DEF CoverageKilled, CoverageEnds, Goto
  <1>15. CASE ReportProof
    BY <1>15 DEF ReportProof, Return, Goto, Result
  <1>16. CASE StartChc
    BY <1>16 DEF StartChc, Goto
  <1>17. CASE BailExhausted
    BY <1>17 DEF BailExhausted, Fail, Goto, PreSolve, Exhausted
  <1>18. CASE ReadSmt
    BY <1>18, <1>n DEF ReadSmt, Phase, Proceed, Fail, Goto, Exhausted
  <1>19. CASE TrivialCheck
    BY <1>19 DEF TrivialCheck, Phase, Accept, Proceed, Goto, Exhausted
  <1>20. CASE ParseChc
    BY <1>20 DEF ParseChc, Phase, Proceed, Fail, Goto, Exhausted
  <1>21. CASE ExpandNullary
    BY <1>21 DEF ExpandNullary, Phase, Accept, Proceed, Goto, Exhausted
  <1>22. CASE SearchWitness
    BY <1>22 DEF SearchWitness, Phase, WaitFor, Goto, Exhausted
  <1>23. CASE NoWitness
    BY <1>23 DEF NoWitness, Proceed, Goto
  <1>24. CASE Transform
    BY <1>24 DEF Transform, Phase, Proceed, Goto, Exhausted
  <1>25. CASE StartLane
    BY <1>25 DEF StartLane, Phase, WaitFor, Goto, Exhausted
  <1>26. CASE LaneProves
    BY <1>26 DEF LaneProves, LaneHeard, Accept, Goto
  <1>27. CASE LaneRefutes
    BY <1>27 DEF LaneRefutes, LaneHeard, Accept, Goto
  <1>28. CASE LaneZeroStep
    BY <1>28 DEF LaneZeroStep, LaneHeard, Goto
  <1>29. CASE LaneInconclusive
    BY <1>29 DEF LaneInconclusive, LaneHeard, Goto
  <1>30. CASE LaneGuard
    BY <1>30 DEF LaneGuard, WaitFor
  <1>31. CASE LaneAbandoned
    BY <1>31 DEF LaneAbandoned, Goto
  <1>32. CASE BudgetPortfolio
    BY <1>32 DEF BudgetPortfolio, Goto
  <1>33. CASE StartPortfolio
    BY <1>33 DEF StartPortfolio, WaitFor
  <1>34. CASE PortfolioReceived
    BY <1>34 DEF PortfolioReceived, Goto, WaitFor
  <1>35. CASE PortfolioGuard
    BY <1>35 DEF PortfolioGuard, WaitFor
  <1>36. CASE PortfolioAbandoned
    BY <1>36 DEF PortfolioAbandoned, Goto
  <1>37. CASE CrossContradicts
    BY <1>37 DEF CrossContradicts, Fail, Goto
  <1>38. CASE CrossAgrees
    BY <1>38 DEF CrossAgrees, Proceed, Goto
  <1>39. CASE Validated
    BY <1>39 DEF Validated, Proceed, Fail, Goto
  <1>40. CASE Checked
    BY <1>40 DEF Checked, Fail, Accept, Goto
  <1>41. CASE InterpretSafe
    BY <1>41 DEF InterpretSafe, WaitFor, Goto
  <1>42. CASE ChcCoversKilled
    BY <1>42 DEF ChcCoversKilled, ChcCoversDone, Goto
  <1>43. CASE ReportSafe
    BY <1>43 DEF ReportSafe, Return, Goto, Result, UnwindFailure
  <1>44. CASE ReportNamed
    BY <1>44 DEF ReportNamed, Return, Goto, Result
  <1>45. CASE ReportAggregate
    BY <1>45 DEF ReportAggregate, Return, Goto, Result
  <1>46. CASE ReportUnwind
    BY <1>46 DEF ReportUnwind, Return, Goto, Result, UnwindFailure
  <1>47. CASE Fallback
    BY <1>47 DEF Fallback, WaitFor, AllowsFallback
  <1>48. CASE GiveUp
    BY <1>48 DEF GiveUp, Inconclusive, Return, Goto, Result, AllowsFallback
  <1>49. CASE ExternalKilled
    BY <1>49 DEF ExternalKilled, Inconclusive, Return, Goto, Result
  <1>50. CASE BmcErr
    BY <1>50 DEF BmcErr, Return, Goto, Result, ErrReply
  <1>51. CASE MainUnsat
    BY <1>51 DEF MainUnsat, Probe, Goto
  <1>52. CASE MainSat
    BY <1>52 DEF MainSat, Probe, Goto
  <1>53. CASE MainUnknown
    BY <1>53 DEF MainUnknown, Return, Goto, Result, Undecided
  <1>54. CASE MainRejected
    BY <1>54 DEF MainRejected, ListUndetermined, Return, Goto, Result, Undecided
  <1>55. CASE FileAnswered
    BY <1>55 DEF FileAnswered, FileDone, Goto
  <1>56. CASE VacuityAnswered
    BY <1>56 DEF VacuityAnswered, Probed, Probe, Goto
  <1>57. CASE CoverageAnswered
    BY <1>57 DEF CoverageAnswered, CoverageEnds, Goto
  <1>58. CASE ChcErr
    BY <1>58 DEF ChcErr, Return, Goto, Result, ErrReply
  <1>59. CASE WitnessFound
    BY <1>59 DEF WitnessFound, Accept, Goto
  <1>60. CASE LaneAnswers
    BY <1>60 DEF LaneAnswers
  <1>61. CASE PortfolioAnswers
    BY <1>61 DEF PortfolioAnswers
  <1>62. CASE ChcCoversAnswered
    BY <1>62 DEF ChcCoversAnswered, ChcCoversDone, Goto
  <1>63. CASE ExternalProves
    BY <1>63 DEF ExternalProves, Accept, Goto
  <1>64. CASE ExternalFails
    BY <1>64 DEF ExternalFails, Inconclusive, Return, Goto, Result
  <1>65. CASE Tick
    BY <1>65 DEF Tick
  <1>66. CASE UNCHANGED vars
    BY <1>66 DEF vars
  <1> QED
    BY <1>1, <1>2, <1>3, <1>4, <1>5, <1>6, <1>7, <1>8, <1>9, <1>10, <1>11, <1>12, <1>13,
       <1>14, <1>15, <1>16, <1>17, <1>18, <1>19, <1>20, <1>21, <1>22, <1>23, <1>24,
       <1>25, <1>26, <1>27, <1>28, <1>29, <1>30, <1>31, <1>32, <1>33, <1>34, <1>35,
       <1>36, <1>37, <1>38, <1>39, <1>40, <1>41, <1>42, <1>43, <1>44, <1>45, <1>46,
       <1>47, <1>48, <1>49, <1>50, <1>51, <1>52, <1>53, <1>54, <1>55, <1>56, <1>57,
       <1>58, <1>59, <1>60, <1>61, <1>62, <1>63, <1>64, <1>65, <1>66 DEF Next, MainStep,
       SolverStep

(* Every wait is cut off relative to the deadline. *)
LEMMA TimeStep ==
    ASSUME TypeOK, ControlInv, TimeInv, [Next]_vars
    PROVE  TimeInv'
  <1> USE DEF TimeInv, Waiting, callVars, tableVars, probeVars, engineVars
  <1>t. /\ now \in Nat /\ end \in Nat /\ until \in Nat /\ by \in Nat /\ full \in Nat
        /\ timeout \in Nat /\ SolverTimeout \in Nat /\ Guard \in Nat /\ Drain \in Nat
        /\ CrossCap \in Nat /\ WitnessCap \in Nat /\ opts \in Option
    BY CallAssumption DEF TypeOK
  <1>l. pc \in BmcPhases => ~q.horn
    BY DEF ControlInv
  <1>h. pc \notin BmcPhases \union {"start", "done"} => q.horn
    BY DEF ControlInv
  <1>c. \A d \in Nat : /\ Clamp(d) \in Nat
                       /\ now <= end => now + Clamp(d) <= end
                       /\ now > end => Clamp(d) = 0
    BY <1>t DEF Clamp, Remaining, Greater, Lesser
  <1>s. Clamp(SolverTimeout) \in Nat
    BY <1>t, <1>c
  <1>p. (full * opts.pct) \div 100 \in Nat
    BY <1>t, OptionFacts, Portions
  <1>r. /\ Rest \in Nat
        /\ todo # {} => Rest \div Left \in Nat /\ Rest \div Left <= Rest
        /\ by <= end /\ now <= end => now + Rest <= end
    <2>1. Rest \in Nat /\ (by <= end /\ now <= end => now + Rest <= end)
      BY <1>t DEF Rest, Greater
    <2>2. todo # {} => Left \in Nat \ {0}
      BY TodoCounted DEF TypeOK
    <2> HIDE DEF Left
    <2> QED
      BY <2>1, <2>2, Shares
  <1>w. /\ Lesser(Remaining \div 5, WitnessCap) \in Nat
        /\ now < end => now + Lesser(Remaining \div 5, WitnessCap) < end
    BY <1>t DEF Remaining, Greater, Lesser
  <1>x. /\ Lesser(CrossCap, timeout) \in Nat /\ Lesser(CrossCap, timeout) <= CrossCap
        /\ Lesser(CrossCap, timeout) <= timeout
    BY <1>t DEF Lesser
  <1>1. CASE StartBmc
    BY <1>1, <1>t, <1>l, <1>h, <1>c, <1>s DEF StartBmc, WaitFor, BmcPhases
  <1>2. CASE AyMissing
    BY <1>2, <1>t, <1>l, <1>h DEF AyMissing, Return, Goto, BmcPhases
  <1>3. CASE MainKilled
    BY <1>3, <1>t, <1>l, <1>h DEF MainKilled, ListUndetermined, Return, Goto, BmcPhases
  <1>4. CASE AskOne
    BY <1>4, <1>t, <1>l, <1>h, <1>r DEF AskOne, WaitFor, BmcPhases
  <1>5. CASE AskRest
    BY <1>5, <1>t, <1>l, <1>h, <1>r DEF AskRest, WaitFor, Goto, BmcPhases
  <1>6. CASE FileKilled
    BY <1>6, <1>t, <1>l, <1>h DEF FileKilled, FileDone, Goto, BmcPhases
  <1>7. CASE Requeried
    BY <1>7, <1>t, <1>l, <1>h, <1>c, <1>s DEF Requeried, RoundOver, Probe, Goto,
       BmcPhases
  <1>8. CASE ModelClassified
    BY <1>8, <1>t, <1>l, <1>h DEF ModelClassified, RoundOver, Goto, BmcPhases
  <1>9. CASE ReportModel
    BY <1>9, <1>t, <1>l, <1>h DEF ReportModel, Return, Goto, BmcPhases
  <1>10. CASE ProofClassified
    BY <1>10, <1>t, <1>l, <1>h, <1>c, <1>s DEF ProofClassified, RoundOver, WaitFor,
       Probe, Goto, BmcPhases
  <1>11. CASE VacuityKilled
    BY <1>11, <1>t, <1>l, <1>h, <1>c, <1>s DEF VacuityKilled, Probed, Probe, Goto,
       BmcPhases
  <1>12. CASE CoversChecked
    BY <1>12, <1>t, <1>l, <1>h, <1>c, <1>s DEF CoversChecked, RoundOver, Probe, Goto,
       BmcPhases
  <1>13. CASE CoversClassified
    BY <1>13, <1>t, <1>l, <1>h, <1>c, <1>s DEF CoversClassified, RoundOver, WaitFor,
       Goto, BmcPhases
  <1>14. CASE CoverageKilled
    BY <1>14, <1>t, <1>l, <1>h DEF CoverageKilled, CoverageEnds, Goto, BmcPhases
  <1>15. CASE ReportProof
    BY <1>15, <1>t, <1>l, <1>h DEF ReportProof, Return, Goto, BmcPhases
  <1>16. CASE StartChc
    BY <1>16, <1>t, <1>l, <1>h DEF StartChc, Goto, BmcPhases
  <1>17. CASE BailExhausted
    BY <1>17, <1>t, <1>l, <1>h DEF BailExhausted, Fail, Goto, PreSolve, BmcPhases
  <1>18. CASE ReadSmt
    BY <1>18, <1>t, <1>l, <1>h DEF ReadSmt, Phase, Proceed, Fail, Goto, Exhausted,
       BmcPhases
  <1>19. CASE TrivialCheck
    BY <1>19, <1>t, <1>l, <1>h DEF TrivialCheck, Phase, Accept, Proceed, Goto,
       Exhausted, BmcPhases
  <1>20. CASE ParseChc
    BY <1>20, <1>t, <1>l, <1>h DEF ParseChc, Phase, Proceed, Fail, Goto, BmcPhases
  <1>21. CASE ExpandNullary
    BY <1>21, <1>t, <1>l, <1>h DEF ExpandNullary, Phase, Accept, Proceed, Goto,
       BmcPhases
  <1>22. CASE SearchWitness
    BY <1>22, <1>t, <1>l, <1>h, <1>w DEF SearchWitness, Phase, WaitFor, Goto, Exhausted,
       BmcPhases
  <1>23. CASE NoWitness
    BY <1>23, <1>t, <1>l, <1>h DEF NoWitness, Proceed, Goto, BmcPhases
  <1>24. CASE Transform
    BY <1>24, <1>t, <1>l, <1>h DEF Transform, Phase, Proceed, Goto, BmcPhases
  <1>25. CASE StartLane
    BY <1>25, <1>t, <1>l, <1>h, <1>c, <1>s DEF StartLane, Phase, WaitFor, Goto,
       Exhausted, BmcPhases
  <1>26. CASE LaneProves
    BY <1>26, <1>t, <1>l, <1>h DEF LaneProves, LaneHeard, Accept, Goto, BmcPhases
  <1>27. CASE LaneRefutes
    BY <1>27, <1>t, <1>l, <1>h DEF LaneRefutes, LaneHeard, Accept, Goto, BmcPhases
  <1>28. CASE LaneZeroStep
    BY <1>28, <1>t, <1>l, <1>h DEF LaneZeroStep, LaneHeard, Goto, BmcPhases
  <1>29. CASE LaneInconclusive
    BY <1>29, <1>t, <1>l, <1>h DEF LaneInconclusive, LaneHeard, Goto, BmcPhases
  <1>30. CASE LaneGuard
    BY <1>30, <1>t, <1>l, <1>h DEF LaneGuard, WaitFor, BmcPhases
  <1>31. CASE LaneAbandoned
    BY <1>31, <1>t, <1>l, <1>h DEF LaneAbandoned, Goto, BmcPhases
  <1>32. CASE BudgetPortfolio
    BY <1>32, <1>t, <1>l, <1>h, <1>c, <1>p DEF BudgetPortfolio, Goto, BmcPhases
  <1>33. CASE StartPortfolio
    BY <1>33, <1>t, <1>l, <1>h DEF StartPortfolio, WaitFor, BmcPhases
  <1>34. CASE PortfolioReceived
    BY <1>34, <1>t, <1>l, <1>h, <1>x DEF PortfolioReceived, Goto, WaitFor, BmcPhases
  <1>35. CASE PortfolioGuard
    BY <1>35, <1>t, <1>l, <1>h DEF PortfolioGuard, WaitFor, BmcPhases
  <1>36. CASE PortfolioAbandoned
    BY <1>36, <1>t, <1>l, <1>h DEF PortfolioAbandoned, Goto, BmcPhases
  <1>37. CASE CrossContradicts
    BY <1>37, <1>t, <1>l, <1>h DEF CrossContradicts, Fail, Goto, BmcPhases
  <1>38. CASE CrossAgrees
    BY <1>38, <1>t, <1>l, <1>h DEF CrossAgrees, Proceed, Goto, BmcPhases
  <1>39. CASE Validated
    BY <1>39, <1>t, <1>l, <1>h DEF Validated, Proceed, Fail, Goto, BmcPhases
  <1>40. CASE Checked
    BY <1>40, <1>t, <1>l, <1>h DEF Checked, Fail, Accept, Goto, BmcPhases
  <1>41. CASE InterpretSafe
    BY <1>41, <1>t, <1>l, <1>h DEF InterpretSafe, WaitFor, Goto, BmcPhases
  <1>42. CASE ChcCoversKilled
    BY <1>42, <1>t, <1>l, <1>h DEF ChcCoversKilled, ChcCoversDone, Goto, BmcPhases
  <1>43. CASE ReportSafe
    BY <1>43, <1>t, <1>l, <1>h DEF ReportSafe, Return, Goto, BmcPhases
  <1>44. CASE ReportNamed
    BY <1>44, <1>t, <1>l, <1>h DEF ReportNamed, Return, Goto, BmcPhases
  <1>45. CASE ReportAggregate
    BY <1>45, <1>t, <1>l, <1>h DEF ReportAggregate, Return, Goto, BmcPhases
  <1>46. CASE ReportUnwind
    BY <1>46, <1>t, <1>l, <1>h DEF ReportUnwind, Return, Goto, BmcPhases
  <1>47. CASE Fallback
    BY <1>47, <1>t, <1>l, <1>h, <1>c, <1>s DEF Fallback, WaitFor, BmcPhases
  <1>48. CASE GiveUp
    BY <1>48, <1>t, <1>l, <1>h DEF GiveUp, Inconclusive, Return, Goto, BmcPhases
  <1>49. CASE ExternalKilled
    BY <1>49, <1>t, <1>l, <1>h DEF ExternalKilled, Inconclusive, Return, Goto, BmcPhases
  <1>50. CASE BmcErr
    BY <1>50, <1>t, <1>l, <1>h DEF BmcErr, Return, Goto, BmcPhases
  <1>51. CASE MainUnsat
    BY <1>51, <1>t, <1>l, <1>h, <1>c, <1>s DEF MainUnsat, Probe, Goto, BmcPhases
  <1>52. CASE MainSat
    BY <1>52, <1>t, <1>l, <1>h, <1>c, <1>s DEF MainSat, Probe, Goto, BmcPhases
  <1>53. CASE MainUnknown
    BY <1>53, <1>t, <1>l, <1>h DEF MainUnknown, Return, Goto, BmcPhases
  <1>54. CASE MainRejected
    BY <1>54, <1>t, <1>l, <1>h DEF MainRejected, ListUndetermined, Return, Goto,
       BmcPhases
  <1>55. CASE FileAnswered
    BY <1>55, <1>t, <1>l, <1>h DEF FileAnswered, FileDone, Goto, BmcPhases
  <1>56. CASE VacuityAnswered
    BY <1>56, <1>t, <1>l, <1>h, <1>c, <1>s DEF VacuityAnswered, Probed, Probe, Goto,
       BmcPhases
  <1>57. CASE CoverageAnswered
    BY <1>57, <1>t, <1>l, <1>h DEF CoverageAnswered, CoverageEnds, Goto, BmcPhases
  <1>58. CASE ChcErr
    BY <1>58, <1>t, <1>l, <1>h DEF ChcErr, Return, Goto, BmcPhases
  <1>59. CASE WitnessFound
    BY <1>59, <1>t, <1>l, <1>h DEF WitnessFound, Accept, Goto, BmcPhases
  <1>60. CASE LaneAnswers
    BY <1>60, <1>t, <1>l, <1>h DEF LaneAnswers, BmcPhases
  <1>61. CASE PortfolioAnswers
    BY <1>61, <1>t, <1>l, <1>h DEF PortfolioAnswers, BmcPhases
  <1>62. CASE ChcCoversAnswered
    BY <1>62, <1>t, <1>l, <1>h DEF ChcCoversAnswered, ChcCoversDone, Goto, BmcPhases
  <1>63. CASE ExternalProves
    BY <1>63, <1>t, <1>l, <1>h DEF ExternalProves, Accept, Goto, BmcPhases
  <1>64. CASE ExternalFails
    BY <1>64, <1>t, <1>l, <1>h DEF ExternalFails, Inconclusive, Return, Goto, BmcPhases
  <1>65. CASE Tick
    BY <1>65, <1>t, <1>l, <1>h DEF Tick, Working, BmcPhases
  <1>66. CASE UNCHANGED vars
    BY <1>66 DEF vars
  <1> QED
    BY <1>1, <1>2, <1>3, <1>4, <1>5, <1>6, <1>7, <1>8, <1>9, <1>10, <1>11, <1>12, <1>13,
       <1>14, <1>15, <1>16, <1>17, <1>18, <1>19, <1>20, <1>21, <1>22, <1>23, <1>24,
       <1>25, <1>26, <1>27, <1>28, <1>29, <1>30, <1>31, <1>32, <1>33, <1>34, <1>35,
       <1>36, <1>37, <1>38, <1>39, <1>40, <1>41, <1>42, <1>43, <1>44, <1>45, <1>46,
       <1>47, <1>48, <1>49, <1>50, <1>51, <1>52, <1>53, <1>54, <1>55, <1>56, <1>57,
       <1>58, <1>59, <1>60, <1>61, <1>62, <1>63, <1>64, <1>65, <1>66 DEF Next, MainStep,
       SolverStep

(* What the verdict on its way to a report rests on. *)
LEMMA ClaimStep ==
    ASSUME TypeOK, ControlInv, RoundInv, ClaimInv, [Next]_vars
    PROVE  ClaimInv'
  <1> USE DEF ClaimInv, Proofs4, Safe, Trusted, callVars, tableVars, probeVars, engineVars
  <1>l. pc \in BmcPhases => ~q.horn
    BY DEF ControlInv
  <1>h. pc \notin BmcPhases \union {"start", "done"} => q.horn
    BY DEF ControlInv
  <1>g. pc = "slice" /\ goal \in {"cover", "coverReach"} => claim = "proof"
    BY DEF RoundInv
  <1>s. /\ q.shape \in {"noRule", "falseRule"} => q.viol = {}
        /\ q.shape = "nullary" => q.viol # {}
    BY QueryFacts DEF TypeOK
  <1>1. CASE StartBmc
    BY <1>1, <1>l, <1>h DEF StartBmc, WaitFor, BmcPhases
  <1>2. CASE AyMissing
    BY <1>2, <1>l, <1>h DEF AyMissing, Return, Goto, BmcPhases, ErrReply, Result
  <1>3. CASE MainKilled
    BY <1>3, <1>l, <1>h DEF MainKilled, ListUndetermined, Return, Goto, BmcPhases,
       Undecided, Result
  <1>4. CASE AskOne
    BY <1>4, <1>l, <1>h DEF AskOne, WaitFor, BmcPhases
  <1>5. CASE AskRest
    BY <1>5, <1>l, <1>h DEF AskRest, WaitFor, Goto, BmcPhases
  <1>6. CASE FileKilled
    BY <1>6, <1>l, <1>h DEF FileKilled, FileDone, Goto, BmcPhases
  <1>7. CASE Requeried
    BY <1>7, <1>l, <1>h DEF Requeried, RoundOver, Probe, Goto, BmcPhases
  <1>8. CASE ModelClassified
    BY <1>8, <1>l, <1>h DEF ModelClassified, RoundOver, Goto, BmcPhases
  <1>9. CASE ReportModel
    BY <1>9, <1>l, <1>h DEF ReportModel, Return, Goto, BmcPhases, Undecided, Result
  <1>10. CASE ProofClassified
    BY <1>10, <1>l, <1>h DEF ProofClassified, RoundOver, WaitFor, Probe, Goto, BmcPhases
  <1>11. CASE VacuityKilled
    BY <1>11, <1>l, <1>h DEF VacuityKilled, Probed, Probe, Goto, BmcPhases
  <1>12. CASE CoversChecked
    BY <1>12, <1>l, <1>h, <1>g DEF CoversChecked, RoundOver, Probe, Goto, BmcPhases
  <1>13. CASE CoversClassified
    BY <1>13, <1>l, <1>h, <1>g DEF CoversClassified, RoundOver, WaitFor, Goto, BmcPhases
  <1>14. CASE CoverageKilled
    BY <1>14, <1>l, <1>h DEF CoverageKilled, CoverageEnds, Goto, BmcPhases
  <1>15. CASE ReportProof
    BY <1>15, <1>l, <1>h DEF ReportProof, Return, Goto, BmcPhases, Result
  <1>16. CASE StartChc
    BY <1>16, <1>l, <1>h DEF StartChc, Goto, BmcPhases
  <1>17. CASE BailExhausted
    BY <1>17, <1>l, <1>h DEF BailExhausted, Fail, Goto, BmcPhases, PreSolve
  <1>18. CASE ReadSmt
    BY <1>18, <1>l, <1>h DEF ReadSmt, Phase, Proceed, Fail, Goto, BmcPhases
  <1>19. CASE TrivialCheck
    BY <1>19, <1>l, <1>h, <1>s DEF TrivialCheck, Phase, Accept, Proceed, Goto, BmcPhases
  <1>20. CASE ParseChc
    BY <1>20, <1>l, <1>h DEF ParseChc, Phase, Proceed, Fail, Goto, BmcPhases
  <1>21. CASE ExpandNullary
    BY <1>21, <1>l, <1>h, <1>s DEF ExpandNullary, Phase, Accept, Proceed, Goto,
       BmcPhases
  <1>22. CASE SearchWitness
    BY <1>22, <1>l, <1>h DEF SearchWitness, Phase, WaitFor, Goto, BmcPhases
  <1>23. CASE NoWitness
    BY <1>23, <1>l, <1>h DEF NoWitness, Proceed, Goto, BmcPhases
  <1>24. CASE Transform
    BY <1>24, <1>l, <1>h DEF Transform, Phase, Proceed, Goto, BmcPhases
  <1>25. CASE StartLane
    BY <1>25, <1>l, <1>h DEF StartLane, Phase, WaitFor, Goto, BmcPhases
  <1>26. CASE LaneProves
    BY <1>26, <1>l, <1>h DEF LaneProves, LaneHeard, Accept, Goto, BmcPhases
  <1>27. CASE LaneRefutes
    BY <1>27, <1>l, <1>h DEF LaneRefutes, LaneHeard, Accept, Goto, BmcPhases
  <1>28. CASE LaneZeroStep
    BY <1>28, <1>l, <1>h DEF LaneZeroStep, LaneHeard, Goto, BmcPhases
  <1>29. CASE LaneInconclusive
    BY <1>29, <1>l, <1>h DEF LaneInconclusive, LaneHeard, Goto, BmcPhases
  <1>30. CASE LaneGuard
    BY <1>30, <1>l, <1>h DEF LaneGuard, WaitFor, BmcPhases
  <1>31. CASE LaneAbandoned
    BY <1>31, <1>l, <1>h DEF LaneAbandoned, Goto, BmcPhases
  <1>32. CASE BudgetPortfolio
    BY <1>32, <1>l, <1>h DEF BudgetPortfolio, Goto, BmcPhases
  <1>33. CASE StartPortfolio
    BY <1>33, <1>l, <1>h DEF StartPortfolio, WaitFor, BmcPhases
  <1>34. CASE PortfolioReceived
    BY <1>34, <1>l, <1>h DEF PortfolioReceived, Goto, WaitFor, BmcPhases
  <1>35. CASE PortfolioGuard
    BY <1>35, <1>l, <1>h DEF PortfolioGuard, WaitFor, BmcPhases
  <1>36. CASE PortfolioAbandoned
    BY <1>36, <1>l, <1>h DEF PortfolioAbandoned, Goto, BmcPhases
  <1>37. CASE CrossContradicts
    BY <1>37, <1>l, <1>h DEF CrossContradicts, Fail, Goto, BmcPhases
  <1>38. CASE CrossAgrees
    BY <1>38, <1>l, <1>h DEF CrossAgrees, Proceed, Goto, BmcPhases
  <1>39. CASE Validated
    BY <1>39, <1>l, <1>h DEF Validated, Proceed, Fail, Goto, BmcPhases
  <1>40. CASE Checked
    BY <1>40, <1>l, <1>h DEF Checked, Fail, Accept, Goto, BmcPhases
  <1>41. CASE InterpretSafe
    BY <1>41, <1>l, <1>h DEF InterpretSafe, WaitFor, Goto, BmcPhases
  <1>42. CASE ChcCoversKilled
    BY <1>42, <1>l, <1>h DEF ChcCoversKilled, ChcCoversDone, Goto, BmcPhases
  <1>43. CASE ReportSafe
    BY <1>43, <1>l, <1>h DEF ReportSafe, Return, Goto, BmcPhases, Result, UnwindFailure
  <1>44. CASE ReportNamed
    BY <1>44, <1>l, <1>h DEF ReportNamed, Return, Goto, BmcPhases, Result
  <1>45. CASE ReportAggregate
    BY <1>45, <1>l, <1>h DEF ReportAggregate, Return, Goto, BmcPhases, Result
  <1>46. CASE ReportUnwind
    BY <1>46, <1>l, <1>h DEF ReportUnwind, Return, Goto, BmcPhases, Result,
       UnwindFailure
  <1>47. CASE Fallback
    BY <1>47, <1>l, <1>h DEF Fallback, WaitFor, BmcPhases
  <1>48. CASE GiveUp
    BY <1>48, <1>l, <1>h DEF GiveUp, Inconclusive, Return, Goto, BmcPhases, Result
  <1>49. CASE ExternalKilled
    BY <1>49, <1>l, <1>h DEF ExternalKilled, Inconclusive, Return, Goto, BmcPhases,
       Result
  <1>50. CASE BmcErr
    BY <1>50, <1>l, <1>h DEF BmcErr, Return, Goto, BmcPhases, ErrReply, Result
  <1>51. CASE MainUnsat
    BY <1>51, <1>l, <1>h DEF MainUnsat, Probe, Goto, BmcPhases
  <1>52. CASE MainSat
    BY <1>52, <1>l, <1>h DEF MainSat, Probe, Goto, BmcPhases
  <1>53. CASE MainUnknown
    BY <1>53, <1>l, <1>h DEF MainUnknown, Return, Goto, BmcPhases, Undecided, Result
  <1>54. CASE MainRejected
    BY <1>54, <1>l, <1>h DEF MainRejected, ListUndetermined, Return, Goto, BmcPhases,
       Undecided, Result
  <1>55. CASE FileAnswered
    BY <1>55, <1>l, <1>h DEF FileAnswered, FileDone, Goto, BmcPhases
  <1>56. CASE VacuityAnswered
    BY <1>56, <1>l, <1>h DEF VacuityAnswered, Probed, Probe, Goto, BmcPhases
  <1>57. CASE CoverageAnswered
    BY <1>57, <1>l, <1>h DEF CoverageAnswered, CoverageEnds, Goto, BmcPhases
  <1>58. CASE ChcErr
    BY <1>58, <1>l, <1>h DEF ChcErr, Return, Goto, BmcPhases, ErrReply, Result
  <1>59. CASE WitnessFound
    BY <1>59, <1>l, <1>h DEF WitnessFound, Accept, Goto, BmcPhases
  <1>60. CASE LaneAnswers
    BY <1>60, <1>l, <1>h DEF LaneAnswers, BmcPhases
  <1>61. CASE PortfolioAnswers
    BY <1>61, <1>l, <1>h DEF PortfolioAnswers, BmcPhases
  <1>62. CASE ChcCoversAnswered
    BY <1>62, <1>l, <1>h DEF ChcCoversAnswered, ChcCoversDone, Goto, BmcPhases
  <1>63. CASE ExternalProves
    BY <1>63, <1>l, <1>h DEF ExternalProves, Accept, Goto, BmcPhases
  <1>64. CASE ExternalFails
    BY <1>64, <1>l, <1>h DEF ExternalFails, Inconclusive, Return, Goto, BmcPhases,
       Result
  <1>65. CASE Tick
    BY <1>65, <1>l, <1>h DEF Tick, BmcPhases
  <1>66. CASE UNCHANGED vars
    BY <1>66 DEF vars
  <1> QED
    BY <1>1, <1>2, <1>3, <1>4, <1>5, <1>6, <1>7, <1>8, <1>9, <1>10, <1>11, <1>12, <1>13,
       <1>14, <1>15, <1>16, <1>17, <1>18, <1>19, <1>20, <1>21, <1>22, <1>23, <1>24,
       <1>25, <1>26, <1>27, <1>28, <1>29, <1>30, <1>31, <1>32, <1>33, <1>34, <1>35,
       <1>36, <1>37, <1>38, <1>39, <1>40, <1>41, <1>42, <1>43, <1>44, <1>45, <1>46,
       <1>47, <1>48, <1>49, <1>50, <1>51, <1>52, <1>53, <1>54, <1>55, <1>56, <1>57,
       <1>58, <1>59, <1>60, <1>61, <1>62, <1>63, <1>64, <1>65, <1>66 DEF Next, MainStep,
       SolverStep

(* Every answer of a probe round is right while the round lasts. *)
LEMMA RoundStep ==
    ASSUME TypeOK, ClaimInv, TableInv, RoundInv, [Next]_vars
    PROVE  RoundInv'
  <1> USE DEF RoundInv, Decision, Possible, callVars, tableVars, probeVars, engineVars
  <1>l. /\ pc \in {"vacuity", "coverage"} => claim = "proof"
        /\ pc = "main" => claim = "none"
    BY DEF ClaimInv
  <1>h. claim # "proof" => feas = "Undetermined"
    BY DEF TableInv
  <1>t. /\ got \in [Checks \union Covers -> {"none", "sat", "unsat"}]
        /\ q.reachFlags \subseteq Checks /\ q.coverFlags \subseteq Covers
        /\ todo \subseteq Checks \union Covers /\ asking \subseteq todo
    BY QueryFacts DEF TypeOK
  <1>1. CASE StartBmc
    BY <1>1, <1>l, <1>h, <1>t DEF StartBmc, WaitFor
  <1>2. CASE AyMissing
    BY <1>2, <1>l, <1>h, <1>t DEF AyMissing, Return, Goto
  <1>3. CASE MainKilled
    BY <1>3, <1>l, <1>h, <1>t DEF MainKilled, ListUndetermined, Return, Goto
  <1>4. CASE AskOne
    BY <1>4, <1>l, <1>h, <1>t DEF AskOne, WaitFor
  <1>5. CASE AskRest
    BY <1>5, <1>l, <1>h, <1>t DEF AskRest, WaitFor, Goto
  <1>6. CASE FileKilled
    BY <1>6, <1>l, <1>h, <1>t DEF FileKilled, FileDone, Goto
  <1>7. CASE Requeried
    BY <1>7, <1>l, <1>h, <1>t DEF Requeried, RoundOver, Probe, ReachFlags, Goto
  <1>8. CASE ModelClassified
    BY <1>8, <1>l, <1>h, <1>t DEF ModelClassified, RoundOver, Goto
  <1>9. CASE ReportModel
    BY <1>9, <1>l, <1>h, <1>t DEF ReportModel, Return, Goto
  <1>10. CASE ProofClassified
    BY <1>10, <1>l, <1>h, <1>t DEF ProofClassified, RoundOver, WaitFor, Probe, Goto
  <1>11. CASE VacuityKilled
    BY <1>11, <1>l, <1>h, <1>t DEF VacuityKilled, Probed, Probe, Goto
  <1>12. CASE CoversChecked
    BY <1>12, <1>l, <1>h, <1>t DEF CoversChecked, RoundOver, Probe, Goto
  <1>13. CASE CoversClassified
    BY <1>13, <1>l, <1>h, <1>t DEF CoversClassified, RoundOver, WaitFor, Goto
  <1>14. CASE CoverageKilled
    BY <1>14, <1>l, <1>h, <1>t DEF CoverageKilled, CoverageEnds, Goto
  <1>15. CASE ReportProof
    BY <1>15, <1>l, <1>h, <1>t DEF ReportProof, Return, Goto
  <1>16. CASE StartChc
    BY <1>16, <1>l, <1>h, <1>t DEF StartChc, Goto
  <1>17. CASE BailExhausted
    BY <1>17, <1>l, <1>h, <1>t DEF BailExhausted, Fail, Goto, PreSolve
  <1>18. CASE ReadSmt
    BY <1>18, <1>l, <1>h, <1>t DEF ReadSmt, Phase, Proceed, Fail, Goto
  <1>19. CASE TrivialCheck
    BY <1>19, <1>l, <1>h, <1>t DEF TrivialCheck, Phase, Accept, Proceed, Goto
  <1>20. CASE ParseChc
    BY <1>20, <1>l, <1>h, <1>t DEF ParseChc, Phase, Proceed, Fail, Goto
  <1>21. CASE ExpandNullary
    BY <1>21, <1>l, <1>h, <1>t DEF ExpandNullary, Phase, Accept, Proceed, Goto
  <1>22. CASE SearchWitness
    BY <1>22, <1>l, <1>h, <1>t DEF SearchWitness, Phase, WaitFor, Goto
  <1>23. CASE NoWitness
    BY <1>23, <1>l, <1>h, <1>t DEF NoWitness, Proceed, Goto
  <1>24. CASE Transform
    BY <1>24, <1>l, <1>h, <1>t DEF Transform, Phase, Proceed, Goto
  <1>25. CASE StartLane
    BY <1>25, <1>l, <1>h, <1>t DEF StartLane, Phase, WaitFor, Goto
  <1>26. CASE LaneProves
    BY <1>26, <1>l, <1>h, <1>t DEF LaneProves, LaneHeard, Accept, Goto
  <1>27. CASE LaneRefutes
    BY <1>27, <1>l, <1>h, <1>t DEF LaneRefutes, LaneHeard, Accept, Goto
  <1>28. CASE LaneZeroStep
    BY <1>28, <1>l, <1>h, <1>t DEF LaneZeroStep, LaneHeard, Goto
  <1>29. CASE LaneInconclusive
    BY <1>29, <1>l, <1>h, <1>t DEF LaneInconclusive, LaneHeard, Goto
  <1>30. CASE LaneGuard
    BY <1>30, <1>l, <1>h, <1>t DEF LaneGuard, WaitFor
  <1>31. CASE LaneAbandoned
    BY <1>31, <1>l, <1>h, <1>t DEF LaneAbandoned, Goto
  <1>32. CASE BudgetPortfolio
    BY <1>32, <1>l, <1>h, <1>t DEF BudgetPortfolio, Goto
  <1>33. CASE StartPortfolio
    BY <1>33, <1>l, <1>h, <1>t DEF StartPortfolio, WaitFor
  <1>34. CASE PortfolioReceived
    BY <1>34, <1>l, <1>h, <1>t DEF PortfolioReceived, Goto, WaitFor
  <1>35. CASE PortfolioGuard
    BY <1>35, <1>l, <1>h, <1>t DEF PortfolioGuard, WaitFor
  <1>36. CASE PortfolioAbandoned
    BY <1>36, <1>l, <1>h, <1>t DEF PortfolioAbandoned, Goto
  <1>37. CASE CrossContradicts
    BY <1>37, <1>l, <1>h, <1>t DEF CrossContradicts, Fail, Goto
  <1>38. CASE CrossAgrees
    BY <1>38, <1>l, <1>h, <1>t DEF CrossAgrees, Proceed, Goto
  <1>39. CASE Validated
    BY <1>39, <1>l, <1>h, <1>t DEF Validated, Proceed, Fail, Goto
  <1>40. CASE Checked
    BY <1>40, <1>l, <1>h, <1>t DEF Checked, Fail, Accept, Goto
  <1>41. CASE InterpretSafe
    BY <1>41, <1>l, <1>h, <1>t DEF InterpretSafe, WaitFor, Goto
  <1>42. CASE ChcCoversKilled
    BY <1>42, <1>l, <1>h, <1>t DEF ChcCoversKilled, ChcCoversDone, Goto
  <1>43. CASE ReportSafe
    BY <1>43, <1>l, <1>h, <1>t DEF ReportSafe, Return, Goto
  <1>44. CASE ReportNamed
    BY <1>44, <1>l, <1>h, <1>t DEF ReportNamed, Return, Goto
  <1>45. CASE ReportAggregate
    BY <1>45, <1>l, <1>h, <1>t DEF ReportAggregate, Return, Goto
  <1>46. CASE ReportUnwind
    BY <1>46, <1>l, <1>h, <1>t DEF ReportUnwind, Return, Goto
  <1>47. CASE Fallback
    BY <1>47, <1>l, <1>h, <1>t DEF Fallback, WaitFor
  <1>48. CASE GiveUp
    BY <1>48, <1>l, <1>h, <1>t DEF GiveUp, Inconclusive, Return, Goto
  <1>49. CASE ExternalKilled
    BY <1>49, <1>l, <1>h, <1>t DEF ExternalKilled, Inconclusive, Return, Goto
  <1>50. CASE BmcErr
    BY <1>50, <1>l, <1>h, <1>t DEF BmcErr, Return, Goto
  <1>51. CASE MainUnsat
    BY <1>51, <1>l, <1>h, <1>t DEF MainUnsat, Probe, ReachFlags, Goto
  <1>52. CASE MainSat
    BY <1>52, <1>l, <1>h, <1>t DEF MainSat, Probe, Goto
  <1>53. CASE MainUnknown
    BY <1>53, <1>l, <1>h, <1>t DEF MainUnknown, Return, Goto
  <1>54. CASE MainRejected
    BY <1>54, <1>l, <1>h, <1>t DEF MainRejected, ListUndetermined, Return, Goto
  <1>55. CASE FileAnswered
    BY <1>55, <1>l, <1>h, <1>t DEF FileAnswered, FileDone, Goto
  <1>56. CASE VacuityAnswered
    BY <1>56, <1>l, <1>h, <1>t DEF VacuityAnswered, Probed, Probe, Goto
  <1>57. CASE CoverageAnswered
    BY <1>57, <1>l, <1>h, <1>t DEF CoverageAnswered, CoverageEnds, Goto
  <1>58. CASE ChcErr
    BY <1>58, <1>l, <1>h, <1>t DEF ChcErr, Return, Goto
  <1>59. CASE WitnessFound
    BY <1>59, <1>l, <1>h, <1>t DEF WitnessFound, Accept, Goto
  <1>60. CASE LaneAnswers
    BY <1>60, <1>l, <1>h, <1>t DEF LaneAnswers
  <1>61. CASE PortfolioAnswers
    BY <1>61, <1>l, <1>h, <1>t DEF PortfolioAnswers
  <1>62. CASE ChcCoversAnswered
    BY <1>62, <1>l, <1>h, <1>t DEF ChcCoversAnswered, ChcCoversDone, Goto
  <1>63. CASE ExternalProves
    BY <1>63, <1>l, <1>h, <1>t DEF ExternalProves, Accept, Goto
  <1>64. CASE ExternalFails
    BY <1>64, <1>l, <1>h, <1>t DEF ExternalFails, Inconclusive, Return, Goto
  <1>65. CASE Tick
    BY <1>65, <1>l, <1>h, <1>t DEF Tick
  <1>66. CASE UNCHANGED vars
    BY <1>66 DEF vars
  <1> QED
    BY <1>1, <1>2, <1>3, <1>4, <1>5, <1>6, <1>7, <1>8, <1>9, <1>10, <1>11, <1>12, <1>13,
       <1>14, <1>15, <1>16, <1>17, <1>18, <1>19, <1>20, <1>21, <1>22, <1>23, <1>24,
       <1>25, <1>26, <1>27, <1>28, <1>29, <1>30, <1>31, <1>32, <1>33, <1>34, <1>35,
       <1>36, <1>37, <1>38, <1>39, <1>40, <1>41, <1>42, <1>43, <1>44, <1>45, <1>46,
       <1>47, <1>48, <1>49, <1>50, <1>51, <1>52, <1>53, <1>54, <1>55, <1>56, <1>57,
       <1>58, <1>59, <1>60, <1>61, <1>62, <1>63, <1>64, <1>65, <1>66 DEF Next, MainStep,
       SolverStep

(* Every row is right when it is written and stays so. *)
LEMMA TableStep ==
    ASSUME TypeOK, ControlInv, ClaimInv, RoundInv, TableInv, [Next]_vars
    PROVE  TableInv'
  <1> USE DEF TableInv, callVars, tableVars, probeVars, engineVars
  <1>l. pc \in BmcPhases => ~q.horn
    BY DEF ControlInv
  <1>h. pc \notin BmcPhases \union {"start", "done"} => q.horn
    BY DEF ControlInv
  <1>f. /\ q.viol \subseteq q.reach /\ q.reach \subseteq q.checks /\ q.checks \subseteq Checks
        /\ q.satisfiable \subseteq q.coverReach /\ q.coverReach \subseteq q.covers
        /\ q.covers \subseteq Covers /\ q.satisfiable \subseteq q.alone
        /\ (q.vacuous => q.reach = {})
    BY QueryFacts DEF TypeOK
  <1>t. /\ got \in [Checks \union Covers -> {"none", "sat", "unsat"}]
        /\ rows \in [Checks -> CheckStatuses] /\ covers \in [Covers -> CoverStatuses]
    BY DEF TypeOK
  <1>c. /\ pc \in {"start", "main"} => claim = "none"
        /\ pc \in {"vacuity", "coverage"} => claim = "proof"
        /\ q.horn => claim \notin {"proof", "model"}
        /\ claim = "proof" => q.viol = {}
    BY DEF ClaimInv, Safe
  <1>r. pc = "slice" =>
          /\ goal = "requery" => claim = "model" /\ \A x \in Checks : got[x] = "sat" => x \in q.viol
          /\ goal = "reach" => \A x \in Checks :
               /\ got[x] = "unsat" => x \notin q.reach /\ rows[x] = "Success"
               /\ got[x] = "sat" => x \in q.reach
          /\ goal = "cover" => claim = "proof" /\ \A x \in Covers :
               /\ got[x] = "unsat" => x \notin q.satisfiable
               /\ got[x] = "sat" => x \in q.satisfiable
          /\ goal = "coverReach" => claim = "proof" /\ \A x \in Covers :
               got[x] = "unsat" => x \notin q.coverReach /\ covers[x] = "Unsatisfiable"
    BY <1>t DEF RoundInv, Decision, Possible
  <1>1. CASE StartBmc
    BY <1>1, <1>l, <1>h, <1>f, <1>t, <1>c DEF StartBmc, WaitFor, BmcPhases
  <1>2. CASE AyMissing
    BY <1>2, <1>l, <1>h, <1>f, <1>t, <1>c DEF AyMissing, Return, Goto, BmcPhases
  <1>3. CASE MainKilled
    BY <1>3, <1>l, <1>h, <1>f, <1>t, <1>c DEF MainKilled, ListUndetermined, AllAs,
       Return, Goto, BmcPhases
  <1>4. CASE AskOne
    BY <1>4, <1>l, <1>h, <1>f, <1>t, <1>c DEF AskOne, WaitFor, BmcPhases
  <1>5. CASE AskRest
    BY <1>5, <1>l, <1>h, <1>f, <1>t, <1>c DEF AskRest, WaitFor, Goto, BmcPhases
  <1>6. CASE FileKilled
    BY <1>6, <1>l, <1>h, <1>f, <1>t, <1>c DEF FileKilled, FileDone, Goto, BmcPhases
  <1>7. CASE Requeried
    BY <1>7, <1>l, <1>h, <1>f, <1>t, <1>c, <1>r DEF Requeried, RoundOver, Probe,
       ReachFlags, Goto, BmcPhases
  <1>8. CASE ModelClassified
    BY <1>8, <1>l, <1>h, <1>f, <1>t, <1>c, <1>r DEF ModelClassified, RoundOver,
       ClassifyChecks, Goto, BmcPhases
  <1>9. CASE ReportModel
    BY <1>9, <1>l, <1>h, <1>f, <1>t, <1>c DEF ReportModel, Return, Goto, BmcPhases
  <1>10. CASE ProofClassified
    BY <1>10, <1>l, <1>h, <1>f, <1>t, <1>c, <1>r DEF ProofClassified, RoundOver,
       ClassifyChecks, WaitFor, Probe, Goto, BmcPhases
  <1>11. CASE VacuityKilled
    BY <1>11, <1>l, <1>h, <1>f, <1>t, <1>c DEF VacuityKilled, Probed, Probe, Goto,
       BmcPhases
  <1>12. CASE CoversChecked
    BY <1>12, <1>l, <1>h, <1>f, <1>t, <1>c, <1>r DEF CoversChecked, RoundOver,
       CoverStatus, Probe, Goto, BmcPhases
  <1>13. CASE CoversClassified
    BY <1>13, <1>l, <1>h, <1>f, <1>t, <1>c, <1>r DEF CoversClassified, RoundOver,
       WaitFor, Goto, BmcPhases
  <1>14. CASE CoverageKilled
    BY <1>14, <1>l, <1>h, <1>f, <1>t, <1>c DEF CoverageKilled, CoverageEnds, Goto,
       BmcPhases
  <1>15. CASE ReportProof
    BY <1>15, <1>l, <1>h, <1>f, <1>t, <1>c DEF ReportProof, Return, Goto, BmcPhases
  <1>16. CASE StartChc
    BY <1>16, <1>l, <1>h, <1>f, <1>t, <1>c DEF StartChc, Goto, BmcPhases
  <1>17. CASE BailExhausted
    BY <1>17, <1>l, <1>h, <1>f, <1>t, <1>c DEF BailExhausted, Fail, Goto, BmcPhases,
       PreSolve
  <1>18. CASE ReadSmt
    BY <1>18, <1>l, <1>h, <1>f, <1>t, <1>c DEF ReadSmt, Phase, Proceed, Fail, Goto,
       BmcPhases
  <1>19. CASE TrivialCheck
    BY <1>19, <1>l, <1>h, <1>f, <1>t, <1>c DEF TrivialCheck, Phase, Accept, Proceed,
       Goto, BmcPhases
  <1>20. CASE ParseChc
    BY <1>20, <1>l, <1>h, <1>f, <1>t, <1>c DEF ParseChc, Phase, Proceed, Fail, Goto,
       BmcPhases
  <1>21. CASE ExpandNullary
    BY <1>21, <1>l, <1>h, <1>f, <1>t, <1>c DEF ExpandNullary, Phase, Accept, Proceed,
       Goto, BmcPhases
  <1>22. CASE SearchWitness
    BY <1>22, <1>l, <1>h, <1>f, <1>t, <1>c DEF SearchWitness, Phase, WaitFor, Goto,
       BmcPhases
  <1>23. CASE NoWitness
    BY <1>23, <1>l, <1>h, <1>f, <1>t, <1>c DEF NoWitness, Proceed, Goto, BmcPhases
  <1>24. CASE Transform
    BY <1>24, <1>l, <1>h, <1>f, <1>t, <1>c DEF Transform, Phase, Proceed, Goto,
       BmcPhases
  <1>25. CASE StartLane
    BY <1>25, <1>l, <1>h, <1>f, <1>t, <1>c DEF StartLane, Phase, WaitFor, Goto,
       BmcPhases
  <1>26. CASE LaneProves
    BY <1>26, <1>l, <1>h, <1>f, <1>t, <1>c DEF LaneProves, LaneHeard, Accept, Goto,
       BmcPhases
  <1>27. CASE LaneRefutes
    BY <1>27, <1>l, <1>h, <1>f, <1>t, <1>c DEF LaneRefutes, LaneHeard, Accept, Goto,
       BmcPhases
  <1>28. CASE LaneZeroStep
    BY <1>28, <1>l, <1>h, <1>f, <1>t, <1>c DEF LaneZeroStep, LaneHeard, Goto, BmcPhases
  <1>29. CASE LaneInconclusive
    BY <1>29, <1>l, <1>h, <1>f, <1>t, <1>c DEF LaneInconclusive, LaneHeard, Goto,
       BmcPhases
  <1>30. CASE LaneGuard
    BY <1>30, <1>l, <1>h, <1>f, <1>t, <1>c DEF LaneGuard, WaitFor, BmcPhases
  <1>31. CASE LaneAbandoned
    BY <1>31, <1>l, <1>h, <1>f, <1>t, <1>c DEF LaneAbandoned, Goto, BmcPhases
  <1>32. CASE BudgetPortfolio
    BY <1>32, <1>l, <1>h, <1>f, <1>t, <1>c DEF BudgetPortfolio, Goto, BmcPhases
  <1>33. CASE StartPortfolio
    BY <1>33, <1>l, <1>h, <1>f, <1>t, <1>c DEF StartPortfolio, WaitFor, BmcPhases
  <1>34. CASE PortfolioReceived
    BY <1>34, <1>l, <1>h, <1>f, <1>t, <1>c DEF PortfolioReceived, Goto, WaitFor,
       BmcPhases
  <1>35. CASE PortfolioGuard
    BY <1>35, <1>l, <1>h, <1>f, <1>t, <1>c DEF PortfolioGuard, WaitFor, BmcPhases
  <1>36. CASE PortfolioAbandoned
    BY <1>36, <1>l, <1>h, <1>f, <1>t, <1>c DEF PortfolioAbandoned, Goto, BmcPhases
  <1>37. CASE CrossContradicts
    BY <1>37, <1>l, <1>h, <1>f, <1>t, <1>c DEF CrossContradicts, Fail, Goto, BmcPhases
  <1>38. CASE CrossAgrees
    BY <1>38, <1>l, <1>h, <1>f, <1>t, <1>c DEF CrossAgrees, Proceed, Goto, BmcPhases
  <1>39. CASE Validated
    BY <1>39, <1>l, <1>h, <1>f, <1>t, <1>c DEF Validated, Proceed, Fail, Goto, BmcPhases
  <1>40. CASE Checked
    BY <1>40, <1>l, <1>h, <1>f, <1>t, <1>c DEF Checked, Fail, Accept, Goto, BmcPhases
  <1>41. CASE InterpretSafe
    BY <1>41, <1>l, <1>h, <1>f, <1>t, <1>c DEF InterpretSafe, NoRows, AllAs,
       ProvedStatus, WaitFor, Goto, BmcPhases
  <1>42. CASE ChcCoversKilled
    BY <1>42, <1>l, <1>h, <1>f, <1>t, <1>c DEF ChcCoversKilled, ChcCoversDone, Goto,
       BmcPhases
  <1>43. CASE ReportSafe
    BY <1>43, <1>l, <1>h, <1>f, <1>t, <1>c DEF ReportSafe, NoRows, NoCovers, Return,
       Goto, BmcPhases
  <1>44. CASE ReportNamed
    BY <1>44, <1>l, <1>h, <1>f, <1>t, <1>c DEF ReportNamed, Return, Goto, BmcPhases
  <1>45. CASE ReportAggregate
    BY <1>45, <1>l, <1>h, <1>f, <1>t, <1>c DEF ReportAggregate, Return, Goto, BmcPhases
  <1>46. CASE ReportUnwind
    BY <1>46, <1>l, <1>h, <1>f, <1>t, <1>c DEF ReportUnwind, Return, Goto, BmcPhases
  <1>47. CASE Fallback
    BY <1>47, <1>l, <1>h, <1>f, <1>t, <1>c DEF Fallback, WaitFor, BmcPhases
  <1>48. CASE GiveUp
    BY <1>48, <1>l, <1>h, <1>f, <1>t, <1>c DEF GiveUp, Inconclusive, Return, Goto,
       BmcPhases
  <1>49. CASE ExternalKilled
    BY <1>49, <1>l, <1>h, <1>f, <1>t, <1>c DEF ExternalKilled, Inconclusive, Return,
       Goto, BmcPhases
  <1>50. CASE BmcErr
    BY <1>50, <1>l, <1>h, <1>f, <1>t, <1>c DEF BmcErr, Return, Goto, BmcPhases
  <1>51. CASE MainUnsat
    BY <1>51, <1>l, <1>h, <1>f, <1>t, <1>c DEF MainUnsat, AllAs, Probe, ReachFlags,
       Goto, BmcPhases
  <1>52. CASE MainSat
    BY <1>52, <1>l, <1>h, <1>f, <1>t, <1>c DEF MainSat, Probe, Goto, BmcPhases
  <1>53. CASE MainUnknown
    BY <1>53, <1>l, <1>h, <1>f, <1>t, <1>c DEF MainUnknown, AllAs, Return, Goto,
       BmcPhases
  <1>54. CASE MainRejected
    BY <1>54, <1>l, <1>h, <1>f, <1>t, <1>c DEF MainRejected, ListUndetermined, AllAs,
       Return, Goto, BmcPhases
  <1>55. CASE FileAnswered
    BY <1>55, <1>l, <1>h, <1>f, <1>t, <1>c DEF FileAnswered, FileDone, Goto, BmcPhases
  <1>56. CASE VacuityAnswered
    <2>1. CASE Probed("Undetermined")
      BY <1>56, <2>1, <1>l, <1>h, <1>f, <1>t, <1>c
         DEF VacuityAnswered, Probed, Probe, Goto, BmcPhases
    <2>2. CASE q.feasible /\ Probed("Reachable")
      BY <1>56, <2>2, <1>l, <1>h, <1>f, <1>t, <1>c
         DEF VacuityAnswered, Probed, Probe, Goto, BmcPhases
    <2>3. CASE ~q.feasible /\ Probed("Infeasible")
      BY <1>56, <2>3, <1>l, <1>h, <1>f, <1>t, <1>c
         DEF VacuityAnswered, Probed, Probe, Goto, BmcPhases
    <2> QED
      BY <1>56, <2>1, <2>2, <2>3 DEF VacuityAnswered
  <1>57. CASE CoverageAnswered
    BY <1>57, <1>l, <1>h, <1>f, <1>t, <1>c DEF CoverageAnswered, CoverageEnds, Goto,
       BmcPhases
  <1>58. CASE ChcErr
    BY <1>58, <1>l, <1>h, <1>f, <1>t, <1>c DEF ChcErr, Return, Goto, BmcPhases
  <1>59. CASE WitnessFound
    BY <1>59, <1>l, <1>h, <1>f, <1>t, <1>c DEF WitnessFound, Accept, Goto, BmcPhases
  <1>60. CASE LaneAnswers
    BY <1>60, <1>l, <1>h, <1>f, <1>t, <1>c DEF LaneAnswers, BmcPhases
  <1>61. CASE PortfolioAnswers
    BY <1>61, <1>l, <1>h, <1>f, <1>t, <1>c DEF PortfolioAnswers, BmcPhases
  <1>62. CASE ChcCoversAnswered
    BY <1>62, <1>l, <1>h, <1>f, <1>t, <1>c DEF ChcCoversAnswered, ChcCoversDone, Goto,
       BmcPhases
  <1>63. CASE ExternalProves
    BY <1>63, <1>l, <1>h, <1>f, <1>t, <1>c DEF ExternalProves, Accept, Goto, BmcPhases
  <1>64. CASE ExternalFails
    BY <1>64, <1>l, <1>h, <1>f, <1>t, <1>c DEF ExternalFails, Inconclusive, Return,
       Goto, BmcPhases
  <1>65. CASE Tick
    BY <1>65, <1>l, <1>h, <1>f, <1>t, <1>c DEF Tick, BmcPhases
  <1>66. CASE UNCHANGED vars
    BY <1>66 DEF vars
  <1> QED
    BY <1>1, <1>2, <1>3, <1>4, <1>5, <1>6, <1>7, <1>8, <1>9, <1>10, <1>11, <1>12, <1>13,
       <1>14, <1>15, <1>16, <1>17, <1>18, <1>19, <1>20, <1>21, <1>22, <1>23, <1>24,
       <1>25, <1>26, <1>27, <1>28, <1>29, <1>30, <1>31, <1>32, <1>33, <1>34, <1>35,
       <1>36, <1>37, <1>38, <1>39, <1>40, <1>41, <1>42, <1>43, <1>44, <1>45, <1>46,
       <1>47, <1>48, <1>49, <1>50, <1>51, <1>52, <1>53, <1>54, <1>55, <1>56, <1>57,
       <1>58, <1>59, <1>60, <1>61, <1>62, <1>63, <1>64, <1>65, <1>66 DEF Next, MainStep,
       SolverStep
-----------------------------------------------------------------------------
(* The rows of a table, as kinds. *)
LEMMA CheckKindOf ==
    ASSUME NEW c
    PROVE  /\ rows[c] = "Success" => CheckKind(c) = "ok"
           /\ rows[c] = "Unreachable" => CheckKind(c) = "unreach"
           /\ rows[c] = "Undetermined" => CheckKind(c) = "undet"
           /\ rows[c] = "Failure" => CheckKind(c) = q.class[c]
  BY Zenon DEF CheckKind

(* The kind of row a cover is reported as. *)
LEMMA CoverKindOf ==
    ASSUME NEW c
    PROVE  /\ covers[c] = "Satisfied" => CoverKind(c) = "coverSat"
           /\ covers[c] = "Undetermined" => CoverKind(c) = "coverUndet"
           /\ covers[c] \in {"Unsatisfiable", "Unreachable"} => CoverKind(c) = "coverUnsat"
  BY Zenon DEF CoverKind

(* Every kind among the check rows comes from a check that has that status, and the
   status is true of it. *)
LEMMA CheckRowsAre ==
    ASSUME TypeOK, TableInv, NEW k \in CheckRows
    PROVE  \E c \in q.checks :
             \/ k = "ok" /\ rows[c] = "Success"
             \/ k = "unreach" /\ rows[c] = "Unreachable"
             \/ k = "undet" /\ rows[c] = "Undetermined"
             \/ k = q.class[c] /\ k \in Failing \ {"chc"} /\ c \in q.viol /\ rows[c] = "Failure"
  <1>1. PICK c \in Checks : rows[c] # "absent" /\ k = CheckKind(c)
    BY DEF CheckRows
  <1>2. rows[c] \in {"Success", "Failure", "Unreachable", "Undetermined"}
    BY <1>1 DEF TypeOK, CheckStatuses
  <1>3. c \in q.checks /\ (rows[c] = "Failure" => c \in q.viol)
    BY <1>1 DEF TableInv
  <1>4. q.class[c] \in Failing \ {"chc"}
    BY QueryFacts DEF TypeOK
  <1> QED
    BY <1>1, <1>2, <1>3, <1>4, CheckKindOf

(* The same for the covers. *)
LEMMA CoverRowsAre ==
    ASSUME TypeOK, TableInv, NEW k \in CoverRows
    PROVE  \E c \in q.covers :
             \/ k = "coverSat" /\ c \in q.satisfiable
             \/ k = "coverUndet"
             \/ k = "coverUnsat" /\ (claim # "model" => c \notin q.satisfiable)
  <1>1. PICK c \in Covers : covers[c] # "absent" /\ k = CoverKind(c)
    BY DEF CoverRows
  <1>2. covers[c] \in {"Satisfied", "Unsatisfiable", "Unreachable", "Undetermined"}
    BY <1>1 DEF TypeOK, CoverStatuses
  <1>3. /\ c \in q.covers
        /\ covers[c] = "Satisfied" => c \in q.satisfiable
        /\ covers[c] \in {"Unsatisfiable", "Unreachable"} /\ claim # "model"
             => c \notin q.satisfiable
    BY <1>1, QueryFacts DEF TypeOK, TableInv
  <1> QED
    BY <1>1, <1>2, <1>3, CoverKindOf

(* What a reply needs in order to be one the abstract specification gives. *)
LEMMA Decides ==
    ASSUME reply = NoReply, UNCHANGED <<q, opts>>,
           NEW r \in S!Reply, reply' = r,
           r \in S!Results(S!Kinds \intersect r.rows, opts.strict), S!Truthful(r)
    PROVE  S!Answer
  <1>1. r # reply
    BY DEF NoReply, Result, S!Reply
  <1> QED
    BY <1>1 DEF S!Answer, S!Decide, NoReply, Result, S!NoReply, S!Result

(* An Err is one of the answers a caller expects. *)
LEMMA Rejects ==
    ASSUME reply = NoReply, UNCHANGED <<q, opts>>, reply' = ErrReply
    PROVE  S!Answer
  BY DEF S!Answer, S!Reject, NoReply, ErrReply, Result, S!NoReply, S!ErrReply, S!Result

(* The kinds of rows the abstract specification allows. *)
LEMMA KindFacts ==
    ASSUME q \in Query
    PROVE  /\ S!Kinds \subseteq S!AllKinds \ {"chc"}
           /\ {"ok", "unreach", "undet"} \subseteq S!Kinds
           /\ q.covers # {} => CoverKinds \subseteq S!Kinds
           /\ q.horn /\ q.unwind => "unwind" \in S!Kinds
           /\ \A c \in q.checks : q.class[c] \in S!Kinds
  <1>1. \A c \in q.checks : q.class[c] \in {"panic", "other", "unwind"}
    BY QueryFacts DEF Failing
  <1> QED
    BY <1>1 DEF S!AllKinds, S!Failing, S!Kinds, S!Settled, S!CoverKinds, CoverKinds

(* The shapes of a decided reply. *)
LEMMA UnknownShape ==
    ASSUME q \in Query, NEW rs,
           rs \in SUBSET (S!Kinds \ S!Failing) \/ rs = {"chc"},
           NEW r, r = Result("unknown", "Failure", "Other", rs, "Undetermined")
    PROVE  r \in S!Reply /\ r \in S!Results(S!Kinds \intersect r.rows, opts.strict)
  <1>1. rs \in SUBSET S!AllKinds
    BY KindFacts DEF S!AllKinds, S!Failing
  <1>2. r \in S!Reply
    BY <1>1 DEF S!Reply, Result, S!Feasibility
  <1> DEFINE A == SUBSET ((S!Kinds \intersect rs) \ S!Failing)
  <1>3. rs \in A \/ rs \in {{"chc"}}
    OBVIOUS
  <1> HIDE DEF A
  <1>4. r \in {S!Result("unknown", "Failure", "Other", k, "Undetermined") :
                k \in A \union {{"chc"}}}
    BY <1>3 DEF Result, S!Result
  <1>5. r \in S!Unknowns(S!Kinds \intersect rs)
    BY <1>4 DEF S!Unknowns, A
  <1> QED
    BY <1>2, <1>5 DEF S!Results, Result

(* A proof over settled rows is a result SolverAnswer allows ... *)
LEMMA ProofShape ==
    ASSUME q \in Query, opts \in Option, NEW rs \in SUBSET (S!Kinds \intersect
                           ({"ok", "unreach"} \union CoverKinds)),
           NEW x \in Feasibility, x # "Undetermined" => rs \ CoverKinds # {},
           NEW r, \/ r = Result("proof", "Success", "None", rs, x)
                  \/ /\ opts.strict /\ "coverUndet" \in rs
                     /\ r = Result("proof", "Failure", "Other", rs, "Undetermined")
    PROVE  r \in S!Reply /\ r \in S!Results(S!Kinds \intersect r.rows, opts.strict)
  <1>1. rs \in SUBSET S!AllKinds /\ r.rows = rs
    BY KindFacts DEF Result
  <1>2. r \in S!Reply
    BY <1>1 DEF S!Reply, Result, S!Feasibility, Feasibility
  <1>3. rs \in S!ProofRows(S!Kinds \intersect rs) /\ S!CoverKinds = CoverKinds
    BY DEF S!ProofRows, S!CoverKinds, CoverKinds
  <1>4. CASE r = Result("proof", "Success", "None", rs, x)
    <2> DEFINE P == S!ProofRows(S!Kinds \intersect rs)
    <2>1. CASE x = "Undetermined"
      <3>1. r \in {S!Result("proof", "Success", "None", k, "Undetermined") : k \in P}
        BY <1>3, <1>4, <2>1 DEF Result, S!Result
      <3> QED
        BY <1>1, <1>2, <3>1 DEF S!Results, S!Proofs
    <2>2. CASE x # "Undetermined"
      <3>1. rs \in {k \in P : S!CheckKinds(k) # {}} /\ x \in {"Reachable", "Infeasible"}
        BY <1>3, <2>2 DEF S!CheckKinds, Feasibility
      <3> HIDE DEF P
      <3>2. r \in {S!Result("proof", "Success", "None", k, y) :
                      k \in {k \in P : S!CheckKinds(k) # {}}, y \in {"Reachable", "Infeasible"}}
        BY <1>4, <3>1 DEF Result, S!Result
      <3> QED
        BY <1>1, <1>2, <3>2 DEF S!Results, S!Proofs, P
    <2> QED
      BY <2>1, <2>2
  <1>5. CASE opts.strict /\ "coverUndet" \in rs
               /\ r = Result("proof", "Failure", "Other", rs, "Undetermined")
    <2>1. r \in S!Unwitnessed(S!Kinds \intersect rs, opts.strict)
      BY <1>3, <1>5 DEF S!Unwitnessed, Result, S!Result
    <2> QED
      BY <1>1, <1>2, <2>1 DEF S!Results
  <1> QED
    BY <1>4, <1>5

(* ... as is a counterexample with a failing row ... *)
LEMMA CtrexShape ==
    ASSUME q \in Query, NEW rs \in SUBSET S!Kinds, rs \intersect Failing # {},
           NEW r, r = Result("ctrex", "Failure", DetermineFailed(rs), rs, "Undetermined")
    PROVE  r \in S!Reply /\ r \in S!Results(S!Kinds \intersect r.rows, opts.strict)
  <1>1. rs \in SUBSET S!AllKinds /\ "chc" \notin rs /\ r.rows = rs
    BY KindFacts DEF Result
  <1>2. /\ DetermineFailed(rs) \in {"None", "PanicsOnly", "Other"}
        /\ S!DetermineFailed(rs) = DetermineFailed(rs)
    BY DEF DetermineFailed, S!DetermineFailed, S!Failing, Failing
  <1>3. r \in S!Reply
    BY <1>1, <1>2 DEF S!Reply, Result, S!Feasibility
  <1>4. rs \in {k \in SUBSET ((S!Kinds \intersect rs) \ {"chc"}) : k \intersect S!Failing # {}}
    BY <1>1 DEF S!Failing, Failing
  <1>5. r \in S!Ctrexs(S!Kinds \intersect rs)
    BY <1>2, <1>4 DEF S!Ctrexs, Result, S!Result
  <1> QED
    BY <1>1, <1>3, <1>5 DEF S!Results

(* ... and one that names no check. *)
LEMMA AggregateShape ==
    ASSUME NEW f \in {"PanicsOnly", "Other"},
           NEW r, r = Result("ctrex", "Failure", f, {"chc"}, "Undetermined")
    PROVE  r \in S!Reply /\ r \in S!Results(S!Kinds \intersect r.rows, opts.strict)
  BY DEF S!Reply, S!Results, S!ChcCtrexs, Result, S!Result, S!Feasibility, S!AllKinds, S!Failing

(* The truth of the replies of each kind. *)
LEMMA UnknownTruthful ==
    ASSUME NEW rs, rs \intersect (Failing \ {"chc"}) = {},
           "coverSat" \in rs => q.satisfiable # {},
           "unreach" \in rs => q.reach # q.checks \/ ~q.feasible \/ q.vacuous
    PROVE  S!Truthful(Result("unknown", "Failure", "Other", rs, "Undetermined"))
  BY DEF S!Truthful, Result, S!Failing, Failing

(* No check listed, all of them undetermined, or the aggregate row. *)
LEMMA UndecidedReply ==
    ASSUME reply = NoReply, UNCHANGED <<q, opts>>, q \in Query,
           NEW rs, \/ rs = {"chc"}
                   \/ /\ rs \subseteq {"undet", "coverUndet"}
                      /\ "coverUndet" \in rs => q.covers # {},
           reply' = Result("unknown", "Failure", "Other", rs, "Undetermined")
    PROVE  S!Answer
  <1>1. S!Truthful(reply')
    BY UnknownTruthful DEF Failing
  <1>2. (rs \subseteq S!Kinds /\ rs \intersect S!Failing = {}) \/ rs = {"chc"}
    BY KindFacts DEF CoverKinds, S!Failing
  <1>3. reply' \in S!Reply /\ reply' \in S!Results(S!Kinds \intersect reply'.rows, opts.strict)
    BY <1>2, UnknownShape
  <1> QED
    BY <1>1, <1>3, Decides

(* The table yields no kind of row the query cannot have. *)
LEMMA TableKinds ==
    ASSUME TypeOK, TableInv
    PROVE  /\ CheckRows \subseteq S!Kinds /\ CoverRows \subseteq S!Kinds
           /\ CoverRows \subseteq CoverKinds /\ CheckRows \intersect CoverKinds = {}
           /\ \A k \in CheckRows \intersect Failing : k # "chc" /\ \E c \in q.viol : q.class[c] = k
           /\ "coverSat" \in CoverRows => q.satisfiable # {}
           /\ claim # "model" /\ "coverUnsat" \in CoverRows => q.satisfiable # q.covers
           /\ "unreach" \in CheckRows => q.reach # q.checks \/ ~q.feasible
  <1>q. q \in Query
    BY DEF TypeOK
  <1>1. CheckRows \subseteq S!Kinds
    BY <1>q, CheckRowsAre, KindFacts
  <1>2. CoverRows \subseteq CoverKinds
    BY CoverRowsAre DEF CoverKinds
  <1>3. CoverRows \subseteq S!Kinds
    BY <1>q, <1>2, CoverRowsAre, KindFacts
  <1>4. CheckRows \intersect CoverKinds = {}
    BY CheckRowsAre DEF CoverKinds, Failing
  <1>5. \A k \in CheckRows \intersect Failing : k # "chc" /\ \E c \in q.viol : q.class[c] = k
    BY CheckRowsAre DEF Failing
  <1>6. "coverSat" \in CoverRows => q.satisfiable # {}
    BY CoverRowsAre
  <1>7. claim # "model" /\ "coverUnsat" \in CoverRows => q.satisfiable # q.covers
    BY CoverRowsAre
  <1>8. "unreach" \in CheckRows => q.reach # q.checks \/ ~q.feasible
    <2> HAVE "unreach" \in CheckRows
    <2>1. PICK c \in q.checks : rows[c] = "Unreachable"
      BY CheckRowsAre DEF Failing
    <2>2. c \in Checks
      BY <1>q, QueryFacts
    <2> QED
      BY <2>1, <2>2 DEF TableInv
  <1> QED
    BY <1>1, <1>2, <1>3, <1>4, <1>5, <1>6, <1>7, <1>8

(* The counterexample of the bounded lane answers as Solve allows. *)
LEMMA ModelReply ==
    ASSUME IInv, ReportModel
    PROVE  S!Answer
  <1>q. q \in Query /\ reply = NoReply /\ UNCHANGED <<q, opts>> /\ feas = "Undetermined"
    BY DEF IInv, TypeOK, ControlInv, TableInv, ReportModel, callVars
  <1>t. TypeOK /\ TableInv
    BY DEF IInv
  <1>r. TableRows = CheckRows \union CoverRows
    BY DEF TableRows
  <1>1. CASE CheckRows \intersect Failing # {}
    <2>1. reply' = Result("ctrex", "Failure", DetermineFailed(TableRows), TableRows, "Undetermined")
      BY <1>1, <1>q DEF ReportModel, Return
    <2>2. reply' \in S!Reply /\ reply' \in S!Results(S!Kinds \intersect reply'.rows, opts.strict)
      BY <1>1, <1>q, <1>t, <1>r, <2>1, TableKinds, CtrexShape
    <2>3. S!Truthful(reply')
      BY <1>1, <1>t, <1>r, <2>1, TableKinds
         DEF S!Truthful, Result, S!Failing, Failing, CoverKinds
    <2> QED
      BY <1>q, <2>2, <2>3, Decides
  <1>2. CASE CheckRows \intersect Failing = {}
    <2>1. reply' = Result("unknown", "Failure", "Other", TableRows, "Undetermined")
      BY <1>2 DEF ReportModel, Return, Undecided
    <2>2. TableRows \subseteq S!Kinds /\ TableRows \intersect Failing = {}
      BY <1>2, <1>t, <1>r, TableKinds DEF CoverKinds, Failing
    <2>3. reply' \in S!Reply /\ reply' \in S!Results(S!Kinds \intersect reply'.rows, opts.strict)
      BY <1>q, <2>1, <2>2, UnknownShape DEF S!Failing, Failing
    <2>4. S!Truthful(reply')
      BY <1>t, <1>r, <2>1, <2>2, TableKinds, UnknownTruthful DEF CoverKinds
    <2> QED
      BY <1>q, <2>3, <2>4, Decides
  <1> QED
    BY <1>1, <1>2

(* A proof whose rows come from the table says only what is true. *)
LEMMA ProofTruthful ==
    ASSUME TypeOK, TableInv, claim # "model",
           q.viol = {} \/ (q.horn /\ opts.skipVerify),
           NEW rs \in SUBSET ({"ok", "unreach"} \union CoverRows),
           "unreach" \in rs => q.reach # q.checks \/ ~q.feasible \/ q.vacuous,
           NEW s, NEW f, NEW x \in {feas, "Undetermined"}
    PROVE  S!Truthful(Result("proof", s, f, rs, x))
  <1>1. /\ rs \intersect Failing = {}
        /\ "coverSat" \in rs => q.satisfiable # {}
        /\ "coverUnsat" \in rs => q.satisfiable # q.covers
    BY TableKinds DEF CoverKinds, Failing
  <1>2. (x = "Reachable" => q.feasible) /\ (x = "Infeasible" => ~q.feasible)
    BY DEF TableInv
  <1> QED
    BY <1>1, <1>2 DEF S!Truthful, Result, S!Failing, Failing

(* The proof of the bounded lane answers as Solve allows. *)
LEMMA ProofReply ==
    ASSUME IInv, ReportProof
    PROVE  S!Answer
  <1>q. /\ q \in Query /\ opts \in Option /\ reply = NoReply /\ UNCHANGED <<q, opts>>
        /\ claim = "proof" /\ q.viol = {} /\ feas \in Feasibility
    BY DEF IInv, TypeOK, ControlInv, ClaimInv, Safe, ReportProof, callVars
  <1>t. TypeOK /\ TableInv
    BY DEF IInv
  <1>r. reply' = Result("proof", "Success", "None", CheckRows \union CoverRows, feas)
    BY DEF ReportProof, Return, TableRows
  <1>1. CheckRows \subseteq {"ok", "unreach"}
    <2> SUFFICES ASSUME NEW k \in CheckRows PROVE k \in {"ok", "unreach"}
      OBVIOUS
    <2>1. PICK c \in q.checks : /\ rows[c] \in {"Failure", "Undetermined"}
                                   \/ k \in {"ok", "unreach"}
      BY <1>t, CheckRowsAre
    <2>2. c \in Checks
      BY <1>q, QueryFacts
    <2> QED
      BY <1>q, <1>t, <2>1, <2>2 DEF TableInv
  <1>2. feas # "Undetermined" => CheckRows # {}
    <2> HAVE feas # "Undetermined"
    <2>1. PICK c \in q.checks : TRUE
      BY <1>t DEF TableInv
    <2>2. c \in Checks /\ rows[c] # "absent"
      BY <1>q, <1>t, <2>1, QueryFacts DEF TableInv
    <2> QED
      BY <2>2 DEF CheckRows
  <1>3. /\ CheckRows \union CoverRows
             \in SUBSET (S!Kinds \intersect ({"ok", "unreach"} \union CoverKinds))
        /\ feas # "Undetermined" => (CheckRows \union CoverRows) \ CoverKinds # {}
    BY <1>1, <1>2, <1>t, TableKinds
  <1>4. reply' \in S!Reply /\ reply' \in S!Results(S!Kinds \intersect reply'.rows, opts.strict)
    BY <1>q, <1>r, <1>3, ProofShape
  <1>5. S!Truthful(reply')
    <2>1. "unreach" \in CheckRows \union CoverRows => q.reach # q.checks \/ ~q.feasible
      BY <1>t, TableKinds DEF CoverKinds
    <2> QED
      BY <1>q, <1>t, <1>r, <1>1, <2>1, ProofTruthful
  <1> QED
    BY <1>q, <1>4, <1>5, Decides

(* One lemma for each reporting action: its reply is one of the caller's. *)
LEMMA UnwindReply ==
    ASSUME reply = NoReply, UNCHANGED <<q, opts>>, q \in Query, q.horn, q.unwind,
           reply' = UnwindFailure
    PROVE  S!Answer
  <1>1. reply' = Result("ctrex", "Failure", DetermineFailed({"unwind"}), {"unwind"}, "Undetermined")
    BY DEF UnwindFailure, DetermineFailed, Failing
  <1>2. reply' \in S!Reply /\ reply' \in S!Results(S!Kinds \intersect reply'.rows, opts.strict)
    BY <1>1, KindFacts, CtrexShape DEF Failing
  <1>3. S!Truthful(reply')
    BY DEF S!Truthful, UnwindFailure, Result
  <1> QED
    BY <1>2, <1>3, Decides

(* So does the validated proof of the CHC lane ... *)
LEMMA SafeReply ==
    ASSUME IInv, ReportSafe
    PROVE  S!Answer
  <1>q. /\ q \in Query /\ opts \in Option /\ reply = NoReply /\ UNCHANGED <<q, opts>>
        /\ pc = "verdict" /\ q.horn /\ claim # "model"
        /\ q.viol = {} \/ opts.skipVerify
    BY DEF IInv, TypeOK, ControlInv, BmcPhases, ClaimInv, Proofs4, Safe, ReportSafe, callVars
  <1>t. TypeOK /\ TableInv
    BY DEF IInv
  <1>1. CASE q.unwind
    BY <1>1, <1>q, UnwindReply DEF ReportSafe, Return
  <1>2. CASE ~q.unwind
    <2> DEFINE chks == IF Aggregate THEN {IF ProvedStatus = "Success" THEN "ok" ELSE "unreach"}
                                    ELSE CheckRows
    <2>1. SafeRows = CoverRows \union chks
      BY DEF SafeRows
    <2>2. chks \subseteq {"ok", "unreach"}
      <3>1. CheckRows \subseteq {"ok", "unreach"}
        <4> SUFFICES ASSUME NEW k \in CheckRows PROVE k \in {"ok", "unreach"}
          OBVIOUS
        <4>1. PICK c \in q.checks : rows[c] \in {"Failure", "Undetermined"}
                                      \/ k \in {"ok", "unreach"}
          BY <1>t, CheckRowsAre
        <4>2. c \in Checks
          BY <1>q, QueryFacts
        <4> QED
          BY <1>q, <1>t, <4>1, <4>2 DEF TableInv
      <3> QED
        BY <3>1
    <2>3. "unreach" \in chks => q.reach # q.checks \/ ~q.feasible \/ q.vacuous
      BY <1>t, TableKinds DEF ProvedStatus
    <2> HIDE DEF chks
    <2>4. /\ SafeRows \in SUBSET (S!Kinds \intersect ({"ok", "unreach"} \union CoverKinds))
          /\ SafeRows \in SUBSET ({"ok", "unreach"} \union CoverRows)
          /\ "unreach" \in SafeRows => q.reach # q.checks \/ ~q.feasible \/ q.vacuous
      BY <1>q, <1>t, <2>1, <2>2, <2>3, TableKinds, KindFacts DEF CoverKinds
    <2>5. \/ reply' = Result("proof", "Success", "None", SafeRows, "Undetermined")
          \/ /\ opts.strict /\ "coverUndet" \in SafeRows
             /\ reply' = Result("proof", "Failure", "Other", SafeRows, "Undetermined")
      BY <1>2 DEF ReportSafe, Return
    <2>6. reply' \in S!Reply /\ reply' \in S!Results(S!Kinds \intersect reply'.rows, opts.strict)
      BY <1>q, <2>4, <2>5, ProofShape DEF Feasibility
    <2>7. S!Truthful(reply')
      BY <1>q, <1>t, <2>4, <2>5, ProofTruthful
    <2> QED
      BY <1>q, <2>6, <2>7, Decides
  <1> QED
    BY <1>1, <1>2

(* ... its counterexample that names the violated checks ... *)
LEMMA NamedReply ==
    ASSUME IInv, ReportNamed
    PROVE  S!Answer
  <1>q. q \in Query /\ reply = NoReply /\ UNCHANGED <<q, opts>>
    BY DEF IInv, TypeOK, ControlInv, ReportNamed, callVars
  <1>f. /\ q.viol \subseteq q.checks /\ q.checks \subseteq Checks
        /\ q.class \in [Checks -> Failing \ {"chc"}]
    BY <1>q, QueryFacts
  <1>1. PICK named \in (SUBSET q.viol) \ {{}} :
          LET r == {q.class[c] : c \in named}
                     \union (IF q.checks = named THEN {} ELSE {"undet"})
          IN  reply' = Result("ctrex", "Failure", DetermineFailed(r), r, "Undetermined")
    BY DEF ReportNamed, Return
  <1> DEFINE cls == {q.class[c] : c \in named}
             r == cls \union (IF q.checks = named THEN {} ELSE {"undet"})
  <1>2. cls \subseteq Failing \ {"chc"} /\ cls # {} /\ cls \subseteq S!Kinds
    BY <1>q, <1>f, KindFacts
  <1>3. \A k \in cls : \E c \in q.viol : q.class[c] = k
    OBVIOUS
  <1>4. reply' = Result("ctrex", "Failure", DetermineFailed(r), r, "Undetermined")
    BY <1>1
  <1> HIDE DEF cls
  <1>5. r \in SUBSET S!Kinds /\ r \intersect Failing # {}
    BY <1>q, <1>2, KindFacts
  <1>6. S!Truthful(reply')
    BY <1>2, <1>3, <1>4 DEF S!Truthful, Result, S!Failing, Failing
  <1> HIDE DEF r
  <1>7. reply' \in S!Reply /\ reply' \in S!Results(S!Kinds \intersect reply'.rows, opts.strict)
    BY <1>q, <1>4, <1>5, CtrexShape
  <1> QED
    BY <1>q, <1>6, <1>7, Decides

(* ... and the one that cannot name them. *)
LEMMA AggregateReply ==
    ASSUME IInv, ReportAggregate
    PROVE  S!Answer
  <1>q. reply = NoReply /\ UNCHANGED <<q, opts>> /\ q.viol # {}
    BY DEF IInv, ControlInv, ClaimInv, Safe, ReportAggregate, callVars
  <1>1. PICK f \in {"PanicsOnly", "Other"} :
          reply' = Result("ctrex", "Failure", f, {"chc"}, "Undetermined")
    BY DEF ReportAggregate, Return
  <1>2. reply' \in S!Reply /\ reply' \in S!Results(S!Kinds \intersect reply'.rows, opts.strict)
    BY <1>1, AggregateShape
  <1>3. S!Truthful(reply')
    BY <1>q, <1>1 DEF S!Truthful, Result, S!Failing, Failing
  <1> QED
    BY <1>q, <1>2, <1>3, Decides

(* Every step of a call is a step of the abstract specification or leaves its
   variables alone. *)
LEMMA AnswerStep ==
    ASSUME IInv, [Next]_vars
    PROVE  [S!Answer]_<<q, opts, reply>>
  <1>r. pc # "done" => reply = NoReply
    BY DEF IInv, ControlInv
  <1>q. q \in Query
    BY DEF IInv, TypeOK
  <1>1. CASE StartBmc \/ AskOne \/ AskRest \/ FileKilled \/ Requeried \/ ModelClassified \/
           ProofClassified \/ VacuityKilled \/ CoversChecked \/ CoversClassified \/
           CoverageKilled \/ MainUnsat \/ MainSat \/ FileAnswered \/ VacuityAnswered
           \/ CoverageAnswered
    BY <1>1 DEF StartBmc, AskOne, AskRest, FileKilled, FileDone, Requeried,
       ModelClassified, ProofClassified, VacuityKilled, Probed, CoversChecked,
       CoversClassified, CoverageKilled, CoverageEnds, MainUnsat, MainSat, FileAnswered,
       VacuityAnswered, CoverageAnswered, callVars
  <1>2. CASE StartChc \/ BailExhausted \/ ReadSmt \/ TrivialCheck \/ ParseChc \/
           ExpandNullary \/ SearchWitness \/ NoWitness \/ Transform \/ StartLane \/
           LaneProves \/ LaneRefutes \/ LaneZeroStep \/ LaneInconclusive \/
           LaneGuard \/ LaneAbandoned \/ BudgetPortfolio \/ StartPortfolio \/
           PortfolioReceived \/ PortfolioGuard \/ PortfolioAbandoned \/
           CrossContradicts \/ CrossAgrees \/ Validated \/ Checked \/ InterpretSafe
           \/ ChcCoversKilled \/ Fallback \/ WitnessFound \/ LaneAnswers \/
           PortfolioAnswers \/ ChcCoversAnswered \/ ExternalProves \/ Tick
    BY <1>2 DEF StartChc, BailExhausted, Fail, ReadSmt, Phase, Proceed, TrivialCheck,
       Accept, ParseChc, ExpandNullary, SearchWitness, NoWitness, Transform, StartLane,
       LaneProves, LaneHeard, LaneRefutes, LaneZeroStep, LaneInconclusive, LaneGuard,
       LaneAbandoned, BudgetPortfolio, StartPortfolio, PortfolioReceived,
       PortfolioGuard, PortfolioAbandoned, CrossContradicts, CrossAgrees, Validated,
       Checked, InterpretSafe, ChcCoversKilled, ChcCoversDone, Fallback, WitnessFound,
       LaneAnswers, PortfolioAnswers, ChcCoversAnswered, ExternalProves, Tick, callVars
  <1>3. CASE AyMissing \/ BmcErr \/ ChcErr
    BY <1>3, <1>r, Rejects DEF AyMissing, BmcErr, ChcErr, Return, callVars
  <1>4. CASE MainKilled \/ MainRejected
    <2>1. reply' = Result("unknown", "Failure", "Other",
                          IF q.checks # {} THEN {"undet"} ELSE {}, "Undetermined")
      BY <1>4 DEF MainKilled, MainRejected, ListUndetermined, Return, Undecided
    <2>2. reply = NoReply /\ UNCHANGED <<q, opts>>
      BY <1>4, <1>r DEF MainKilled, MainRejected, ListUndetermined, callVars
    <2> QED
      BY <1>q, <2>1, <2>2, UndecidedReply
  <1>5. CASE MainUnknown
    <2>1. reply' = Result("unknown", "Failure", "Other",
                          (IF q.checks # {} THEN {"undet"} ELSE {})
                            \union (IF q.covers # {} THEN {"coverUndet"} ELSE {}),
                          "Undetermined")
      BY <1>5 DEF MainUnknown, Return, Undecided
    <2>2. reply = NoReply /\ UNCHANGED <<q, opts>>
      BY <1>5, <1>r DEF MainUnknown, callVars
    <2> QED
      BY <1>q, <2>1, <2>2, UndecidedReply
  <1>6. CASE GiveUp \/ ExternalFails \/ ExternalKilled
    <2>1. reply' = Result("unknown", "Failure", "Other", {"chc"}, "Undetermined")
      BY <1>6 DEF GiveUp, ExternalFails, ExternalKilled, Inconclusive, Return
    <2>2. reply = NoReply /\ UNCHANGED <<q, opts>>
      BY <1>6, <1>r DEF GiveUp, ExternalFails, ExternalKilled, Inconclusive, callVars
    <2> QED
      BY <1>q, <2>1, <2>2, UndecidedReply
  <1>7. CASE ReportUnwind
    <2>1. q.horn
      BY <1>7 DEF IInv, ControlInv, BmcPhases, ReportUnwind
    <2> QED
      BY <1>7, <1>r, <1>q, <2>1, UnwindReply DEF ReportUnwind, Return, callVars
  <1>8. CASE UNCHANGED vars
    BY <1>8 DEF vars, callVars
  <1> QED
    BY <1>1, <1>2, <1>3, <1>4, <1>5, <1>6, <1>7, <1>8, ModelReply, ProofReply, SafeReply,
       NamedReply, AggregateReply DEF Next, MainStep, SolverStep
-----------------------------------------------------------------------------
(* The invariant holds at the call and is kept by every step. *)
LEMMA InvInit == Init => IInv
  <1> SUFFICES ASSUME Init PROVE IInv
    OBVIOUS
  <1>1. TypeOK
    BY TypeInit
  <1>2. end \in Nat
    BY <1>1, CallAssumption DEF TypeOK
  <1> QED
    BY <1>1, <1>2 DEF Init, IInv, ControlInv, TimeInv, ClaimInv, RoundInv, TableInv, BmcPhases,
       Closed, Waiting, Safe, Trusted, Proofs4, NoRows, NoCovers

(* Each part of the invariant is kept by every step. *)
LEMMA InvStep == IInv /\ [Next]_vars => IInv'
  BY TypeStep, ControlStep, TimeStep, ClaimStep, RoundStep, TableStep DEF IInv

(* The inductive invariant the theorems below follow from. *)
THEOREM Invariance == Spec => []IInv
  BY InvInit, InvStep, PTL DEF Spec

(* Whatever the solvers answer and the clock does, every budget is a natural
   number and the tables, rounds and threads keep to their states. *)
THEOREM TypeCorrect == Spec => []TypeOK
  <1>1. IInv => TypeOK
    BY DEF IInv
  <1> QED
    BY <1>1, Invariance, PTL

(* For any sets of checks and covers, any call and any budgets, no row of a
   report says what is not so: neither the order of the probes' answers, nor a
   spent budget, nor a batch, nor a later contradiction makes it. *)
THEOREM EveryRowTruthful == Spec => []RowsTruthful
  <1>1. IInv => RowsTruthful
    <2> SUFFICES ASSUME IInv, Replied PROVE RowsTruthful
      BY DEF RowsTruthful
    <2>q. q.viol \subseteq q.reach /\ q.satisfiable \subseteq q.coverReach
      BY QueryFacts DEF IInv, TypeOK
    <2>1. Proved => /\ claim # "model"
                    /\ ~(q.horn /\ opts.skipVerify) => q.viol = {}
      BY DEF IInv, ClaimInv, Proved, Replied, Proofs4, Safe
    <2> QED
      BY <2>q, <2>1 DEF IInv, TableInv, RowsTruthful
  <1> QED
    BY <1>1, Invariance, PTL

(* A refuted candidate, a spent deadline and a failure of the ladder never become
   a proof or reach the external fallback. *)
THEOREM RefutedNeverProved == Spec => []FailClosed
  <1>1. IInv => FailClosed
    BY DEF IInv, ControlInv, Closed, FailClosed, Replied
  <1> QED
    BY <1>1, Invariance, PTL

(* For any timeouts and deadlines the bounded lane ends by its deadline, and the
   waits of the ladder overrun it by the guards and drains at most. *)
THEOREM OverrunIsBounded == Spec => []OverrunBounded
  <1>1. IInv => OverrunBounded
    <2> SUFFICES ASSUME IInv PROVE OverrunBounded
      OBVIOUS
    <2>1. /\ end \in Nat /\ until \in Nat /\ now \in Nat
          /\ Guard \in Nat /\ Drain \in Nat /\ CrossCap \in Nat
      BY CallAssumption DEF IInv, TypeOK
    <2>2. /\ OverrunBound \in Nat
          /\ 2 * (Guard + Drain) <= OverrunBound /\ Guard + CrossCap <= OverrunBound
      BY <2>1 DEF OverrunBound, Greater
    <2> QED
      BY <2>1, <2>2 DEF IInv, TimeInv, OverrunBounded
  <1> QED
    BY <1>1, Invariance, PTL

(* The lanes refine what their caller relies on: a call replies at most once, and
   with a result SolverAnswer allows that is true of the query. *)
THEOREM RepliesAsSolve == Spec => S!Init /\ [][S!Answer]_<<q, opts, reply>>
  <1>1. Init => S!Init
    BY DEF Init, S!Init, NoReply, S!NoReply, Result, S!Result
  <1>2. IInv /\ [Next]_vars => [S!Answer]_<<q, opts, reply>>
    BY AnswerStep
  <1> QED
    BY <1>1, <1>2, Invariance, PTL DEF Spec
=============================================================================
