--------------------------- MODULE Watchdog_proofs ---------------------------
(***************************************************************************)
(* For every timeout, multiplier, grace period, harness count and clock:   *)
(* the deadline stays anchored at its arm, harness deadlines stay inside   *)
(* the watchdog's, every kind of call reaches as far as its clamps let it, *)
(* and the watchdog cuts a call only where those clamps say it may.                                                    *)
(***************************************************************************)
EXTENDS Watchdog, TLAPS

(* Who may hold what at which stage: after the session was built an armed
   deadline belongs to the session's timeout, a pending arm has no credits, and
   harnesses run only once nothing is pending any more. *)
StageInv ==
    /\ op.do = "arm" => op.t # 0 /\ credited = 0
    /\ op.do = "arm" /\ stage \notin {"session", "killed"} => op.t = timeout
    /\ deadline # 0 /\ op.do # "arm" => armed.for # 0
    /\ deadline # 0 /\ op.do # "arm" /\ stage \notin {"argv", "session", "killed"} =>
          armed.for = timeout
    /\ harness.on => stage \in {"verify", "done", "killed"} /\ op.do = "none"
    /\ stage = "argv" => deadline = 0 /\ op.do = "none"

(* The clock and the two time spans. *)
SpanInv ==
    /\ call.on => /\ harness.on /\ call.start <= now /\ now <= call.end
                  /\ harness.start <= call.start /\ call.start <= call.end
    /\ harness.on => harness.start <= now
    /\ wpc = "fire" => now >= seen /\ seen # 0
    /\ wpc = "test" => seen # 0

(* The inductive invariant. *)
IInv ==
    /\ TypeOK
    /\ DeadlineAnchored
    /\ StageInv
    /\ SpanInv
    /\ HarnessInsideWatchdog
    /\ CallInsideBudgets

(* What a deadline accounts for: nothing is credited before the scan, the
   deadline a pending arm is about to replace is a bare ladder budget, and the
   credits come from one of the two counts. *)
AccountInv ==
    /\ stage \in {"argv", "session", "auto"} => credited = 0
    /\ op.do = "arm" /\ deadline # 0 =>
          deadline = MaxOf(Sat(armed.at + BudgetFor(armed.for)), 1)
    /\ credited <= Extra(counts.scan) \/ credited <= Extra(counts.meta)

-----------------------------------------------------------------------------
(* The saturating helpers stay in the naturals. *)
LEMMA HelperTypes ==
    ASSUME NEW a \in Nat, NEW b \in Nat
    PROVE  /\ MinOf(a, b) \in Nat /\ MinOf(a, b) <= a /\ MinOf(a, b) <= b
           /\ MaxOf(a, b) \in Nat /\ MaxOf(a, b) >= a /\ MaxOf(a, b) >= b
           /\ SatSub(a, b) \in Nat /\ SatSub(a, b) <= a
           /\ Sat(a) \in Nat /\ MaxOf(Sat(a), 1) \in 0..MaxMs
    BY WatchdogAssumption DEF MinOf, MaxOf, SatSub, Sat

(* A budget is a positive natural for a positive timeout. *)
LEMMA BudgetType ==
    ASSUME NEW t \in Nat
    PROVE  BudgetFor(t) \in Nat /\ (t # 0 => BudgetFor(t) >= 1)
    <1>1. t * Mult \in Nat /\ (t # 0 => t * Mult >= 1)
        BY WatchdogAssumption
    <1> QED BY <1>1, WatchdogAssumption DEF BudgetFor

(* Topping up from c to e credits is the same as crediting e at once, with and
   without saturation: extend_for_extra_harnesses is idempotent. *)
LEMMA TopUp ==
    ASSUME NEW base \in Nat \ {0}, NEW t \in Nat, NEW c \in Nat, NEW e \in Nat,
           c < e
    PROVE  MaxOf(Sat(MaxOf(Sat(base + t * c), 1) + Sat(t * (e - c))), 1)
           = MaxOf(Sat(base + t * e), 1)
    <1> DEFINE x == t * c
    <1> DEFINE y == t * (e - c)
    <1>1. x \in Nat /\ y \in Nat
        OBVIOUS
    <1>2. t * e = x + y
        OBVIOUS
    <1> HIDE DEF x, y
    <1>3. MaxOf(Sat(MaxOf(Sat(base + x), 1) + Sat(y)), 1)
          = MaxOf(Sat(base + (x + y)), 1)
        BY <1>1, WatchdogAssumption DEF MaxOf, MinOf, Sat
    <1> QED BY <1>2, <1>3 DEF x, y
-----------------------------------------------------------------------------
(* No harness runs, and no call, before the verify stage: what the arming and
   extending steps leave alone. *)
LEMMA QuietBeforeVerify ==
    ASSUME IInv, stage \notin {"verify", "done", "killed"} \/ op.do # "none"
    PROVE  ~harness.on /\ ~call.on
    BY DEF IInv, StageInv, SpanInv

(* Every initial state satisfies the invariant. *)
LEMMA InitInv == Init => IInv
    <1> SUFFICES ASSUME Init PROVE IInv
        OBVIOUS
    <1>1. TypeOK
        BY WatchdogAssumption DEF Init, TypeOK, NoOp, NotArmed, Idle, NoCall, Spans, Calls
    <1>2. DeadlineAnchored /\ StageInv /\ SpanInv
          /\ HarnessInsideWatchdog /\ CallInsideBudgets
        BY DEF Init, DeadlineAnchored, StageInv, SpanInv, HarnessInsideWatchdog,
               CallInsideBudgets, NoOp, NotArmed, Idle, NoCall
    <1> QED BY <1>1, <1>2 DEF IInv

(* Arming and disarming, the part install_from_argv, the session and
   autoharness share. *)
LEMMA RearmStep ==
    ASSUME IInv, NEW next \in {"auto", "scan", "meta"}, op = NoOp,
           stage \in {"session", "auto"},
           timeout' \in Nat \union {None}, Rearm(timeout', next),
           UNCHANGED <<now, counts, runVars, loopVars>>
    PROVE  IInv'
    <1> USE DEF NoOp
    <1>0. ~harness.on /\ ~call.on
        BY QuietBeforeVerify
    <1>1. CASE IsTimeout(timeout')
        <2>1. ArmBudget(timeout', next) /\ timeout' \in Nat \ {0}
            BY <1>1 DEF Rearm, IsTimeout
        <2>2. BudgetFor(timeout') \in Nat
            BY <2>1, BudgetType
        <2>3. TypeOK'
            BY <2>1, <2>2 DEF IInv, TypeOK, ArmBudget, runVars, loopVars
        <2>4. DeadlineAnchored' /\ StageInv'
            BY <1>0, <2>1 DEF IInv, DeadlineAnchored, StageInv, ArmBudget,
                              runVars, loopVars
        <2>5. SpanInv' /\ HarnessInsideWatchdog' /\ CallInsideBudgets'
            BY <1>0, <2>1 DEF IInv, SpanInv, HarnessInsideWatchdog,
                              CallInsideBudgets, ArmBudget, runVars, loopVars
        <2> QED BY <2>3, <2>4, <2>5 DEF IInv
    <1>2. CASE ~IsTimeout(timeout')
        <2>1. Disarm(next)
            BY <1>2 DEF Rearm
        <2>2. TypeOK'
            BY <2>1, WatchdogAssumption DEF IInv, TypeOK, Disarm, NotArmed, runVars, loopVars
        <2>3. DeadlineAnchored' /\ StageInv' /\ SpanInv'
              /\ HarnessInsideWatchdog' /\ CallInsideBudgets'
            BY <1>0, <2>1 DEF IInv, DeadlineAnchored, StageInv, SpanInv,
                              HarnessInsideWatchdog, CallInsideBudgets, Disarm,
                              runVars, loopVars
        <2> QED BY <2>2, <2>3 DEF IInv
    <1> QED BY <1>1, <1>2

(* The steps that arm. *)
LEMMA ArmSteps ==
    ASSUME IInv,
           (\E t \in Timeouts \union {None} : InstallFromArgv(t))
              \/ ArmDeadline \/ SessionRearm \/ AutoharnessRearm
    PROVE  IInv'
    <1>1. ASSUME NEW t \in Timeouts \union {None}, InstallFromArgv(t)
          PROVE  IInv'
        <2> USE <1>1 DEF NoOp
        <2>0. ~harness.on /\ ~call.on
            BY QuietBeforeVerify DEF InstallFromArgv
        <2>1. IsTimeout(t) => t \in Nat \ {0} /\ BudgetFor(t) \in Nat
            BY WatchdogAssumption, BudgetType DEF IsTimeout
        <2>2. TypeOK'
            BY <2>1 DEF IInv, TypeOK, InstallFromArgv, ArmBudget, atomics,
                        runVars, loopVars
        <2>3. DeadlineAnchored' /\ StageInv'
            BY <2>0, <2>1 DEF IInv, DeadlineAnchored, StageInv, InstallFromArgv,
                              ArmBudget, atomics, runVars, loopVars
        <2>4. SpanInv' /\ HarnessInsideWatchdog' /\ CallInsideBudgets'
            BY <2>0 DEF IInv, SpanInv, HarnessInsideWatchdog, CallInsideBudgets,
                        InstallFromArgv, ArmBudget, atomics, runVars, loopVars
        <2> QED BY <2>2, <2>3, <2>4 DEF IInv
    <1>2. CASE ArmDeadline
        <2> USE <1>2 DEF NoOp
        <2>0. ~harness.on /\ ~call.on
            BY QuietBeforeVerify DEF ArmDeadline
        <2>1. op.t \in Nat \ {0} /\ now \in Nat /\ BudgetFor(op.t) \in Nat
              /\ credited = 0
            BY BudgetType DEF IInv, TypeOK, StageInv, ArmDeadline
        <2>2. now + BudgetFor(op.t) \in Nat
            BY <2>1
        <2>3. deadline' \in 0..MaxMs
            BY <2>2, HelperTypes DEF ArmDeadline
        <2>4. TypeOK'
            BY <2>1, <2>3 DEF IInv, TypeOK, ArmDeadline, runVars
        <2>5. DeadlineAnchored'
            BY <2>1, <2>2 DEF DeadlineAnchored, ArmDeadline
        <2>6. StageInv'
            BY <2>0, <2>1 DEF IInv, StageInv, ArmDeadline, runVars
        <2>7. SpanInv' /\ HarnessInsideWatchdog' /\ CallInsideBudgets'
            BY <2>0 DEF IInv, SpanInv, HarnessInsideWatchdog, CallInsideBudgets,
                        ArmDeadline, runVars
        <2> QED BY <2>4, <2>5, <2>6, <2>7 DEF IInv
    <1>3. CASE SessionRearm
        <2>1. PICK next \in {"auto", "scan", "meta"} : Rearm(timeout, next)
            BY <1>3 DEF SessionRearm
        <2>2. timeout' = timeout
            BY <1>3 DEF SessionRearm
        <2> QED BY <1>3, <2>1, <2>2, RearmStep DEF SessionRearm, IInv, TypeOK
    <1>4. CASE AutoharnessRearm
        <2>1. PICK next \in {"scan", "meta"} : Rearm(timeout', next)
            BY <1>4 DEF AutoharnessRearm
        <2>2. timeout' \in Nat \union {None}
            BY <1>4, WatchdogAssumption DEF AutoharnessRearm, IInv, TypeOK
        <2> QED BY <1>4, <2>1, <2>2, RearmStep DEF AutoharnessRearm
    <1> QED BY <1>1, <1>2, <1>3, <1>4

(* The extension: the one step whose arithmetic the anchoring rests on. *)
LEMMA ExtendStep ==
    ASSUME IInv, NEW n \in Nat, NEW next \in {"meta", "verify"},
           stage \in {"scan", "meta"}, ExtendFor(n, next)
    PROVE  IInv'
    <1> USE DEF NoOp
    <1> DEFINE e == Extra(n)
    <1> DEFINE grows == /\ IsTimeout(timeout) /\ e > 0 /\ deadline # 0
                        /\ e > credited
    <1>0. ~harness.on /\ ~call.on /\ op.do = "none"
        BY QuietBeforeVerify DEF ExtendFor
    <1>1. e \in Nat
        BY HelperTypes DEF Extra
    <1>2. CASE ~grows
        <2>1. UNCHANGED <<credited, deadline, op>>
            BY <1>2 DEF ExtendFor
        <2>2. TypeOK'
            BY <2>1 DEF IInv, TypeOK, ExtendFor, runVars, loopVars
        <2>3. DeadlineAnchored' /\ StageInv' /\ SpanInv'
              /\ HarnessInsideWatchdog' /\ CallInsideBudgets'
            BY <1>0, <2>1 DEF IInv, DeadlineAnchored, StageInv, SpanInv,
                   HarnessInsideWatchdog, CallInsideBudgets, ExtendFor, runVars,
                   loopVars
        <2> QED BY <2>2, <2>3 DEF IInv
    <1>3. CASE grows
        <2> DEFINE ms == Sat(timeout * (e - credited))
        <2>1. /\ timeout \in Nat \ {0} /\ armed.for = timeout
              /\ credited \in Nat /\ deadline \in Nat /\ armed.at \in Nat
            BY <1>0, <1>3 DEF IInv, TypeOK, StageInv, IsTimeout
        <2>2. ms \in Nat
            <3>1. e - credited \in Nat
                BY <1>1, <1>3, <2>1
            <3>2. timeout * (e - credited) \in Nat
                BY <2>1, <3>1
            <3> QED BY <3>2, HelperTypes
        <2>3. /\ credited' = e /\ deadline' = MaxOf(Sat(deadline + ms), 1)
              /\ op' = [do |-> "extend", t |-> ms]
            BY <1>3 DEF ExtendFor
        <2> DEFINE base == armed.at + BudgetFor(timeout)
        <2>4. base \in Nat \ {0}
            BY <2>1, BudgetType
        <2>5. deadline = MaxOf(Sat(base + timeout * credited), 1)
            BY <1>0, <1>3, <2>1 DEF IInv, DeadlineAnchored
        <2>6. deadline' = MaxOf(Sat(base + timeout * e), 1)
            <3>1. credited < e /\ timeout \in Nat /\ credited \in Nat
                BY <1>1, <1>3, <2>1
            <3> HIDE DEF base, e, grows
            <3>2. MaxOf(Sat(MaxOf(Sat(base + timeout * credited), 1)
                            + Sat(timeout * (e - credited))), 1)
                  = MaxOf(Sat(base + timeout * e), 1)
                BY <1>1, <2>4, <3>1, TopUp, ZenonT(60)
            <3> QED BY <2>3, <2>5, <3>2
        <2>7. armed' = armed /\ timeout' = timeout
            BY DEF ExtendFor
        <2>8. DeadlineAnchored'
            BY <2>1, <2>3, <2>6, <2>7 DEF DeadlineAnchored
        <2>9. deadline' \in 0..MaxMs
            <3>1. deadline + ms \in Nat
                BY <2>1, <2>2
            <3> HIDE DEF ms
            <3> QED BY <2>3, <3>1, HelperTypes
        <2>10. TypeOK'
            BY <1>1, <2>2, <2>3, <2>9 DEF IInv, TypeOK, ExtendFor, runVars, loopVars
        <2>11. StageInv'
            BY <1>0, <2>1, <2>3, <2>7 DEF IInv, StageInv, ExtendFor, runVars, loopVars
        <2>12. SpanInv' /\ HarnessInsideWatchdog' /\ CallInsideBudgets'
            BY <1>0 DEF IInv, SpanInv, HarnessInsideWatchdog, CallInsideBudgets,
                        ExtendFor, runVars, loopVars
        <2> QED BY <2>8, <2>10, <2>11, <2>12 DEF IInv
    <1> QED BY <1>2, <1>3

(* The steps that extend. *)
LEMMA ExtendSteps ==
    ASSUME IInv, ExtendFromScan \/ ExtendFromMetadata \/ ExtendBudget
    PROVE  IInv'
    <1>1. CASE ExtendFromScan
        BY <1>1, ExtendStep DEF ExtendFromScan, IInv, TypeOK
    <1>2. CASE ExtendFromMetadata
        BY <1>2, ExtendStep DEF ExtendFromMetadata, IInv, TypeOK
    <1>3. CASE ExtendBudget
        <2> USE <1>3 DEF NoOp
        <2>0. ~harness.on /\ ~call.on
            BY QuietBeforeVerify DEF ExtendBudget
        <2>1. TypeOK'
            BY DEF IInv, TypeOK, ExtendBudget, runVars, loopVars
        <2>2. DeadlineAnchored' /\ StageInv' /\ SpanInv'
              /\ HarnessInsideWatchdog' /\ CallInsideBudgets'
            BY <2>0 DEF IInv, DeadlineAnchored, StageInv, SpanInv,
                   HarnessInsideWatchdog, CallInsideBudgets, ExtendBudget,
                   runVars, loopVars
        <2> QED BY <2>1, <2>2 DEF IInv
    <1> QED BY <1>1, <1>2, <1>3

(* How far a wait of d that begins now may reach, for each kind of call. *)
Reach(kind, d) ==
    /\ kind = "solver" => now + d <= MaxOf(harness.end, now)
    /\ kind # "thread" /\ deadline # 0 => now + d <= MaxOf(deadline, now)
    /\ kind = "thread" => now + d <= MaxOf(harness.end, now) + Overrun

(* Deadline::clamp grants no time past the harness's deadline ... *)
LEMMA HarnessClamp ==
    ASSUME IInv, NEW t \in Nat
    PROVE  /\ ClampToHarness(t) \in Nat
           /\ now + ClampToHarness(t) <= MaxOf(harness.end, now)
    BY DEF IInv, TypeOK, Spans, ClampToHarness, MinOf, MaxOf, SatSub

(* ... and clamp_to_watchdog_deadline none past the watchdog's; neither adds any. *)
LEMMA WatchdogClamp ==
    ASSUME IInv, NEW t \in Nat
    PROVE  /\ ClampToWatchdog(t) \in Nat /\ ClampToWatchdog(t) <= t
           /\ deadline # 0 => now + ClampToWatchdog(t) <= MaxOf(deadline, now)
    BY DEF IInv, TypeOK, ClampToWatchdog, MinOf, MaxOf, SatSub, Remaining

(* The child of a solver path, under both clamps. *)
LEMMA CallReach ==
    ASSUME IInv, NEW tool \in ToolTimeouts
    PROVE  CallBudget(tool) \in Nat /\ Reach("solver", CallBudget(tool))
    <1> DEFINE h == ClampToHarness(tool)
    <1> DEFINE w == ClampToWatchdog(h)
    <1>1. h \in Nat /\ now + h <= MaxOf(harness.end, now)
        BY WatchdogAssumption, HarnessClamp
    <1>2. /\ w \in Nat /\ w <= h
          /\ deadline # 0 => now + w <= MaxOf(deadline, now)
        <2> HIDE DEF h
        <2> QED BY <1>1, WatchdogClamp
    <1>3. now \in Nat /\ harness.end \in Nat
        BY DEF IInv, TypeOK, Spans
    <1>4. now + w <= MaxOf(harness.end, now)
        <2> HIDE DEF h, w
        <2> QED BY <1>1, <1>2, <1>3 DEF MaxOf
    <1> QED BY <1>2, <1>4 DEF CallBudget, Reach

(* The child without a Deadline, under the process-wide clamp. *)
LEMMA CoverReach ==
    ASSUME IInv, NEW tool \in ToolTimeouts
    PROVE  CoverBudget(tool) \in Nat /\ Reach("cover", CoverBudget(tool))
    BY WatchdogAssumption, WatchdogClamp DEF CoverBudget, Reach

(* The in-process solve, with its guard and drain. *)
LEMMA SolveReach ==
    ASSUME IInv, NEW tool \in ToolTimeouts
    PROVE  SolveBudget(tool) \in Nat /\ Reach("thread", SolveBudget(tool))
    <1> DEFINE h == ClampToHarness(tool)
    <1>1. h \in Nat /\ now + h <= MaxOf(harness.end, now)
        BY WatchdogAssumption, HarnessClamp
    <1>2. now \in Nat /\ harness.end \in Nat /\ Overrun \in Nat
        BY WatchdogAssumption DEF IInv, TypeOK, Spans
    <1>3. h + Overrun \in Nat /\ now + (h + Overrun) <= MaxOf(harness.end, now) + Overrun
        <2> HIDE DEF h
        <2> QED BY <1>1, <1>2 DEF MaxOf
    <1> QED BY <1>3 DEF SolveBudget, Reach

(* A wait of any kind, begun within its reach. *)
LEMMA WaitStep ==
    ASSUME IInv, NEW kind \in {"solver", "cover", "thread"}, NEW d \in Nat,
           Wait(kind, d), Reach(kind, d)
    PROVE  IInv'
    <1> USE DEF atomics, mainVars, loopVars
    <1>1. call' = [start |-> now, end |-> now + d, on |-> TRUE, kind |-> kind]
        BY DEF Wait
    <1>2. now \in Nat /\ now + d \in Nat /\ now <= now + d
        BY DEF IInv, TypeOK
    <1>3. TypeOK'
        BY <1>1, <1>2 DEF IInv, TypeOK, Calls, Wait
    <1>4. CallInsideBudgets'
        BY <1>1 DEF CallInsideBudgets, Wait, Reach
    <1>5. SpanInv'
        BY <1>1, <1>2 DEF IInv, SpanInv, Wait
    <1>6. DeadlineAnchored' /\ StageInv' /\ HarnessInsideWatchdog'
        BY DEF IInv, DeadlineAnchored, StageInv, HarnessInsideWatchdog, Wait
    <1> QED BY <1>3, <1>4, <1>5, <1>6 DEF IInv

(* The steps that hand out budgets. *)
LEMMA RunSteps ==
    ASSUME IInv,
           StartHarness
              \/ (\E tool \in ToolTimeouts :
                     StartCall(tool) \/ StartCover(tool) \/ StartSolve(tool))
              \/ EndCall \/ EndHarness \/ MainExit
    PROVE  IInv'
    <1> USE DEF NoOp, atomics, mainVars, loopVars, runVars, Idle, NoCall, Spans, Calls
    <1>t. /\ now \in Nat /\ deadline \in Nat
          /\ harness.start \in Nat /\ harness.end \in Nat
        BY DEF IInv, TypeOK
    <1>1. CASE StartHarness
        <2> DEFINE full == BudgetFor(IF timeout = None THEN SolverTimeout ELSE timeout)
        <2>1. full \in Nat
            BY BudgetType, WatchdogAssumption DEF IInv, TypeOK
        <2>2. /\ HarnessBudget \in Nat
              /\ deadline # 0 => \/ HarnessBudget = 0
                                \/ now + HarnessBudget + Headroom <= deadline
            BY <1>t, <2>1, WatchdogAssumption
               DEF HarnessBudget, MinOf, SatSub, Remaining
        <2>3. harness' = [start |-> now, end |-> now + HarnessBudget, on |-> TRUE]
            BY <1>1 DEF StartHarness
        <2>4. TypeOK'
            BY <1>1, <1>t, <2>2, <2>3 DEF IInv, TypeOK, StartHarness
        <2>5. HarnessInsideWatchdog'
            BY <1>1, <1>t, <2>2, <2>3 DEF HarnessInsideWatchdog, StartHarness
        <2>6. ~call.on
            BY <1>1 DEF IInv, SpanInv, StartHarness
        <2>7. DeadlineAnchored' /\ StageInv' /\ SpanInv' /\ CallInsideBudgets'
            BY <1>1, <1>t, <2>3, <2>6 DEF IInv, DeadlineAnchored, StageInv, SpanInv,
                                    CallInsideBudgets, StartHarness
        <2> QED BY <2>4, <2>5, <2>7 DEF IInv
    <1>2. ASSUME NEW tool \in ToolTimeouts,
                 StartCall(tool) \/ StartCover(tool) \/ StartSolve(tool)
          PROVE  IInv'
        <2>1. PICK kind \in {"solver", "cover", "thread"}, d \in Nat :
                 Wait(kind, d) /\ Reach(kind, d)
            BY <1>2, CallReach, CoverReach, SolveReach DEF StartCall, StartCover, StartSolve
        <2> QED BY <2>1, WaitStep
    <1>3. CASE EndCall
        BY <1>3 DEF IInv, TypeOK, DeadlineAnchored, StageInv, SpanInv,
                    HarnessInsideWatchdog, CallInsideBudgets, EndCall
    <1>4. CASE EndHarness
        BY <1>4 DEF IInv, TypeOK, DeadlineAnchored, StageInv, SpanInv,
                    HarnessInsideWatchdog, CallInsideBudgets, EndHarness
    <1>5. CASE MainExit
        <2>1. TypeOK' /\ DeadlineAnchored' /\ StageInv'
            BY <1>5 DEF IInv, TypeOK, DeadlineAnchored, StageInv, MainExit
        <2>2. SpanInv' /\ HarnessInsideWatchdog' /\ CallInsideBudgets'
            BY <1>5 DEF IInv, SpanInv, HarnessInsideWatchdog, CallInsideBudgets,
                        MainExit
        <2> QED BY <2>1, <2>2 DEF IInv
    <1> QED BY <1>1, <1>2, <1>3, <1>4, <1>5

(* The steps of the watchdog thread and of the clock. *)
LEMMA LoopSteps ==
    ASSUME IInv, Loop \/ Tick
    PROVE  IInv'
    <1> USE DEF atomics, mainVars, loopVars, runVars
    <1>1. CASE LoopLoad
        BY <1>1 DEF IInv, TypeOK, DeadlineAnchored, StageInv, SpanInv,
                    HarnessInsideWatchdog, CallInsideBudgets, LoopLoad
    <1>2. CASE LoopTest
        <2>1. TypeOK' /\ DeadlineAnchored' /\ StageInv'
            BY <1>2 DEF IInv, TypeOK, DeadlineAnchored, StageInv, LoopTest
        <2>2. SpanInv' /\ HarnessInsideWatchdog' /\ CallInsideBudgets'
            BY <1>2 DEF IInv, SpanInv, HarnessInsideWatchdog, CallInsideBudgets,
                        LoopTest
        <2> QED BY <2>1, <2>2 DEF IInv
    <1>3. CASE Fire
        <2>1. TypeOK' /\ DeadlineAnchored' /\ StageInv'
            BY <1>3 DEF IInv, TypeOK, DeadlineAnchored, StageInv, Fire
        <2>2. SpanInv' /\ HarnessInsideWatchdog' /\ CallInsideBudgets'
            BY <1>3 DEF IInv, SpanInv, HarnessInsideWatchdog, CallInsideBudgets,
                        Fire
        <2> QED BY <2>1, <2>2 DEF IInv
    <1>4. CASE Tick
        <2>1. TypeOK' /\ DeadlineAnchored' /\ StageInv'
            BY <1>4 DEF IInv, TypeOK, DeadlineAnchored, StageInv, Tick
        <2>2. SpanInv'
            BY <1>4 DEF IInv, TypeOK, Spans, Calls, SpanInv, Tick
        <2>3. HarnessInsideWatchdog' /\ CallInsideBudgets'
            BY <1>4 DEF IInv, HarnessInsideWatchdog, CallInsideBudgets, Tick
        <2> QED BY <2>1, <2>2, <2>3 DEF IInv
    <1> QED BY <1>1, <1>2, <1>3, <1>4 DEF Loop
-----------------------------------------------------------------------------
(* The inductive invariant holds in every reachable state of the watchdog, the
   main thread and the clock. *)
THEOREM Inductive == Spec => []IInv
    <1>1. IInv /\ [Next]_vars => IInv'
        <2> SUFFICES ASSUME IInv, [Next]_vars PROVE IInv'
            OBVIOUS
        <2>1. CASE Main
            BY <2>1, ArmSteps, ExtendSteps, RunSteps DEF Main
        <2>2. CASE Loop \/ Tick
            BY <2>2, LoopSteps
        <2>3. CASE UNCHANGED vars
            BY <2>3 DEF vars, IInv, TypeOK, DeadlineAnchored, StageInv, SpanInv,
                        HarnessInsideWatchdog, CallInsideBudgets
        <2> QED BY <2>1, <2>2, <2>3 DEF Next, Done
    <1> QED BY InitInv, <1>1, PTL DEF Spec

(* Every variable keeps its type. *)
THEOREM TypeCorrect == Spec => []TypeOK
    BY Inductive, PTL DEF IInv

(* The deadline in force is anchored at its arm and worth exactly the credited
   harnesses, for every timeout, harness count and saturation bound. *)
THEOREM Anchored == Spec => []DeadlineAnchored
    BY Inductive, PTL DEF IInv

(* Deadline::for_harness: a harness's deadline ends before the watchdog's, by the
   headroom, or the harness gets no time at all. *)
THEOREM HarnessesNest == Spec => []HarnessInsideWatchdog
    BY Inductive, PTL DEF IInv

(* No child process is granted time past the watchdog's deadline, a solver path's
   none past its harness's, and an in-process solve at most the guard and the
   drain past that one, whatever timeout the call asked for. *)
THEOREM CallsNest == Spec => []CallInsideBudgets
    BY Inductive, PTL DEF IInv

(* What the watchdog can cut: no solver child that was granted time, a child
   without a Deadline only as its own timeout falls due, an in-process solve
   only when it began on a spent deadline or its overrun exceeds the headroom. *)
THEOREM HungCallsReport == Spec => []HungCallReportsItself
    <1>1. IInv => HungCallReportsItself
        <2> SUFFICES ASSUME IInv, wpc = "fire", call.on, seen = deadline, Headroom > 0
                     PROVE  /\ call.kind = "solver" => call.end = call.start
                            /\ call.kind = "cover" => now = call.end
                            /\ call.kind = "thread" =>
                                  call.start >= harness.end \/ Overrun >= Headroom
            BY DEF HungCallReportsItself
        <2>1. /\ now \in Nat /\ deadline \in Nat /\ Headroom \in Nat /\ Overrun \in Nat
              /\ harness.start \in Nat /\ harness.end \in Nat
              /\ call.start \in Nat /\ call.end \in Nat
            BY WatchdogAssumption DEF IInv, TypeOK, Spans, Calls
        <2>2. /\ now >= deadline /\ deadline # 0 /\ now <= call.end
              /\ call.start <= now
              /\ harness.on /\ harness.start <= call.start
              /\ call.start <= call.end
            BY DEF IInv, SpanInv
        <2>3. harness.end + Headroom <= deadline \/ harness.end = harness.start
            BY <2>2 DEF IInv, HarnessInsideWatchdog
        <2>4. CASE call.kind = "solver"
            <3>1. call.end <= MaxOf(harness.end, call.start)
                BY <2>4 DEF IInv, CallInsideBudgets
            <3> QED BY <2>1, <2>2, <2>3, <2>4, <3>1 DEF MaxOf
        <2>5. CASE call.kind = "cover"
            <3>1. call.end <= MaxOf(deadline, call.start)
                BY <2>2, <2>5 DEF IInv, CallInsideBudgets
            <3> QED BY <2>1, <2>2, <2>5, <3>1 DEF MaxOf
        <2>6. CASE call.kind = "thread"
            <3>1. call.end <= MaxOf(harness.end, call.start) + Overrun
                BY <2>6 DEF IInv, CallInsideBudgets
            <3> QED BY <2>1, <2>2, <2>3, <2>6, <3>1 DEF MaxOf
        <2> QED BY <2>4, <2>5, <2>6
    <1> QED BY Inductive, <1>1, PTL
-----------------------------------------------------------------------------
(* A step of the main thread that arms, disarms or only moves on keeps the
   account. *)
LEMMA RearmAccount ==
    ASSUME IInv, AccountInv, NEW t \in Nat \union {None}, NEW next,
           stage \in {"session", "auto"}, op = NoOp, Rearm(t, next),
           UNCHANGED counts
    PROVE  AccountInv'
    <1>1. /\ counts \in [scan : Nat, meta : Nat] /\ deadline \in Nat
          /\ armed.at \in Nat /\ armed.for \in Nat /\ credited = 0
        BY DEF IInv, TypeOK, AccountInv
    <1>2. 0 <= Extra(counts.scan)
        BY <1>1 DEF Extra, SatSub
    <1>3. credited' = 0 /\ counts' = counts
        BY DEF Rearm, ArmBudget, Disarm
    <1>4. deadline' = 0 \/ (deadline' = deadline /\ armed' = armed)
        BY DEF Rearm, ArmBudget, Disarm
    <1>5. deadline # 0 => deadline = MaxOf(Sat(armed.at + BudgetFor(armed.for)), 1)
        <2> SUFFICES ASSUME deadline # 0
                     PROVE  deadline = MaxOf(Sat(armed.at + BudgetFor(armed.for)), 1)
            OBVIOUS
        <2>1. deadline = MaxOf(Sat(armed.at + BudgetFor(armed.for) + armed.for * credited), 1)
            BY DEF IInv, DeadlineAnchored, NoOp
        <2>2. armed.for * credited = 0 /\ BudgetFor(armed.for) \in Nat
            BY <1>1, BudgetType
        <2> QED BY <1>1, <2>1, <2>2
    <1> QED BY <1>2, <1>3, <1>4, <1>5 DEF AccountInv

(* Every step keeps the account. *)
LEMMA AccountStep ==
    ASSUME IInv, AccountInv, [Next]_vars
    PROVE  AccountInv'
    <1> USE DEF atomics, mainVars, loopVars, runVars
    <1>t. /\ counts \in [scan : Nat, meta : Nat] /\ deadline \in Nat
          /\ timeout \in Nat \union {None} /\ credited \in Nat
        BY DEF IInv, TypeOK
    <1>1. ASSUME NEW t \in Timeouts \union {None}, InstallFromArgv(t)
          PROVE  AccountInv'
        <2>1. deadline = 0 /\ deadline' = 0 /\ counts' = counts /\ credited = 0
              /\ credited' = 0
            BY <1>1 DEF InstallFromArgv, ArmBudget, IInv, StageInv, AccountInv
        <2>2. 0 <= Extra(counts.scan)
            BY <1>t DEF Extra, SatSub
        <2> QED BY <2>1, <2>2 DEF AccountInv
    <1>2. CASE ArmDeadline
        BY <1>2 DEF ArmDeadline, AccountInv, NoOp
    <1>3. CASE SessionRearm
        BY <1>3, <1>t, RearmAccount DEF SessionRearm
    <1>4. CASE AutoharnessRearm
        <2>1. timeout' \in Nat \union {None}
            BY <1>4, <1>t, WatchdogAssumption DEF AutoharnessRearm
        <2> QED BY <1>4, <2>1, RearmAccount DEF AutoharnessRearm
    <1>5. CASE ExtendFromScan \/ ExtendFromMetadata
        <2>1. PICK n \in {counts.scan, counts.meta}, next \in {"meta", "verify"} :
                 ExtendFor(n, next)
            BY <1>5 DEF ExtendFromScan, ExtendFromMetadata
        <2>2. /\ counts' = counts /\ op'.do # "arm"
              /\ stage' \in {"meta", "verify"}
              /\ credited' = credited \/ credited' = Extra(n)
            BY <2>1 DEF ExtendFor, NoOp
        <2>3. Extra(n) \in Nat
            BY <1>t DEF Extra, SatSub
        <2> QED BY <2>1, <2>2, <2>3 DEF AccountInv
    <1>6. CASE ExtendBudget
        BY <1>6 DEF ExtendBudget, AccountInv, NoOp
    <1>7. CASE StartHarness \/ EndCall \/ EndHarness \/ Tick \/ LoopLoad \/ LoopTest
        BY <1>7 DEF StartHarness, EndCall, EndHarness, Tick, LoopLoad, LoopTest, AccountInv
    <1>8. ASSUME NEW tool \in ToolTimeouts,
                 StartCall(tool) \/ StartCover(tool) \/ StartSolve(tool)
          PROVE  AccountInv'
        BY <1>8 DEF StartCall, StartCover, StartSolve, Wait, AccountInv
    <1>9. CASE MainExit \/ Fire
        BY <1>9 DEF MainExit, Fire, AccountInv
    <1>10. CASE UNCHANGED vars
        BY <1>10 DEF vars, AccountInv
    <1> QED BY <1>1, <1>2, <1>3, <1>4, <1>5, <1>6, <1>7, <1>8, <1>9, <1>10
            DEF Next, Main, Loop, Done

(* The account holds in every reachable state. *)
THEOREM Accounted == Spec => []AccountInv
    <1>1. Init => AccountInv
        <2> SUFFICES ASSUME Init PROVE AccountInv
            OBVIOUS
        <2>1. counts.scan \in Nat /\ credited = 0 /\ deadline = 0
            BY WatchdogAssumption DEF Init
        <2> QED BY <2>1 DEF AccountInv, Extra, SatSub
    <1> QED BY <1>1, Inductive, AccountStep, PTL DEF Spec

(* A larger factor makes a larger product. *)
LEMMA Monotone ==
    ASSUME NEW t \in Nat, NEW a \in Nat, NEW b \in Nat, a <= b
    PROVE  t * a \in Nat /\ t * b \in Nat /\ t * a <= t * b
    <1>1. t * b = t * a + t * (b - a) /\ t * (b - a) \in Nat /\ t * a \in Nat
        OBVIOUS
    <1> QED BY <1>1

(* The driver's own deadline lies before the outer runner's kill whenever the
   scan saw every harness and arming was not late, for every timeout and count. *)
THEOREM BeforeOuterKill == Spec => []FiresBeforeOuterKill
    <1>1. IInv /\ AccountInv => FiresBeforeOuterKill
        <2> SUFFICES ASSUME IInv, AccountInv, deadline # 0, op = NoOp,
                            stage \in {"scan", "meta", "verify"},
                            counts.meta <= MaxOf(counts.scan, 1),
                            armed.at + Grace <= OuterGrace
                     PROVE  deadline <= OuterKill
            BY DEF FiresBeforeOuterKill
        <2> DEFINE most == Extra(MaxOf(counts.scan, 1))
        <2>1. /\ counts.scan \in Nat /\ counts.meta \in Nat /\ deadline \in Nat
              /\ armed.at \in Nat /\ armed.for \in Nat /\ credited \in Nat
              /\ Grace \in Nat /\ OuterGrace \in Nat /\ Mult \in Nat \ {0}
              /\ MaxMs \in Nat
            BY WatchdogAssumption DEF IInv, TypeOK
        <2>2. armed.for = timeout /\ timeout \in Nat \ {0}
            BY <2>1 DEF IInv, StageInv, NoOp
        <2>3. most \in Nat /\ credited <= most
            BY <2>1 DEF AccountInv, Extra, SatSub, MaxOf
        <2>4. /\ timeout * credited \in Nat /\ timeout * most \in Nat
              /\ timeout * credited <= timeout * most
            BY <2>1, <2>2, <2>3, Monotone
        <2>5. timeout * Mult \in Nat /\ timeout * Mult >= 1
            BY <2>1, <2>2
        <2>6. deadline = MaxOf(Sat(armed.at + (timeout * Mult + Grace)
                                   + timeout * credited), 1)
            BY <2>2 DEF IInv, DeadlineAnchored, NoOp, BudgetFor
        <2>7. OuterKill = timeout * Mult + OuterGrace + timeout * most
            BY DEF OuterKill
        <2> HIDE DEF most
        <2> DEFINE ladder == timeout * Mult
        <2> DEFINE extras == timeout * credited
        <2> DEFINE owed == timeout * most
        <2>8. /\ ladder \in Nat /\ ladder >= 1 /\ extras \in Nat /\ owed \in Nat
              /\ extras <= owed
            BY <2>4, <2>5
        <2>9. deadline = MaxOf(Sat(armed.at + (ladder + Grace) + extras), 1)
            BY <2>6
        <2>10. OuterKill = ladder + OuterGrace + owed
            BY <2>7
        <2> HIDE DEF ladder, extras, owed
        <2> QED BY <2>1, <2>8, <2>9, <2>10 DEF MaxOf, Sat, MinOf
    <1> QED BY Inductive, Accounted, <1>1, PTL

(* While one arm is in force no step of any thread shortens the deadline: a
   re-arm for the same timeout at the same instant replaces it by itself. *)
THEOREM NeverShrinks == Spec => DeadlineNeverShrinks
    <1>1. IInv /\ AccountInv /\ IInv' /\ [Next]_vars =>
             [deadline' < deadline => armed' # armed \/ deadline' = 0]_vars
        <2> SUFFICES ASSUME IInv, AccountInv, IInv', Next, deadline' < deadline,
                            deadline' # 0
                     PROVE  armed' # armed
            OBVIOUS
        <2> USE DEF atomics, mainVars, loopVars, runVars
        <2>t. /\ counts \in [scan : Nat, meta : Nat] /\ deadline \in Nat
              /\ deadline <= MaxMs /\ MaxMs \in Nat /\ deadline' \in Nat
              /\ credited \in Nat
            BY WatchdogAssumption DEF IInv, TypeOK
        <2>1. CASE ArmDeadline
            <3> SUFFICES ASSUME armed' = armed PROVE FALSE
                OBVIOUS
            <3>1. armed.at = now /\ armed.for = op.t
                BY <2>1 DEF ArmDeadline
            <3>2. deadline' = MaxOf(Sat(now + BudgetFor(op.t)), 1) /\ op.do = "arm"
                BY <2>1 DEF ArmDeadline
            <3>3. deadline # 0
                BY <2>t
            <3>4. deadline = MaxOf(Sat(armed.at + BudgetFor(armed.for)), 1)
                BY <3>2, <3>3 DEF AccountInv
            <3>5. deadline' = deadline
                BY <3>1, <3>2, <3>4
            <3> QED BY <3>5, <2>t
        <2>2. CASE ExtendFromScan \/ ExtendFromMetadata
            <3>1. PICK n \in Nat, next \in {"meta", "verify"} : ExtendFor(n, next)
                BY <2>2, <2>t DEF ExtendFromScan, ExtendFromMetadata
            <3>2. CASE deadline' = deadline
                BY <3>2, <2>t
            <3>3. CASE /\ IsTimeout(timeout) /\ Extra(n) > credited
                       /\ deadline' = MaxOf(Sat(deadline
                                              + Sat(timeout * (Extra(n) - credited))), 1)
                <4>1. timeout \in Nat /\ Extra(n) \in Nat /\ Extra(n) - credited \in Nat
                    BY <3>3, <2>t DEF IInv, TypeOK, IsTimeout, Extra, SatSub
                <4> DEFINE ms == timeout * (Extra(n) - credited)
                <4>2. ms \in Nat
                    BY <4>1
                <4>3. deadline' = MaxOf(Sat(deadline + Sat(ms)), 1)
                    BY <3>3
                <4> HIDE DEF ms
                <4>4. deadline' >= deadline
                    BY <4>2, <4>3, <2>t DEF MaxOf, Sat, MinOf
                <4> QED BY <4>4, <2>t
            <3> QED BY <3>1, <3>2, <3>3 DEF ExtendFor
        <2>3. ASSUME NEW t, NEW next, Rearm(t, next)
              PROVE  FALSE
            BY <2>3, <2>t DEF Rearm, ArmBudget, Disarm
        <2>4. CASE \E t \in Timeouts \union {None} : InstallFromArgv(t)
            BY <2>4, <2>t DEF InstallFromArgv, ArmBudget
        <2>5. CASE SessionRearm \/ AutoharnessRearm
            BY <2>5, <2>3 DEF SessionRearm, AutoharnessRearm
        <2>6. CASE \/ ExtendBudget \/ StartHarness \/ EndCall \/ EndHarness \/ MainExit
                   \/ Tick \/ Loop \/ Done
                   \/ \E tool \in ToolTimeouts :
                         StartCall(tool) \/ StartCover(tool) \/ StartSolve(tool)
            BY <2>6, <2>t DEF ExtendBudget, StartHarness, StartCall, StartCover,
                    StartSolve, Wait, EndCall, EndHarness, MainExit, Tick, Loop, LoopLoad, LoopTest, Fire, Done, vars
        <2> QED BY <2>1, <2>2, <2>4, <2>5, <2>6 DEF Next, Main
    <1> QED BY Inductive, Accounted, <1>1, PTL DEF Spec, DeadlineNeverShrinks
=============================================================================
