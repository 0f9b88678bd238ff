------------------------------ MODULE Watchdog ------------------------------
(***************************************************************************)
(* The driver's wall-clock watchdog (trust-mc-driver/src/                  *)
(* wall_clock_watchdog.rs), the per-harness deadline derived from it       *)
(* (deadline.rs) and the subprocess clamp (session/process.rs).            *)
(*                                                                         *)
(* Two threads share three atomics.  The main thread arms, re-arms,        *)
(* disarms and extends as the command line, the session, autoharness, the  *)
(* source scan and the compiler metadata become known, and then hands out  *)
(* harness deadlines and solver budgets.  The watchdog thread polls the    *)
(* deadline and, once it has passed, prints the UNKNOWN markers and exits  *)
(* the process.  One step of the model is one atomic access the other      *)
(* thread can observe; accesses to EXTRA_HARNESSES_CREDITED, which only    *)
(* the main thread uses, are taken with the next observable store.         *)
(*                                                                         *)
(* Time is a counter of abstract ticks.                                    *)
(***************************************************************************)
EXTENDS Integers

CONSTANTS
    Timeouts,       \* values --harness-timeout can have; 0 disarms
    None,           \* no --harness-timeout given
    AutoTimeout,    \* AUTOHARNESS_TIMEOUT
    SolverTimeout,  \* DEFAULT_SOLVER_TIMEOUT_SECS
    ToolTimeouts,   \* the timeouts solver and tool calls ask for
    Mult,           \* TRUST_MC_DRIVER_WATCHDOG_MULT
    Grace,          \* TRUST_MC_DRIVER_WATCHDOG_GRACE_S
    Headroom,       \* WATCHDOG_HEADROOM
    Overrun,        \* guard and drain of an in-process solve past its grant
    OuterGrace,     \* grace of the outer runner's own kill (kani-domination)
    MaxHarnesses,   \* bound: harnesses per file
    MaxTime,        \* bound: the clock stops here
    MaxArm,         \* bound: the latest instant the watchdog is armed
    MaxMs           \* u64::MAX, where the deadline saturates

ASSUME WatchdogAssumption ==
    /\ Timeouts \subseteq Nat
    /\ None \notin Nat
    /\ AutoTimeout \in Nat \ {0}
    /\ SolverTimeout \in Nat \ {0}
    /\ ToolTimeouts \subseteq Nat
    /\ Mult \in Nat \ {0}
    /\ Grace \in Nat
    /\ Headroom \in Nat
    /\ Overrun \in Nat
    /\ OuterGrace \in Nat
    /\ MaxHarnesses \in Nat
    /\ MaxMs \in Nat \ {0}
    /\ MaxTime \in 0..MaxMs
    /\ MaxArm \in Nat

VARIABLES
    now,        \* anchor_elapsed_ms()
    deadline,   \* DEADLINE_MS, 0 when unarmed
    budget,     \* BUDGET_SECS, what the fire message quotes
    credited,   \* EXTRA_HARNESSES_CREDITED
    stage,      \* where the main thread is in the run
    op,         \* the watchdog operation the main thread is inside of
    timeout,    \* session.args.harness_timeout
    counts,     \* harnesses in the source scan and in the metadata
    armed,      \* history: when and for which timeout the watchdog was armed
    harness,    \* the running harness: start and end of its Deadline
    call,       \* the wait the main thread is in: its kind, start and latest end
    wpc,        \* the watchdog thread
    seen        \* the deadline it loaded last

mainVars == <<stage, op, timeout, counts>>
atomics  == <<deadline, budget, credited>>
runVars  == <<harness, call>>
loopVars == <<wpc, seen>>
vars == <<now, deadline, budget, credited, stage, op, timeout, counts, armed,
          harness, call, wpc, seen>>

NotArmed == [at |-> 0, for |-> 0]
NoOp     == [do |-> "none", t |-> 0]
Idle     == [start |-> 0, end |-> 0, on |-> FALSE]
NoCall   == [start |-> 0, end |-> 0, on |-> FALSE, kind |-> "none"]

MinOf(a, b) == IF a <= b THEN a ELSE b
MaxOf(a, b) == IF a >= b THEN a ELSE b
SatSub(a, b) == IF a >= b THEN a - b ELSE 0
(* Mutant: plain addition. *)
SatMutant(x) == x
Sat(x)       == MinOf(x, MaxMs)

(* Mutant: one retry too many. *)
BudgetForMutant(t) == t * (Mult + 1) + Grace
(* budget_for: the retry ladder takes Mult times the per-harness timeout. *)
BudgetFor(t) == t * Mult + Grace

(* extra harnesses of a file with n of them *)
Extra(n) == SatSub(n, 1)

(* remaining(), meaningful when the watchdog is armed *)
Remaining == SatSub(deadline, now)

(* The instant the outer runner kills the driver it spawned at time 0.  It
   counts harnesses with the same source scan as the driver. *)
OuterKill == timeout * Mult + OuterGrace + timeout * Extra(MaxOf(counts.scan, 1))

Alive == wpc # "exited"

Init ==
    /\ now = 0
    /\ deadline = 0
    /\ budget = 0
    /\ credited = 0
    /\ stage = "argv"
    /\ op = NoOp
    /\ timeout \in Timeouts \union {None}
    /\ counts \in [scan : 0..MaxHarnesses, meta : 0..MaxHarnesses]
    /\ armed = NotArmed
    /\ harness = Idle
    /\ call = NoCall
    /\ wpc = "off"
    /\ seen = 0

-----------------------------------------------------------------------------
(* Main thread: arming *)

IsTimeout(t) == t # None /\ t # 0

(* The first store of arm(): credits and the budget the message quotes. *)
ArmBudget(t, next) ==
    /\ credited' = 0
    /\ budget' = BudgetFor(t)
    /\ op' = [do |-> "arm", t |-> t]
    /\ stage' = next
    /\ UNCHANGED <<deadline, armed>>

(* disarm() *)
Disarm(next) ==
    /\ credited' = 0
    /\ deadline' = 0
    /\ armed' = NotArmed
    /\ stage' = next
    /\ UNCHANGED <<budget, op>>

(* rearm(): a positive timeout arms, everything else disarms. *)
Rearm(t, next) ==
    IF IsTimeout(t) THEN ArmBudget(t, next) ELSE Disarm(next)

(* install_from_argv(): only a positive timeout that stands in argv arms; the
   final value may differ from argv's, since Cargo.toml is merged later. *)
InstallFromArgv(t) ==
    /\ Alive /\ stage = "argv" /\ op = NoOp
    /\ \/ IsTimeout(t) /\ ArmBudget(t, "session")
       \/ ~IsTimeout(t) /\ stage' = "session" /\ UNCHANGED <<atomics, op, armed>>
    /\ UNCHANGED <<now, timeout, counts, runVars, loopVars>>

(* The rest of arm(): publish the deadline and make sure the thread runs. *)
ArmDeadline ==
    /\ Alive /\ op.do = "arm" /\ now <= MaxArm
    /\ deadline' = MaxOf(Sat(now + BudgetFor(op.t)), 1)
    /\ armed' = [at |-> now, for |-> op.t]
    /\ op' = NoOp
    /\ wpc' = IF wpc = "off" THEN "load" ELSE wpc
    /\ UNCHANGED <<now, budget, credited, stage, timeout, counts, runVars, seen>>

(* KaniSession::new_inner re-arms with the final timeout. *)
SessionRearm ==
    /\ Alive /\ stage = "session" /\ op = NoOp
    /\ \E next \in {"auto", "scan", "meta"} : Rearm(timeout, next)
    /\ UNCHANGED <<now, timeout, counts, runVars, loopVars>>

(* add_default_bounds: autoharness supplies a timeout and re-arms. *)
AutoharnessRearm ==
    /\ Alive /\ stage = "auto" /\ op = NoOp
    /\ timeout' = IF timeout = None THEN AutoTimeout ELSE timeout
    /\ \E next \in {"scan", "meta"} : Rearm(timeout', next)
    /\ UNCHANGED <<now, counts, runVars, loopVars>>

-----------------------------------------------------------------------------
(* Main thread: extending *)

(* Mutant: every call credits all extra harnesses again. *)
ExtendForMutant(n, next) ==
    LET ms == Sat(timeout * Extra(n)) IN
    /\ Alive /\ op = NoOp
    /\ stage' = next
    /\ IF IsTimeout(timeout) /\ Extra(n) > 0 /\ deadline # 0
       THEN /\ credited' = MaxOf(Extra(n), credited)
            /\ deadline' = MaxOf(Sat(deadline + ms), 1)
            /\ op' = [do |-> "extend", t |-> ms]
       ELSE UNCHANGED <<credited, deadline, op>>
    /\ UNCHANGED <<now, budget, timeout, counts, armed, runVars, loopVars>>

(* Mutant: the extension restarts the clock instead of extending in place. *)
ExtendForRestarts(n, next) ==
    LET ms == Sat(timeout * (Extra(n) - credited)) IN
    /\ Alive /\ op = NoOp
    /\ stage' = next
    /\ IF /\ IsTimeout(timeout) /\ Extra(n) > 0 /\ deadline # 0
          /\ Extra(n) > credited
       THEN /\ credited' = Extra(n)
            /\ deadline' = MaxOf(Sat(now + ms), 1)
            /\ op' = [do |-> "extend", t |-> ms]
       ELSE UNCHANGED <<credited, deadline, op>>
    /\ UNCHANGED <<now, budget, timeout, counts, armed, runVars, loopVars>>

(* extend_for_extra_harnesses: the load, the fetch_max and the deadline store.
   Only the harnesses beyond those already credited extend the deadline. *)
ExtendFor(n, next) ==
    LET ms == Sat(timeout * (Extra(n) - credited)) IN
    /\ Alive /\ op = NoOp
    /\ stage' = next
    /\ IF /\ IsTimeout(timeout) /\ Extra(n) > 0 /\ deadline # 0
          /\ Extra(n) > credited
       THEN /\ credited' = Extra(n)
            /\ deadline' = MaxOf(Sat(deadline + ms), 1)
            /\ op' = [do |-> "extend", t |-> ms]
       ELSE UNCHANGED <<credited, deadline, op>>
    /\ UNCHANGED <<now, budget, timeout, counts, armed, runVars, loopVars>>

(* ... and the budget store that follows it. *)
ExtendBudget ==
    /\ Alive /\ op.do = "extend"
    /\ budget' = budget + op.t
    /\ op' = NoOp
    /\ UNCHANGED <<now, deadline, credited, stage, timeout, counts, armed,
                   runVars, loopVars>>

(* Standalone projects, before codegen, from the source scan ... *)
ExtendFromScan == stage = "scan" /\ ExtendFor(counts.scan, "meta")
(* ... and every project, after codegen, from the compiler's metadata. *)
ExtendFromMetadata == stage = "meta" /\ ExtendFor(counts.meta, "verify")

-----------------------------------------------------------------------------
(* Main thread: budgets handed to harnesses and to calls *)

(* Mutant: no headroom before the watchdog. *)
HarnessBudgetMutant ==
    LET full == BudgetFor(IF timeout = None THEN SolverTimeout ELSE timeout) IN
    IF deadline = 0 THEN full ELSE MinOf(full, Remaining)

(* Mutant: the harness deadline ignores the watchdog. *)
HarnessBudgetUnclamped ==
    BudgetFor(IF timeout = None THEN SolverTimeout ELSE timeout)

(* Deadline::for_harness *)
HarnessBudget ==
    LET full == BudgetFor(IF timeout = None THEN SolverTimeout ELSE timeout) IN
    IF deadline = 0 THEN full
    ELSE MinOf(full, SatSub(Remaining, Headroom))

StartHarness ==
    /\ Alive /\ stage = "verify" /\ op = NoOp /\ ~harness.on
    /\ harness' = [start |-> now, end |-> now + HarnessBudget, on |-> TRUE]
    /\ UNCHANGED <<now, atomics, mainVars, armed, call, loopVars>>

(* Deadline::clamp *)
ClampToHarness(t) == MinOf(t, SatSub(harness.end, now))

(* clamp_to_watchdog_deadline, which every timed child process goes through *)
ClampToWatchdog(t) == IF deadline = 0 THEN t ELSE MinOf(t, Remaining)

(* Mutant: the process-wide clamp only, as before deadline.rs existed. *)
CallBudgetMutant(tool) == ClampToWatchdog(tool)

(* A child process of a solver path: both clamps. *)
CallBudget(tool) == ClampToWatchdog(ClampToHarness(tool))

(* The children that carry no Deadline, the CHC cover query and the lanes of the
   two-lane retry: the process-wide clamp only, without headroom. *)
CoverBudget(tool) == ClampToWatchdog(tool)

(* An in-process CHC solve: the grant stays inside the harness's deadline, but
   the caller waits for the guard and the drain on top of it, and no clamp of a
   child process applies. *)
SolveBudget(tool) == ClampToHarness(tool) + Overrun

(* The main thread begins to wait, for d at most. *)
Wait(kind, d) ==
    /\ Alive /\ harness.on /\ ~call.on
    /\ call' = [start |-> now, end |-> now + d, on |-> TRUE, kind |-> kind]
    /\ UNCHANGED <<now, atomics, mainVars, armed, harness, loopVars>>

StartCall(tool)  == Wait("solver", CallBudget(tool))
StartCover(tool) == Wait("cover", CoverBudget(tool))
StartSolve(tool) == Wait("thread", SolveBudget(tool))

(* A call returns with its answer or, at the latest, with its timeout. *)
EndCall ==
    /\ Alive /\ call.on
    /\ call' = NoCall
    /\ UNCHANGED <<now, atomics, mainVars, armed, harness, loopVars>>

(* Between two calls the harness's thread computes, parses or validates in
   process, for as long as it takes. *)
EndHarness ==
    /\ Alive /\ harness.on /\ ~call.on
    /\ harness' = Idle
    /\ UNCHANGED <<now, atomics, mainVars, armed, call, loopVars>>

(* The run is over: main returns and the process is gone. *)
MainExit ==
    /\ Alive /\ stage = "verify" /\ op = NoOp /\ ~harness.on
    /\ stage' = "done"
    /\ wpc' = "exited"
    /\ UNCHANGED <<now, atomics, op, timeout, counts, armed, runVars, seen>>

-----------------------------------------------------------------------------
(* Watchdog thread: watchdog_loop and fire *)

(* Mutant: the thread ends when it finds the watchdog disarmed. *)
LoopLoadMutant ==
    /\ wpc = "load"
    /\ seen' = deadline
    /\ wpc' = IF deadline = 0 THEN "ended" ELSE "test"
    /\ UNCHANGED <<now, atomics, mainVars, armed, runVars>>

LoopLoad ==
    /\ wpc = "load"
    /\ seen' = deadline
    /\ wpc' = IF deadline = 0 THEN "load" ELSE "test"
    /\ UNCHANGED <<now, atomics, mainVars, armed, runVars>>

LoopTest ==
    /\ wpc = "test"
    /\ wpc' = IF now >= seen THEN "fire" ELSE "load"
    /\ UNCHANGED <<now, atomics, mainVars, armed, runVars, seen>>

(* fire(): markers, cleanup, _exit(1).  The process is gone. *)
Fire ==
    /\ wpc = "fire"
    /\ wpc' = "exited"
    /\ stage' = "killed"
    /\ UNCHANGED <<now, atomics, op, timeout, counts, armed, runVars, seen>>

(* Time passes, but never past the end of a running call: its timeout is
   served by recv_timeout in a thread that is waiting for nothing else. *)
Tick ==
    /\ Alive /\ now < MaxTime
    /\ call.on => now < call.end
    /\ now' = now + 1
    /\ UNCHANGED <<atomics, mainVars, armed, runVars, loopVars>>

Main ==
    \/ \E t \in Timeouts \union {None} : InstallFromArgv(t)
    \/ ArmDeadline
    \/ SessionRearm
    \/ AutoharnessRearm
    \/ ExtendFromScan
    \/ ExtendFromMetadata
    \/ ExtendBudget
    \/ StartHarness
    \/ \E tool \in ToolTimeouts :
          StartCall(tool) \/ StartCover(tool) \/ StartSolve(tool)
    \/ EndCall
    \/ EndHarness
    \/ MainExit

Loop == LoopLoad \/ LoopTest \/ Fire

(* The process is gone, or the bounded clock has run out. *)
Done == (~Alive \/ now = MaxTime) /\ UNCHANGED vars

Next == Main \/ Loop \/ Tick \/ Done

(* Time diverges, whatever the threads do meanwhile (strong, because a call at
   its end holds the clock until it returns), the watchdog thread is scheduled
   and a call ends.  The main thread owes nothing: it is what may hang. *)
Fairness == SF_vars(Tick) /\ WF_vars(Loop) /\ WF_vars(EndCall)

Spec == Init /\ [][Next]_vars /\ Fairness

-----------------------------------------------------------------------------
(* Properties *)

Spans == [start : Nat, end : Nat, on : BOOLEAN]
Calls == [start : Nat, end : Nat, on : BOOLEAN,
          kind : {"none", "solver", "cover", "thread"}]

(* Every variable has its type, and the deadline never wraps. *)
TypeOK ==
    /\ now \in Nat /\ deadline \in 0..MaxMs /\ budget \in Nat /\ credited \in Nat
    /\ stage \in {"argv", "session", "auto", "scan", "meta", "verify", "done",
                  "killed"}
    /\ op \in [do : {"none", "arm", "extend"}, t : Nat]
    /\ timeout \in Nat \union {None}
    /\ counts \in [scan : Nat, meta : Nat]
    /\ armed \in [at : Nat, for : Nat]
    /\ harness \in Spans /\ call \in Calls
    /\ wpc \in {"off", "load", "test", "fire", "exited"}
    /\ seen \in Nat

(* The deadline in force is anchored at the instant of the last arm and worth
   one retry-ladder budget plus one raw timeout per credited extra harness,
   however often extend_for_extra_harnesses ran and in whatever order the scan
   and the metadata disagreed: extending is idempotent and never restarts the
   clock. *)
DeadlineAnchored ==
    deadline # 0 /\ op.do # "arm" =>
        deadline = MaxOf(Sat(armed.at + BudgetFor(armed.for)
                             + armed.for * credited), 1)

(* A harness deadline lies Headroom before the watchdog's, so a harness that
   runs out of time still reports through the result pipeline; a harness that
   starts when less than Headroom is left gets no budget at all. *)
HarnessInsideWatchdog ==
    harness.on /\ deadline # 0 =>
        harness.end + Headroom <= deadline \/ harness.end = harness.start

(* How far each kind of call may reach, whatever timeout it asked for: no child
   process is granted time past the watchdog's planned fire time; a solver path's
   child none past its harness's deadline either; and an in-process solve holds
   its harness at most the guard and the drain past that deadline. *)
CallInsideBudgets ==
    call.on =>
        /\ harness.on
        /\ call.kind = "solver" => call.end <= MaxOf(harness.end, call.start)
        /\ call.kind # "thread" /\ deadline # 0 =>
              call.end <= MaxOf(deadline, call.start)
        /\ call.kind = "thread" =>
              call.end <= MaxOf(harness.end, call.start) + Overrun

(* What the watchdog can cut when it fires on the deadline in force.  A child
   that carries its harness's Deadline: only one that was granted no time at
   all, so a hung solver surfaces as its own timeout.  The CHC cover query and
   the retry lanes, which reach up to the watchdog itself: only at the instant
   their own timeout is due.  An in-process solve: only one that began when its
   harness's deadline had passed, as the portfolio after an overrun BMC lane
   does, as long as guard and drain are shorter than the headroom. *)
HungCallReportsItself ==
    wpc = "fire" /\ call.on /\ seen = deadline /\ Headroom > 0 =>
        /\ call.kind = "solver" => call.end = call.start
        /\ call.kind = "cover" => now = call.end
        /\ call.kind = "thread" => call.start >= harness.end \/ Overrun >= Headroom

(* The driver gives up before the outer runner kills it, provided the scan saw
   every harness and arming was not delayed beyond the difference of the two
   grace periods. *)
FiresBeforeOuterKill ==
    /\ deadline # 0 /\ op = NoOp /\ stage \in {"scan", "meta", "verify"}
    /\ counts.meta <= MaxOf(counts.scan, 1)
    /\ armed.at + Grace <= OuterGrace
    => deadline <= OuterKill

(* Extending never shrinks the deadline, and only arming or disarming moves it
   otherwise: while one arm is in force the deadline only grows. *)
DeadlineNeverShrinks ==
    [][deadline' < deadline => armed' # armed \/ deadline' = 0]_vars

(* A driver that hangs while the watchdog is armed is ended by it, wherever the
   main thread is stuck, unless it disarms. *)
HangEnds == deadline # 0 ~> (~Alive \/ deadline = 0)
=============================================================================
