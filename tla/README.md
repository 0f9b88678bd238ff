# A TLA+ model of trust-mc's driver

trust-mc verifies Rust code: a *front door* (`src/src/`) starts an *engine*
(`src/trust-mc-driver/`), which has the crate compiled to solver queries, runs
solvers on them in child processes, and turns their answers into a verdict per
harness and an exit code for the run.  What makes a verifier's driver hard is
not the queries but what surrounds them: several clocks and timeouts that must
nest, children that must not outlive their parent, gates that rewrite a verdict
one after another, a pool of threads whose first failure stops the others.
That is what these modules model.  Paths below are relative to the repository
(`D/` stands for `trust-mc-driver/src/`).

## 1. Inventory

| component | state | operations | interacts with | what must hold |
|---|---|---|---|---|
| wall-clock watchdog `D/wall_clock_watchdog.rs` | three atomics (deadline, budget, credited harnesses), one thread | install, arm, rearm, disarm, extend, poll, fire | session, autoharness, project scan, tracker (fire cleans up), outer runner | the deadline is what the last arm and the extensions say; a hang ends; the outer runner is not first |
| deadlines `D/deadline.rs`, clamps `D/session/process.rs` | one deadline per harness | for_harness, clamp | watchdog, every solver call | harness within watchdog; each call within the budgets that apply to it |
| child-process table `D/subprocess_tracker.rs` | a slot array of atomic PIDs, two flags | register, unregister, cleanup_all, handlers, parent-death thread | all workers, signals, watchdog | the table is exactly the children in flight; a cleanup misses none |
| waiting for children `D/session/process.rs`, `D/call_cargo/output.rs` | child, waiter thread, channel | untimed, timed and piped runs | tracker | a timeout returns the worker; no zombie, no abandoned child |
| front door process control `src/frontend/{engine,cancel}.rs` | engine PID, front-door state | spawn, watch, forward, forget | engine by signals and exit | a cancelled run leaves nothing running |
| attribution `D/demotion.rs`, `D/ctrex_classify.rs` | none (pure) | name matching, fail-closed resolution, counterexample categories | verdict pipeline | no recorded taint is charged to nobody |
| verdict pipeline `D/harness_runner.rs` (check_harness), `D/verification_result.rs` | one VerificationResult | solver answer, eight gates, recertification | attribution, lanes | a reported proof is one; gates only fail closed |
| two-lane retry `D/loop_two_lane.rs` | two child drivers, a time budget | start, end, deepen, merge | verdict pipeline, output text of a child driver | an upgrade needs both proofs |
| run and exit code `D/main.rs`, `D/harness_runner.rs` (check_all_harnesses), `D/metadata.rs`, `D/result_summary.rs` | pool, collector, results | select, start, check, collect, artifacts, summary | rayon, verdict pipeline | exit code 0 means what the docs say |
| bounded solving `D/call_ay.rs`, `D/ay_parse/violation.rs` | check table, probe round and its budget | main query, re-query, reachability, vacuity, cover and coverage probes | deadlines, `ay` subprocesses, verdict pipeline | every row of a report is true; the deadline holds; undecided stays undecided |
| CHC ladder `D/call_ay/chc/*` | two solver threads, their channels and guards, a candidate verdict | shortcuts, witness search, acyclic lane, portfolio, cross-check, validation, external fallback | deadlines, native engines, verdict pipeline | a refuted candidate is never a proof; the call returns whoever stays silent |
| core vocabulary `trust-mc-core` | none (pure) | admission policy | backends | not modelled, see section 8 |
| compiler, codegen crates, kani library, tools | terms, MIR | translation | driver through metadata files | not modelled, see section 8 |

The hard behaviours: two threads on the watchdog's atomics; workers, waiter
threads, signal handlers and two background threads on the PID table; the
operating system reusing PIDs; signals that arrive twice; a parent that dies at
any moment; two lane processes ending in either order; a rayon pool cut off by
`--fail-fast`; solver threads that answer just before, during or after the guard
that gives up on them; probes that share a budget and may run out of it.  `PROJECT.json` lists each under *hazards*, at its line.

## 2. Modules

| module | models | proofs |
|---|---|---|
| `Watchdog` | watchdog, harness deadlines, call clamps | `Watchdog_proofs` |
| `SubprocessTracker` | PID table, cleanup, waiting for children | `SubprocessTracker_proofs` |
| `ProcessTree` | front door + engine start + parent-death thread, **composed** with `SubprocessTracker` (EXTENDS; every engine step is a step of that module) | `ProcessTree_proofs` |
| `Attribution` | pure operators over a crate's unsoundness counts | `Attribution_proofs` (lemmas) |
| `SolverAnswer` | pure: every result `run_ay` may return; the interface between the next two groups | |
| `HarnessVerdict` | check_harness and the two-lane retry, over `Attribution` and `SolverAnswer` | `HarnessVerdict_proofs` |
| `SolverCall` | the state of one `run_ay` call: query, deadline, clock, check table | |
| `BmcLane`, `ChcLadder` | the two lanes of a call, each over `SolverCall` | |
| `RunAy` | one call: both lanes **composed**, fairness, properties | `RunAy_proofs` |
| `Solve` | **abstract specification** of a call: it returns once, in the end, with an expected and true result; `RunAy` implements it (`ImplementsSolve`) | `RepliesAsSolve` |
| `HarnessRunner` | selection, pool, collector, summary, exit code; uses `Attribution`'s `Effective` | `HarnessRunner_proofs` |
| `MC*` | small instances: values for the constants, nothing else | |

Operators named `...Mutant` (and `FreedEverywhere`, `RegisterUnguarded`,
`ClassifyUnanswered` and the like, all marked "Mutant:") are plausible slips in the
code: substituting one for the definition it precedes makes the property named
in `PROJECT.json` fail.  They take no part in any specification.

### Watchdog

`deadline`, `budget`, `credited` are `DEADLINE_MS`, `BUDGET_SECS`,
`EXTRA_HARNESSES_CREDITED`.  The main thread goes through stages in the order of
`main`: `InstallFromArgv` (argv as first seen), `SessionRearm` (after Cargo.toml
is merged), perhaps `AutoharnessRearm`, perhaps `ExtendFromScan` (standalone
files), `ExtendFromMetadata`, then harnesses and calls.  One step is one access
the other thread can observe: `arm` and `extend` are therefore two steps each
(`ArmBudget`/`ArmDeadline`, `ExtendFor`/`ExtendBudget`), and the watchdog thread
loads (`LoopLoad`) and tests (`LoopTest`) separately.  Time is a tick counter;
it does not pass the end of a running call, because `recv_timeout` returns
there.  Not every wait inside a harness is bounded alike, so there are three kinds
of call: `StartCall`, a child of a solver path, takes both clamps
(`Deadline::clamp`, then `clamp_to_watchdog_deadline`); `StartCover`, a child that
carries no `Deadline` (the CHC cover query, `call_ay.rs:1525`, and the lanes of the
two-lane retry), takes the process-wide one only; `StartSolve`, an in-process CHC
solve, is clamped to the harness but waited for with guard and drain on top
(`Overrun`, `chc/native.rs:957`, `:1247`), which no clamp of a child shortens.
Between calls the harness's thread may compute for as long as it likes.  `armed`
is a history variable.  The u64 range is `0..MaxMs` with the
code's saturating additions.

### SubprocessTracker

`slots`, `cleaning`, `handlers` are the statics of the same names; `handlers`
also says whether the `signal()` calls behind the flag have been made, because
`install_handlers` takes the flag first (`TakeFlag`, `InstallHandlers`) and a
second worker that finds it taken goes on at once.  `register` tries one slot per step (other threads move in between); `unregister` is one
step because only a PID's own worker and a cleanup touch its slot.  `os` is what
the operating system knows of each PID: free, our child, a zombie, or a
stranger's process after reuse.  A worker's `job` follows `session/process.rs`
line by line; the waiter thread reaps first and sends afterwards.  A cleaner
(signal handler, watchdog, parent-death thread) swaps the flag, claims slots one
by one, kills what it claimed, clears the flag and ends the process.  `owed` is
history: what a cleanup was answerable for when it began.  `Spec` has all three
kinds of children; `CallSpec` is what it comes to without `run_piped` (theorem
`CallsOnly`), and is what the run `tracker` explores.  The steps of piped children
are taken in the runs `tracker_piped` and `tree`.

### ProcessTree

Adds `front` (front door), `ENGINE_PID`, the engine's boot, and signals under
way.  `TermFront` is the forwarding handler; with `ctrlC` the terminal sends the
signal to the engine as well, and with `nohup` the signal is one the shell had
ignored: until a process has installed its handler, such a signal is lost on it
(`FrontHears`, `EngineHears`).  `WatchParentDeath` records the parent found *at
that moment*.

### Attribution and HarnessVerdict

A path is the sequence of its segments, so "suffix on a segment boundary" is a
strict suffix.  The seventeen demoting categories behave alike and are one
(`gap`), except offset provenance, which recertification treats apart; the
fail-closed categories are one with a per-harness map (`iter`) and one crate
total (`forced`).  The check table is the set of kinds of row in it: no gate
looks at more than which kinds occur.  The solver is every answer `run_ay` can
return (`RunAy(a)` for each `a` in `SolverAnswer`'s `Results`, and `RunError`);
`RunAy_proofs` shows that the lanes return nothing else.  `Scenarios` names the
combinations of crates, command lines, harnesses and evidence to consider.  Each
gate is an action, in the order of `check_harness`: demotion, classification
with recertification, vacuity (V4), no checks (V4b), covers (V5), conformance,
sound fallback, panic certification (V6); then the retry, then the report.  A
lane's report says what the child driver printed of this harness and of others
its `--harness` filter selected.  One harness is checked after another: a
verdict reads nothing that a concurrently checked harness writes.  That writing the
output or the concrete playback of a finished check may fail is
`HarnessRunner`'s `CheckFails`: such a check has no verdict at all.

### SolverCall, BmcLane, ChcLadder, RunAy

A query is abstracted to *what is true of the program it encodes*: which checks
can be violated and reached, which covers can be satisfied, whether the harness
is feasible, and what its text shows (lane, shape, reach flags, markers).  The
code never reads the true part: only solver answers do, and the properties.

`BmcLane` is `try_ay_solver`.  Every query is a subprocess that answers at some
moment or is killed at its limit.  After `MainUnsat`: reachability probes
(`ProofClassified`), the vacuity probe (`Probed`), covers (`CoversChecked`),
cover reachability (`CoversClassified`), coverage, `ReportProof`.  After
`MainSat`: re-query of the checks the model did not falsify (`Requeried`),
reachability, `ReportModel`.  The four probe rounds share
`check_cover_satisfiability`: one file per flag while the budget gives each a
slice (`AskOne`), then one for all the others or none (`AskRest`).

`ChcLadder` is `try_ay_chc_solver` and what follows it.  Each phase first looks
at the deadline (`BailExhausted`); syntactic shortcuts and a witness search may
decide; then the acyclic lane and the portfolio run as threads with a channel, a
guard and a drain (`LaneGuard`, `LaneAbandoned` and their portfolio twins: a
thread whose receiver is gone is an orphan whose answer nobody hears).  A
portfolio verdict is cross-checked and, if a proof, validated before it is
interpreted.  An error ends in the external proof fallback when
`AllowsFallback`, in UNKNOWN otherwise.

What the model trusts, because it is behind an API the driver trusts: a
subprocess's `sat`/`unsat` is right, so is an accepted validation, a portfolio
counterexample, a replayed proof, a complete acyclic answer on scalars without
demotions, and an external `unsat`.  What may be *wrong* in the model: a
portfolio proof, an untrusted acyclic answer, a cross-check.  (The trust in a
portfolio counterexample extends to the bounded-only mode, although
`chc/native.rs:1053` says of the acyclic lane, which uses the same engine, that its
counterexamples may be spurious.)  The process-wide
clamp on every subprocess is `Watchdog`'s `ClampToWatchdog`.  Variables of the report
that no property tells apart (rendering, transcripts, evidence descriptors) are
left out; so is the direct-linking path behind the feature `ay-direct`, which is
off by default.

### HarnessRunner

`DetermineTargets`, then `Start`/`Checked`/`CheckFails` by pool threads,
`Collect` or `CollectError`, artifacts, summary, exit.  Rayon is modelled from
how the code uses `try_for_each`: nothing starts after an error, what runs
finishes, and *one* of the errors is returned, unspecified which.  A verdict is
any of the records `check_harness` may return.

## 3. Runs

Passing (each explores its whole bounded state space):

| run | instance | shows |
|---|---|---|
| `watchdog` | timeouts none, 0, 1, 2; up to 3 harnesses; the three kinds of call; u64 range 9 | type and range, `DeadlineAnchored`, `HarnessInsideWatchdog`, `CallInsideBudgets`, `HungCallReportsItself`, `FiresBeforeOuterKill`, `DeadlineNeverShrinks`, and that a hang ends (`HangEnds`) |
| `tracker` | 2 workers, 2 PIDs, 2 slots, a signal handler; untimed and timed children | the table against the children in flight, reuse of PIDs included; no abandoned child; cleanup complete; `HandledOnceTracked`; `ZombiesReaped` |
| `tree` | front door, engine, a worker, a child of any kind, one signal delivered once or twice, the parent-death thread, a table that leaked registrations fill | `ForwardedEnds`, `OrphanEnds`, `LoneCleanupComplete`, `TimedJobsReturn`, `CleanersExit` (a second cleanup that finds the first in progress included) |
| `verdict` | three scenarios: one harness with every answer, option and kind of taint; `m::h` and `n::h` with counts under the keys `m::h`, `n::h`, `h`, `f`, one or several of them in a map; two retry depths and a budget for one and a half lanes | `ProofIsClean`, `PanicProofGenuine`, `GatesNeverRelax`, `CrateTaintSurfaces`, `CertifiedComplete`, `LaneUpgradeSound`, `LaneProofsCount` |
| `runner` | 3 harnesses, 2 threads, every command line, every kind of harness and verdict | `ExitCodeHonest`, `SuccessesPreserved`, `QuietExitsAlike`, `FailureHasCause`, `RunEnds` |
| `solve` | both lanes; two checks, one cover; every query shape and option; a deadline already spent, shorter and longer than the solver timeout | `RowsTruthful`, `FailClosed`, `OverrunBounded`, `ImplementsSolve` |

Violations, each a sentence of the repository that the code does not keep
(`PROJECT.json`, *findings*, quotes them):

| run | property | what happens |
|---|---|---|
| `tracker_piped` | `RegistrationIdempotent` | a cargo build is registered twice and unregistered once |
| `runner_failfast` | `ExitZeroMeansVerified` | a verified should_panic harness stops the run, which exits 0 |
| `verdict_sibling` | `LaneUpgradeSound` | another harness's verdict in the lane's output |
| `verdict_mixed` | `EveryApproximationAccounted` | an approximation under a function's key beside the harness's own key is charged to the harness but missing from the total that certification compares |
| `solve_status` | `StatusesProved` | a cover false in one model is reported UNSATISFIABLE; a check whose re-query got no answer keeps SUCCESS (both in a report that is FAILED anyway) |
| `solve_overrun` | `AttemptsInsideDeadline` | the guards of the CHC threads wait past the harness's deadline |

Each has its true counterpart in a passing run: what separates `tracker` from
`tracker_piped` (piped children), `ExitCodeHonest` from `ExitZeroMeansVerified`
(`--fail-fast` with should_panic), `verdict` from `verdict_sibling` (a name
contained in another's), `CertifiedComplete` from `EveryApproximationAccounted` (a
map with harness and function keys side by side), `RowsTruthful` from `StatusesProved` (a report that is
no proof) and `OverrunBounded` from `AttemptsInsideDeadline` (guards and drains)
says exactly what breaks it.

Other disagreements between comments and code that the models exhibit, left
without a run of their own.  They show when the named restriction of a passing
run is lifted:

* a deadline replaced or cleared between the watchdog thread's load and its test
  still fires (`wall_clock_watchdog.rs:296-303`, against `:174-175`);
* when the metadata names a harness the source scan missed, the top-up of
  `main.rs:758` takes the deadline past the outer runner's allowance
  (`project.rs:293-296`); `FiresBeforeOuterKill` has the premise that excludes it;
* an internal compiler error drops the running cargo child, which nobody kills
  (`call_cargo/output.rs:60`): `NoAbandonedChild` with piped children;
* the second SIGINT of a Ctrl-C finds a cleanup in progress, skips its own and
  ends the engine while the first one still has children to kill
  (`subprocess_tracker.rs:133`, against `cancel.rs:40-42`): `CleanupComplete` in
  the tree; `LoneCleanupComplete` has the premise that excludes it;
* an engine whose front door died before it read its parent is not watched
  (`cancel.rs:44-45`): `OrphanEnds` has the premise `watching`;
* under `--quiet` the lanes print no verdict to read (`loop_two_lane.rs:166`,
  against `harness_runner.rs:66-67`): `LaneProofsCount` with `quiet`;
* a `--config-free` run that skips every harness of a crate exits 0
  (`result_summary.rs:316-318`);
* between the flag and the `signal()` calls of the first registration a signal
  kills the driver although another worker's child is in the table
  (`subprocess_tracker.rs:185`): `HandledOnceTracked` has the exception;
* the recursion-unwind failure is promised "even if the backend solver otherwise
  returns PROOF or UNKNOWN" (`call_ay/chc/verdict_policy.rs:67-72`), but the
  UNKNOWN arm of `run_ay` does not apply it: `GiveUp` ignores `q.unwind`;
* the external fallback lists one aggregate SUCCESS also for a harness marked
  vacuous, which the native path reports UNREACHABLE
  (`call_ay/chc/external.rs`): `ProvedStatus`.

## 4. Bounds

* Watchdog: `MaxHarnesses = 3` lets scan and metadata disagree both ways with
  two extra harnesses; `MaxMs = 9` is reached by armed deadlines, so saturation
  happens; `MaxTime` lies at or beyond every deadline; `MaxArm` bounds only how
  late arming may happen.  The clock reaches the largest deadline there is, so
  a deadline that does not fire would show.  `Overrun = 1` is below
  `Headroom = 2` as guard and drain (8 s) are below the headroom (10 s): one
  overrun fits into the headroom, a second solve begun after it reaches the
  watchdog, so both sides of `HungCallReportsItself` happen.
* Tracker: two workers and two PIDs are the least in which one worker's
  unregistration can meet the other's reused PID.
* Tree: one signal is enough for two deliveries (terminal and forwarded), and
  the slots that piped children leave behind fill the table of two.  Two signal
  handlers and the parent-death thread can all be cleaning up at once.
* Verdict: two harnesses whose last segments agree give every case of the
  matching rules (exact, unique suffix, tie, other harness's, nobody's), and
  approximations under every set of keys, mixed ones included, also beside an
  offset.  Two
  depths and a budget in which a second attempt sometimes fits exercise every
  branch of the retry.
* Runner: two harnesses decide every comparison of exit codes; three on two
  threads leave one unstarted when a failure stops the pool.
* Solve: two checks give a round that is asked one by one, one that is batched
  after a dear first probe and one that runs dry; a solver timeout of 3 against
  deadlines 0, 2 and 5 puts the deadline before, inside and after every attempt;
  guard, drain and caps of 1 or 2 keep their order in the code (witness < guard
  < cross-check).  `Horizon = 7` bounds only work the code does not limit
  itself (parsing, transforms, proof-core, validation); it lies past the latest
  deadline, so every phase is also entered with the deadline spent.

## 5. Fairness

* Watchdog: time diverges (`SF` of `Tick`: a call at its end holds the clock
  until it returns, but always returns), the watchdog thread is scheduled, a
  call ends by its `recv_timeout`.  Nothing is assumed of the main thread: it is
  what may hang.
* Tracker: threads that can run do; nothing makes a child exit, close its pipe,
  a signal arrive or main return.
* Tree: processes and threads, workers and cleaners included, are scheduled, and a
  pending signal is delivered.
* Runner: some step that can be taken is taken; a harness check returns, because
  each of its solver calls has a limit (`CallInsideBudgets`, proved in
  `Watchdog_proofs`) and in-process validation is assumed to return.
* Verdict: no liveness is claimed and no fairness assumed.
* Solve: the calling thread runs (`WF` of `MainStep`) and time passes (`WF` of
  `Tick`); no subprocess and no solver thread has to answer: their limits are
  steps of the calling thread.  The cross-check and the validation, which have
  no guard, are assumed to return: `ImplementsSolve`'s liveness says that the
  call does under that assumption.

## 6. Proofs

`Watchdog_proofs`, for every value of the constants allowed by
`WatchdogAssumption` (naturals; positive timeout defaults, multiplier and range):
`TypeCorrect`, `Anchored`, `HarnessesNest`, `CallsNest`, `HungCallsReport`,
`BeforeOuterKill`, `NeverShrinks`.  `CallsNest` and `HungCallsReport` speak of each
kind of call separately: only a child with both clamps always reports its own
timeout; one without a `Deadline` may still be waited for when the watchdog comes
due; and a solve is cut only if it began past its harness's deadline, as long as
guard and drain are shorter than the headroom.  The inductive
invariant adds to the properties `StageInv` (who may hold an arm or an extension
at which stage: after the session is built an armed deadline belongs to the
session's timeout, and nothing is pending while a harness runs) and `SpanInv`
(start and end of harness and call around the clock, and the watchdog thread
fires only past what it loaded).  `StageInv` is needed because the deadline is
extended by the session's timeout but anchored at the armed one: without knowing
them equal, anchoring is not inductive.  The arithmetic of a saturated extension
is the lemma `TopUp`.  `BeforeOuterKill` needs a second invariant, `AccountInv`
(theorem `Accounted`): how many extra harnesses can have been credited at which
stage.  The property compares the deadline with the harnesses the metadata lists,
while the deadline grows by what the source scan counted first.

`HarnessRunner_proofs`, for every finite set of harnesses, pool size, set of
command lines, profiles and verdicts (`RunnerAssumption`): `TypeCorrect`,
`QuietAlike`, `Caused`, and, under `PanicsNotCutOff` (no command line has
`--fail-fast` or no harness is should_panic), `Preserved` and
`ZeroMeansVerified`.  The invariant says how the pool's books balance
(`Booked`: a finished harness is in exactly one of completed, failfast and
broken, and `--fail-fast` separates successes from failures between the first
two), what the collector returned (`Gathered`) and what is still empty in which
phase (`Phased`).  `runner_failfast` shows that the proviso cannot be dropped.

(`ExitCodeHonest` is `ExitZeroMeansVerified` under that proviso.)

`RunAy_proofs`, for every finite set of checks and covers, every set of calls
(pairs of a query and a command line), every deadline, guard, drain and cap
(`CallAssumption`): `TypeCorrect`, `EveryRowTruthful`, `RefutedNeverProved`,
`OverrunIsBounded`, and `RepliesAsSolve`, the safety part of the refinement
(initial states map to initial states, every step to a stutter or to `Solve`'s
`Answer`).  The inductive invariant `IInv` is `TypeOK` and five parts:

* `ControlInv`: a call stays on its lane, answers only at the end, and an error
  that must not be retried leads straight to UNKNOWN (for `FailClosed`);
* `TimeInv`: where each wait is cut off relative to the deadline, phase by
  phase.  It is the chain along which the overrun accumulates: the lane's guard
  and drain may push the portfolio's start past the deadline, but then its
  budget is zero, so the two overruns never add to a whole budget;
* `ClaimInv`: which candidate verdicts are true of the query, by engine and
  phase (a portfolio proof only from `validate` on);
* `RoundInv`: the answers of the running probe round are decisions about the
  flags it was started with, on rows that still have the status they were chosen
  for: without it a classification could be applied to a row changed meanwhile;
* `TableInv`: every row is true already while the report is being built, with
  the exception for later contradictory assumes.

The arithmetic of slices and shares is in the lemmas `Shares` and `Portions`,
the kinds of rows a table yields in `CheckKindOf` and its neighbours.

`SubprocessTracker_proofs`, for every number of workers, slots, PIDs and cleaners
(`TrackerAssumption`; workers and cleaners are finite sets of threads).  The
invariants come in layers, each needing a little more of the constants:

* `BaseInv`, for every mode: `TypeOK`, `StageInv` (which stage of a job, of the
  handlers and of a cleaner goes with which state) and `HoldInv` (a child
  somebody *holds*, that is, will wait for, is unreaped, so its PID is not reused
  and no two workers hold the same one).  It gives `TypeCorrect` and `Handled`.
* `OnceInv`, without `run_piped`: every running child is held, and no PID has more
  slots than jobs.  It gives `NoneAbandoned` and `Idempotent`
  (and `CallsOnly` says that the steps are then those of `CallSpec`).  Its hard case is
  the worker that unregisters a PID another worker's new child was given
  meanwhile: whichever slot is freed, slots and jobs of the PID go down together.
  The run `tracker_piped` shows that `run_piped` breaks it.
* `ScanInv`, in addition with `Slots >= Cardinality(Workers)` and before any
  cleanup: behind the i-th slot there are at most N - i workers looking and
  slots in use together.  `TrackedWhileInFlight` is not inductive by itself: a
  scan does not look back, so a slot freed behind it does not help it, and "there
  is a free slot" does not mean that this scan will meet one.  The counting
  invariant does: a worker goes past slot k only because slot k is in use, so that
  one worker and one slot drop out of the count at k.  It gives `Tracks`: no
  registration fails and no child in flight is missing.
* `CleanInv`, under the same proviso (`Roomy`): for a cleanup no other cleaner
  has joined, each child it owes and that still runs is *ahead* of its scan (with as
  many slots as jobs, all at or behind the scan, and nobody about to register the
  same PID), then among the claimed.  `Cleaned` is `CleanupComplete` for one
  cleaner.  With two, the second one ends the process under the first (the hazard
  listed at `cleanup_all`), so the proviso is the code's, not the proof's.

The code's table has 1024 slots, so `Roomy` says at most 1024 worker threads.

`ProcessTree_proofs`: every step of the process tree is a step of
`SubprocessTracker` or leaves it alone (`EngineTracks`), so the layers carry over:
`TreeTypes` (with `FrontInv`: at most two pending signals per signal sent) and
`TreeCleaned`, `LoneCleanupComplete` under `Roomy`.  The run `tree` checks the
latter with piped children as well, for one worker.

`Attribution_proofs` holds the lemmas about the pure operators, for every crate
whose counts are naturals under finitely many keys (`CountsOK`): sums are positive
exactly when one of their counts is (`SumOfCounts`), every positive count is
charged to some harness (`CategoryCharged`, `ApproximationCharged`), and what a
counterexample classified as genuine says of its harness (`GenuineMeans`).  A sum
is a fold, so the first is an induction over finite sets; it is done with sets of
subsets and the well-foundedness of strict inclusion (`SubsetInduction`), since
the library's induction rules over predicates cannot be used here.

`HarnessVerdict_proofs`, for every family of scenarios (`VerdictAssumption`),
budgets and depths: `TypeCorrect`, `CleanProofs`, `GenuinePanics`, `NeverRelax`,
`TaintSurfaces` without proviso.  The inductive invariant follows the pipeline:
`ResultInv` (a success no lane supplied is the solver's), `ProofInv` (which gates a
success has passed at which location), `PanicInv` and `CatInv` (where the label
*genuine* comes from), `LaneInv` (an upgrade is the merge's decision on reports the
lanes can give) and `DoneInv` (the same for the harnesses already finished).
Two theorems have a proviso, each a predicate on the scenarios that those of the
run `verdict` satisfy:

* `UpgradesSound` under `NoSiblings`: the lanes' filter selects one harness.  The
  run `verdict_sibling` shows the counterexample without it;
* `ProofsCount` under `NoQuiet`: with `--quiet` the lanes print no report to merge.

`Certified` has none: `CertifiedComplete` itself says what the evidence covers on
every map (at least the events under the harness's own keys) and when it covers
everything charged to the harness (`OneKeySpace`: the exact and the fail-closed
lookup agree, or the exact one finds nothing and no offset is charged).
`verdict_mixed` is the counterexample to the unconditional claim.

Only model-checked: liveness (`HangEnds`, `ZombiesReaped`, `TimedJobsReturn`,
`CleanersExit`, `ForwardedEnds`, `OrphanEnds`, `RunEnds`, the fairness part of
`ImplementsSolve`), which the prover does not support under fairness.  Every
invariant and every action property of the passing runs is a theorem, with the
provisos named above.

## 7. Plan

1. (done) watchdog and deadlines; PID table; process tree; attribution and
   verdicts; run and exit code; proofs of the first and the last.
2. (done) both lanes of a solver call with their abstract specification and its
   refinement, proved; installation of the signal handlers in two steps.
3. (done) proofs of the PID table, the process tree, attribution and the verdict
   pipeline; the remaining safety properties of the watchdog.
4. (done) the kinds of call in `Watchdog`, cleanups that meet in the process tree,
   maps with mixed keys and what certification means on them.
5. Left open: what still holds of the table with piped children or two cleaners;
   an abstract specification of a verified harness that `HarnessVerdict`
   implements.

## 8. Not modelled

Most of the repository's lines are not a driver but a compiler: of 438,000
lines, the modules map the part that has control of its own, some six thousand
lines in `trust-mc-driver` and the front door.  Left out are the compiler plug-in
and its code-generation crates (term construction without concurrency or
persistent state; their correctness is semantic equivalence with Rust, which is
out of a model checker's reach), trust-mc-core's admission policy (a table over
enums, which a model could only restate), the native CHC
engines and SMT encoders, the kani library and macros, stand-alone crates for
exported conditions, developer tools and scripts, text rendering (help, doctor,
summary wording, SARIF contents, coverage, playback), argument parsing.  What
the driver takes from them is an input of the models: harness counts, kinds of
row, unsoundness counts, freed-variable evidence, command lines.  External
behaviour (rayon, `waitpid`, signal delivery, PID reuse) is modelled from how
the driver uses it.
