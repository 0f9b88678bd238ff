-------------------------- MODULE SubprocessTracker --------------------------
(***************************************************************************)
(* The driver's child processes: the lock-free PID table and its cleanup   *)
(* (trust-mc-driver/src/subprocess_tracker.rs) together with the code that *)
(* spawns, waits for and times out children (session/process.rs,           *)
(* call_cargo/output.rs).                                                  *)
(*                                                                         *)
(* Workers are the driver's threads.  Each runs one child at a time:       *)
(*   untimed  spawn, register, wait, unregister;                           *)
(*   timed    the same with a detached waiter thread that waits and reaps, *)
(*            and a recv_timeout that kills the child;                     *)
(*   piped    run_piped registers the child and hands it out; the caller   *)
(*            reads it and calls wait_with_timeout, which registers again. *)
(* Cleaners are whoever runs cleanup_all and then ends the process: signal *)
(* handlers, the wall-clock watchdog, the parent-death thread.             *)
(*                                                                         *)
(* The operating system may hand a reaped PID to an unrelated process.     *)
(***************************************************************************)
EXTENDS Integers, Sequences, FiniteSets

CONSTANTS
    Slots,      \* PID_SLOTS
    Pids,       \* the process identifiers in play
    NoPid,      \* 0, a free slot
    Workers,
    NoWorker,
    Modes,      \* which of "untimed", "timed", "piped" this run spawns
    Cleaners,   \* signal handlers, watchdog thread, parent-death thread
    Signals     \* the cleaners that are signal handlers

ASSUME TrackerAssumption ==
    /\ Slots \in Nat \ {0}
    /\ NoPid \notin Pids
    /\ NoWorker \notin Workers /\ IsFiniteSet(Workers) /\ IsFiniteSet(Cleaners)
    /\ Modes \subseteq {"untimed", "timed", "piped"}
    /\ Signals \subseteq Cleaners

VARIABLES
    slots,      \* SLOTS
    cleaning,   \* CLEANUP_IN_PROGRESS
    handlers,   \* HANDLERS_INSTALLED, and whether the signal() calls are done
    driver,     \* "alive", or how it ended
    os,         \* the state of each PID
    job,        \* what each worker is doing
    waiter,     \* the worker a PID's detached waiter thread reports to
    cleaner,    \* where each cleaner is in cleanup_all
    owed        \* history: children tracked when a cleanup began, not yet reaped

table   == <<slots, cleaning, handlers>>
vars == <<slots, cleaning, handlers, driver, os, job, waiter, cleaner, owed>>

SlotIds == 1..Slots
NoJob   == [pc |-> "idle", mode |-> "untimed", pid |-> NoPid, idx |-> 1,
            chan |-> "empty"]
AtRest  == [pc |-> "idle", idx |-> 1, claimed |-> <<>>]

Tracked == {slots[i] : i \in SlotIds} \ {NoPid}
Alive   == driver = "alive"

(* The worker has put its child into the table and not taken it out again. *)
Registered(w) == job[w].pc \in {"reading", "reregister", "detach", "recv", "kill",
                                "wait", "unregister"}

Init ==
    /\ slots = [i \in SlotIds |-> NoPid]
    /\ cleaning = FALSE
    /\ handlers = "none"
    /\ driver = "alive"
    /\ os = [p \in Pids |-> "free"]
    /\ job = [w \in Workers |-> NoJob]
    /\ waiter = [p \in Pids |-> NoWorker]
    /\ cleaner = [c \in Cleaners |-> AtRest]
    /\ owed = {}

-----------------------------------------------------------------------------
(* Operating system *)

ChildExit(p) ==
    /\ os[p] = "child"
    /\ os' = [os EXCEPT ![p] = "zombie"]
    /\ UNCHANGED <<table, driver, job, waiter, cleaner, owed>>

(* A free PID goes to a process that has nothing to do with the driver. *)
Recycle(p) ==
    /\ os[p] = "free"
    /\ os' = [os EXCEPT ![p] = "foreign"]
    /\ UNCHANGED <<table, driver, job, waiter, cleaner, owed>>

ForeignExit(p) ==
    /\ os[p] = "foreign"
    /\ os' = [os EXCEPT ![p] = "free"]
    /\ UNCHANGED <<table, driver, job, waiter, cleaner, owed>>

(* Once the driver is gone, init reaps its children. *)
InitReap(p) ==
    /\ ~Alive /\ os[p] = "zombie"
    /\ os' = [os EXCEPT ![p] = "free"]
    /\ UNCHANGED <<table, driver, job, waiter, cleaner, owed>>

(* kill_pid_or_group: SIGKILL reaches whoever holds the PID now.  A killed
   child stays a zombie until someone waits for it; a stray kill ends a
   stranger. *)
Killed(p) == CASE os[p] = "child"   -> "zombie"
               [] os[p] = "foreign" -> "free"
               [] OTHER             -> os[p]

-----------------------------------------------------------------------------
(* The PID table *)

(* register: the worker tries its next slot; at the end of the table the child
   stays untracked. *)
RegisterStep(w, next) ==
    LET i == job[w].idx IN
    /\ IF i <= Slots /\ slots[i] = NoPid
       THEN /\ slots' = [slots EXCEPT ![i] = job[w].pid]
            /\ job' = [job EXCEPT ![w].pc = next, ![w].idx = 1]
       ELSE /\ slots' = slots
            /\ job' = IF i < Slots
                      THEN [job EXCEPT ![w].idx = i + 1]
                      ELSE [job EXCEPT ![w].pc = next, ![w].idx = 1]
    /\ UNCHANGED <<cleaning, handlers>>

(* Mutant: unregister stops at the first occupied slot it does not own. *)
FreedMutant(p) ==
    IF slots[1] = p THEN [slots EXCEPT ![1] = NoPid] ELSE slots

(* Mutant: unregister frees every slot that holds the PID. *)
FreedEverywhere(p) == [i \in SlotIds |-> IF slots[i] = p THEN NoPid ELSE slots[i]]

(* unregister: frees the first slot that holds the PID, if any does.  Only the
   PID's own worker and a cleanup touch such a slot, so the scan is one step. *)
Freed(p) ==
    IF p \in Tracked
    THEN [slots EXCEPT ![CHOOSE i \in SlotIds :
                           /\ slots[i] = p
                           /\ \A j \in SlotIds : slots[j] = p => i <= j] = NoPid]
    ELSE slots

-----------------------------------------------------------------------------
(* Workers: session/process.rs *)

Spawn(w, mode, p) ==
    /\ Alive /\ job[w].pc = "idle" /\ os[p] = "free"
    /\ os' = [os EXCEPT ![p] = "child"]
    /\ job' = [job EXCEPT ![w] = [NoJob EXCEPT !.pc = "register", !.mode = mode,
                                               !.pid = p]]
    /\ UNCHANGED <<table, driver, waiter, cleaner, owed>>

(* install_handlers, called first by every register: the flag is taken by one
   worker, which installs the handlers afterwards; the others go on at once. *)
TakeFlag(w) ==
    /\ Alive /\ job[w].pc = "register" /\ handlers = "none"
    /\ handlers' = "flagged"
    /\ job' = [job EXCEPT ![w].pc = "signals"]
    /\ UNCHANGED <<slots, cleaning, driver, os, waiter, cleaner, owed>>

InstallHandlers(w) ==
    /\ Alive /\ job[w].pc = "signals"
    /\ handlers' = "installed"
    /\ job' = [job EXCEPT ![w].pc = "register"]
    /\ UNCHANGED <<slots, cleaning, driver, os, waiter, cleaner, owed>>

(* Mutant: the table is written before the handlers are asked for. *)
RegisterUnguarded(w) ==
    /\ Alive /\ job[w].pc = "register"
    /\ RegisterStep(w, CASE job[w].mode = "untimed" -> "wait"
                         [] job[w].mode = "timed"   -> "detach"
                         [] job[w].mode = "piped"   -> "reading")
    /\ UNCHANGED <<driver, os, waiter, cleaner, owed>>

Register(w) ==
    /\ Alive /\ job[w].pc = "register" /\ handlers # "none"
    /\ RegisterStep(w, CASE job[w].mode = "untimed" -> "wait"
                         [] job[w].mode = "timed"   -> "detach"
                         [] job[w].mode = "piped"   -> "reading")
    /\ UNCHANGED <<driver, os, waiter, cleaner, owed>>

(* run_build has read the last line and calls wait_with_timeout, whose guard
   registers the child a second time. *)
ReadToEnd(w) ==
    /\ Alive /\ job[w].pc = "reading"
    /\ job' = [job EXCEPT ![w].pc = "reregister"]
    /\ UNCHANGED <<table, driver, os, waiter, cleaner, owed>>

Reregister(w) ==
    /\ Alive /\ job[w].pc = "reregister"
    /\ RegisterStep(w, "detach")
    /\ UNCHANGED <<driver, os, waiter, cleaner, owed>>

(* run_build returns early on an unreadable message or an internal compiler
   error: the Child is dropped, which neither kills nor reaps it. *)
ReadFails(w) ==
    /\ Alive /\ job[w].pc = "reading"
    /\ job' = [job EXCEPT ![w] = NoJob]
    /\ UNCHANGED <<table, driver, os, waiter, cleaner, owed>>

(* Mutant: the child is not handed to the waiter thread. *)
DetachMutant(w) ==
    /\ Alive /\ job[w].pc = "detach"
    /\ job' = [job EXCEPT ![w].pc = "recv"]
    /\ UNCHANGED <<table, driver, os, waiter, cleaner, owed>>

(* The waiter thread takes the Child over. *)
Detach(w) ==
    /\ Alive /\ job[w].pc = "detach"
    /\ waiter' = [waiter EXCEPT ![job[w].pid] = w]
    /\ job' = [job EXCEPT ![w].pc = "recv"]
    /\ UNCHANGED <<table, driver, os, cleaner, owed>>

Reaped(p) == os' = [os EXCEPT ![p] = "free"] /\ owed' = owed \ {p}

(* The waiter thread's wait() returns: the PID is free from here on ... *)
WaiterReap(p) ==
    LET w == waiter[p] IN
    /\ Alive /\ w # NoWorker /\ os[p] = "zombie"
    /\ Reaped(p)
    /\ waiter' = [waiter EXCEPT ![p] = NoWorker]
    /\ job' = IF job[w].pid = p /\ job[w].pc = "recv"
              THEN [job EXCEPT ![w].chan = "reaped"] ELSE job
    /\ UNCHANGED <<table, driver, cleaner>>

(* ... and its send makes the result visible to recv_timeout. *)
WaiterSend(w) ==
    /\ Alive /\ job[w].chan = "reaped"
    /\ job' = [job EXCEPT ![w].chan = "sent"]
    /\ UNCHANGED <<table, driver, os, waiter, cleaner, owed>>

Recv(w) ==
    /\ Alive /\ job[w].pc = "recv" /\ job[w].chan = "sent"
    /\ job' = [job EXCEPT ![w].pc = "unregister"]
    /\ UNCHANGED <<table, driver, os, waiter, cleaner, owed>>

(* recv_timeout gives up; the answer may be on its way. *)
Timeout(w) ==
    /\ Alive /\ job[w].pc = "recv" /\ job[w].chan # "sent"
    /\ job' = [job EXCEPT ![w].pc = "kill", ![w].chan = "empty"]
    /\ UNCHANGED <<table, driver, os, waiter, cleaner, owed>>

(* Mutant: the timeout is reported and the child left alone. *)
TimeoutKillMutant(w) ==
    /\ Alive /\ job[w].pc = "kill"
    /\ job' = [job EXCEPT ![w].pc = "unregister"]
    /\ UNCHANGED <<table, driver, os, waiter, cleaner, owed>>

(* Mutant: after the kill the worker waits for the answer again. *)
TimeoutKillRewaits(w) ==
    /\ Alive /\ job[w].pc = "kill"
    /\ os' = [os EXCEPT ![job[w].pid] = Killed(job[w].pid)]
    /\ job' = [job EXCEPT ![w].pc = "recv"]
    /\ UNCHANGED <<table, driver, waiter, cleaner, owed>>

TimeoutKill(w) ==
    /\ Alive /\ job[w].pc = "kill"
    /\ os' = [os EXCEPT ![job[w].pid] = Killed(job[w].pid)]
    /\ job' = [job EXCEPT ![w].pc = "unregister"]
    /\ UNCHANGED <<table, driver, waiter, cleaner, owed>>

(* untimed modes: the worker itself waits and reaps *)
Wait(w) ==
    /\ Alive /\ job[w].pc = "wait" /\ os[job[w].pid] = "zombie"
    /\ Reaped(job[w].pid)
    /\ job' = [job EXCEPT ![w].pc = "unregister"]
    /\ UNCHANGED <<table, driver, waiter, cleaner>>

Unregister(w) ==
    /\ Alive /\ job[w].pc = "unregister"
    /\ slots' = Freed(job[w].pid)
    /\ job' = [job EXCEPT ![w] = NoJob]
    /\ UNCHANGED <<cleaning, handlers, driver, os, waiter, cleaner, owed>>

(* main returns *)
MainExit ==
    /\ Alive /\ \A w \in Workers : job[w].pc = "idle"
    /\ driver' = "exited"
    /\ UNCHANGED <<table, os, job, waiter, cleaner, owed>>

-----------------------------------------------------------------------------
(* Cleaners: cleanup_all, and the exit that follows it *)

(* A signal before the handlers are installed meets the default disposition.  One
   the shell had ignored is lost, which is no step of the driver. *)
DefaultSignal(c) ==
    /\ Alive /\ c \in Signals /\ handlers # "installed" /\ cleaner[c].pc = "idle"
    /\ driver' = "signalled"
    /\ UNCHANGED <<table, os, job, waiter, cleaner, owed>>

(* The children a cleanup that starts now is answerable for: in the table, and
   not waited for by the worker or the waiter thread that will reap them. *)
Owing ==
    {p \in Tracked : \E w \in Workers :
        /\ job[w].pid = p
        /\ \/ job[w].pc \in {"reading", "reregister", "detach", "wait"}
           \/ job[w].pc \in {"recv", "kill"} /\ waiter[p] = w}

(* Only one cleanup at a time: a second caller goes straight to its exit. *)
CleanupBegin(c) ==
    /\ Alive /\ cleaner[c].pc = "idle"
    /\ c \in Signals => handlers = "installed"
    /\ cleaning' = TRUE
    /\ IF cleaning
       THEN /\ cleaner' = [cleaner EXCEPT ![c].pc = "exit"]
            /\ owed' = owed
       ELSE /\ cleaner' = [cleaner EXCEPT ![c].pc = "claim"]
            /\ owed' = Owing
    /\ UNCHANGED <<slots, handlers, driver, os, job, waiter>>

(* Mutant: the scan leaves out the last slot. *)
ClaimSlotMutant(c) ==
    LET i == cleaner[c].idx IN
    /\ Alive /\ cleaner[c].pc = "claim"
    /\ slots' = [slots EXCEPT ![i] = NoPid]
    /\ cleaner' = [cleaner EXCEPT
         ![c].claimed = IF slots[i] = NoPid THEN @ ELSE Append(@, slots[i]),
         ![c].idx = i + 1,
         ![c].pc = IF i + 1 >= Slots THEN "kill" ELSE "claim"]
    /\ UNCHANGED <<cleaning, handlers, driver, os, job, waiter, owed>>

(* Mutant: free slots are claimed as well. *)
ClaimSlotUnfiltered(c) ==
    LET i == cleaner[c].idx IN
    /\ Alive /\ cleaner[c].pc = "claim"
    /\ slots' = [slots EXCEPT ![i] = NoPid]
    /\ cleaner' = [cleaner EXCEPT ![c].claimed = Append(@, slots[i]), ![c].idx = i + 1,
                                  ![c].pc = IF i = Slots THEN "kill" ELSE "claim"]
    /\ UNCHANGED <<cleaning, handlers, driver, os, job, waiter, owed>>

ClaimSlot(c) ==
    LET i == cleaner[c].idx IN
    /\ Alive /\ cleaner[c].pc = "claim"
    /\ slots' = [slots EXCEPT ![i] = NoPid]
    /\ cleaner' = [cleaner EXCEPT
         ![c].claimed = IF slots[i] = NoPid THEN @ ELSE Append(@, slots[i]),
         ![c].idx = i + 1,
         ![c].pc = IF i = Slots THEN "kill" ELSE "claim"]
    /\ UNCHANGED <<cleaning, handlers, driver, os, job, waiter, owed>>

(* Mutant: claiming a slot is taken for having killed its process. *)
KillClaimedMutant(c) ==
    /\ Alive /\ cleaner[c].pc = "kill" /\ cleaner[c].claimed # <<>>
    /\ cleaner' = [cleaner EXCEPT ![c].claimed = Tail(@)]
    /\ UNCHANGED <<table, driver, os, job, waiter, owed>>

KillClaimed(c) ==
    /\ Alive /\ cleaner[c].pc = "kill" /\ cleaner[c].claimed # <<>>
    /\ os' = [os EXCEPT ![Head(cleaner[c].claimed)] = Killed(Head(cleaner[c].claimed))]
    /\ cleaner' = [cleaner EXCEPT ![c].claimed = Tail(@)]
    /\ UNCHANGED <<table, driver, job, waiter, owed>>

(* Mutant: the cleanup waits until the table is empty. *)
CleanupEndMutant(c) ==
    /\ Alive /\ cleaner[c].pc = "kill" /\ cleaner[c].claimed = <<>> /\ Tracked = {}
    /\ cleaning' = FALSE
    /\ cleaner' = [cleaner EXCEPT ![c].pc = "exit"]
    /\ UNCHANGED <<slots, handlers, driver, os, job, waiter, owed>>

CleanupEnd(c) ==
    /\ Alive /\ cleaner[c].pc = "kill" /\ cleaner[c].claimed = <<>>
    /\ cleaning' = FALSE
    /\ cleaner' = [cleaner EXCEPT ![c].pc = "exit"]
    /\ UNCHANGED <<slots, handlers, driver, os, job, waiter, owed>>

(* SIG_DFL and raise, _exit(1) or exit(143) *)
CleanerExit(c) ==
    /\ Alive /\ cleaner[c].pc = "exit"
    /\ driver' = "cleaned"
    /\ UNCHANGED <<table, os, job, waiter, cleaner, owed>>

-----------------------------------------------------------------------------
(* The steps of a call that runs its child itself, timed or untimed ... *)
CallStep(w) ==
    \/ TakeFlag(w) \/ InstallHandlers(w) \/ Register(w) \/ Detach(w) \/ WaiterSend(w)
    \/ Recv(w) \/ Timeout(w) \/ TimeoutKill(w) \/ Wait(w) \/ Unregister(w)

(* ... and those that run_piped adds: the second registration, and a reader that
   nothing hurries. *)
WorkerStep(w) == CallStep(w) \/ Reregister(w)
ReaderStep(w) == ReadToEnd(w) \/ ReadFails(w)

CleanerStep(c) == ClaimSlot(c) \/ KillClaimed(c) \/ CleanupEnd(c) \/ CleanerExit(c)

OsStep(p) == ChildExit(p) \/ Recycle(p) \/ ForeignExit(p) \/ InitReap(p)

Next ==
    \/ \E w \in Workers, mode \in Modes, p \in Pids : Spawn(w, mode, p)
    \/ \E w \in Workers : WorkerStep(w) \/ ReaderStep(w)
    \/ \E p \in Pids : WaiterReap(p) \/ OsStep(p)
    \/ \E c \in Cleaners : DefaultSignal(c) \/ CleanupBegin(c) \/ CleanerStep(c)
    \/ MainExit

(* Threads that can run do.  Nothing makes a child exit or close its pipe, a
   signal arrive or main return. *)
Fairness ==
    /\ \A w \in Workers : WF_vars(WorkerStep(w))
    /\ \A p \in Pids : WF_vars(WaiterReap(p))
    /\ \A c \in Cleaners : WF_vars(CleanerStep(c))

Spec == Init /\ [][Next]_vars /\ Fairness

(* The driver without run_piped: what Spec comes to when "piped" is not among the
   Modes (CallsOnly in SubprocessTracker_proofs). *)
CallNext ==
    \/ \E w \in Workers, mode \in Modes \ {"piped"}, p \in Pids : Spawn(w, mode, p)
    \/ \E w \in Workers : CallStep(w)
    \/ \E p \in Pids : WaiterReap(p) \/ OsStep(p)
    \/ \E c \in Cleaners : DefaultSignal(c) \/ CleanupBegin(c) \/ CleanerStep(c)
    \/ MainExit

CallSpec ==
    /\ Init /\ [][CallNext]_vars
    /\ \A w \in Workers : WF_vars(CallStep(w))
    /\ \A p \in Pids : WF_vars(WaiterReap(p))
    /\ \A c \in Cleaners : WF_vars(CleanerStep(c))

-----------------------------------------------------------------------------
(* Properties *)

(* Every variable has its type. *)
TypeOK ==
    /\ slots \in [SlotIds -> Pids \union {NoPid}]
    /\ cleaning \in BOOLEAN /\ handlers \in {"none", "flagged", "installed"}
    /\ driver \in {"alive", "exited", "signalled", "cleaned"}
    /\ os \in [Pids -> {"free", "child", "zombie", "foreign"}]
    /\ job \in [Workers ->
          [pc : {"idle", "signals", "register", "reading", "reregister", "detach", "recv",
                 "kill", "wait", "unregister"},
           mode : {"untimed", "timed", "piped"}, pid : Pids \union {NoPid},
           idx : SlotIds, chan : {"empty", "reaped", "sent"}]]
    /\ waiter \in [Pids -> Workers \union {NoWorker}]
    /\ cleaner \in [Cleaners ->
          [pc : {"idle", "claim", "kill", "exit"}, idx : 1..(Slots + 1),
           claimed : Seq(Pids)]]
    /\ owed \subseteq Pids

SlotsOf(p) == {i \in SlotIds : slots[i] = p}
JobsOf(p)  == {w \in Workers : Registered(w) /\ job[w].pid = p}

(* A child occupies no more slots than it has jobs in flight: whatever order
   children exit, time out, are reaped and have their PIDs reused in,
   registering is idempotent and a finished job leaves no PID behind for a
   later cleanup to kill. *)
RegistrationIdempotent ==
    \A p \in Pids : Cardinality(SlotsOf(p)) <= Cardinality(JobsOf(p))

(* Until a cleanup starts, and while the table is large enough for every worker,
   no child in flight is ever missing from the table, not even when one worker
   unregisters a PID that another worker's new child was given meanwhile. *)
TrackedWhileInFlight ==
    Slots >= Cardinality(Workers) /\ (\A c \in Cleaners : cleaner[c].pc = "idle") =>
        \A p \in Pids : Cardinality(SlotsOf(p)) >= Cardinality(JobsOf(p))

(* A worker that is done with a child leaves no running process behind: it has
   exited, or the timeout killed it. *)
NoAbandonedChild ==
    \A p \in Pids : os[p] = "child" =>
        \E w \in Workers : job[w].pc # "idle" /\ job[w].pid = p

(* When the process ends after a cleanup, every child the table held when the
   cleanup began has been killed or had already been waited for. *)
CleanupComplete ==
    driver = "cleaned" => \A p \in owed : os[p] # "child"

(* A driver that dies of a signal no handler caught leaves a tracked child behind
   only while the first registration is between taking the flag and installing
   the handlers: apart from that window, in which a second worker may already
   have entered its child, the table is never filled without them. *)
HandledOnceTracked ==
    driver = "signalled" /\ Tracked # {} => \E w \in Workers : job[w].pc = "signals"

(* A timeout always gets the worker its thread back, whether or not the child
   reacts; a driver that ended owes nothing. *)
TimedJobsReturn ==
    \A w \in Workers :
        (job[w].pc = "recv" /\ Alive) ~> (job[w].pc = "idle" \/ ~Alive)

(* The waiter thread outlives the timeout: no zombie of a timed child stays
   while the driver runs. *)
ZombiesReaped ==
    \A p \in Pids : (os[p] = "zombie" /\ Alive) ~> (os[p] # "zombie" \/ ~Alive)

(* A cleaner that started ends the process, also when it found another cleanup
   in progress. *)
CleanersExit ==
    \A c \in Cleaners : cleaner[c].pc # "idle" ~> ~Alive
=============================================================================
