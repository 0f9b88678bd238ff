----------------------- MODULE SubprocessTracker_proofs -----------------------
(***************************************************************************)
(* For every number of workers, slots, process identifiers and cleaners:   *)
(* what the PID table holds while children are spawned, time out, are      *)
(* reaped and have their identifiers reused.                               *)
(*                                                                         *)
(* The invariants come in three layers: what holds for every mode of       *)
(* spawning; what holds when no child is registered twice (run_piped, see  *)
(* the run tracker_piped); and what needs a table large enough for every   *)
(* worker, where a scan of the table never fails.                          *)
(***************************************************************************)
EXTENDS SubprocessTracker, TLAPS, FiniteSetTheorems, WellFoundedInduction

Quiet == \A c \in Cleaners : cleaner[c].pc = "idle"

(* The worker, or the waiter thread it started, will wait for the child. *)
Holding == {"signals", "register", "reading", "reregister", "detach", "wait"}
Holds(w, p) ==
    /\ job[w].pid = p
    /\ job[w].pc \in Holding \/ (job[w].pc \in {"recv", "kill"} /\ waiter[p] = w)

(* What a job, the handlers and the cleaners are at which stage. *)
StageInv ==
    /\ \A w \in Workers :
          /\ job[w].pc # "idle" => job[w].pid \in Pids /\ job[w].mode \in Modes
          /\ job[w].pc \in {"reading", "reregister"} => job[w].mode = "piped"
          /\ Registered(w) => handlers # "none"
    /\ \A c \in Cleaners : /\ cleaner[c].pc = "idle" => cleaner[c].idx = 1
                           /\ cleaner[c].pc = "claim" => cleaner[c].idx <= Slots
    /\ Tracked # {} => handlers # "none"
    /\ handlers = "flagged" => \E w \in Workers : job[w].pc = "signals"
    /\ driver = "signalled" => handlers # "installed"
    /\ driver = "cleaned" => \E c \in Cleaners : cleaner[c].pc = "exit"
    /\ Quiet => ~cleaning /\ owed = {}

(* A child that is held has not been reaped, so its identifier is not reused:
   no two workers hold the same one. *)
HoldInv ==
    Alive =>
    /\ \A w \in Workers, p \in Pids : Holds(w, p) => os[p] \in {"child", "zombie"}
    /\ \A w \in Workers, v \in Workers, p \in Pids : Holds(w, p) /\ Holds(v, p) => w = v
    /\ \A p \in Pids : waiter[p] # NoWorker =>
          /\ os[p] \in {"child", "zombie"}
          /\ \A w \in Workers : job[w].pid = p => job[w].pc \notin Holding
    /\ \A w \in Workers : job[w].chan # "empty" =>
          \/ job[w].pc = "unregister"
          \/ job[w].pc = "recv" /\ waiter[job[w].pid] # w

(* What holds for every mode. *)
BaseInv == TypeOK /\ StageInv /\ HoldInv

(* Without run_piped: somebody holds every running child ... *)
ChildInv == \A p \in Pids : os[p] = "child" => \E w \in Workers : Holds(w, p)

(* ... and a child is in the table at most once per job. *)
OnceInv == ChildInv /\ RegistrationIdempotent

(* The workers that look for a slot behind the i-th, and the slots in use there. *)
Scanning(i) == {w \in Workers : job[w].pc \in {"signals", "register"} /\ job[w].idx > i}
Used(i)     == {j \in SlotIds : j > i /\ slots[j] # NoPid}
InTable     == {w \in Workers : Registered(w)}

(* Before any cleanup: a worker goes past a slot only because another worker is
   on it, so that behind the i-th slot there is one worker fewer than behind the
   one before, and no scan ends without a slot. *)
ScanInv ==
    Quiet =>
    /\ Cardinality(Used(0)) <= Cardinality(InTable)
    /\ \A i \in 1..Cardinality(Workers) :
          Cardinality(Scanning(i)) + Cardinality(Used(i)) <= Cardinality(Workers) - i
    /\ \A p \in Pids : Cardinality(SlotsOf(p)) >= Cardinality(JobsOf(p))

Claimed(c, p) == \E n \in 1..Len(cleaner[c].claimed) : cleaner[c].claimed[n] = p

(* The scan of the cleanup has the child's slots still ahead of it. *)
Ahead(c, p) ==
    /\ Cardinality(SlotsOf(p)) >= Cardinality(JobsOf(p))
    /\ \A j \in SlotsOf(p) : j >= cleaner[c].idx
    /\ \A w \in Workers : job[w].pid = p => job[w].pc \notin {"signals", "register"}

Alone(c) == /\ cleaner[c].pc # "idle"
            /\ \A d \in Cleaners : cleaner[d].pc # "idle" => d = c

(* A cleanup nobody interferes with: a child it owes is ahead of its scan, then
   among the claimed, then killed. *)
CleanInv ==
    \A c \in Cleaners : Alone(c) =>
        \A p \in owed :
            /\ Alive => os[p] \in {"child", "zombie"}
            /\ os[p] = "child" =>
                  \/ cleaner[c].pc \in {"claim", "kill"} /\ Claimed(c, p)
                  \/ cleaner[c].pc = "claim" /\ Ahead(c, p)

(* A table for every worker, and nobody registers twice. *)
Roomy == "piped" \notin Modes /\ Slots >= Cardinality(Workers)

JobType == [pc : {"idle", "signals", "register", "reading", "reregister", "detach", "recv",
                  "kill", "wait", "unregister"},
            mode : {"untimed", "timed", "piped"}, pid : Pids \union {NoPid},
            idx : SlotIds, chan : {"empty", "reaped", "sent"}]
CleanerType == [pc : {"idle", "claim", "kill", "exit"}, idx : 1..(Slots + 1),
                claimed : Seq(Pids)]

-----------------------------------------------------------------------------
(* kill_pid_or_group leaves a state of a process. *)
LEMMA KilledType ==
    ASSUME TypeOK, NEW p \in Pids
    PROVE  /\ Killed(p) \in {"free", "zombie", "foreign"}
           /\ os[p] \in {"child", "zombie"} => Killed(p) = "zombie"
           /\ Killed(p) = "zombie" => os[p] \in {"child", "zombie"}
    BY DEF Killed, TypeOK

(* A fresh job. *)
Fresh(mode, p) == [NoJob EXCEPT !.pc = "register", !.mode = mode, !.pid = p]

(* It looks for a slot from the first one on. *)
LEMMA NewJob ==
    ASSUME NEW mode \in Modes, NEW p \in Pids
    PROVE  /\ Fresh(mode, p) \in JobType
           /\ Fresh(mode, p).pc = "register" /\ Fresh(mode, p).mode = mode
           /\ Fresh(mode, p).pid = p /\ Fresh(mode, p).idx = 1
           /\ Fresh(mode, p).chan = "empty"
    <1>1. 1 \in SlotIds
        BY TrackerAssumption DEF SlotIds
    <1>2. NoJob \in JobType /\ NoJob.idx = 1 /\ NoJob.chan = "empty"
        BY <1>1 DEF NoJob, JobType
    <1> QED BY <1>2, TrackerAssumption DEF JobType, Fresh

(* Every step of a thread leaves a job a job: a scan never runs past the table. *)
LEMMA JobTyped ==
    ASSUME TypeOK, StageInv, Next
    PROVE  job' \in [Workers -> JobType]
    <1> USE DEF JobType, SlotIds
    <1>1. job \in [Workers -> JobType] /\ Slots \in Nat \ {0}
        BY TrackerAssumption DEF TypeOK
    <1>2. ASSUME NEW w \in Workers, NEW mode \in Modes, NEW p \in Pids, Spawn(w, mode, p)
          PROVE  job' \in [Workers -> JobType]
        <2>1. Fresh(mode, p) \in JobType
            BY NewJob
        <2>2. job' = [job EXCEPT ![w] = Fresh(mode, p)]
            BY <1>2 DEF Spawn, Fresh
        <2> HIDE DEF JobType
        <2> QED BY <1>1, <2>1, <2>2
    <1>3. ASSUME NEW w \in Workers, Register(w) \/ Reregister(w)
          PROVE  job' \in [Workers -> JobType]
        BY <1>1, <1>3 DEF Register, Reregister, RegisterStep
    <1>4. ASSUME NEW w \in Workers,
                 \/ TakeFlag(w) \/ InstallHandlers(w) \/ Detach(w) \/ WaiterSend(w) \/ Recv(w)
                 \/ Timeout(w) \/ TimeoutKill(w) \/ Wait(w) \/ Unregister(w) \/ ReaderStep(w)
          PROVE  job' \in [Workers -> JobType]
        BY <1>1, <1>4 DEF ReaderStep, TakeFlag, InstallHandlers, ReadToEnd, Detach, WaiterSend,
               Recv, Timeout, TimeoutKill, Wait, Unregister, ReadFails, NoJob
    <1>5. ASSUME NEW p \in Pids, WaiterReap(p) PROVE job' \in [Workers -> JobType]
        <2>1. waiter[p] \in Workers
            BY <1>5 DEF WaiterReap, TypeOK
        <2> QED BY <1>1, <1>5, <2>1 DEF WaiterReap
    <1>6. ASSUME NEW p \in Pids, OsStep(p) PROVE job' = job
        BY <1>6 DEF OsStep, ChildExit, Recycle, ForeignExit, InitReap
    <1>7. ASSUME NEW c \in Cleaners, DefaultSignal(c) \/ CleanupBegin(c) \/ CleanerStep(c)
          PROVE  job' = job
        BY <1>7 DEF DefaultSignal, CleanupBegin, CleanerStep, ClaimSlot, KillClaimed, CleanupEnd,
               CleanerExit
    <1>8. MainExit => job' = job
        BY DEF MainExit
    <1> HIDE DEF JobType
    <1> QED BY <1>1, <1>2, <1>3, <1>4, <1>5, <1>6, <1>7, <1>8 DEF Next, WorkerStep, CallStep

(* Every step of a cleaner leaves a cleaner a cleaner. *)
LEMMA CleanerTyped ==
    ASSUME TypeOK, StageInv, Next
    PROVE  cleaner' \in [Cleaners -> CleanerType]
    <1> USE DEF CleanerType, SlotIds
    <1>1. cleaner \in [Cleaners -> CleanerType] /\ Slots \in Nat \ {0}
        BY TrackerAssumption DEF TypeOK
    <1>2. ASSUME NEW c \in Cleaners, CleanupBegin(c)
          PROVE  cleaner' \in [Cleaners -> CleanerType]
        BY <1>1, <1>2 DEF CleanupBegin
    <1>3. ASSUME NEW c \in Cleaners, ClaimSlot(c)
          PROVE  cleaner' \in [Cleaners -> CleanerType]
        <2>1. cleaner[c].idx \in SlotIds /\ slots[cleaner[c].idx] \in Pids \union {NoPid}
            BY <1>1, <1>3 DEF ClaimSlot, StageInv, TypeOK
        <2> DEFINE more == IF slots[cleaner[c].idx] = NoPid THEN cleaner[c].claimed
                           ELSE Append(cleaner[c].claimed, slots[cleaner[c].idx])
        <2>2. more \in Seq(Pids)
            BY <1>1, <2>1
        <2>3. cleaner' = [cleaner EXCEPT
                 ![c].claimed = more, ![c].idx = cleaner[c].idx + 1,
                 ![c].pc = IF cleaner[c].idx = Slots THEN "kill" ELSE "claim"]
            BY <1>3 DEF ClaimSlot
        <2> HIDE DEF more
        <2> QED BY <1>1, <2>1, <2>2, <2>3
    <1>4. ASSUME NEW c \in Cleaners, KillClaimed(c)
          PROVE  cleaner' \in [Cleaners -> CleanerType]
        <2>1. cleaner[c].claimed \in Seq(Pids) /\ cleaner[c].claimed # << >>
            BY <1>1, <1>4 DEF KillClaimed
        <2>2. Tail(cleaner[c].claimed) \in Seq(Pids)
            BY <2>1
        <2> QED BY <1>1, <1>4, <2>2 DEF KillClaimed
    <1>5. ASSUME NEW c \in Cleaners, CleanupEnd(c)
          PROVE  cleaner' \in [Cleaners -> CleanerType]
        BY <1>1, <1>5 DEF CleanupEnd
    <1>6. ASSUME NEW c \in Cleaners, DefaultSignal(c) \/ CleanerExit(c)
          PROVE  cleaner' = cleaner
        BY <1>6 DEF DefaultSignal, CleanerExit
    <1>7. ASSUME NEW w \in Workers, WorkerStep(w) \/ ReaderStep(w)
          PROVE  cleaner' = cleaner
        BY <1>7 DEF WorkerStep, CallStep, ReaderStep, TakeFlag, InstallHandlers, ReadToEnd, Detach,
               WaiterSend, Recv, Timeout, TimeoutKill, Wait, Unregister, ReadFails, Register,
               Reregister
    <1>8. ASSUME NEW p \in Pids, WaiterReap(p) \/ OsStep(p) PROVE cleaner' = cleaner
        BY <1>8 DEF WaiterReap, OsStep, ChildExit, Recycle, ForeignExit, InitReap
    <1>9. /\ MainExit => cleaner' = cleaner
          /\ \A w \in Workers, mode \in Modes, p \in Pids : Spawn(w, mode, p) => cleaner' = cleaner
        BY DEF MainExit, Spawn
    <1> HIDE DEF CleanerType
    <1> QED BY <1>1, <1>2, <1>3, <1>4, <1>5, <1>6, <1>7, <1>8, <1>9 DEF Next, CleanerStep

(* Every variable keeps its type. *)
LEMMA TypeStep ==
    ASSUME TypeOK, StageInv, Next
    PROVE  TypeOK'
    <1> DEFINE Rest == /\ slots \in [SlotIds -> Pids \union {NoPid}]
                       /\ cleaning \in BOOLEAN
                       /\ handlers \in {"none", "flagged", "installed"}
                       /\ driver \in {"alive", "exited", "signalled", "cleaned"}
                       /\ os \in [Pids -> {"free", "child", "zombie", "foreign"}]
                       /\ waiter \in [Pids -> Workers \union {NoWorker}]
                       /\ owed \subseteq Pids
    <1>t. Rest
        BY DEF TypeOK
    <1>j. \A w \in Workers : job[w].pid \in Pids \union {NoPid}
        BY DEF TypeOK
    <1>p. \A w \in Workers : job[w].pc # "idle" => job[w].pid \in Pids
        BY DEF StageInv
    <1>k. \A p \in Pids : Killed(p) \in {"free", "zombie", "foreign"}
        BY KilledType
    <1> SUFFICES Rest'
        BY JobTyped, CleanerTyped DEF TypeOK, JobType, CleanerType
    <1> USE DEF table
    <1>1. ASSUME NEW w \in Workers, NEW mode \in Modes, NEW p \in Pids, Spawn(w, mode, p)
          PROVE  Rest'
        BY <1>t, <1>1 DEF Spawn
    <1>2. ASSUME NEW w \in Workers, TakeFlag(w) \/ InstallHandlers(w) PROVE Rest'
        BY <1>t, <1>2 DEF TakeFlag, InstallHandlers
    <1>3. ASSUME NEW w \in Workers, Register(w) \/ Reregister(w) PROVE Rest'
        BY <1>t, <1>j, <1>3 DEF Register, Reregister, RegisterStep
    <1>4. ASSUME NEW w \in Workers, ReaderStep(w) \/ WaiterSend(w) \/ Recv(w) \/ Timeout(w)
          PROVE Rest'
        BY <1>t, <1>4 DEF ReaderStep, ReadToEnd, ReadFails, WaiterSend, Recv, Timeout
    <1>5. ASSUME NEW w \in Workers, Detach(w) \/ TimeoutKill(w) \/ Wait(w) PROVE Rest'
        BY <1>t, <1>p, <1>k, <1>5 DEF Detach, TimeoutKill, Wait, Reaped
    <1>6. ASSUME NEW w \in Workers, Unregister(w) PROVE Rest'
        BY <1>t, <1>j, <1>6 DEF Unregister, Freed
    <1>7. ASSUME NEW p \in Pids, WaiterReap(p) PROVE Rest'
        BY <1>t, <1>7 DEF WaiterReap, Reaped
    <1>8. ASSUME NEW p \in Pids, OsStep(p) PROVE Rest'
        BY <1>t, <1>8 DEF OsStep, ChildExit, Recycle, ForeignExit, InitReap
    <1>9. ASSUME NEW c \in Cleaners, DefaultSignal(c) \/ CleanerExit(c) PROVE Rest'
        BY <1>t, <1>9 DEF DefaultSignal, CleanerExit
    <1>10. ASSUME NEW c \in Cleaners, CleanupBegin(c) \/ CleanupEnd(c) PROVE Rest'
        <2>1. Owing \subseteq Pids
            BY <1>t DEF Owing, Tracked, SlotIds
        <2>2. cleaning' \in {TRUE, FALSE}
            BY <1>10 DEF CleanupBegin, CleanupEnd
        <2> QED BY <1>t, <1>10, <2>1, <2>2 DEF CleanupBegin, CleanupEnd
    <1>11. ASSUME NEW c \in Cleaners, ClaimSlot(c) PROVE Rest'
        BY <1>t, <1>11 DEF ClaimSlot
    <1>12. ASSUME NEW c \in Cleaners, KillClaimed(c) PROVE Rest'
        <2>1. Head(cleaner[c].claimed) \in Pids
            BY <1>12 DEF KillClaimed, TypeOK
        <2> QED BY <1>t, <1>k, <1>12, <2>1 DEF KillClaimed
    <1>13. CASE MainExit
        BY <1>t, <1>13 DEF MainExit
    <1> HIDE DEF Rest
    <1> QED BY <1>1, <1>2, <1>3, <1>4, <1>5, <1>6, <1>7, <1>8, <1>9, <1>10, <1>11, <1>12,
               <1>13 DEF Next, WorkerStep, CallStep, CleanerStep

-----------------------------------------------------------------------------
(* A step of worker w moves its own job to the next stage. *)
Moves(w, next) ==
    /\ \A v \in Workers \ {w} : job'[v] = job[v]
    /\ job'[w].pc = next /\ job'[w].pid = job[w].pid /\ job'[w].mode = job[w].mode
    /\ job'[w].chan \in {job[w].chan, "empty"}

ChannelOnly ==
    \A v \in Workers : /\ job'[v].pc = job[v].pc /\ job'[v].pid = job[v].pid
                       /\ job'[v].mode = job[v].mode /\ job'[v].idx = job[v].idx

(* Where the stage after the registration leads. *)
AfterRegister(w) == CASE job[w].mode = "untimed" -> "wait"
                      [] job[w].mode = "timed"   -> "detach"
                      [] job[w].mode = "piped"   -> "reading"

(* What the steps of a worker do to the jobs. *)
LEMMA JobMoves ==
    ASSUME TypeOK, NEW w \in Workers
    PROVE  /\ TakeFlag(w) => Moves(w, "signals") /\ job'[w].idx = job[w].idx
           /\ InstallHandlers(w) => Moves(w, "register") /\ job'[w].idx = job[w].idx
           /\ ReadToEnd(w) => Moves(w, "reregister")
           /\ Detach(w) => Moves(w, "recv")
           /\ Recv(w) \/ TimeoutKill(w) \/ Wait(w) => Moves(w, "unregister")
           /\ Timeout(w) => Moves(w, "kill")
           /\ Unregister(w) \/ ReadFails(w) =>
                 (\A v \in Workers \ {w} : job'[v] = job[v]) /\ job'[w] = NoJob
    <1>1. job \in [Workers -> JobType]
        BY DEF TypeOK, JobType
    <1> USE DEF Moves, JobType
    <1>2. TakeFlag(w) => Moves(w, "signals") /\ job'[w].idx = job[w].idx
        BY <1>1 DEF TakeFlag
    <1>3. InstallHandlers(w) => Moves(w, "register") /\ job'[w].idx = job[w].idx
        BY <1>1 DEF InstallHandlers
    <1>4. ReadToEnd(w) => Moves(w, "reregister")
        BY <1>1 DEF ReadToEnd
    <1>5. Detach(w) => Moves(w, "recv")
        BY <1>1 DEF Detach
    <1>7. Recv(w) \/ TimeoutKill(w) \/ Wait(w) => Moves(w, "unregister")
        BY <1>1 DEF Recv, TimeoutKill, Wait
    <1>8. Timeout(w) => Moves(w, "kill")
        BY <1>1 DEF Timeout
    <1>9. Unregister(w) \/ ReadFails(w) =>
                 (\A v \in Workers \ {w} : job'[v] = job[v]) /\ job'[w] = NoJob
        BY <1>1 DEF Unregister, ReadFails
    <1> QED BY <1>2, <1>3, <1>4, <1>5, <1>7, <1>8, <1>9

(* The waiter thread touches no job but the channel of the worker it reports to. *)
LEMMA WaiterMoves ==
    ASSUME TypeOK
    PROVE  /\ \A w \in Workers : WaiterSend(w) => ChannelOnly
           /\ \A p \in Pids : WaiterReap(p) => ChannelOnly
    <1>1. job \in [Workers -> JobType]
        BY DEF TypeOK, JobType
    <1>2. ASSUME NEW w \in Workers, WaiterSend(w) PROVE ChannelOnly
        BY <1>1, <1>2 DEF WaiterSend, ChannelOnly, JobType
    <1>3. ASSUME NEW p \in Pids, WaiterReap(p) PROVE ChannelOnly
        <2>1. waiter[p] \in Workers
            BY <1>3 DEF WaiterReap, TypeOK
        <2> QED BY <1>1, <1>3, <2>1 DEF WaiterReap, ChannelOnly, JobType
    <1> QED BY <1>2, <1>3

(* A registration takes the slot it looks at, goes on to the next, or gives up at
   the end of the table. *)
LEMMA RegisterMoves ==
    ASSUME TypeOK, NEW w \in Workers, NEW next, RegisterStep(w, next)
    PROVE  LET i == job[w].idx IN
           /\ i \in SlotIds
           /\ \/ /\ slots[i] = NoPid /\ slots' = [slots EXCEPT ![i] = job[w].pid]
                 /\ Moves(w, next)
              \/ /\ slots[i] # NoPid /\ slots' = slots /\ i < Slots
                 /\ Moves(w, job[w].pc) /\ job'[w].idx = i + 1
              \/ /\ slots[i] # NoPid /\ slots' = slots /\ i = Slots
                 /\ Moves(w, next)
           /\ UNCHANGED <<cleaning, handlers>>
    <1> DEFINE i == job[w].idx
    <1>1. job \in [Workers -> JobType] /\ Slots \in Nat
        BY TrackerAssumption DEF TypeOK, JobType
    <1>2. i \in SlotIds /\ i <= Slots
        BY <1>1 DEF JobType, SlotIds
    <1>3. CASE slots[i] = NoPid
        BY <1>1, <1>2, <1>3 DEF RegisterStep, Moves, JobType
    <1>4. CASE slots[i] # NoPid /\ i < Slots
        BY <1>1, <1>2, <1>4 DEF RegisterStep, Moves, JobType
    <1>5. CASE slots[i] # NoPid /\ ~(i < Slots)
        <2>1. i = Slots
            BY <1>1, <1>2, <1>5 DEF SlotIds
        <2>2. slots' = slots /\ Moves(w, next)
            BY <1>1, <1>2, <1>5 DEF RegisterStep, Moves, JobType
        <2> QED BY <1>2, <1>5, <2>1, <2>2 DEF RegisterStep
    <1> QED BY <1>3, <1>4, <1>5

(* The two registrations of a child. *)
LEMMA Registrations ==
    ASSUME NEW w \in Workers, Register(w) \/ Reregister(w)
    PROVE  /\ job[w].pc \in {"register", "reregister"}
           /\ job[w].pc = "register" => handlers # "none" /\ RegisterStep(w, AfterRegister(w))
           /\ job[w].pc = "reregister" => RegisterStep(w, "detach")
           /\ Alive /\ UNCHANGED <<driver, os, waiter, cleaner, owed>>
    BY DEF Register, Reregister, AfterRegister

(* A spawn starts a fresh job. *)
LEMMA SpawnMoves ==
    ASSUME TypeOK, NEW w \in Workers, NEW mode \in Modes, NEW p \in Pids, Spawn(w, mode, p)
    PROVE  /\ \A v \in Workers \ {w} : job'[v] = job[v]
           /\ job'[w].pc = "register" /\ job'[w].mode = mode /\ job'[w].pid = p
           /\ job'[w].idx = 1 /\ job'[w].chan = "empty"
    <1>1. job' = [job EXCEPT ![w] = Fresh(mode, p)] /\ job \in [Workers -> JobType]
        BY DEF Spawn, TypeOK, JobType, Fresh
    <1> QED BY <1>1, NewJob

-----------------------------------------------------------------------------
(* What holds at every stage goes on holding. *)
LEMMA StageStep ==
    ASSUME TypeOK, StageInv, Next
    PROVE  StageInv'
    <1> DEFINE JobOK == \A w \in Workers :
                  /\ job[w].pc # "idle" => job[w].pid \in Pids /\ job[w].mode \in Modes
                  /\ job[w].pc \in {"reading", "reregister"} => job[w].mode = "piped"
                  /\ Registered(w) => handlers # "none"
    <1> DEFINE FlagOK == /\ Tracked # {} => handlers # "none"
                         /\ handlers = "flagged" => \E w \in Workers : job[w].pc = "signals"
    <1> DEFINE EndOK == /\ driver = "signalled" => handlers # "installed"
                        /\ driver = "cleaned" => \E c \in Cleaners : cleaner[c].pc = "exit"
    <1> DEFINE CleanOK ==
                  /\ \A c \in Cleaners :
                        /\ cleaner[c].pc = "idle" => cleaner[c].idx = 1
                        /\ cleaner[c].pc = "claim" => cleaner[c].idx <= Slots
                  /\ Quiet => ~cleaning /\ owed = {}
    <1>t. /\ job \in [Workers -> JobType] /\ cleaner \in [Cleaners -> CleanerType]
          /\ Slots \in Nat
        BY TrackerAssumption DEF TypeOK, JobType, CleanerType
    <1>i. JobOK /\ FlagOK /\ EndOK /\ CleanOK
        BY DEF StageInv
    <1> SUFFICES JobOK' /\ FlagOK' /\ EndOK' /\ CleanOK'
        BY DEF StageInv
    <1> USE DEF table
    <1>1. ASSUME NEW w \in Workers, NEW mode \in Modes, NEW p \in Pids, Spawn(w, mode, p)
          PROVE  JobOK' /\ FlagOK' /\ EndOK' /\ CleanOK'
        <2>1. /\ \A v \in Workers \ {w} : job'[v] = job[v]
              /\ job'[w].pc = "register" /\ job'[w].mode = mode /\ job'[w].pid = p
            BY <1>1, SpawnMoves
        <2>2. UNCHANGED <<slots, cleaning, handlers, driver, cleaner, owed>>
              /\ job[w].pc = "idle"
            BY <1>1 DEF Spawn
        <2> QED BY <1>i, <2>1, <2>2 DEF Registered, Tracked, Quiet
    <1>2. ASSUME NEW w \in Workers, TakeFlag(w) \/ InstallHandlers(w)
          PROVE  JobOK' /\ FlagOK' /\ EndOK' /\ CleanOK'
        <2>1. \/ /\ Moves(w, "signals") /\ job[w].pc = "register"
                 /\ handlers = "none" /\ handlers' = "flagged"
              \/ /\ Moves(w, "register") /\ job[w].pc = "signals" /\ handlers' = "installed"
            BY <1>2, JobMoves DEF TakeFlag, InstallHandlers
        <2>2. Alive /\ UNCHANGED <<slots, cleaning, driver, cleaner, owed>>
            BY <1>2 DEF TakeFlag, InstallHandlers
        <2> QED BY <1>i, <2>1, <2>2 DEF Registered, Tracked, Quiet, Moves, Alive
    <1>3. ASSUME NEW w \in Workers, Register(w) \/ Reregister(w)
          PROVE  JobOK' /\ FlagOK' /\ EndOK' /\ CleanOK'
        <2>1. UNCHANGED <<cleaning, handlers, driver, cleaner, owed>>
              /\ job[w].pc \in {"register", "reregister"} /\ handlers # "none"
            BY <1>3, <1>i, Registrations, RegisterMoves DEF Registered
        <2>2. job[w].mode \in {"untimed", "timed", "piped"}
            BY <1>t DEF JobType
        <2>3. \/ Moves(w, "wait") /\ job[w].mode = "untimed"
              \/ Moves(w, "detach")
              \/ Moves(w, "reading") /\ job[w].mode = "piped"
              \/ Moves(w, job[w].pc)
            BY <1>3, <2>2, Registrations, RegisterMoves DEF AfterRegister
        <2> QED BY <1>i, <2>1, <2>3 DEF Registered, Quiet, Moves
    <1>4. ASSUME NEW w \in Workers,
                 \/ ReadToEnd(w) \/ Recv(w) \/ Timeout(w)
                 \/ Detach(w) \/ TimeoutKill(w) \/ Wait(w)
          PROVE  JobOK' /\ FlagOK' /\ EndOK' /\ CleanOK'
        <2>1. UNCHANGED <<slots, cleaning, handlers, driver, cleaner>>
              /\ owed' \subseteq owed
            BY <1>4 DEF ReadToEnd, Recv, Timeout, Detach, TimeoutKill, Wait, Reaped
        <2>2. \/ Moves(w, "reregister") /\ job[w].pc = "reading"
              \/ /\ \E next \in {"recv", "unregister", "kill"} : Moves(w, next)
                 /\ Registered(w)
            BY <1>4, JobMoves DEF ReadToEnd, Recv, Timeout, Detach, TimeoutKill,
                   Wait, Registered
        <2> QED BY <1>i, <2>1, <2>2 DEF Registered, Tracked, Quiet, Moves
    <1>5. ASSUME NEW w \in Workers, Unregister(w) \/ ReadFails(w)
          PROVE  JobOK' /\ FlagOK' /\ EndOK' /\ CleanOK'
        <2>1. /\ \A v \in Workers \ {w} : job'[v] = job[v]
              /\ job'[w].pc = "idle"
            BY <1>5, JobMoves DEF NoJob
        <2>2. UNCHANGED <<cleaning, handlers, driver, cleaner, owed>>
            BY <1>5 DEF Unregister, ReadFails
        <2>3. Registered(w) /\ job[w].pc # "signals"
            BY <1>5 DEF Unregister, ReadFails, Registered
        <2>4. handlers # "none"
            BY <1>i, <2>3
        <2> QED BY <1>i, <2>1, <2>2, <2>3, <2>4 DEF Registered, Quiet
    <1>6. ASSUME \/ \E p \in Pids : WaiterReap(p)
                 \/ \E w \in Workers : WaiterSend(w)
          PROVE  JobOK' /\ FlagOK' /\ EndOK' /\ CleanOK'
        <2>1. UNCHANGED <<slots, cleaning, handlers, driver, cleaner>>
              /\ owed' \subseteq owed
            BY <1>6 DEF WaiterReap, WaiterSend, Reaped
        <2>2. ChannelOnly
            BY <1>6, WaiterMoves
        <2> QED BY <1>i, <2>1, <2>2 DEF Registered, Tracked, Quiet, ChannelOnly
    <1>7. ASSUME NEW p \in Pids, OsStep(p)
          PROVE  JobOK' /\ FlagOK' /\ EndOK' /\ CleanOK'
        <2>1. UNCHANGED <<slots, cleaning, handlers, driver, job, cleaner, owed>>
            BY <1>7 DEF OsStep, ChildExit, Recycle, ForeignExit, InitReap
        <2> QED BY <1>i, <2>1 DEF Registered, Tracked, Quiet
    <1>8. ASSUME NEW c \in Cleaners,
                 DefaultSignal(c) \/ CleanupBegin(c) \/ CleanerStep(c)
          PROVE  JobOK' /\ FlagOK' /\ EndOK' /\ CleanOK'
        <2>1. UNCHANGED <<handlers, job>>
            BY <1>8 DEF DefaultSignal, CleanupBegin, CleanerStep, ClaimSlot, KillClaimed,
                   CleanupEnd, CleanerExit
        <2>2. Tracked' \subseteq Tracked
            BY <1>8 DEF DefaultSignal, CleanupBegin, CleanerStep, ClaimSlot, KillClaimed,
                   CleanupEnd, CleanerExit, Tracked, TypeOK
        <2>3. JobOK' /\ FlagOK'
            BY <1>i, <2>1, <2>2 DEF Registered
        <2>4. CASE DefaultSignal(c) \/ CleanerExit(c)
            BY <1>i, <2>3, <2>4 DEF DefaultSignal, CleanerExit, Quiet
        <2>5. CASE CleanupBegin(c) \/ ClaimSlot(c) \/ KillClaimed(c) \/ CleanupEnd(c)
            <3>1. /\ \A d \in Cleaners \ {c} : cleaner'[d] = cleaner[d]
                  /\ cleaner'[c].pc # "idle" /\ driver' = driver /\ driver = "alive"
                BY <1>t, <2>5 DEF CleanupBegin, ClaimSlot, KillClaimed, CleanupEnd,
                       CleanerType, Alive
            <3>2. cleaner'[c].pc = "claim" => cleaner'[c].idx <= Slots
                <4>1. CASE CleanupBegin(c)
                    <5>1. cleaner[c].pc = "idle" /\ cleaner'[c].idx = cleaner[c].idx
                        BY <1>t, <4>1 DEF CleanupBegin, CleanerType
                    <5> QED BY <1>i, <5>1, TrackerAssumption
                <4>2. CASE ClaimSlot(c)
                    BY <1>t, <1>i, <4>2 DEF ClaimSlot, CleanerType
                <4>3. CASE KillClaimed(c) \/ CleanupEnd(c)
                    BY <1>t, <4>3 DEF KillClaimed, CleanupEnd, CleanerType
                <4> QED BY <2>5, <4>1, <4>2, <4>3
            <3> QED BY <1>i, <2>1, <2>3, <3>1, <3>2 DEF Quiet
        <2> QED BY <1>8, <2>4, <2>5 DEF CleanerStep
    <1>9. CASE MainExit
        BY <1>i, <1>9 DEF MainExit, Registered, Tracked, Quiet
    <1> HIDE DEF JobOK, FlagOK, EndOK, CleanOK
    <1> QED BY <1>1, <1>2, <1>3, <1>4, <1>5, <1>6, <1>7, <1>8, <1>9
            DEF Next, WorkerStep, CallStep, ReaderStep

-----------------------------------------------------------------------------
(* A held child is not reaped under its holder: whoever waits for it is the one
   that holds it, and a kill only makes a zombie of it. *)
LEMMA HoldStep ==
    ASSUME BaseInv, Next
    PROVE  HoldInv'
    <1> SUFFICES ASSUME Alive' PROVE HoldInv'
        BY DEF HoldInv
    <1> DEFINE H1 == \A v \in Workers, q \in Pids : Holds(v, q) => os[q] \in {"child", "zombie"}
    <1> DEFINE H2 == \A v \in Workers, u \in Workers, q \in Pids :
                        Holds(v, q) /\ Holds(u, q) => v = u
    <1> DEFINE H3 == \A q \in Pids : waiter[q] # NoWorker =>
                        /\ os[q] \in {"child", "zombie"}
                        /\ \A v \in Workers : job[v].pid = q => job[v].pc \notin Holding
    <1> DEFINE H4 == \A v \in Workers : job[v].chan # "empty" =>
                        \/ job[v].pc = "unregister"
                        \/ job[v].pc = "recv" /\ waiter[job[v].pid] # v
    <1>t. /\ job \in [Workers -> JobType] /\ os \in [Pids -> {"free", "child", "zombie", "foreign"}]
          /\ waiter \in [Pids -> Workers \union {NoWorker}] /\ NoWorker \notin Workers
          /\ NoPid \notin Pids
        BY TrackerAssumption DEF BaseInv, TypeOK, JobType
    <1>p. \A v \in Workers : job[v].pc # "idle" => job[v].pid \in Pids
        BY DEF BaseInv, StageInv
    <1>k. \A q \in Pids : os[q] \in {"child", "zombie"} => Killed(q) = "zombie"
        BY KilledType DEF BaseInv
    <1> SUFFICES ASSUME H1, H2, H3, H4, Alive PROVE H1' /\ H2' /\ H3' /\ H4'
        <2>1. Alive
            BY DEF Alive, Next, Spawn, WorkerStep, CallStep, ReaderStep, TakeFlag, InstallHandlers,
               ReadToEnd, Detach, WaiterSend, Recv, Timeout, TimeoutKill, Wait, Unregister,
               ReadFails, Register, Reregister, WaiterReap, OsStep, ChildExit, Recycle,
               ForeignExit, InitReap, DefaultSignal, CleanupBegin, CleanerStep, ClaimSlot,
               KillClaimed, CleanupEnd, CleanerExit, MainExit
        <2>2. H1 /\ H2 /\ H3 /\ H4
            BY <2>1 DEF BaseInv, HoldInv
        <2> QED BY <2>1, <2>2 DEF HoldInv
    <1>1. ASSUME NEW w \in Workers, NEW mode \in Modes, NEW p \in Pids, Spawn(w, mode, p)
          PROVE  H1' /\ H2' /\ H3' /\ H4'
        <2>1. /\ \A v \in Workers \ {w} : job'[v] = job[v]
              /\ job'[w].pc = "register" /\ job'[w].pid = p /\ job'[w].chan = "empty"
            BY <1>1, SpawnMoves DEF BaseInv
        <2>2. /\ os[p] = "free" /\ os' = [os EXCEPT ![p] = "child"] /\ waiter' = waiter
              /\ job[w].pc = "idle"
            BY <1>1 DEF Spawn
        <2>3. waiter[p] = NoWorker
            BY <2>2
        <2>4. \A v \in Workers : ~ Holds(v, p)
            BY <2>2
        <2>5. \A v \in Workers \ {w}, q \in Pids : Holds(v, q)' <=> Holds(v, q)
            BY <2>1, <2>2 DEF Holds
        <2>6. \A q \in Pids : Holds(w, q)' => q = p
            BY <2>1 DEF Holds
        <2>7. os'[p] = "child" /\ \A q \in Pids \ {p} : os'[q] = os[q]
            BY <2>2, <1>t
        <2>8. H1' /\ H2'
            BY <2>4, <2>5, <2>6, <2>7
        <2>9. H3'
            BY <2>1, <2>2, <2>3, <2>7
        <2>10. H4'
            BY <2>1, <2>2
        <2> QED BY <2>8, <2>9, <2>10
    <1>2. ASSUME NEW w \in Workers, NEW next, Moves(w, next), UNCHANGED <<os, waiter>>,
                 job[w].pc \in Holding /\ next \in Holding
          PROVE  H1' /\ H2' /\ H3' /\ H4'
        <2>1. \A v \in Workers, q \in Pids : Holds(v, q)' <=> Holds(v, q)
            BY <1>2 DEF Holds, Moves
        <2>2. job[w].chan = "empty"
            BY <1>2 DEF Holding
        <2> QED BY <1>2, <2>1, <2>2 DEF Moves
    <1>3. ASSUME NEW w \in Workers,
                 TakeFlag(w) \/ InstallHandlers(w) \/ ReadToEnd(w) \/ Register(w) \/ Reregister(w)
          PROVE  H1' /\ H2' /\ H3' /\ H4'
        <2>1. UNCHANGED <<os, waiter>>
            BY <1>3 DEF TakeFlag, InstallHandlers, ReadToEnd, Register, Reregister
        <2>2. job[w].pc \in Holding
            BY <1>3 DEF TakeFlag, InstallHandlers, ReadToEnd, Register, Reregister, Holding
        <2>3. \E next \in Holding : Moves(w, next)
            <3>1. CASE TakeFlag(w) \/ InstallHandlers(w) \/ ReadToEnd(w)
                BY <3>1, JobMoves DEF Holding, BaseInv
            <3>2. CASE Register(w) \/ Reregister(w)
                <4>1. AfterRegister(w) \in Holding
                    <5>1. job[w].mode \in {"untimed", "timed", "piped"}
                        BY <1>t DEF JobType
                    <5> QED BY <5>1 DEF AfterRegister, Holding
                <4> QED BY <2>2, <3>2, <4>1, Registrations, RegisterMoves DEF Holding, BaseInv
            <3> QED BY <1>3, <3>1, <3>2
        <2> QED BY <1>2, <2>1, <2>2, <2>3
    <1>4. ASSUME NEW w \in Workers, Detach(w)
          PROVE  H1' /\ H2' /\ H3' /\ H4'
        <2> DEFINE p == job[w].pid
        <2>1. /\ Moves(w, "recv") /\ job[w].pc = "detach" /\ os' = os
              /\ waiter' = [waiter EXCEPT ![p] = w] /\ p \in Pids
            BY <1>4, <1>p, JobMoves DEF Detach, BaseInv
        <2>2. Holds(w, p)
            BY <2>1 DEF Holds, Holding
        <2>3. \A v \in Workers : job[v].pid = p /\ v # w => job[v].pc \notin Holding
            BY <2>1, <2>2 DEF Holds
        <2>4. job[w].chan = "empty"
            BY <2>1
        <2>5. waiter[p] = NoWorker
            BY <2>1 DEF Holding
        <2>6. waiter'[p] = w /\ \A q \in Pids \ {p} : waiter'[q] = waiter[q]
            BY <2>1, <1>t
        <2>7. /\ \A v \in Workers \ {w} : job'[v] = job[v]
              /\ job'[w].pc = "recv" /\ job'[w].pid = p /\ job'[w].chan = "empty"
            BY <2>1, <2>4 DEF Moves
        <2> HIDE DEF p
        <2>8. \A v \in Workers, q \in Pids : Holds(v, q)' => Holds(v, q)
            BY <2>2, <2>5, <2>6, <2>7 DEF Holds, Holding
        <2>9. H1' /\ H2'
            BY <2>1, <2>8
        <2>10. H3'
            BY <2>1, <2>2, <2>3, <2>6, <2>7 DEF Holding
        <2>11. H4'
            <3> SUFFICES ASSUME NEW v \in Workers, job'[v].chan # "empty",
                                job'[v].pc # "unregister"
                         PROVE  job'[v].pc = "recv" /\ waiter'[job'[v].pid] # v
                OBVIOUS
            <3>1. v # w /\ job'[v] = job[v]
                BY <2>7
            <3>2. job[v].pc = "recv" /\ waiter[job[v].pid] # v /\ job[v].pid \in Pids
                BY <3>1, <1>p
            <3> QED BY <2>6, <3>1, <3>2
        <2> QED BY <2>9, <2>10, <2>11
    <1>5. ASSUME NEW w \in Workers, Recv(w) \/ Timeout(w)
          PROVE  H1' /\ H2' /\ H3' /\ H4'
        <2>1. /\ Moves(w, "unregister") \/ Moves(w, "kill")
              /\ job[w].pc = "recv" /\ UNCHANGED <<os, waiter>>
              /\ job'[w].pc = "kill" => job'[w].chan = "empty"
            <3>1. Timeout(w) => job'[w].chan = "empty"
                BY <1>t DEF Timeout, JobType
            <3>2. Moves(w, "unregister") => job'[w].pc # "kill"
                BY DEF Moves
            <3> QED BY <1>5, <3>1, <3>2, JobMoves DEF Recv, Timeout, BaseInv
        <2>2. \A v \in Workers, q \in Pids : Holds(v, q)' => Holds(v, q)
            BY <2>1 DEF Holds, Holding, Moves
        <2> QED BY <2>1, <2>2 DEF Moves, Holding
    <1>6. ASSUME NEW w \in Workers, WaiterSend(w)
          PROVE  H1' /\ H2' /\ H3' /\ H4'
        <2>1. ChannelOnly /\ UNCHANGED <<os, waiter>> /\ job[w].chan = "reaped"
            BY <1>6, WaiterMoves DEF WaiterSend, BaseInv
        <2>2. \A v \in Workers \ {w} : job'[v] = job[v]
            BY <1>t, <1>6 DEF WaiterSend
        <2>3. \A v \in Workers, q \in Pids : Holds(v, q)' <=> Holds(v, q)
            BY <2>1 DEF Holds, ChannelOnly
        <2> QED BY <2>1, <2>2, <2>3 DEF ChannelOnly
    <1>7. ASSUME NEW p \in Pids, WaiterReap(p)
          PROVE  H1' /\ H2' /\ H3' /\ H4'
        <2>1. /\ ChannelOnly /\ waiter[p] \in Workers
              /\ os' = [os EXCEPT ![p] = "free"]
              /\ waiter' = [waiter EXCEPT ![p] = NoWorker]
            BY <1>t, <1>7, WaiterMoves DEF WaiterReap, Reaped, BaseInv
        <2>2. /\ os'[p] = "free" /\ waiter'[p] = NoWorker
              /\ \A q \in Pids \ {p} : os'[q] = os[q] /\ waiter'[q] = waiter[q]
            BY <1>t, <2>1
        <2>3. \A v \in Workers : ~ Holds(v, p)'
            BY <1>t, <2>1, <2>2 DEF Holds, ChannelOnly
        <2>4. \A v \in Workers, q \in Pids \ {p} : Holds(v, q)' <=> Holds(v, q)
            BY <2>1, <2>2 DEF Holds, ChannelOnly
        <2>5. H1' /\ H2'
            BY <2>2, <2>3, <2>4
        <2>6. H3'
            BY <2>1, <2>2 DEF ChannelOnly
        <2>7. H4'
            <3> SUFFICES ASSUME NEW v \in Workers, job'[v].chan # "empty",
                                job'[v].pc # "unregister"
                         PROVE  job'[v].pc = "recv" /\ waiter'[job'[v].pid] # v
                OBVIOUS
            <3>1. CASE job[v].pid = p /\ job[v].pc = "recv"
                BY <3>1, <2>1, <2>2, <1>t DEF ChannelOnly
            <3>2. CASE ~ (job[v].pid = p /\ job[v].pc = "recv")
                <4>1. job'[v].chan = job[v].chan
                    <5>1. CASE v = waiter[p]
                        BY <5>1, <3>2, <1>7 DEF WaiterReap
                    <5>2. CASE v # waiter[p]
                        BY <5>2, <1>7, <1>t, <2>1 DEF WaiterReap
                    <5> QED BY <5>1, <5>2
                <4>2. job[v].pc = "recv" /\ waiter[job[v].pid] # v /\ job[v].pid \in Pids
                    BY <4>1, <2>1, <1>p DEF ChannelOnly
                <4> QED BY <4>2, <2>1, <2>2, <1>t DEF ChannelOnly
            <3> QED BY <3>1, <3>2
        <2> QED BY <2>5, <2>6, <2>7
    <1>8. ASSUME NEW w \in Workers, TimeoutKill(w)
          PROVE  H1' /\ H2' /\ H3' /\ H4'
        <2>1. /\ Moves(w, "unregister") /\ waiter' = waiter /\ job[w].pc = "kill"
              /\ os' = [os EXCEPT ![job[w].pid] = Killed(job[w].pid)]
            BY <1>8, JobMoves DEF TimeoutKill, BaseInv
        <2>2. \A v \in Workers, q \in Pids : Holds(v, q)' => Holds(v, q)
            BY <2>1 DEF Holds, Holding, Moves
        <2>3. \A q \in Pids : os[q] \in {"child", "zombie"} => os'[q] \in {"child", "zombie"}
            BY <1>t, <1>k, <2>1
        <2> QED BY <2>1, <2>2, <2>3 DEF Moves, Holding
    <1>9. ASSUME NEW w \in Workers, Wait(w)
          PROVE  H1' /\ H2' /\ H3' /\ H4'
        <2> PICK p \in Pids : p = job[w].pid
            BY <1>9, <1>p DEF Wait
        <2>1. /\ Moves(w, "unregister") /\ waiter' = waiter /\ job[w].pc = "wait"
              /\ os' = [os EXCEPT ![p] = "free"]
            BY <1>9, JobMoves DEF Wait, Reaped, BaseInv
        <2>2. Holds(w, p)
            BY <2>1 DEF Holds, Holding
        <2>3. \A v \in Workers : ~ Holds(v, p)'
            BY <2>1, <2>2 DEF Holds, Holding, Moves
        <2>4. \A v \in Workers, q \in Pids : Holds(v, q)' => Holds(v, q)
            BY <2>1 DEF Holds, Holding, Moves
        <2>5. waiter[p] = NoWorker
            BY <2>1 DEF Holding
        <2>6. \A q \in Pids \ {p} : os'[q] = os[q]
            BY <1>t, <2>1
        <2>7. /\ \A v \in Workers \ {w} : job'[v] = job[v]
              /\ job'[w].pc = "unregister" /\ job'[w].pid = p
            BY <2>1 DEF Moves
        <2>8. H1' /\ H2'
            BY <2>3, <2>4, <2>6
        <2>9. H3'
            BY <2>1, <2>5, <2>6, <2>7 DEF Holding
        <2>10. H4'
            BY <2>1, <2>7
        <2> QED BY <2>8, <2>9, <2>10
    <1>10. ASSUME NEW w \in Workers, Unregister(w) \/ ReadFails(w)
          PROVE  H1' /\ H2' /\ H3' /\ H4'
        <2>1. /\ \A v \in Workers \ {w} : job'[v] = job[v]
              /\ job'[w].pc = "idle" /\ job'[w].pid = NoPid /\ job'[w].chan = "empty"
            BY <1>10, JobMoves DEF NoJob, BaseInv
        <2>2. UNCHANGED <<os, waiter>>
            BY <1>10 DEF Unregister, ReadFails
        <2>3. \A v \in Workers, q \in Pids : Holds(v, q)' => Holds(v, q)
            BY <2>1, <2>2 DEF Holds, Holding
        <2> QED BY <1>t, <2>1, <2>2, <2>3 DEF Holding
    <1>11. ASSUME UNCHANGED <<job, waiter>>,
                  \A q \in Pids : os[q] \in {"child", "zombie"} => os'[q] \in {"child", "zombie"}
           PROVE  H1' /\ H2' /\ H3' /\ H4'
        <2>1. \A v \in Workers, q \in Pids : Holds(v, q)' <=> Holds(v, q)
            BY <1>11 DEF Holds
        <2> QED BY <1>11, <2>1
    <1>12. ASSUME NEW p \in Pids, OsStep(p)
           PROVE  H1' /\ H2' /\ H3' /\ H4'
        <2>1. /\ UNCHANGED <<job, waiter>>
              /\ \A q \in Pids : os[q] \in {"child", "zombie"} => os'[q] \in {"child", "zombie"}
            BY <1>t, <1>12 DEF OsStep, ChildExit, Recycle, ForeignExit, InitReap
        <2> QED BY <1>11, <2>1
    <1>13. ASSUME NEW c \in Cleaners, KillClaimed(c)
           PROVE  H1' /\ H2' /\ H3' /\ H4'
        <2>1. /\ UNCHANGED <<job, waiter>>
              /\ os' = [os EXCEPT ![Head(cleaner[c].claimed)] = Killed(Head(cleaner[c].claimed))]
            BY <1>13 DEF KillClaimed
        <2>2. \A q \in Pids : os[q] \in {"child", "zombie"} => os'[q] \in {"child", "zombie"}
            BY <1>t, <1>k, <2>1
        <2> QED BY <1>11, <2>1, <2>2
    <1>14. ASSUME \/ MainExit
                  \/ \E c \in Cleaners : \/ DefaultSignal(c) \/ CleanupBegin(c) \/ ClaimSlot(c)
                                         \/ CleanupEnd(c) \/ CleanerExit(c)
           PROVE  H1' /\ H2' /\ H3' /\ H4'
        <2>1. UNCHANGED <<job, waiter, os>>
            BY <1>14 DEF MainExit, DefaultSignal, CleanupBegin, ClaimSlot, CleanupEnd,
                   CleanerExit
        <2> QED BY <1>11, <2>1
    <1> HIDE DEF H1, H2, H3, H4
    <1> QED BY <1>1, <1>3, <1>4, <1>5, <1>6, <1>7, <1>8, <1>9, <1>10, <1>12, <1>13, <1>14
            DEF Next, WorkerStep, CallStep, ReaderStep, CleanerStep

-----------------------------------------------------------------------------
(* The first layer holds initially ... *)
LEMMA BaseInit == Init => BaseInv
    <1> SUFFICES ASSUME Init PROVE BaseInv
        OBVIOUS
    <1> USE DEF Init
    <1>1. Slots \in Nat \ {0} /\ 1 \in SlotIds /\ 1 \in 1..(Slots + 1)
        BY TrackerAssumption DEF SlotIds
    <1>2. NoJob \in JobType /\ NoJob.pc = "idle" /\ NoJob.chan = "empty" /\ NoJob.pid = NoPid
        BY <1>1 DEF NoJob, JobType
    <1>3. AtRest \in CleanerType /\ AtRest.pc = "idle" /\ AtRest.idx = 1
        BY <1>1 DEF AtRest, CleanerType
    <1>4. job \in [Workers -> JobType] /\ cleaner \in [Cleaners -> CleanerType]
        BY <1>2, <1>3
    <1>5. /\ \A w \in Workers : job[w].pc = "idle" /\ job[w].chan = "empty"
          /\ \A c \in Cleaners : cleaner[c].pc = "idle" /\ cleaner[c].idx = 1
        BY <1>2, <1>3
    <1>6. TypeOK
        <2>1. cleaning \in BOOLEAN
            OBVIOUS
        <2>2. /\ slots \in [SlotIds -> Pids \union {NoPid}]
              /\ os \in [Pids -> {"free", "child", "zombie", "foreign"}]
              /\ waiter \in [Pids -> Workers \union {NoWorker}]
            OBVIOUS
        <2> QED BY <1>4, <2>1, <2>2 DEF TypeOK, JobType, CleanerType
    <1>7. Tracked = {}
        BY DEF Tracked
    <1>8. StageInv
        BY <1>5, <1>7 DEF StageInv, Registered, Quiet
    <1>9. HoldInv
        BY <1>5 DEF HoldInv, Holds, Holding
    <1> QED BY <1>6, <1>8, <1>9 DEF BaseInv

(* ... and every step keeps it. *)
LEMMA BaseStep == BaseInv /\ [Next]_vars => BaseInv'
    <1>1. ASSUME BaseInv, Next PROVE BaseInv'
        BY <1>1, TypeStep, StageStep, HoldStep DEF BaseInv
    <1>2. ASSUME BaseInv, UNCHANGED vars PROVE BaseInv'
        <2> USE <1>2 DEF vars, BaseInv
        <2>1. TypeOK'
            BY DEF TypeOK
        <2>2. StageInv'
            BY DEF StageInv, Registered, Tracked, Quiet
        <2>3. HoldInv'
            BY DEF HoldInv, Alive, Holds
        <2> QED BY <2>1, <2>2, <2>3
    <1> QED BY <1>1, <1>2

(* The first layer of the invariant, for every mode of spawning. *)
THEOREM Base == Spec => []BaseInv
    BY BaseInit, BaseStep, PTL DEF Spec

(* Every variable keeps its type: no scan of register or cleanup_all leaves the
   table, and only process identifiers are claimed. *)
THEOREM TypeCorrect == Spec => []TypeOK
    BY Base, PTL DEF BaseInv

(* install_handlers: a driver that dies of a signal no handler caught leaves a
   tracked child behind only inside the window of the first registration. *)
THEOREM Handled == Spec => []HandledOnceTracked
    <1>1. BaseInv => HandledOnceTracked
        BY DEF BaseInv, TypeOK, StageInv, HandledOnceTracked
    <1> QED BY <1>1, Base, PTL

-----------------------------------------------------------------------------
(* Without run_piped no worker lets go of a running child: it was waited for, or
   the timeout has killed it. *)
LEMMA ChildStep ==
    ASSUME "piped" \notin Modes, BaseInv, ChildInv, Next
    PROVE  ChildInv'
    <1>t. /\ job \in [Workers -> JobType] /\ os \in [Pids -> {"free", "child", "zombie", "foreign"}]
          /\ waiter \in [Pids -> Workers \union {NoWorker}] /\ NoWorker \notin Workers
        BY TrackerAssumption DEF BaseInv, TypeOK, JobType
    <1>p. \A v \in Workers : /\ job[v].pc # "idle" => job[v].pid \in Pids
                             /\ job[v].pc \notin {"reading", "reregister"}
        BY DEF BaseInv, StageInv
    <1>k. \A q \in Pids : Killed(q) # "child"
        BY KilledType DEF BaseInv
    <1>1. ASSUME NEW w \in Workers, NEW mode \in Modes, NEW p \in Pids, Spawn(w, mode, p)
          PROVE  ChildInv'
        <2>1. /\ \A v \in Workers \ {w} : job'[v] = job[v]
              /\ job'[w].pc = "register" /\ job'[w].pid = p
            BY <1>1, SpawnMoves DEF BaseInv
        <2>2. /\ os' = [os EXCEPT ![p] = "child"] /\ waiter' = waiter /\ job[w].pc = "idle"
            BY <1>1 DEF Spawn
        <2>3. Holds(w, p)'
            BY <2>1 DEF Holds, Holding
        <2>4. \A v \in Workers, q \in Pids : Holds(v, q) => Holds(v, q)'
            BY <2>1, <2>2 DEF Holds, Holding
        <2> QED BY <1>t, <2>2, <2>3, <2>4 DEF ChildInv
    <1>2. ASSUME NEW w \in Workers, NEW next, Moves(w, next), UNCHANGED <<os, waiter>>,
                 \/ next \in Holding
                 \/ job[w].pc \in {"recv", "kill"} /\ next \in {"recv", "kill"}
                 \/ \A q \in Pids : ~ Holds(w, q)
          PROVE  ChildInv'
        <2>1. \A v \in Workers, q \in Pids : Holds(v, q) => Holds(v, q)'
            BY <1>2 DEF Holds, Holding, Moves
        <2> QED BY <1>2, <2>1 DEF ChildInv
    <1>3. ASSUME NEW w \in Workers,
                 TakeFlag(w) \/ InstallHandlers(w) \/ Register(w) \/ Reregister(w) \/ ReadToEnd(w)
          PROVE  ChildInv'
        <2>1. UNCHANGED <<os, waiter>>
            BY <1>3 DEF TakeFlag, InstallHandlers, Register, Reregister, ReadToEnd
        <2>2. \E next \in Holding : Moves(w, next)
            <3>1. CASE TakeFlag(w) \/ InstallHandlers(w) \/ ReadToEnd(w)
                BY <3>1, JobMoves DEF Holding, BaseInv
            <3>2. CASE Register(w) \/ Reregister(w)
                <4>1. AfterRegister(w) \in Holding
                    <5>1. job[w].mode \in {"untimed", "timed", "piped"}
                        BY <1>t DEF JobType
                    <5> QED BY <5>1 DEF AfterRegister, Holding
                <4> QED BY <3>2, <4>1, Registrations, RegisterMoves DEF Holding, BaseInv
            <3> QED BY <1>3, <3>1, <3>2
        <2> QED BY <1>2, <2>1, <2>2
    <1>4. ASSUME NEW w \in Workers, Detach(w)
          PROVE  ChildInv'
        <2>0. PICK p \in Pids : p = job[w].pid
            BY <1>4, <1>p DEF Detach
        <2>1. /\ Moves(w, "recv") /\ os' = os /\ waiter' = [waiter EXCEPT ![p] = w]
              /\ job[w].pc = "detach"
            BY <1>4, <2>0, JobMoves DEF Detach, BaseInv
        <2>2. waiter'[p] = w /\ \A q \in Pids \ {p} : waiter'[q] = waiter[q]
            BY <1>t, <2>1
        <2>3. waiter[p] = NoWorker
            BY <2>0, <2>1, <1>4 DEF BaseInv, HoldInv, Holding, Detach
        <2>4. \A v \in Workers, q \in Pids : Holds(v, q) => Holds(v, q)'
            BY <1>t, <2>0, <2>1, <2>2, <2>3 DEF Holds, Holding, Moves
        <2> QED BY <2>1, <2>4 DEF ChildInv
    <1>5. ASSUME NEW w \in Workers, Recv(w) \/ Timeout(w)
          PROVE  ChildInv'
        <2>1. UNCHANGED <<os, waiter>> /\ job[w].pc = "recv"
            BY <1>5 DEF Recv, Timeout
        <2>2. CASE Timeout(w)
            BY <1>2, <2>1, <2>2, JobMoves DEF BaseInv
        <2>3. CASE Recv(w)
            <3>1. waiter[job[w].pid] # w
                BY <2>1, <2>3 DEF Recv, BaseInv, HoldInv
            <3>2. \A q \in Pids : ~ Holds(w, q)
                BY <2>1, <3>1 DEF Holds, Holding
            <3> QED BY <1>2, <2>1, <2>3, <3>2, JobMoves DEF BaseInv
        <2> QED BY <1>5, <2>2, <2>3
    <1>6. ASSUME \E w \in Workers : WaiterSend(w)
          PROVE  ChildInv'
        <2>1. ChannelOnly /\ UNCHANGED <<os, waiter>>
            BY <1>6, WaiterMoves DEF WaiterSend, BaseInv
        <2> QED BY <2>1 DEF ChildInv, Holds, ChannelOnly
    <1>7. ASSUME NEW p \in Pids, WaiterReap(p)
          PROVE  ChildInv'
        <2>1. /\ ChannelOnly /\ os' = [os EXCEPT ![p] = "free"]
              /\ waiter' = [waiter EXCEPT ![p] = NoWorker]
            BY <1>7, WaiterMoves DEF WaiterReap, Reaped, BaseInv
        <2>2. \A q \in Pids \ {p} : os'[q] = os[q] /\ waiter'[q] = waiter[q]
            BY <1>t, <2>1
        <2>3. os'[p] # "child"
            BY <1>t, <2>1
        <2> QED BY <2>1, <2>2, <2>3 DEF ChildInv, Holds, ChannelOnly
    <1>8. ASSUME NEW w \in Workers, TimeoutKill(w) \/ Wait(w)
          PROVE  ChildInv'
        <2>0. PICK p \in Pids : p = job[w].pid
            BY <1>8, <1>p DEF TimeoutKill, Wait
        <2>1. Moves(w, "unregister") /\ waiter' = waiter
            BY <1>8, JobMoves DEF TimeoutKill, Wait, BaseInv
        <2>2. os'[p] # "child" /\ \A q \in Pids \ {p} : os'[q] = os[q]
            BY <1>t, <1>k, <1>8, <2>0 DEF TimeoutKill, Wait, Reaped
        <2>3. \A v \in Workers, q \in Pids \ {p} : Holds(v, q) => Holds(v, q)'
            BY <2>0, <2>1 DEF Holds, Moves
        <2> QED BY <2>2, <2>3 DEF ChildInv
    <1>9. ASSUME NEW w \in Workers, Unregister(w) \/ ReadFails(w)
          PROVE  ChildInv'
        <2>1. /\ \A v \in Workers \ {w} : job'[v] = job[v]
              /\ UNCHANGED <<os, waiter>> /\ job[w].pc = "unregister"
            BY <1>9, <1>p, JobMoves DEF Unregister, ReadFails, BaseInv
        <2> QED BY <2>1 DEF ChildInv, Holds, Holding
    <1>10. ASSUME UNCHANGED <<job, waiter>>,
                  \A q \in Pids : os'[q] = "child" => os[q] = "child"
           PROVE  ChildInv'
        BY <1>10 DEF ChildInv, Holds
    <1>11. ASSUME NEW p \in Pids, OsStep(p)
           PROVE  ChildInv'
        <2>1. UNCHANGED <<job, waiter>> /\ \A q \in Pids : os'[q] = "child" => os[q] = "child"
            BY <1>t, <1>11 DEF OsStep, ChildExit, Recycle, ForeignExit, InitReap
        <2> QED BY <1>10, <2>1
    <1>12. ASSUME NEW c \in Cleaners, KillClaimed(c)
           PROVE  ChildInv'
        <2>1. /\ UNCHANGED <<job, waiter>>
              /\ os' = [os EXCEPT ![Head(cleaner[c].claimed)] = Killed(Head(cleaner[c].claimed))]
            BY <1>12 DEF KillClaimed
        <2>2. \A q \in Pids : os'[q] = "child" => os[q] = "child"
            BY <1>t, <1>k, <2>1
        <2> QED BY <1>10, <2>1, <2>2
    <1>13. ASSUME \/ MainExit
                  \/ \E c \in Cleaners : \/ DefaultSignal(c) \/ CleanupBegin(c) \/ ClaimSlot(c)
                                         \/ CleanupEnd(c) \/ CleanerExit(c)
           PROVE  ChildInv'
        <2>1. UNCHANGED <<job, waiter, os>>
            BY <1>13 DEF MainExit, DefaultSignal, CleanupBegin, ClaimSlot, CleanupEnd,
                   CleanerExit
        <2> QED BY <1>10, <2>1
    <1> QED BY <1>1, <1>3, <1>4, <1>5, <1>6, <1>7, <1>8, <1>9, <1>11, <1>12, <1>13
            DEF Next, WorkerStep, CallStep, ReaderStep, CleanerStep

-----------------------------------------------------------------------------
(* Counting slots and jobs. *)

(* The sets that are counted are finite. *)
LEMMA Finite ==
    /\ \A S : S \subseteq SlotIds \/ S \subseteq Workers =>
                  IsFiniteSet(S) /\ Cardinality(S) \in Nat
    /\ Cardinality(Workers) \in Nat
    <1>1. IsFiniteSet(SlotIds) /\ IsFiniteSet(Workers)
        BY TrackerAssumption, FS_Interval DEF SlotIds
    <1>2. ASSUME NEW S, S \subseteq SlotIds \/ S \subseteq Workers PROVE IsFiniteSet(S)
        BY <1>1, <1>2, FS_Subset
    <1> QED BY <1>1, <1>2, FS_CardinalityType

(* register's steps on the table: it enters the child, goes on, or gives up. *)
LEMMA RegisterTable ==
    ASSUME "piped" \notin Modes, BaseInv, NEW w \in Workers, Register(w)
    PROVE  LET i == job[w].idx
               r == job[w].pid
           IN
           /\ i \in SlotIds /\ r \in Pids /\ job[w].pc = "register"
           /\ \A v \in Workers \ {w} : job'[v] = job[v]
           /\ job'[w].pid = r
           /\ UNCHANGED <<cleaning, driver, os, waiter, cleaner, owed>>
           /\ \/ /\ slots[i] = NoPid /\ slots' = [slots EXCEPT ![i] = r]
                 /\ job'[w].pc \in {"wait", "detach"}
              \/ /\ slots[i] # NoPid /\ slots' = slots /\ i < Slots
                 /\ job'[w].pc = "register" /\ job'[w].idx = i + 1
              \/ /\ slots[i] # NoPid /\ slots' = slots /\ i = Slots
                 /\ job'[w].pc \in {"wait", "detach"}
    <1>1. job[w].pc = "register"
        BY DEF Register
    <1>2. /\ job[w].mode \in {"untimed", "timed", "piped"} /\ job[w].mode # "piped"
          /\ job[w].pid \in Pids
        BY <1>1 DEF BaseInv, TypeOK, StageInv
    <1>3. AfterRegister(w) \in {"wait", "detach"}
        BY <1>2 DEF AfterRegister
    <1>4. /\ RegisterStep(w, AfterRegister(w))
          /\ UNCHANGED <<driver, os, waiter, cleaner, owed>>
        BY <1>1, Registrations
    <1> QED BY <1>1, <1>2, <1>3, <1>4, RegisterMoves DEF Moves, BaseInv

(* A set of naturals has a least element. *)
LEMMA Least ==
    ASSUME NEW S \in SUBSET Nat, S # {}
    PROVE  \E i \in S : \A j \in S : i <= j
    <1>1. PICK i \in S : \A j \in S : ~ (<<j, i>> \in OpToRel(<, Nat))
        BY WFMin, NatLessThanWellFounded
    <1>2. \A j \in S : ~ (j < i)
        BY <1>1 DEF OpToRel
    <1> QED BY <1>2

(* unregister frees the first slot that holds the PID. *)
LEMMA FreedSlot ==
    ASSUME TypeOK, NEW p \in Pids
    PROVE  \/ SlotsOf(p) = {} /\ Freed(p) = slots
           \/ \E i \in SlotsOf(p) : Freed(p) = [slots EXCEPT ![i] = NoPid]
    <1>1. p \in Tracked <=> SlotsOf(p) # {}
        BY TrackerAssumption DEF Tracked, SlotsOf
    <1>2. CASE p \notin Tracked
        BY <1>1, <1>2 DEF Freed
    <1>3. CASE p \in Tracked
        <2> DEFINE First(i) == slots[i] = p /\ \A j \in SlotIds : slots[j] = p => i <= j
        <2>1. \E i \in SlotIds : First(i)
            <3>1. SlotsOf(p) \in SUBSET Nat /\ SlotsOf(p) # {}
                BY <1>1, <1>3, TrackerAssumption DEF SlotsOf, SlotIds
            <3>2. PICK i \in SlotsOf(p) : \A j \in SlotsOf(p) : i <= j
                BY <3>1, Least
            <3> QED BY <3>2 DEF SlotsOf
        <2> DEFINE first == CHOOSE i \in SlotIds : First(i)
        <2>2. first \in SlotIds /\ First(first)
            BY <2>1, Zenon
        <2>3. Freed(p) = [slots EXCEPT ![first] = NoPid]
            BY <1>3 DEF Freed
        <2>4. first \in SlotsOf(p)
            BY <2>2 DEF SlotsOf
        <2> QED BY <2>3, <2>4
    <1> QED BY <1>2, <1>3

(* The steps that change the table or who is in it. *)
TableStep == \/ \E w \in Workers : Register(w) \/ Unregister(w)
             \/ \E c \in Cleaners : ClaimSlot(c)

(* All other steps leave the table, its jobs and the scans behind the first slot
   alone. *)
LEMMA Elsewhere ==
    ASSUME "piped" \notin Modes, BaseInv, [Next]_vars, ~TableStep
    PROVE  /\ slots' = slots
           /\ InTable' = InTable
           /\ \A p \in Pids : JobsOf(p)' = JobsOf(p) /\ SlotsOf(p)' = SlotsOf(p)
           /\ \A i \in Nat \ {0} : Scanning(i)' = Scanning(i) /\ Used(i)' = Used(i)
           /\ Used(0)' = Used(0)
    <1> DEFINE SameJobs ==
                 \A v \in Workers :
                    /\ Registered(v)' <=> Registered(v)
                    /\ Registered(v) => job'[v].pid = job[v].pid
                    /\ \A i \in Nat \ {0} :
                         job'[v].pc \in {"signals", "register"} /\ job'[v].idx > i <=>
                         job[v].pc \in {"signals", "register"} /\ job[v].idx > i
    <1>p. \A v \in Workers : job[v].pc \notin {"reading", "reregister"}
        BY DEF BaseInv, StageInv
    <1>1. ASSUME NEW w \in Workers, NEW mode \in Modes, NEW p \in Pids, Spawn(w, mode, p)
          PROVE  slots' = slots /\ SameJobs
        <2>1. /\ \A v \in Workers \ {w} : job'[v] = job[v]
              /\ job'[w].pc = "register" /\ job'[w].idx = 1
            BY <1>1, SpawnMoves DEF BaseInv
        <2>2. slots' = slots /\ job[w].pc = "idle"
            BY <1>1 DEF Spawn, table
        <2> QED BY <2>1, <2>2 DEF Registered
    <1>2. ASSUME NEW w \in Workers, TakeFlag(w) \/ InstallHandlers(w)
          PROVE  slots' = slots /\ SameJobs
        <2>1. /\ Moves(w, "signals") \/ Moves(w, "register")
              /\ job'[w].idx = job[w].idx /\ job[w].pc \in {"signals", "register"}
              /\ slots' = slots
            BY <1>2, JobMoves DEF TakeFlag, InstallHandlers, BaseInv
        <2> QED BY <2>1 DEF Moves, Registered
    <1>3. ASSUME NEW w \in Workers,
                 Detach(w) \/ Recv(w) \/ Timeout(w) \/ TimeoutKill(w) \/ Wait(w)
          PROVE  slots' = slots /\ SameJobs
        <2>1. /\ \E next \in {"recv", "unregister", "kill"} : Moves(w, next)
              /\ job[w].pc \in {"detach", "recv", "kill", "wait"}
            BY <1>3, JobMoves DEF Detach, Recv, Timeout, TimeoutKill, Wait, BaseInv
        <2>2. slots' = slots
            BY <1>3 DEF Detach, Recv, Timeout, TimeoutKill, Wait, table
        <2> QED BY <2>1, <2>2 DEF Moves, Registered
    <1>4. ASSUME \/ \E w \in Workers : WaiterSend(w)
                 \/ \E p \in Pids : WaiterReap(p)
          PROVE  slots' = slots /\ SameJobs
        <2>1. ChannelOnly
            BY <1>4, WaiterMoves DEF BaseInv
        <2>2. slots' = slots
            BY <1>4 DEF WaiterSend, WaiterReap, table
        <2> QED BY <2>1, <2>2 DEF ChannelOnly, Registered
    <1>5. ASSUME NEW w \in Workers, ReaderStep(w) \/ Reregister(w)
          PROVE  FALSE
        BY <1>5, <1>p DEF ReaderStep, ReadToEnd, ReadFails, Reregister
    <1>6. ASSUME \/ \E p \in Pids : OsStep(p)
                 \/ \E c \in Cleaners : \/ DefaultSignal(c) \/ CleanupBegin(c) \/ KillClaimed(c)
                                        \/ CleanupEnd(c) \/ CleanerExit(c)
                 \/ MainExit
                 \/ UNCHANGED vars
          PROVE  slots' = slots /\ SameJobs
        <2>1. slots' = slots /\ job' = job
            BY <1>6 DEF OsStep, ChildExit, Recycle, ForeignExit, InitReap, DefaultSignal,
                   CleanupBegin, KillClaimed, CleanupEnd, CleanerExit, MainExit, vars, table
        <2> QED BY <2>1 DEF Registered
    <1>7. slots' = slots /\ SameJobs
        <2> HIDE DEF SameJobs
        <2> QED BY <1>1, <1>2, <1>3, <1>4, <1>5, <1>6
            DEF Next, WorkerStep, CallStep, CleanerStep, TableStep
    <1>8. InTable' = InTable
        BY <1>7 DEF InTable
    <1>9. \A p \in Pids : JobsOf(p)' = JobsOf(p) /\ SlotsOf(p)' = SlotsOf(p)
        BY <1>7 DEF JobsOf, SlotsOf
    <1>10. ASSUME NEW i \in Nat \ {0} PROVE Scanning(i)' = Scanning(i)
        BY <1>7 DEF Scanning
    <1>11. ASSUME NEW i \in Nat PROVE Used(i)' = Used(i)
        BY <1>7 DEF Used
    <1> QED BY <1>7, <1>8, <1>9, <1>10, <1>11

(* unregister takes the job out of the table, and one slot of its PID. *)
LEMMA UnregisterTable ==
    ASSUME BaseInv, NEW w \in Workers, Unregister(w), NEW r \in Pids, r = job[w].pid
    PROVE  /\ w \in JobsOf(r)
           /\ \A v \in Workers \ {w} : job'[v] = job[v]
           /\ job'[w].pc = "idle" /\ job'[w].pid = NoPid
           /\ UNCHANGED <<cleaning, driver, os, waiter, cleaner, owed>>
           /\ \A p \in Pids \ {r} : JobsOf(p)' = JobsOf(p) /\ SlotsOf(p)' = SlotsOf(p)
           /\ JobsOf(r)' = JobsOf(r) \ {w}
           /\ InTable' = InTable \ {w} /\ w \in InTable
           /\ \A i \in Nat : Scanning(i)' = Scanning(i) /\ Used(i)' \subseteq Used(i)
           /\ \/ SlotsOf(r) = {} /\ SlotsOf(r)' = {} /\ slots' = slots
              \/ \E i \in SlotsOf(r) : /\ SlotsOf(r)' = SlotsOf(r) \ {i}
                                       /\ Used(0)' = Used(0) \ {i} /\ i \in Used(0)
    <1>1. /\ \A v \in Workers \ {w} : job'[v] = job[v]
          /\ job'[w].pc = "idle" /\ job'[w].pid = NoPid
        BY JobMoves DEF NoJob, BaseInv
    <1>2. /\ job[w].pc = "unregister" /\ slots' = Freed(r)
          /\ UNCHANGED <<cleaning, driver, os, waiter, cleaner, owed>>
        BY DEF Unregister
    <1>3. \A p \in Pids \ {r} : JobsOf(p)' = JobsOf(p)
        BY <1>1, <1>2 DEF JobsOf, Registered
    <1>4. /\ JobsOf(r)' = JobsOf(r) \ {w} /\ InTable' = InTable \ {w}
          /\ w \in JobsOf(r) /\ w \in InTable
        BY <1>1, <1>2 DEF JobsOf, InTable, Registered
    <1>5. ASSUME NEW i \in Nat PROVE Scanning(i)' = Scanning(i)
        BY <1>1, <1>2 DEF Scanning
    <1>6. /\ \A p \in Pids \ {r} : SlotsOf(p)' = SlotsOf(p)
          /\ \A i \in Nat : Used(i)' \subseteq Used(i)
          /\ \/ SlotsOf(r) = {} /\ SlotsOf(r)' = {} /\ slots' = slots
             \/ \E i \in SlotsOf(r) : /\ SlotsOf(r)' = SlotsOf(r) \ {i}
                                      /\ Used(0)' = Used(0) \ {i} /\ i \in Used(0)
        <2>1. NoPid \notin Pids /\ Slots \in Nat /\ slots \in [SlotIds -> Pids \union {NoPid}]
            BY TrackerAssumption DEF BaseInv, TypeOK
        <2>2. CASE SlotsOf(r) = {} /\ slots' = slots
            BY <2>2 DEF SlotsOf, Used
        <2>3. ASSUME NEW i \in SlotsOf(r), slots' = [slots EXCEPT ![i] = NoPid]
              PROVE  /\ \A p \in Pids \ {r} : SlotsOf(p)' = SlotsOf(p)
                     /\ \A k \in Nat : Used(k)' \subseteq Used(k)
                     /\ SlotsOf(r)' = SlotsOf(r) \ {i}
                     /\ Used(0)' = Used(0) \ {i} /\ i \in Used(0)
            <3>1. i \in SlotIds /\ slots[i] = r /\ i > 0
                BY <2>1 DEF SlotsOf, SlotIds
            <3>2. slots'[i] = NoPid /\ \A j \in SlotIds \ {i} : slots'[j] = slots[j]
                BY <2>1, <2>3, <3>1
            <3> QED BY <2>1, <3>1, <3>2 DEF SlotsOf, Used
        <2> QED BY <1>2, <2>2, <2>3, FreedSlot DEF BaseInv
    <1> QED BY <1>1, <1>2, <1>3, <1>4, <1>5, <1>6

(* cleanup_all empties the slot it looks at. *)
LEMMA ClaimTable ==
    ASSUME BaseInv, NEW c \in Cleaners, ClaimSlot(c)
    PROVE  LET i == cleaner[c].idx IN
           /\ i \in SlotIds /\ UNCHANGED <<job, os, waiter, driver, owed>>
           /\ \A p \in Pids : JobsOf(p)' = JobsOf(p) /\ SlotsOf(p)' = SlotsOf(p) \ {i}
    <1>1. /\ cleaner[c].idx \in SlotIds /\ slots \in [SlotIds -> Pids \union {NoPid}]
          /\ NoPid \notin Pids
        BY TrackerAssumption DEF BaseInv, TypeOK, StageInv, ClaimSlot, SlotIds
    <1>2. /\ slots' = [slots EXCEPT ![cleaner[c].idx] = NoPid]
          /\ UNCHANGED <<job, os, waiter, driver, owed>>
        BY DEF ClaimSlot
    <1>3. /\ slots'[cleaner[c].idx] = NoPid
          /\ \A j \in SlotIds \ {cleaner[c].idx} : slots'[j] = slots[j]
        BY <1>1, <1>2
    <1>4. \A p \in Pids : SlotsOf(p)' = SlotsOf(p) \ {cleaner[c].idx}
        BY <1>1, <1>3 DEF SlotsOf
    <1>5. \A p \in Pids : JobsOf(p)' = JobsOf(p)
        BY <1>2 DEF JobsOf, Registered
    <1> QED BY <1>1, <1>2, <1>4, <1>5

(* A worker that takes a slot enters one job and one slot under its PID. *)
LEMMA SlotTaken ==
    ASSUME TypeOK, NEW w \in Workers, NEW r \in Pids, r = job[w].pid, NEW i \in SlotIds,
           job[w].pc = "register", job'[w].pc \in {"wait", "detach"}, job'[w].pid = r,
           \A v \in Workers \ {w} : job'[v] = job[v],
           slots[i] = NoPid, slots' = [slots EXCEPT ![i] = r]
    PROVE  /\ \A p \in Pids \ {r} : JobsOf(p)' = JobsOf(p) /\ SlotsOf(p)' = SlotsOf(p)
           /\ JobsOf(r)' = JobsOf(r) \union {w} /\ w \notin JobsOf(r)
           /\ SlotsOf(r)' = SlotsOf(r) \union {i} /\ i \notin SlotsOf(r)
           /\ InTable' = InTable \union {w} /\ w \notin InTable
           /\ Used(0)' = Used(0) \union {i} /\ i \notin Used(0)
    <1>1. /\ slots \in [SlotIds -> Pids \union {NoPid}] /\ NoPid \notin Pids
          /\ SlotIds \subseteq Nat \ {0}
        BY TrackerAssumption DEF TypeOK, SlotIds
    <1>2. slots'[i] = r /\ \A j \in SlotIds \ {i} : slots'[j] = slots[j]
        BY <1>1
    <1>3. /\ \A p \in Pids \ {r} : SlotsOf(p)' = SlotsOf(p)
          /\ SlotsOf(r)' = SlotsOf(r) \union {i} /\ i \notin SlotsOf(r)
        BY <1>1, <1>2 DEF SlotsOf
    <1>4. Used(0)' = Used(0) \union {i} /\ i \notin Used(0)
        BY <1>1, <1>2 DEF Used
    <1>5. /\ \A p \in Pids \ {r} : JobsOf(p)' = JobsOf(p)
          /\ JobsOf(r)' = JobsOf(r) \union {w} /\ w \notin JobsOf(r)
        BY DEF JobsOf, Registered
    <1>6. InTable' = InTable \union {w} /\ w \notin InTable
        BY DEF InTable, Registered
    <1> QED BY <1>3, <1>4, <1>5, <1>6

(* A worker that goes on to the next slot changes neither. *)
LEMMA SlotPassed ==
    ASSUME NEW w \in Workers, job[w].pc = "register", job'[w].pc = "register",
           \A v \in Workers \ {w} : job'[v] = job[v], slots' = slots
    PROVE  /\ \A p \in Pids : JobsOf(p)' = JobsOf(p) /\ SlotsOf(p)' = SlotsOf(p)
           /\ InTable' = InTable
           /\ \A i \in Nat : Used(i)' = Used(i)
    BY DEF JobsOf, SlotsOf, InTable, Used, Registered

(* A child never has more slots than jobs. *)
LEMMA OnceStep ==
    ASSUME "piped" \notin Modes, BaseInv, RegistrationIdempotent, [Next]_vars
    PROVE  RegistrationIdempotent'
    <1> SUFFICES ASSUME NEW p \in Pids
                 PROVE  Cardinality(SlotsOf(p)') <= Cardinality(JobsOf(p)')
        BY DEF RegistrationIdempotent
    <1>1. /\ IsFiniteSet(SlotsOf(p)) /\ Cardinality(SlotsOf(p)) \in Nat
          /\ IsFiniteSet(JobsOf(p)) /\ Cardinality(JobsOf(p)) \in Nat
        BY Finite DEF SlotsOf, JobsOf
    <1>2. Cardinality(SlotsOf(p)) <= Cardinality(JobsOf(p))
        BY DEF RegistrationIdempotent
    <1>3. CASE ~TableStep
        BY <1>2, <1>3, Elsewhere
    <1>4. ASSUME NEW w \in Workers, Register(w)
          PROVE  Cardinality(SlotsOf(p)') <= Cardinality(JobsOf(p)')
        <2>1. PICK r \in Pids, i \in SlotIds : r = job[w].pid /\ i = job[w].idx
            BY <1>4, RegisterTable
        <2>2. /\ job[w].pc = "register" /\ job'[w].pid = r
              /\ \A v \in Workers \ {w} : job'[v] = job[v]
            BY <1>4, <2>1, RegisterTable
        <2>3. CASE /\ slots[i] = NoPid /\ slots' = [slots EXCEPT ![i] = r]
                   /\ job'[w].pc \in {"wait", "detach"}
            <3>0. /\ \A q \in Pids \ {r} : JobsOf(q)' = JobsOf(q) /\ SlotsOf(q)' = SlotsOf(q)
                  /\ JobsOf(r)' = JobsOf(r) \union {w} /\ w \notin JobsOf(r)
                  /\ SlotsOf(r)' = SlotsOf(r) \union {i} /\ i \notin SlotsOf(r)
                <4>1. TypeOK
                    BY DEF BaseInv
                <4>2. r = job[w].pid /\ job[w].pc = "register" /\ job'[w].pid = r
                    BY <2>1, <2>2
                <4>3. /\ \A v \in Workers \ {w} : job'[v] = job[v]
                      /\ job'[w].pc \in {"wait", "detach"}
                      /\ slots[i] = NoPid /\ slots' = [slots EXCEPT ![i] = r]
                    BY <2>2, <2>3
                <4> QED BY ONLY <4>1, <4>2, <4>3, SlotTaken, w \in Workers, r \in Pids,
                                i \in SlotIds
            <3>1. /\ p # r => JobsOf(p)' = JobsOf(p) /\ SlotsOf(p)' = SlotsOf(p)
                  /\ p = r => /\ JobsOf(p)' = JobsOf(p) \union {w} /\ w \notin JobsOf(p)
                              /\ SlotsOf(p)' = SlotsOf(p) \union {i} /\ i \notin SlotsOf(p)
                BY <3>0
            <3>2. CASE p # r
                BY <1>2, <3>1, <3>2
            <3>3. CASE p = r
                <4>1. Cardinality(SlotsOf(p)') = Cardinality(SlotsOf(p)) + 1
                    BY <1>1, <3>1, <3>3, FS_AddElement
                <4>2. Cardinality(JobsOf(p)') = Cardinality(JobsOf(p)) + 1
                    BY <1>1, <3>1, <3>3, FS_AddElement
                <4> QED BY <1>1, <1>2, <4>1, <4>2
            <3> QED BY <3>2, <3>3
        <2>4. CASE slots' = slots /\ job'[w].pc = "register"
            <3>1. JobsOf(p)' = JobsOf(p) /\ SlotsOf(p)' = SlotsOf(p)
                BY <2>2, <2>4, SlotPassed
            <3> QED BY <1>2, <3>1
        <2>5. CASE slots' = slots /\ job'[w].pc \in {"wait", "detach"}
            <3>1. SlotsOf(p)' = SlotsOf(p)
                BY <2>5 DEF SlotsOf
            <3>2. JobsOf(p) \in SUBSET (JobsOf(p)')
                BY <2>1, <2>2, <2>5 DEF JobsOf, Registered
            <3>3. IsFiniteSet(JobsOf(p)') /\ Cardinality(JobsOf(p)') \in Nat
                <4>1. JobsOf(p)' \subseteq Workers
                    BY DEF JobsOf
                <4> QED BY <4>1, Finite
            <3>4. Cardinality(JobsOf(p)) <= Cardinality(JobsOf(p)')
                BY <3>2, <3>3, FS_Subset
            <3> QED BY <1>1, <1>2, <3>1, <3>3, <3>4
        <2> QED BY <1>4, <2>1, <2>3, <2>4, <2>5, RegisterTable
    <1>5. ASSUME NEW w \in Workers, Unregister(w)
          PROVE  Cardinality(SlotsOf(p)') <= Cardinality(JobsOf(p)')
        <2>1. PICK r \in Pids : r = job[w].pid
            BY <1>5 DEF Unregister, BaseInv, StageInv
        <2>2. CASE p # r
            BY <1>2, <1>5, <2>1, <2>2, UnregisterTable
        <2>3. CASE p = r
            <3>1. w \in JobsOf(p) /\ JobsOf(p)' = JobsOf(p) \ {w}
                BY <1>5, <2>1, <2>3, UnregisterTable
            <3>2. Cardinality(JobsOf(p)') = Cardinality(JobsOf(p)) - 1
                BY <1>1, <3>1, FS_RemoveElement
            <3>3. Cardinality(JobsOf(p)') \in Nat
                BY <1>1, <3>1, FS_RemoveElement, FS_CardinalityType
            <3>4. CASE SlotsOf(p)' = {}
                BY <3>3, <3>4, FS_EmptySet
            <3>5. CASE \E i \in SlotsOf(p) : SlotsOf(p)' = SlotsOf(p) \ {i}
                <4>1. Cardinality(SlotsOf(p)') = Cardinality(SlotsOf(p)) - 1
                    BY <1>1, <3>5, FS_RemoveElement
                <4> QED BY <1>1, <1>2, <3>2, <4>1
            <3> QED BY <1>5, <2>1, <2>3, <3>4, <3>5, UnregisterTable
        <2> QED BY <2>2, <2>3
    <1>6. ASSUME NEW c \in Cleaners, ClaimSlot(c)
          PROVE  Cardinality(SlotsOf(p)') <= Cardinality(JobsOf(p)')
        <2>1. SlotsOf(p)' = SlotsOf(p) \ {cleaner[c].idx} /\ JobsOf(p)' = JobsOf(p)
            BY <1>6, ClaimTable
        <2>2. Cardinality(SlotsOf(p)') <= Cardinality(SlotsOf(p))
            BY <1>1, <2>1, FS_Subset
        <2>3. Cardinality(SlotsOf(p)') \in Nat
            BY <1>1, <2>1, FS_Subset, FS_CardinalityType
        <2> QED BY <1>1, <1>2, <2>1, <2>2, <2>3
    <1> QED BY <1>3, <1>4, <1>5, <1>6 DEF TableStep

(* The second layer holds initially and is kept. *)
LEMMA OnceInit == Init => OnceInv
    <1> SUFFICES ASSUME Init PROVE OnceInv
        OBVIOUS
    <1>1. ChildInv
        BY DEF Init, ChildInv
    <1>2. ASSUME NEW p \in Pids PROVE Cardinality(SlotsOf(p)) <= Cardinality(JobsOf(p))
        <2>1. SlotsOf(p) = {} /\ JobsOf(p) \subseteq Workers
            BY TrackerAssumption DEF Init, SlotsOf, JobsOf
        <2> QED BY <2>1, Finite, FS_EmptySet
    <1> QED BY <1>1, <1>2 DEF OnceInv, RegistrationIdempotent

(* Nothing but the two layers is needed to keep the second. *)
LEMMA OnceInvStep ==
    ASSUME "piped" \notin Modes
    PROVE  BaseInv /\ OnceInv /\ [Next]_vars => OnceInv'
    <1>1. ASSUME ChildInv, UNCHANGED vars PROVE ChildInv'
        BY <1>1 DEF ChildInv, Holds, vars
    <1> QED BY <1>1, ChildStep, OnceStep DEF OnceInv

(* Without run_piped nobody reads a pipe and nobody registers again: the steps are
   those of the timed and untimed calls. *)
THEOREM CallsOnly ==
    ASSUME "piped" \notin Modes
    PROVE  Spec => Init /\ [][CallNext]_vars
    <1>1. ASSUME BaseInv, [Next]_vars PROVE [CallNext]_vars
        <2>1. ASSUME NEW w \in Workers PROVE ~ReaderStep(w) /\ ~Reregister(w)
            <3>1. job[w].pc \notin {"reading", "reregister"}
                BY <1>1 DEF BaseInv, StageInv
            <3> QED BY <3>1 DEF ReaderStep, ReadToEnd, ReadFails, Reregister
        <2>2. Modes = Modes \ {"piped"}
            OBVIOUS
        <2> QED BY <1>1, <2>1, <2>2 DEF Next, CallNext, WorkerStep
    <1> QED BY <1>1, BaseInit, BaseStep, PTL DEF Spec

(* Without run_piped, the second layer. *)
THEOREM Once == ASSUME "piped" \notin Modes PROVE Spec => [](BaseInv /\ OnceInv)
    BY BaseInit, OnceInit, BaseStep, OnceInvStep, PTL DEF Spec

(* session/process.rs: a worker that is done with a child leaves no running
   process behind, unless it comes from run_piped. *)
THEOREM NoneAbandoned == ASSUME "piped" \notin Modes PROVE Spec => []NoAbandonedChild
    <1>1. OnceInv => NoAbandonedChild
        BY DEF OnceInv, ChildInv, NoAbandonedChild, Holds, Holding
    <1> QED BY <1>1, Once, PTL

(* register and unregister: whatever order children exit, time out and have
   their PIDs reused in, no PID has more slots than jobs. *)
THEOREM Idempotent == ASSUME "piped" \notin Modes PROVE Spec => []RegistrationIdempotent
    BY Once, PTL DEF OnceInv


-----------------------------------------------------------------------------
(* A table for every worker. *)

(* Only its own steps move a cleaner on. *)
LEMMA CleanerSteps ==
    ASSUME TypeOK, [Next]_vars, NEW c \in Cleaners
    PROVE  /\ cleaner'[c] # cleaner[c] => CleanupBegin(c) \/ CleanerStep(c)
           /\ cleaner'[c].pc = "idle" => cleaner[c].pc = "idle"
    <1>t. cleaner \in [Cleaners -> CleanerType]
        BY DEF TypeOK, CleanerType
    <1>1. CASE cleaner' = cleaner
        BY <1>1
    <1>2. ASSUME NEW d \in Cleaners, CleanupBegin(d) \/ CleanerStep(d)
          PROVE  /\ c # d => cleaner'[c] = cleaner[c]
                 /\ cleaner'[c].pc = "idle" => cleaner[c].pc = "idle"
        BY <1>t, <1>2 DEF CleanupBegin, CleanerStep, ClaimSlot, KillClaimed, CleanupEnd,
               CleanerExit, CleanerType
    <1>3. CASE ~ \E d \in Cleaners : CleanupBegin(d) \/ CleanerStep(d)
        <2>1. cleaner' = cleaner
            BY <1>3 DEF Next, vars, Spawn, WorkerStep, CallStep, TakeFlag, InstallHandlers, Register,
                   Reregister, Detach, WaiterSend, Recv, Timeout, TimeoutKill, Wait, Unregister,
                   ReaderStep, ReadToEnd, ReadFails, WaiterReap, OsStep, ChildExit, Recycle,
                   ForeignExit, InitReap, DefaultSignal, MainExit
        <2> QED BY <1>1, <2>1
    <1> QED BY <1>2, <1>3

(* A cleaner that has started is never idle again. *)
LEMMA QuietBefore ==
    ASSUME TypeOK, [Next]_vars
    PROVE  Quiet' => Quiet
    BY CleanerSteps DEF Quiet

(* The sets that ScanInv counts. *)
LEMMA Counted ==
    ASSUME NEW i
    PROVE  /\ IsFiniteSet(Scanning(i)) /\ Cardinality(Scanning(i)) \in Nat
           /\ IsFiniteSet(Used(i)) /\ Cardinality(Used(i)) \in Nat
           /\ IsFiniteSet(InTable) /\ Cardinality(InTable) \in Nat
    <1>1. Scanning(i) \subseteq Workers /\ Used(i) \subseteq SlotIds /\ InTable \subseteq Workers
        BY DEF Scanning, Used, InTable
    <1> QED BY <1>1, Finite

(* The bound of ScanInv holds in front of the first slot too: a worker is looking
   for a slot or in the table, never both. *)
LEMMA Bound ==
    ASSUME TypeOK, Quiet, ScanInv, NEW i \in 0..Cardinality(Workers)
    PROVE  Cardinality(Scanning(i)) + Cardinality(Used(i)) <= Cardinality(Workers) - i
    <1>n. Cardinality(Workers) \in Nat
        BY Finite
    <1>1. CASE i # 0
        <2>1. i \in 1..Cardinality(Workers)
            BY <1>1, <1>n
        <2> QED BY <2>1 DEF ScanInv
    <1>2. CASE i = 0
        <2>1. Scanning(0) \subseteq Workers /\ InTable \subseteq Workers
            BY DEF Scanning, InTable
        <2>2. Scanning(0) \cap InTable = {}
            BY DEF Scanning, InTable, Registered
        <2>3. ~ (Cardinality(Scanning(0)) + Cardinality(InTable) > Cardinality(Workers))
            BY <2>1, <2>2, FS_MajoritiesIntersect, TrackerAssumption
        <2>4. Cardinality(Used(0)) <= Cardinality(InTable)
            BY DEF ScanInv
        <2>5. /\ Cardinality(Scanning(0)) \in Nat /\ Cardinality(Used(0)) \in Nat
              /\ Cardinality(InTable) \in Nat
            BY Counted
        <2> QED BY <1>n, <1>2, <2>3, <2>4, <2>5
    <1> QED BY <1>1, <1>2

(* A worker that finds its slot taken is not on the last slot any worker needs,
   and there is room for it among those further on. *)
LEMMA Crowd ==
    ASSUME TypeOK, Quiet, ScanInv, NEW w \in Workers, job[w].pc = "register",
           NEW k \in SlotIds, k = job[w].idx, slots[k] # NoPid
    PROVE  /\ k < Cardinality(Workers)
           /\ Cardinality(Scanning(k)) + Cardinality(Used(k)) + 1 <= Cardinality(Workers) - k
    <1>n. Cardinality(Workers) \in Nat /\ k \in Nat \ {0}
        BY Finite, TrackerAssumption DEF SlotIds
    <1>1. k <= Cardinality(Workers)
        <2> SUFFICES ASSUME k > Cardinality(Workers) PROVE FALSE
            BY <1>n
        <2>1. w \in Scanning(Cardinality(Workers))
            BY DEF Scanning
        <2>2. Cardinality(Scanning(Cardinality(Workers))) # 0
            BY <2>1, Counted, FS_EmptySet
        <2>3. Cardinality(Workers) \in 0..Cardinality(Workers)
            BY <1>n
        <2>4. Cardinality(Scanning(Cardinality(Workers))) + Cardinality(Used(Cardinality(Workers)))
                 <= Cardinality(Workers) - Cardinality(Workers)
            BY <2>3, Bound
        <2>5. /\ Cardinality(Scanning(Cardinality(Workers))) \in Nat
              /\ Cardinality(Used(Cardinality(Workers))) \in Nat
            BY Counted
        <2> QED BY <1>n, <2>2, <2>4, <2>5
    <1>2. PICK j \in 0..Cardinality(Workers) : j = k - 1
        BY <1>n, <1>1
    <1>3. Cardinality(Scanning(j)) + Cardinality(Used(j)) <= Cardinality(Workers) - j
        BY Bound
    <1>4. Cardinality(Scanning(k)) <= Cardinality(Scanning(j)) - 1
        <2>1. w \in Scanning(j) /\ Scanning(k) \subseteq Scanning(j) \ {w}
            BY <1>n, <1>2 DEF Scanning, TypeOK, SlotIds
        <2>2. /\ IsFiniteSet(Scanning(j) \ {w})
              /\ Cardinality(Scanning(j) \ {w}) = Cardinality(Scanning(j)) - 1
            BY <2>1, Counted, FS_RemoveElement
        <2> QED BY <2>1, <2>2, FS_Subset
    <1>5. Cardinality(Used(k)) <= Cardinality(Used(j)) - 1
        <2>1. k \in Used(j) /\ Used(k) \subseteq Used(j) \ {k}
            BY <1>n, <1>2 DEF Used, SlotIds
        <2>2. /\ IsFiniteSet(Used(j) \ {k})
              /\ Cardinality(Used(j) \ {k}) = Cardinality(Used(j)) - 1
            BY <2>1, Counted, FS_RemoveElement
        <2> QED BY <2>1, <2>2, FS_Subset
    <1>6. /\ Cardinality(Scanning(k)) \in Nat /\ Cardinality(Used(k)) \in Nat
          /\ Cardinality(Scanning(j)) \in Nat /\ Cardinality(Used(j)) \in Nat
        BY Counted
    <1> QED BY <1>n, <1>2, <1>3, <1>4, <1>5, <1>6


(* Registering: the worker takes a slot, and with it the place it had among those
   looking, or goes on to where there is room; it never gives up. *)
LEMMA ScanRegister ==
    ASSUME Roomy, BaseInv, Quiet, ScanInv, NEW w \in Workers, Register(w)
    PROVE  ScanInv'
    <1> USE DEF Roomy
    <1>n. Cardinality(Workers) \in Nat /\ TypeOK /\ SlotIds \subseteq Nat \ {0} /\ Slots \in Nat
        BY Finite, TrackerAssumption DEF SlotIds, BaseInv
    <1>s. /\ Cardinality(Used(0)) <= Cardinality(InTable)
          /\ \A i \in 1..Cardinality(Workers) :
                Cardinality(Scanning(i)) + Cardinality(Used(i)) <= Cardinality(Workers) - i
          /\ \A p \in Pids : Cardinality(SlotsOf(p)) >= Cardinality(JobsOf(p))
        BY DEF ScanInv
    <1>1. PICK r \in Pids, k \in SlotIds : r = job[w].pid /\ k = job[w].idx
        BY RegisterTable
    <1>2. /\ job[w].pc = "register" /\ job'[w].pid = r
          /\ \A v \in Workers \ {w} : job'[v] = job[v]
        BY <1>1, RegisterTable
    <1>3. CASE /\ slots[k] = NoPid /\ slots' = [slots EXCEPT ![k] = r]
               /\ job'[w].pc \in {"wait", "detach"}
        <2>1. /\ \A p \in Pids \ {r} : JobsOf(p)' = JobsOf(p) /\ SlotsOf(p)' = SlotsOf(p)
              /\ JobsOf(r)' = JobsOf(r) \union {w} /\ w \notin JobsOf(r)
              /\ SlotsOf(r)' = SlotsOf(r) \union {k} /\ k \notin SlotsOf(r)
              /\ InTable' = InTable \union {w} /\ w \notin InTable
              /\ Used(0)' = Used(0) \union {k} /\ k \notin Used(0)
            BY ONLY <1>n, <1>1, <1>2, <1>3, SlotTaken, w \in Workers, r \in Pids, k \in SlotIds
        <2>2. Cardinality(Used(0)') <= Cardinality(InTable')
            <3>1. Cardinality(Used(0)') = Cardinality(Used(0)) + 1
                BY <2>1, Counted, FS_AddElement
            <3>2. Cardinality(InTable') = Cardinality(InTable) + 1
                BY <2>1, Counted, FS_AddElement
            <3> QED BY <1>s, <3>1, <3>2, Counted
        <2>3. ASSUME NEW i \in 1..Cardinality(Workers)
              PROVE  Cardinality(Scanning(i)') + Cardinality(Used(i)') <= Cardinality(Workers) - i
            <3>1. Cardinality(Scanning(i)) + Cardinality(Used(i)) <= Cardinality(Workers) - i
                BY <1>s
            <3>2. slots'[k] = r /\ \A j \in SlotIds \ {k} : slots'[j] = slots[j]
                BY <1>n, <1>3 DEF TypeOK
            <3>3. CASE i < k
                <4>1. Scanning(i)' = Scanning(i) \ {w} /\ w \in Scanning(i)
                    BY <1>1, <1>2, <1>3, <3>3 DEF Scanning
                <4>2. Used(i)' = Used(i) \union {k} /\ k \notin Used(i)
                    BY <1>3, <3>2, <3>3, TrackerAssumption DEF Used
                <4>3. Cardinality(Scanning(i)') = Cardinality(Scanning(i)) - 1
                    BY <4>1, Counted, FS_RemoveElement
                <4>4. Cardinality(Used(i)') = Cardinality(Used(i)) + 1
                    BY <4>2, Counted, FS_AddElement
                <4> QED BY <1>n, <3>1, <4>3, <4>4, Counted
            <3>4. CASE ~(i < k)
                <4>1. Scanning(i)' = Scanning(i)
                    BY <1>1, <1>2, <1>3, <3>4 DEF Scanning
                <4>2. Used(i)' = Used(i)
                    BY <1>n, <3>2, <3>4 DEF Used
                <4> QED BY <3>1, <4>1, <4>2
            <3> QED BY <3>3, <3>4
        <2>4. ASSUME NEW p \in Pids PROVE Cardinality(SlotsOf(p)') >= Cardinality(JobsOf(p)')
            <3>1. /\ IsFiniteSet(SlotsOf(p)) /\ Cardinality(SlotsOf(p)) \in Nat
                  /\ IsFiniteSet(JobsOf(p)) /\ Cardinality(JobsOf(p)) \in Nat
                BY Finite DEF SlotsOf, JobsOf
            <3>2. CASE p = r
                <4>1. Cardinality(SlotsOf(p)') = Cardinality(SlotsOf(p)) + 1
                    BY <2>1, <3>1, <3>2, FS_AddElement
                <4>2. Cardinality(JobsOf(p)') = Cardinality(JobsOf(p)) + 1
                    BY <2>1, <3>1, <3>2, FS_AddElement
                <4> QED BY <1>s, <3>1, <4>1, <4>2
            <3>3. CASE p # r
                BY <1>s, <2>1, <3>3
            <3> QED BY <3>2, <3>3
        <2> QED BY <2>2, <2>3, <2>4 DEF ScanInv
    <1>4. CASE slots[k] # NoPid
        <2>1. /\ k < Cardinality(Workers)
              /\ Cardinality(Scanning(k)) + Cardinality(Used(k)) + 1 <= Cardinality(Workers) - k
            BY <1>n, <1>1, <1>2, <1>4, Crowd
        <2>2. slots' = slots /\ job'[w].pc = "register" /\ job'[w].idx = k + 1
            <3>1. k # Slots
                BY <1>n, <2>1
            <3> QED BY <1>1, <1>4, <3>1, RegisterTable
        <2>3. /\ \A p \in Pids : JobsOf(p)' = JobsOf(p) /\ SlotsOf(p)' = SlotsOf(p)
              /\ InTable' = InTable
              /\ \A i \in Nat : Used(i)' = Used(i)
            BY <1>2, <2>2, SlotPassed
        <2>4. ASSUME NEW i \in 1..Cardinality(Workers)
              PROVE  Cardinality(Scanning(i)') + Cardinality(Used(i)') <= Cardinality(Workers) - i
            <3>1. Used(i)' = Used(i)
                BY <2>3
            <3>2. CASE i = k
                <4>1. Scanning(i)' = Scanning(i) \union {w}
                    BY <1>n, <1>1, <1>2, <2>2, <3>2 DEF Scanning
                <4>2. Cardinality(Scanning(i)') <= Cardinality(Scanning(i)) + 1
                    <5>1. w \notin Scanning(i)
                        BY <1>n, <1>1, <3>2 DEF Scanning
                    <5>2. Cardinality(Scanning(i)') = Cardinality(Scanning(i)) + 1
                        BY <4>1, <5>1, Counted, FS_AddElement
                    <5> QED BY <5>2, Counted
                <4>3. Cardinality(Scanning(i)') \in Nat
                    BY <4>1, Counted, FS_AddElement, FS_CardinalityType
                <4> QED BY <1>n, <2>1, <3>1, <3>2, <4>2, <4>3, Counted
            <3>3. CASE i # k
                <4>1. Scanning(i)' = Scanning(i)
                    BY <1>n, <1>1, <1>2, <2>2, <3>3 DEF Scanning
                <4> QED BY <1>s, <3>1, <4>1
            <3> QED BY <3>2, <3>3
        <2>5. Used(0)' = Used(0)
            BY <2>3
        <2> QED BY <1>s, <2>3, <2>4, <2>5 DEF ScanInv
    <1>5. slots[k] # NoPid \/ (/\ slots[k] = NoPid /\ slots' = [slots EXCEPT ![k] = r]
                               /\ job'[w].pc \in {"wait", "detach"})
        BY <1>1, RegisterTable
    <1> QED BY <1>3, <1>4, <1>5

(* Unregistering: the job's child has a slot, and exactly one is freed. *)
LEMMA ScanUnregister ==
    ASSUME BaseInv, Quiet, ScanInv, NEW w \in Workers, Unregister(w)
    PROVE  ScanInv'
    <1>n. Cardinality(Workers) \in Nat
        BY Finite
    <1>s. /\ Cardinality(Used(0)) <= Cardinality(InTable)
          /\ \A i \in 1..Cardinality(Workers) :
                Cardinality(Scanning(i)) + Cardinality(Used(i)) <= Cardinality(Workers) - i
          /\ \A p \in Pids : Cardinality(SlotsOf(p)) >= Cardinality(JobsOf(p))
        BY DEF ScanInv
    <1>1. PICK r \in Pids : r = job[w].pid
        BY DEF Unregister, BaseInv, StageInv
    <1>2. /\ w \in JobsOf(r) /\ JobsOf(r)' = JobsOf(r) \ {w}
          /\ \A p \in Pids \ {r} : JobsOf(p)' = JobsOf(p) /\ SlotsOf(p)' = SlotsOf(p)
          /\ InTable' = InTable \ {w} /\ w \in InTable
          /\ \A i \in Nat : Scanning(i)' = Scanning(i) /\ Used(i)' \subseteq Used(i)
        BY <1>1, UnregisterTable
    <1>3. /\ IsFiniteSet(SlotsOf(r)) /\ Cardinality(SlotsOf(r)) \in Nat
          /\ IsFiniteSet(JobsOf(r)) /\ Cardinality(JobsOf(r)) \in Nat
        BY Finite DEF SlotsOf, JobsOf
    <1>4. SlotsOf(r) # {}
        <2>1. Cardinality(JobsOf(r)) # 0
            BY <1>2, <1>3, FS_EmptySet
        <2> QED BY <1>s, <1>3, <2>1, FS_EmptySet
    <1>5. PICK i \in SlotsOf(r) : /\ SlotsOf(r)' = SlotsOf(r) \ {i}
                                  /\ Used(0)' = Used(0) \ {i} /\ i \in Used(0)
        BY <1>1, <1>4, UnregisterTable
    <1>6. Cardinality(Used(0)') <= Cardinality(InTable')
        <2>1. Cardinality(Used(0)') = Cardinality(Used(0)) - 1
            BY <1>5, Counted, FS_RemoveElement
        <2>2. Cardinality(InTable') = Cardinality(InTable) - 1
            BY <1>2, Counted, FS_RemoveElement
        <2> QED BY <1>s, <2>1, <2>2, Counted
    <1>7. ASSUME NEW k \in 1..Cardinality(Workers)
          PROVE  Cardinality(Scanning(k)') + Cardinality(Used(k)') <= Cardinality(Workers) - k
        <2>1. Scanning(k)' = Scanning(k) /\ Used(k)' \in SUBSET Used(k)
            BY <1>2
        <2>2. Cardinality(Used(k)') <= Cardinality(Used(k)) /\ Cardinality(Used(k)') \in Nat
            BY <2>1, Counted, FS_Subset, FS_CardinalityType
        <2> QED BY <1>n, <1>s, <2>1, <2>2, Counted
    <1>8. ASSUME NEW p \in Pids PROVE Cardinality(SlotsOf(p)') >= Cardinality(JobsOf(p)')
        <2>1. CASE p = r
            <3>1. Cardinality(SlotsOf(r)') = Cardinality(SlotsOf(r)) - 1
                BY <1>3, <1>5, FS_RemoveElement
            <3>2. Cardinality(JobsOf(r)') = Cardinality(JobsOf(r)) - 1
                BY <1>2, <1>3, FS_RemoveElement
            <3> QED BY <1>s, <1>3, <2>1, <3>1, <3>2
        <2>2. CASE p # r
            BY <1>s, <1>2, <2>2
        <2> QED BY <2>1, <2>2
    <1> QED BY <1>6, <1>7, <1>8 DEF ScanInv

(* The third layer: until a cleanup begins, everybody finds a slot. *)
LEMMA ScanStep ==
    ASSUME Roomy, BaseInv, ScanInv, [Next]_vars
    PROVE  ScanInv'
    <1> SUFFICES ASSUME Quiet' PROVE ScanInv'
        BY DEF ScanInv
    <1>1. Quiet /\ "piped" \notin Modes
        BY QuietBefore DEF BaseInv, Roomy
    <1>2. ASSUME NEW c \in Cleaners, ClaimSlot(c) PROVE FALSE
        BY <1>1, <1>2 DEF ClaimSlot, Quiet
    <1>3. CASE ~TableStep
        <2>1. /\ InTable' = InTable /\ Used(0)' = Used(0)
              /\ \A p \in Pids : JobsOf(p)' = JobsOf(p) /\ SlotsOf(p)' = SlotsOf(p)
              /\ \A i \in Nat \ {0} : Scanning(i)' = Scanning(i) /\ Used(i)' = Used(i)
            BY <1>1, <1>3, Elsewhere
        <2>2. \A i \in 1..Cardinality(Workers) : i \in Nat \ {0}
            BY Finite
        <2> QED BY <1>1, <2>1, <2>2 DEF ScanInv
    <1> QED BY <1>1, <1>2, <1>3, ScanRegister, ScanUnregister DEF TableStep

(* It holds initially. *)
LEMMA ScanInit == Init => ScanInv
    <1> SUFFICES ASSUME Init PROVE ScanInv
        OBVIOUS
    <1>2. \A i \in Nat : Used(i) = {} /\ Cardinality(Used(i)) = 0
        BY FS_EmptySet DEF Init, Used
    <1>3. \A i \in Nat : Scanning(i) = {} /\ Cardinality(Scanning(i)) = 0
        BY FS_EmptySet DEF Init, Scanning, NoJob
    <1>4. \A p \in Pids : JobsOf(p) = {}
        BY DEF Init, JobsOf, Registered, NoJob
    <1>5. \A p \in Pids : SlotsOf(p) \subseteq SlotIds
        BY DEF SlotsOf
    <1>6. \A p \in Pids : Cardinality(SlotsOf(p)) >= Cardinality(JobsOf(p))
        BY <1>4, <1>5, Finite, FS_EmptySet
    <1>7. Cardinality(Workers) \in Nat /\ Cardinality(InTable) \in Nat
        BY Finite, Counted
    <1>8. \A i \in 1..Cardinality(Workers) :
             Cardinality(Scanning(i)) + Cardinality(Used(i)) <= Cardinality(Workers) - i
        BY <1>2, <1>3, <1>7
    <1> QED BY <1>2, <1>6, <1>7, <1>8 DEF ScanInv

(* The three layers. *)
LEMMA Scan == ASSUME Roomy PROVE Spec => [](BaseInv /\ ScanInv)
    BY BaseInit, ScanInit, BaseStep, ScanStep, PTL DEF Spec

(* session/process.rs and subprocess_tracker.rs: until a cleanup starts no child
   in flight is missing from a table that has a slot for every worker, whatever
   other registrations its scan meets and however slots are freed behind it. *)
THEOREM Tracks == ASSUME "piped" \notin Modes PROVE Spec => []TrackedWhileInFlight
    <1>1. CASE Slots >= Cardinality(Workers)
        <2>1. Roomy
            BY <1>1 DEF Roomy
        <2>2. ScanInv => TrackedWhileInFlight
            BY DEF ScanInv, TrackedWhileInFlight, Quiet
        <2> QED BY <2>1, <2>2, Scan, PTL
    <1>2. CASE ~(Slots >= Cardinality(Workers))
        <2>1. TrackedWhileInFlight
            BY <1>2 DEF TrackedWhileInFlight
        <2> QED BY <2>1, PTL
    <1> QED BY <1>1, <1>2


-----------------------------------------------------------------------------
(* A cleanup nobody interferes with. *)

(* A child the cleanup will answer for when it begins is held, not yet reaped,
   and in the table as often as it has jobs. *)
LEMMA CleanBegins ==
    ASSUME BaseInv, ScanInv, Quiet, NEW c \in Cleaners, CleanupBegin(c), NEW p \in owed'
    PROVE  /\ p \in Pids /\ os'[p] \in {"child", "zombie"}
           /\ cleaner'[c].pc = "claim" /\ Ahead(c, p)'
    <1>1. /\ ~cleaning /\ Alive /\ cleaner[c].idx = 1 /\ cleaner \in [Cleaners -> CleanerType]
          /\ slots \in [SlotIds -> Pids \union {NoPid}]
        BY DEF BaseInv, StageInv, TypeOK, CleanupBegin, CleanerType
    <1>2. /\ owed' = Owing /\ UNCHANGED <<slots, os, job, waiter>>
          /\ cleaner' = [cleaner EXCEPT ![c].pc = "claim"]
        BY <1>1 DEF CleanupBegin
    <1>3. p \in Pids
        BY <1>1, <1>2 DEF Owing, Tracked
    <1>4. PICK w \in Workers : /\ Holds(w, p)
                               /\ job[w].pc \notin {"signals", "register"}
        BY <1>2 DEF Owing, Holds, Holding
    <1>5. os[p] \in {"child", "zombie"}
        BY <1>1, <1>3, <1>4 DEF BaseInv, HoldInv
    <1>6. \A v \in Workers : job[v].pid = p => job[v].pc \notin {"signals", "register"}
        <2> SUFFICES ASSUME NEW v \in Workers, job[v].pid = p,
                            job[v].pc \in {"signals", "register"}
                     PROVE  FALSE
            OBVIOUS
        <2>1. Holds(v, p)
            BY DEF Holds, Holding
        <2>2. v = w
            BY <1>1, <1>3, <1>4, <2>1 DEF BaseInv, HoldInv
        <2> QED BY <1>4, <2>2
    <1>7. JobsOf(p)' = JobsOf(p) /\ SlotsOf(p)' = SlotsOf(p)
        BY <1>2 DEF JobsOf, SlotsOf, Registered
    <1>8. Cardinality(SlotsOf(p)) >= Cardinality(JobsOf(p))
        BY <1>3 DEF ScanInv
    <1>9. cleaner'[c].pc = "claim" /\ cleaner'[c].idx = 1
        BY <1>1, <1>2 DEF CleanerType
    <1>10. \A j \in SlotsOf(p)' : j >= cleaner'[c].idx
        BY <1>9, TrackerAssumption DEF SlotsOf, SlotIds
    <1> QED BY <1>2, <1>3, <1>5, <1>6, <1>7, <1>8, <1>9, <1>10 DEF Ahead

(* What a step can do to a child the cleanup owes. *)
LEMMA OwedChild ==
    ASSUME TypeOK, NEW p \in owed, p \in owed', [Next]_vars,
           Alive => os[p] \in {"child", "zombie"},
           ~ \E c \in Cleaners : CleanupBegin(c)
    PROVE  /\ Alive' => os'[p] \in {"child", "zombie"}
           /\ os'[p] = "child" => os[p] = "child"
    <1>t. p \in Pids /\ os \in [Pids -> {"free", "child", "zombie", "foreign"}]
        BY DEF TypeOK
    <1>k. \A q \in Pids : os[q] \in {"child", "zombie"} => Killed(q) = "zombie"
        BY KilledType
    <1>l. \A q \in Pids : Killed(q) # "child"
        BY KilledType
    <1>1. ASSUME NEW w \in Workers, NEW mode \in Modes, NEW q \in Pids, Spawn(w, mode, q)
          PROVE  Alive /\ os'[p] = os[p] /\ (Alive' <=> Alive)
        BY <1>t, <1>1 DEF Spawn, Alive
    <1>2. ASSUME NEW w \in Workers, Wait(w)
          PROVE  os'[p] = os[p] /\ (Alive' <=> Alive)
        BY <1>t, <1>2 DEF Wait, Reaped, Alive
    <1>3. ASSUME NEW q \in Pids, WaiterReap(q)
          PROVE  os'[p] = os[p] /\ (Alive' <=> Alive)
        BY <1>t, <1>3 DEF WaiterReap, Reaped, Alive
    <1>4. ASSUME NEW q \in Pids, OsStep(q)
          PROVE  /\ Alive' => os'[p] \in {"child", "zombie"}
                 /\ os'[p] = "child" => os[p] = "child"
        BY <1>t, <1>4 DEF OsStep, ChildExit, Recycle, ForeignExit, InitReap, Alive
    <1>5. ASSUME NEW q, os' = [os EXCEPT ![q] = Killed(q)], Alive, q \in Pids
          PROVE  /\ os'[p] \in {"child", "zombie"}
                 /\ os'[p] = "child" => os[p] = "child"
        BY <1>t, <1>k, <1>5
    <1>6. ASSUME NEW w \in Workers, TimeoutKill(w)
          PROVE  /\ os'[p] \in {"child", "zombie"}
                 /\ os'[p] = "child" => os[p] = "child"
        <2>1. os' = [os EXCEPT ![job[w].pid] = Killed(job[w].pid)] /\ Alive
            BY <1>6 DEF TimeoutKill
        <2>2. CASE job[w].pid \in Pids
            BY <1>5, <2>1, <2>2
        <2>3. CASE job[w].pid \notin Pids
            BY <1>t, <2>1, <2>3
        <2> QED BY <2>2, <2>3
    <1>7. ASSUME NEW c \in Cleaners, KillClaimed(c)
          PROVE  /\ os'[p] \in {"child", "zombie"}
                 /\ os'[p] = "child" => os[p] = "child"
        <2>1. PICK q \in Pids : q = Head(cleaner[c].claimed)
            BY <1>7 DEF KillClaimed, TypeOK
        <2>2. os' = [os EXCEPT ![q] = Killed(q)] /\ Alive
            BY <1>7, <2>1 DEF KillClaimed
        <2> QED BY <1>5, <2>2
    <1>8. ASSUME \/ \E w \in Workers :
                       \/ TakeFlag(w) \/ InstallHandlers(w) \/ Register(w) \/ Reregister(w)
                       \/ Detach(w) \/ WaiterSend(w) \/ Recv(w) \/ Timeout(w) \/ Unregister(w)
                       \/ ReaderStep(w)
                 \/ \E c \in Cleaners : \/ DefaultSignal(c) \/ ClaimSlot(c) \/ CleanupEnd(c)
                                        \/ CleanerExit(c)
                 \/ MainExit \/ UNCHANGED vars
          PROVE  os' = os /\ (Alive' => Alive)
        BY <1>8 DEF TakeFlag, InstallHandlers, Register, Reregister, Detach, WaiterSend, Recv,
               Timeout, Unregister, ReaderStep, ReadToEnd, ReadFails, DefaultSignal, ClaimSlot,
               CleanupEnd, CleanerExit, MainExit, vars, Alive
    <1> QED BY <1>1, <1>2, <1>3, <1>4, <1>6, <1>7, <1>8 DEF Next, WorkerStep, CallStep, CleanerStep


(* Only a new child begins to look for a slot. *)
LEMMA LookingBefore ==
    ASSUME TypeOK, [Next]_vars, ~TableStep, NEW v \in Workers, NEW p \in Pids, os[p] # "free",
           job'[v].pid = p, job'[v].pc \in {"signals", "register"}
    PROVE  job[v].pid = p /\ job[v].pc \in {"signals", "register"}
    <1>1. ASSUME NEW w \in Workers, NEW mode \in Modes, NEW q \in Pids, Spawn(w, mode, q)
          PROVE  job'[v] = job[v]
        <2>1. q # p
            BY <1>1 DEF Spawn
        <2>2. /\ \A u \in Workers \ {w} : job'[u] = job[u]
              /\ job'[w].pid = q
            BY <1>1, SpawnMoves
        <2> QED BY <2>1, <2>2
    <1>2. ASSUME NEW w \in Workers, TakeFlag(w) \/ InstallHandlers(w)
          PROVE  job[v].pid = p /\ job[v].pc \in {"signals", "register"}
        BY <1>2, JobMoves DEF Moves, TakeFlag, InstallHandlers
    <1>3. ASSUME NEW w \in Workers, NEW next, next \notin {"signals", "register"},
                 Moves(w, next)
          PROVE  job'[v] = job[v]
        BY <1>3 DEF Moves
    <1>4. ASSUME NEW w \in Workers,
                 Detach(w) \/ Recv(w) \/ Timeout(w) \/ TimeoutKill(w) \/ Wait(w) \/ ReadToEnd(w)
          PROVE  job'[v] = job[v]
        <2>1. PICK next \in {"recv", "unregister", "kill", "reregister"} : Moves(w, next)
            BY <1>4, JobMoves
        <2> QED BY <1>3, <2>1
    <1>5. ASSUME NEW w \in Workers, ReadFails(w) PROVE job'[v] = job[v]
        BY <1>5 DEF ReadFails, NoJob, TypeOK
    <1>6. ASSUME NEW w \in Workers, Reregister(w)
          PROVE  job'[v] = job[v]
        <2>1. job[w].pc = "reregister" /\ RegisterStep(w, "detach")
            BY <1>6 DEF Reregister
        <2>2. Moves(w, "detach") \/ Moves(w, "reregister")
            BY <2>1, RegisterMoves
        <2> QED BY <1>3, <2>2
    <1>7. ASSUME ChannelOnly PROVE job[v].pid = p /\ job[v].pc \in {"signals", "register"}
        BY <1>7 DEF ChannelOnly
    <1>8. ASSUME \/ \E q \in Pids : OsStep(q)
                 \/ \E c \in Cleaners : \/ DefaultSignal(c) \/ CleanupBegin(c) \/ KillClaimed(c)
                                        \/ CleanupEnd(c) \/ CleanerExit(c)
                 \/ MainExit \/ UNCHANGED vars
          PROVE  job'[v] = job[v]
        BY <1>8 DEF OsStep, ChildExit, Recycle, ForeignExit, InitReap, DefaultSignal,
               CleanupBegin, KillClaimed, CleanupEnd, CleanerExit, MainExit, vars
    <1> QED BY <1>1, <1>2, <1>4, <1>5, <1>6, <1>7, <1>8, WaiterMoves
            DEF Next, WorkerStep, CallStep, ReaderStep, CleanerStep, TableStep


(* A claimed child stays claimed until it is killed. *)
LEMMA ClaimedStep ==
    ASSUME TypeOK, [Next]_vars, NEW c \in Cleaners, NEW p \in Pids,
           cleaner[c].pc \in {"claim", "kill"}, Claimed(c, p), os'[p] = "child"
    PROVE  cleaner'[c].pc \in {"claim", "kill"} /\ Claimed(c, p)'
    <1>t. /\ cleaner \in [Cleaners -> CleanerType] /\ cleaner[c] \in CleanerType
          /\ slots \in [SlotIds -> Pids \union {NoPid}]
          /\ os \in [Pids -> {"free", "child", "zombie", "foreign"}]
        BY DEF TypeOK, CleanerType
    <1>s. PICK n \in 1..Len(cleaner[c].claimed) : cleaner[c].claimed[n] = p
        BY DEF Claimed
    <1>q. cleaner[c].claimed \in Seq(Pids)
        BY <1>t DEF CleanerType
    <1>1. CASE cleaner'[c] = cleaner[c]
        BY <1>1 DEF Claimed
    <1>2. CASE ClaimSlot(c)
        <2>1. /\ cleaner'[c].pc \in {"claim", "kill"}
              /\ \/ cleaner'[c].claimed = cleaner[c].claimed
                 \/ /\ slots[cleaner[c].idx] # NoPid
                    /\ cleaner'[c].claimed = Append(cleaner[c].claimed, slots[cleaner[c].idx])
            BY <1>t, <1>2 DEF ClaimSlot, CleanerType
        <2>2. CASE cleaner'[c].claimed = cleaner[c].claimed
            BY <2>1, <2>2 DEF Claimed
        <2>3. CASE cleaner'[c].claimed = Append(cleaner[c].claimed, slots[cleaner[c].idx])
            <3>1. n \in 1..Len(cleaner'[c].claimed) /\ cleaner'[c].claimed[n] = p
                BY <1>q, <1>s, <2>3
            <3> QED BY <2>1, <3>1 DEF Claimed
        <2> QED BY <2>1, <2>2, <2>3
    <1>3. CASE KillClaimed(c)
        <2>1. PICK s \in Seq(Pids) : s = cleaner[c].claimed
            BY <1>q
        <2>2. /\ s # <<>> /\ cleaner'[c].claimed = Tail(s) /\ cleaner'[c].pc = cleaner[c].pc
              /\ os' = [os EXCEPT ![Head(s)] = Killed(Head(s))]
            BY <1>t, <1>3, <2>1 DEF KillClaimed, CleanerType
        <2>3. Head(s) # p
            <3> SUFFICES ASSUME Head(s) = p PROVE FALSE
                OBVIOUS
            <3>1. os'[p] = Killed(p)
                BY <1>t, <2>2
            <3> QED BY <3>1, KilledType
        <2>4. n # 1
            BY <1>s, <2>1, <2>2, <2>3
        <2>5. n - 1 \in 1..Len(Tail(s)) /\ Tail(s)[n - 1] = p
            BY <1>s, <2>1, <2>2, <2>4
        <2> QED BY <2>2, <2>5 DEF Claimed
    <1>4. CASE CleanupEnd(c)
        BY <1>s, <1>4 DEF CleanupEnd
    <1>5. CASE CleanupBegin(c)
        BY <1>5 DEF CleanupBegin
    <1>6. CASE CleanerExit(c)
        BY <1>6 DEF CleanerExit
    <1> QED BY <1>1, <1>2, <1>3, <1>4, <1>5, <1>6, CleanerSteps DEF CleanerStep

(* A child ahead of the scan stays ahead of it, or is claimed: while it is held no
   other worker's unregister can take its last slot. *)
LEMMA AheadStep ==
    ASSUME "piped" \notin Modes, BaseInv, ChildInv, [Next]_vars, NEW c \in Cleaners, Alone(c),
           NEW p \in Pids, cleaner[c].pc = "claim", Ahead(c, p), os[p] = "child"
    PROVE  \/ cleaner'[c].pc \in {"claim", "kill"} /\ Claimed(c, p)'
           \/ cleaner'[c].pc = "claim" /\ Ahead(c, p)'
    <1>t. /\ cleaner \in [Cleaners -> CleanerType] /\ cleaner[c] \in CleanerType /\ TypeOK
          /\ slots \in [SlotIds -> Pids \union {NoPid}] /\ Slots \in Nat \ {0}
          /\ NoPid \notin Pids
        BY TrackerAssumption DEF BaseInv, TypeOK, CleanerType
    <1>a. /\ Cardinality(SlotsOf(p)) >= Cardinality(JobsOf(p))
          /\ \A j \in SlotsOf(p) : j >= cleaner[c].idx
          /\ \A w \in Workers : job[w].pid = p => job[w].pc \notin {"signals", "register"}
        BY DEF Ahead
    <1>f. /\ IsFiniteSet(SlotsOf(p)) /\ Cardinality(SlotsOf(p)) \in Nat
          /\ IsFiniteSet(JobsOf(p)) /\ Cardinality(JobsOf(p)) \in Nat
        BY Finite DEF SlotsOf, JobsOf
    <1>1. CASE ClaimSlot(c)
        <2>1. PICK i \in SlotIds : i = cleaner[c].idx
            BY <1>1, ClaimTable
        <2>2. /\ UNCHANGED job /\ JobsOf(p)' = JobsOf(p) /\ SlotsOf(p)' = SlotsOf(p) \ {i}
            BY <1>1, <2>1, ClaimTable
        <2>3. /\ cleaner'[c].idx = i + 1
              /\ cleaner'[c].pc = IF i = Slots THEN "kill" ELSE "claim"
              /\ cleaner'[c].claimed = IF slots[i] = NoPid THEN cleaner[c].claimed
                                       ELSE Append(cleaner[c].claimed, slots[i])
            BY <1>t, <1>1, <2>1 DEF ClaimSlot, CleanerType
        <2>4. CASE slots[i] = p
            <3>1. cleaner'[c].claimed = Append(cleaner[c].claimed, p)
                BY <1>t, <2>3, <2>4
            <3>2. cleaner[c].claimed \in Seq(Pids)
                BY <1>t DEF CleanerType
            <3>3. /\ Len(cleaner'[c].claimed) \in 1..Len(cleaner'[c].claimed)
                  /\ cleaner'[c].claimed[Len(cleaner'[c].claimed)] = p
                BY <3>1, <3>2
            <3> QED BY <2>3, <3>3 DEF Claimed
        <2>5. CASE slots[i] # p
            <3>1. i \notin SlotsOf(p) /\ SlotsOf(p)' = SlotsOf(p)
                BY <2>2, <2>5 DEF SlotsOf
            <3>2. PICK h \in Workers : Holds(h, p)
                BY DEF ChildInv
            <3>3. h \in JobsOf(p)
                BY <1>a, <3>2 DEF Holds, Holding, JobsOf, Registered
            <3>4. SlotsOf(p) # {}
                <4>1. Cardinality(JobsOf(p)) # 0
                    BY <1>f, <3>3, FS_EmptySet
                <4> QED BY <1>a, <1>f, <4>1, FS_EmptySet
            <3>5. \A j \in SlotsOf(p) : j >= i + 1 /\ j <= Slots
                BY <1>a, <1>t, <2>1, <3>1 DEF SlotsOf, SlotIds
            <3>6. i # Slots
                <4>1. PICK j \in SlotsOf(p) : j \in SlotIds
                    BY <3>4 DEF SlotsOf
                <4> QED BY <1>t, <2>1, <3>5, <4>1 DEF SlotIds
            <3> QED BY <1>a, <2>2, <2>3, <3>1, <3>5, <3>6 DEF Ahead
        <2> QED BY <2>4, <2>5
    <1>2. ASSUME NEW d \in Cleaners, ClaimSlot(d) PROVE d = c
        BY <1>2 DEF ClaimSlot, Alone
    <1>3. CASE ~ClaimSlot(c)
        <2>1. cleaner'[c] = cleaner[c]
            BY <1>t, <1>3, CleanerSteps DEF CleanerStep, CleanupBegin, KillClaimed, CleanupEnd,
                   CleanerExit
        <2>2. ASSUME NEW w \in Workers, Register(w)
              PROVE  /\ JobsOf(p)' = JobsOf(p) /\ SlotsOf(p)' = SlotsOf(p)
                     /\ \A v \in Workers : job'[v].pid = p =>
                                             job'[v].pc \notin {"signals", "register"}
            <3>1. PICK r \in Pids, i \in SlotIds : r = job[w].pid /\ i = job[w].idx
                BY <2>2, RegisterTable
            <3>2. /\ job[w].pc = "register" /\ job'[w].pid = r
                  /\ \A v \in Workers \ {w} : job'[v] = job[v]
                BY <2>2, <3>1, RegisterTable
            <3>3. r # p
                BY <1>a, <3>1, <3>2
            <3>4. JobsOf(p)' = JobsOf(p)
                BY <3>1, <3>2, <3>3 DEF JobsOf, Registered
            <3>5. slots' = slots \/ (slots[i] = NoPid /\ slots' = [slots EXCEPT ![i] = r])
                BY <2>2, <3>1, RegisterTable
            <3>6. SlotsOf(p)' = SlotsOf(p)
                BY <1>t, <3>3, <3>5 DEF SlotsOf
            <3> QED BY <1>a, <3>2, <3>3, <3>4, <3>6
        <2>3. ASSUME NEW w \in Workers, Unregister(w)
              PROVE  /\ Cardinality(SlotsOf(p)') >= Cardinality(JobsOf(p)')
                     /\ SlotsOf(p)' \subseteq SlotsOf(p)
                     /\ \A v \in Workers : job'[v].pid = p =>
                                             job'[v].pc \notin {"signals", "register"}
            <3>1. PICK r \in Pids : r = job[w].pid
                BY <2>3 DEF Unregister, BaseInv, StageInv
            <3>2. /\ \A v \in Workers \ {w} : job'[v] = job[v]
                  /\ job'[w].pc = "idle" /\ w \in JobsOf(r)
                BY <2>3, <3>1, UnregisterTable
            <3>3. CASE p # r
                <4>1. JobsOf(p)' = JobsOf(p) /\ SlotsOf(p)' = SlotsOf(p)
                    BY <2>3, <3>1, <3>3, UnregisterTable
                <4> QED BY <1>a, <3>2, <4>1
            <3>4. CASE p = r
                <4>1. JobsOf(p)' = JobsOf(p) \ {w} /\ w \in JobsOf(p)
                    BY <2>3, <3>1, <3>4, UnregisterTable
                <4>2. SlotsOf(p) # {}
                    <5>1. Cardinality(JobsOf(p)) # 0
                        BY <1>f, <4>1, FS_EmptySet
                    <5> QED BY <1>a, <1>f, <5>1, FS_EmptySet
                <4>3. PICK i \in SlotsOf(p) : SlotsOf(p)' = SlotsOf(p) \ {i}
                    BY <2>3, <3>1, <3>4, <4>2, UnregisterTable
                <4>4. Cardinality(JobsOf(p)') = Cardinality(JobsOf(p)) - 1
                    BY <1>f, <4>1, FS_RemoveElement
                <4>5. Cardinality(SlotsOf(p)') = Cardinality(SlotsOf(p)) - 1
                    BY <1>f, <4>3, FS_RemoveElement
                <4> QED BY <1>a, <1>f, <3>2, <4>3, <4>4, <4>5
            <3> QED BY <3>3, <3>4
        <2>4. CASE ~TableStep
            <3>1. JobsOf(p)' = JobsOf(p) /\ SlotsOf(p)' = SlotsOf(p)
                BY <2>4, Elsewhere
            <3>2. \A v \in Workers : job'[v].pid = p => job'[v].pc \notin {"signals", "register"}
                <4> SUFFICES ASSUME NEW v \in Workers, job'[v].pid = p,
                                    job'[v].pc \in {"signals", "register"}
                             PROVE  job[v].pid = p /\ job[v].pc \in {"signals", "register"}
                    BY <1>a
                <4> QED BY <1>t, <2>4, LookingBefore
            <3> QED BY <1>a, <2>1, <3>1, <3>2 DEF Ahead
        <2> QED BY <1>2, <1>3, <1>a, <2>1, <2>2, <2>3, <2>4 DEF Ahead, TableStep
    <1> QED BY <1>1, <1>3


(* A cleanup that is alone was alone before, or starts now while all is quiet. *)
LEMMA AloneBefore ==
    ASSUME TypeOK, [Next]_vars, NEW c \in Cleaners, Alone(c)'
    PROVE  \/ Alone(c) /\ ~ \E d \in Cleaners : CleanupBegin(d)
           \/ Quiet /\ CleanupBegin(c)
    <1>t. cleaner \in [Cleaners -> CleanerType]
        BY DEF TypeOK, CleanerType
    <1>1. \A d \in Cleaners : cleaner[d].pc # "idle" => d = c
        BY CleanerSteps DEF Alone
    <1>2. ASSUME NEW d \in Cleaners, CleanupBegin(d)
          PROVE  d = c /\ cleaner[c].pc = "idle"
        <2>1. cleaner[d].pc = "idle" /\ cleaner'[d].pc # "idle"
            BY <1>t, <1>2 DEF CleanupBegin, CleanerType
        <2> QED BY <2>1 DEF Alone
    <1>3. CASE cleaner[c].pc # "idle"
        BY <1>1, <1>2, <1>3 DEF Alone
    <1>4. CASE cleaner[c].pc = "idle"
        <2>1. cleaner'[c] # cleaner[c]
            BY <1>4 DEF Alone
        <2>2. CleanupBegin(c)
            BY <1>4, <2>1, CleanerSteps DEF CleanerStep, ClaimSlot, KillClaimed, CleanupEnd,
                   CleanerExit
        <2> QED BY <1>1, <1>4, <2>2 DEF Quiet
    <1> QED BY <1>3, <1>4

(* Once a cleanup has begun, only reaping changes what it owes. *)
LEMMA OwedBefore ==
    ASSUME [Next]_vars, ~ \E c \in Cleaners : CleanupBegin(c)
    PROVE  owed' \subseteq owed
    BY DEF Next, vars, Spawn, WorkerStep, CallStep, TakeFlag, InstallHandlers, Register, Reregister, Detach,
           WaiterSend, Recv, Timeout, TimeoutKill, Wait, Unregister, ReaderStep, ReadToEnd,
           ReadFails, WaiterReap, OsStep, ChildExit, Recycle, ForeignExit, InitReap,
           DefaultSignal, MainExit, CleanerStep, ClaimSlot, KillClaimed, CleanupEnd, CleanerExit,
           Reaped

(* The cleanup that is alone finds, claims and kills what it owes. *)
LEMMA CleanStep ==
    ASSUME Roomy, BaseInv, OnceInv, ScanInv, CleanInv, [Next]_vars
    PROVE  CleanInv'
    <1> SUFFICES ASSUME NEW c \in Cleaners, Alone(c)', NEW p \in owed'
                 PROVE  /\ Alive' => os'[p] \in {"child", "zombie"}
                        /\ os'[p] = "child" =>
                             \/ cleaner'[c].pc \in {"claim", "kill"} /\ Claimed(c, p)'
                             \/ cleaner'[c].pc = "claim" /\ Ahead(c, p)'
        BY DEF CleanInv
    <1>t. TypeOK /\ ChildInv /\ "piped" \notin Modes /\ owed \subseteq Pids
        BY DEF BaseInv, OnceInv, Roomy, TypeOK
    <1>1. CASE Quiet /\ CleanupBegin(c)
        BY <1>1, CleanBegins
    <1>2. CASE Alone(c) /\ ~ \E d \in Cleaners : CleanupBegin(d)
        <2>1. p \in owed /\ p \in Pids
            BY <1>t, <1>2, OwedBefore
        <2>2. /\ Alive => os[p] \in {"child", "zombie"}
              /\ os[p] = "child" =>
                   \/ cleaner[c].pc \in {"claim", "kill"} /\ Claimed(c, p)
                   \/ cleaner[c].pc = "claim" /\ Ahead(c, p)
            BY <1>2, <2>1 DEF CleanInv
        <2>3. /\ Alive' => os'[p] \in {"child", "zombie"}
              /\ os'[p] = "child" => os[p] = "child"
            BY <1>t, <1>2, <2>1, <2>2, OwedChild
        <2>4. CASE os'[p] = "child" /\ cleaner[c].pc \in {"claim", "kill"} /\ Claimed(c, p)
            BY <1>t, <2>1, <2>3, <2>4, ClaimedStep
        <2>5. CASE os'[p] = "child" /\ cleaner[c].pc = "claim" /\ Ahead(c, p)
            BY <1>t, <1>2, <2>1, <2>3, <2>5, AheadStep
        <2> QED BY <2>2, <2>3, <2>4, <2>5
    <1> QED BY <1>t, <1>1, <1>2, AloneBefore

(* What the three layers and the cleanup's own invariant are together. *)
TrackerInv == BaseInv /\ OnceInv /\ ScanInv /\ CleanInv

(* They hold initially ... *)
LEMMA TrackerInit == Init => TrackerInv
    <1>1. Init => CleanInv
        BY DEF Init, CleanInv
    <1> QED BY <1>1, BaseInit, OnceInit, ScanInit DEF TrackerInv

(* ... and every step keeps them, when the table has a slot for every worker. *)
LEMMA TrackerStep == ASSUME Roomy PROVE TrackerInv /\ [Next]_vars => TrackerInv'
    BY BaseStep, OnceInvStep, ScanStep, CleanStep DEF TrackerInv, Roomy

(* cleanup_all, followed by the exit: a cleanup that no second one cuts short
   leaves none of the children it was answerable for running. *)
LEMMA AloneComplete ==
    ASSUME TrackerInv, NEW c \in Cleaners, \A d \in Cleaners : cleaner[d].pc # "idle" => d = c
    PROVE  CleanupComplete
    <1> SUFFICES ASSUME driver = "cleaned", NEW p \in owed, os[p] = "child" PROVE FALSE
        BY DEF CleanupComplete
    <1>1. PICK d \in Cleaners : cleaner[d].pc = "exit"
        BY DEF TrackerInv, BaseInv, StageInv
    <1>2. Alone(d)
        BY <1>1 DEF Alone
    <1> QED BY <1>1, <1>2 DEF TrackerInv, CleanInv

(* main.rs and subprocess_tracker.rs: with one handler or thread that cleans up,
   every tracked child is dead when the process ends. *)
THEOREM Cleaned == ASSUME Roomy, NEW c, Cleaners = {c} PROVE Spec => []CleanupComplete
    <1>1. TrackerInv => CleanupComplete
        BY AloneComplete
    <1> QED BY <1>1, TrackerInit, TrackerStep, PTL DEF Spec
=============================================================================
