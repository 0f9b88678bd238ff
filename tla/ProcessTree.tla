---------------------------- MODULE ProcessTree ----------------------------
(***************************************************************************)
(* The whole process tree of a run: the front door (src/frontend/engine.rs *)
(* and cancel.rs) starts the engine, forwards the termination signals it   *)
(* receives and waits; the engine (SubprocessTracker) watches its parent   *)
(* and, when it is signalled or orphaned, kills its children.              *)
(*                                                                         *)
(* This module adds the front door, the engine's start and its             *)
(* parent-death thread (watch_parent_death) to SubprocessTracker, and says *)
(* where the signals that start a cleanup come from.                       *)
(***************************************************************************)
EXTENDS SubprocessTracker

CONSTANTS
    ParentWatch,    \* the cleaner that is the parent-death thread
    OptOuts,        \* whether TRUST_MC_NO_PARENT_WATCH may be set
    NoHups,         \* whether the shell may have had a signal ignored (nohup)
    MaxSignals      \* bound: termination signals the environment sends

ASSUME TreeAssumption ==
    /\ ParentWatch \in Cleaners \ Signals
    /\ OptOuts \subseteq BOOLEAN
    /\ NoHups \subseteq BOOLEAN
    /\ MaxSignals \in Nat

VARIABLES
    front,      \* the front door: "start", "spawned", "waiting", "reaped",
                \* "returned", or how it died: "signalled", "killed"
    enginePid,  \* ENGINE_PID: "engine", or "none" (0)
    boot,       \* the engine: "unborn", "starting" or "running"
    watching,   \* the parent-death thread runs
    pending,    \* signals sent to the engine and not yet delivered
    sent,       \* how many signals the environment has sent
    forwarded   \* history: a signal was forwarded while the engine lived and
                \* did not ignore it

frontVars == <<front, enginePid, boot, watching, pending, sent, forwarded>>
allVars == <<vars, frontVars>>

FrontDead == front \in {"returned", "signalled", "killed"}
EngineUp  == boot # "unborn" /\ Alive

TreeInit ==
    /\ Init
    /\ front = "start"
    /\ enginePid = "none"
    /\ boot = "unborn"
    /\ watching = FALSE
    /\ pending = 0
    /\ sent = 0
    /\ forwarded = FALSE

-----------------------------------------------------------------------------
(* Front door *)

SpawnEngine ==
    /\ front = "start"
    /\ front' = "spawned"
    /\ boot' = "starting"
    /\ UNCHANGED <<vars, enginePid, watching, pending, sent, forwarded>>

(* watch_engine: store the PID, then install the handlers *)
WatchEngine ==
    /\ front = "spawned"
    /\ front' = "waiting"
    /\ enginePid' = "engine"
    /\ UNCHANGED <<vars, boot, watching, pending, sent, forwarded>>

(* child.wait() returns: from here on the engine's PID may be reused *)
EngineReaped ==
    /\ front = "waiting" /\ ~Alive
    /\ front' = "reaped"
    /\ UNCHANGED <<vars, enginePid, boot, watching, pending, sent, forwarded>>

(* forget_engine, and the exit that follows *)
ForgetEngine ==
    /\ front = "reaped"
    /\ front' = "returned"
    /\ enginePid' = "none"
    /\ UNCHANGED <<vars, boot, watching, pending, sent, forwarded>>

HandlersInstalled == front \in {"waiting", "reaped"}

(* Installing a handler overrides an inherited SIG_IGN.  Until then a signal the
   shell had ignored is lost on the process it is sent to. *)
FrontHears(nohup)  == ~nohup \/ HandlersInstalled
EngineHears(nohup) == EngineUp /\ (~nohup \/ handlers = "installed")

(* Mutant: every death of the front door counts its signal as passed on, but only
   Ctrl-C reaches the engine. *)
TermFrontMutant(ctrlC, nohup) ==
    /\ ~FrontDead /\ sent < MaxSignals
    /\ sent' = sent + 1
    /\ front' = IF FrontHears(nohup) THEN "signalled" ELSE front
    /\ pending' = pending + (IF ctrlC /\ EngineHears(nohup) THEN 1 ELSE 0)
    /\ forwarded' = (forwarded \/ (HandlersInstalled /\ EngineHears(nohup)))
    /\ UNCHANGED <<vars, enginePid, boot, watching>>

(* Mutant: the signal goes to the engine and to its process group. *)
TermFrontToGroup(ctrlC, nohup) ==
    LET reach == HandlersInstalled /\ EngineHears(nohup) IN
    /\ ~FrontDead /\ sent < MaxSignals
    /\ sent' = sent + 1
    /\ front' = IF FrontHears(nohup) THEN "signalled" ELSE front
    /\ pending' = pending + (IF reach THEN 2 ELSE 0)
                          + (IF ctrlC /\ EngineHears(nohup) THEN 1 ELSE 0)
    /\ forwarded' = (forwarded \/ reach)
    /\ UNCHANGED <<vars, enginePid, boot, watching>>

(* The front door is sent SIGTERM, SIGINT or SIGHUP, perhaps one that the shell
   had ignored: with its handler in place it passes the signal on; either way it
   dies of it if it hears it.  Ctrl-C reaches the engine as well, directly. *)
TermFront(ctrlC, nohup) ==
    LET reach == HandlersInstalled /\ enginePid = "engine" /\ EngineHears(nohup)
        copies == (IF reach THEN 1 ELSE 0)
                  + (IF ctrlC /\ EngineHears(nohup) THEN 1 ELSE 0)
    IN
    /\ ~FrontDead /\ sent < MaxSignals
    /\ sent' = sent + 1
    /\ front' = IF FrontHears(nohup) THEN "signalled" ELSE front
    /\ pending' = pending + copies
    /\ forwarded' = (forwarded \/ reach)
    /\ UNCHANGED <<vars, enginePid, boot, watching>>

(* SIGKILL, a crash or a panic: nothing can be forwarded. *)
KillFront ==
    /\ ~FrontDead /\ sent < MaxSignals
    /\ sent' = sent + 1
    /\ front' = "killed"
    /\ UNCHANGED <<vars, enginePid, boot, watching, pending, forwarded>>

-----------------------------------------------------------------------------
(* Engine start and parent death *)

(* main() calls watch_parent_death, which records the parent it finds: init,
   when the front door is already gone. *)
WatchParentDeath ==
    /\ Alive /\ boot = "starting"
    /\ boot' = "running"
    /\ \E optOut \in OptOuts : watching' = (~optOut /\ ~FrontDead)
    /\ UNCHANGED <<vars, front, enginePid, pending, sent, forwarded>>

(* Mutant: the thread only reacts to a front door that ended by itself. *)
ParentDiedMutant ==
    /\ watching /\ front = "returned"
    /\ CleanupBegin(ParentWatch)
    /\ UNCHANGED frontVars

(* The polling thread sees that getppid changed. *)
ParentDied ==
    /\ watching /\ FrontDead
    /\ CleanupBegin(ParentWatch)
    /\ UNCHANGED frontVars

(* A pending signal reaches the engine; each one is handled by a thread that
   does not have it blocked. *)
Deliver(c) ==
    /\ pending > 0 /\ EngineUp /\ c \in Signals
    /\ \/ DefaultSignal(c)
       \/ CleanupBegin(c)
    /\ pending' = pending - 1
    /\ UNCHANGED <<front, enginePid, boot, watching, sent, forwarded>>

(* Everything the engine does on its own, once it runs *)
EngineStep ==
    /\ boot = "running"
    /\ \/ \E w \in Workers, mode \in Modes, p \in Pids : Spawn(w, mode, p)
       \/ \E w \in Workers : WorkerStep(w) \/ ReaderStep(w)
       \/ \E p \in Pids : WaiterReap(p) \/ OsStep(p)
       \/ \E c \in Cleaners : CleanerStep(c)
       \/ MainExit
    /\ UNCHANGED frontVars

(* The front door has ended and so has the engine. *)
TreeDone == FrontDead /\ ~EngineUp /\ UNCHANGED allVars

TreeNext ==
    \/ SpawnEngine \/ WatchEngine \/ EngineReaped \/ ForgetEngine
    \/ \E ctrlC \in BOOLEAN, nohup \in NoHups : TermFront(ctrlC, nohup)
    \/ KillFront
    \/ WatchParentDeath \/ ParentDied
    \/ \E c \in Signals : Deliver(c)
    \/ EngineStep
    \/ TreeDone

(* The scheduler runs every process and thread, the engine's workers and cleaners
   among them, and delivers signals. *)
TreeFairness ==
    /\ WF_allVars(SpawnEngine \/ WatchEngine \/ EngineReaped \/ ForgetEngine)
    /\ WF_allVars(WatchParentDeath)
    /\ WF_allVars(ParentDied)
    /\ WF_allVars(\E c \in Signals : Deliver(c))
    /\ \A c \in Cleaners : WF_allVars(CleanerStep(c) /\ UNCHANGED frontVars)
    /\ \A w \in Workers : WF_allVars(WorkerStep(w) /\ UNCHANGED frontVars)

TreeSpec == TreeInit /\ [][TreeNext]_allVars /\ TreeFairness

-----------------------------------------------------------------------------
(* Properties *)

(* Every variable has its type. *)
TreeTypeOK ==
    /\ TypeOK
    /\ front \in {"start", "spawned", "waiting", "reaped", "returned",
                  "signalled", "killed"}
    /\ enginePid \in {"none", "engine"}
    /\ boot \in {"unborn", "starting", "running"}
    /\ watching \in BOOLEAN /\ forwarded \in BOOLEAN
    /\ pending \in 0..(2 * MaxSignals) /\ sent \in 0..MaxSignals

(* A termination signal the front door forwards ends the engine, also when the
   parent-death thread is switched off and whatever the engine is doing, from the
   installation of its handlers on also when the shell had the signal ignored. *)
ForwardedEnds == forwarded ~> ~Alive

(* An engine that saw its front door alive never outlives it for good. *)
OrphanEnds == (FrontDead /\ watching) ~> ~Alive

(* A cleanup nobody interferes with leaves none of the children it was answerable
   for running, whoever started it: forwarded signal, Ctrl-C or parent death. *)
LoneCleanupComplete ==
    Cardinality({c \in Cleaners : cleaner[c].pc # "idle"}) <= 1 => CleanupComplete
=============================================================================
