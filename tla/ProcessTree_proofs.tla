-------------------------- MODULE ProcessTree_proofs --------------------------
(***************************************************************************)
(* The engine inside the process tree behaves as SubprocessTracker says,   *)
(* so that what is proved of the PID table and its cleanup holds whoever   *)
(* starts the cleanup: a signal the front door forwards, Ctrl-C or the     *)
(* parent-death thread.                                                    *)
(***************************************************************************)
EXTENDS ProcessTree, SubprocessTracker_proofs

(* The front door's own state.  Every signal the environment sends to the front
   door reaches the engine at most twice. *)
FrontInv ==
    /\ front \in {"start", "spawned", "waiting", "reaped", "returned",
                  "signalled", "killed"}
    /\ enginePid \in {"none", "engine"}
    /\ boot \in {"unborn", "starting", "running"}
    /\ watching \in BOOLEAN /\ forwarded \in BOOLEAN
    /\ sent \in 0..MaxSignals /\ pending \in Nat /\ pending <= 2 * sent

(* The front door and its signals only make the engine take its own steps. *)
LEMMA EngineSteps ==
    ASSUME [TreeNext]_allVars
    PROVE  [Next]_vars
    <1>1. ASSUME \/ SpawnEngine \/ WatchEngine \/ EngineReaped \/ ForgetEngine \/ KillFront
                 \/ WatchParentDeath \/ TreeDone \/ UNCHANGED allVars
                 \/ \E ctrlC \in BOOLEAN, nohup \in NoHups : TermFront(ctrlC, nohup)
          PROVE  UNCHANGED vars
        BY <1>1 DEF SpawnEngine, WatchEngine, EngineReaped, ForgetEngine, KillFront,
               WatchParentDeath, TreeDone, TermFront, allVars
    <1>2. CASE ParentDied
        BY <1>2, TreeAssumption DEF ParentDied, Next
    <1>3. ASSUME NEW c \in Signals, Deliver(c) PROVE Next
        BY <1>3, TrackerAssumption DEF Deliver, Next
    <1>4. CASE EngineStep
        BY <1>4 DEF EngineStep, Next
    <1> QED BY <1>1, <1>2, <1>3, <1>4 DEF TreeNext

(* No step takes the front door out of its states. *)
LEMMA FrontStep ==
    ASSUME FrontInv, [TreeNext]_allVars
    PROVE  FrontInv'
    <1> USE DEF FrontInv
    <1>m. MaxSignals \in Nat
        BY TreeAssumption
    <1>1. CASE SpawnEngine \/ WatchEngine \/ EngineReaped \/ ForgetEngine
        BY <1>1 DEF SpawnEngine, WatchEngine, EngineReaped, ForgetEngine
    <1>2. ASSUME NEW ctrlC \in BOOLEAN, NEW nohup \in NoHups, TermFront(ctrlC, nohup)
          PROVE  FrontInv'
        <2>1. /\ sent < MaxSignals /\ sent' = sent + 1 /\ front' \in {"signalled", front}
              /\ UNCHANGED <<enginePid, boot, watching>>
            BY <1>2 DEF TermFront
        <2>2. PICK n \in {0, 1, 2} : pending' = pending + n
            BY <1>2 DEF TermFront
        <2>3. forwarded' \in BOOLEAN
            BY <1>2, Zenon DEF TermFront
        <2>4. sent' \in 0..MaxSignals /\ pending' \in Nat /\ pending' <= 2 * sent'
            BY <1>m, <2>1, <2>2
        <2> QED BY <2>1, <2>3, <2>4
    <1>3. CASE KillFront
        BY <1>m, <1>3 DEF KillFront
    <1>4. CASE WatchParentDeath
        <2>1. watching' \in BOOLEAN
            BY <1>4, Zenon DEF WatchParentDeath
        <2> QED BY <1>4, <2>1 DEF WatchParentDeath
    <1>5. ASSUME NEW c \in Signals, Deliver(c) PROVE FrontInv'
        BY <1>5 DEF Deliver
    <1>6. CASE ParentDied \/ EngineStep \/ TreeDone \/ UNCHANGED allVars
        BY <1>6 DEF ParentDied, EngineStep, TreeDone, allVars, frontVars
    <1> QED BY <1>1, <1>2, <1>3, <1>4, <1>5, <1>6 DEF TreeNext

(* The front door starts in one of its states. *)
LEMMA FrontInit == TreeInit => Init /\ FrontInv
    <1> SUFFICES ASSUME TreeInit PROVE Init /\ FrontInv
        OBVIOUS
    <1>1. sent \in 0..MaxSignals /\ pending \in Nat /\ pending <= 2 * sent
        BY TreeAssumption DEF TreeInit
    <1>2. watching \in BOOLEAN /\ forwarded \in BOOLEAN
        BY DEF TreeInit
    <1> QED BY <1>1, <1>2 DEF TreeInit, FrontInv

(* engine.rs, cancel.rs: whatever the front door does, the engine goes on being a
   process that spawns, tracks and cleans up its children. *)
THEOREM EngineTracks == TreeSpec => Init /\ [][Next]_vars
    BY FrontInit, EngineSteps, PTL DEF TreeSpec

(* Every variable of the process tree has its type; no more signals are under way
   to the engine than two for each one sent to the front door. *)
THEOREM TreeTypes == TreeSpec => []TreeTypeOK
    <1>1. BaseInv /\ FrontInv => TreeTypeOK
        <2> SUFFICES ASSUME BaseInv, FrontInv PROVE TreeTypeOK
            OBVIOUS
        <2>1. pending \in 0..(2 * MaxSignals)
            BY TreeAssumption DEF FrontInv
        <2> QED BY <2>1 DEF FrontInv, BaseInv, TreeTypeOK
    <1>2. TreeInit => BaseInv /\ FrontInv
        BY FrontInit, BaseInit
    <1>3. BaseInv /\ FrontInv /\ [TreeNext]_allVars => BaseInv' /\ FrontInv'
        BY EngineSteps, BaseStep, FrontStep
    <1> QED BY <1>1, <1>2, <1>3, PTL DEF TreeSpec

(* cleanup_all in the tree: a cleanup no second one cuts short leaves none of the
   children it was answerable for running, whoever started it, when the table has
   a slot for every worker and no child comes from run_piped. *)
THEOREM TreeCleaned == ASSUME Roomy PROVE TreeSpec => []LoneCleanupComplete
    <1>1. ASSUME TrackerInv, Cardinality({c \in Cleaners : cleaner[c].pc # "idle"}) <= 1
          PROVE  CleanupComplete
        <2>1. PICK busy \in SUBSET Cleaners : busy = {c \in Cleaners : cleaner[c].pc # "idle"}
            OBVIOUS
        <2>2. IsFiniteSet(busy) /\ Cardinality(busy) \in Nat
            BY TrackerAssumption, FS_Subset, FS_CardinalityType
        <2>3. busy = {} \/ \E c : busy = {c}
            <3>1. Cardinality(busy) \in {0, 1}
                BY <1>1, <2>1, <2>2
            <3> QED BY <2>2, <3>1, FS_EmptySet, FS_Singleton
        <2>4. CASE busy = {}
            <3>1. ParentWatch \in Cleaners
                BY TreeAssumption
            <3>2. \A d \in Cleaners : cleaner[d].pc = "idle"
                BY <2>1, <2>4
            <3> QED BY <1>1, <3>1, <3>2, AloneComplete
        <2>5. CASE \E c : busy = {c}
            <3>1. PICK c \in Cleaners : busy = {c}
                BY <2>1, <2>5
            <3>2. \A d \in Cleaners : cleaner[d].pc # "idle" => d = c
                BY <2>1, <3>1
            <3> QED BY <1>1, <3>2, AloneComplete
        <2> QED BY <2>3, <2>4, <2>5
    <1>2. TrackerInv => LoneCleanupComplete
        BY <1>1 DEF LoneCleanupComplete
    <1>3. TreeInit => TrackerInv
        BY FrontInit, TrackerInit
    <1>4. TrackerInv /\ [TreeNext]_allVars => TrackerInv'
        BY EngineSteps, TrackerStep
    <1> QED BY <1>2, <1>3, <1>4, PTL DEF TreeSpec
=============================================================================
