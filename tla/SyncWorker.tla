------------------------------- MODULE SyncWorker -------------------------------
(***************************************************************************)
(* SyncBackgroundService: the one caller of ExecuteSyncAsync.  A cycle     *)
(* creates a scope, reads the enabled definitions, synchronises them one   *)
(* after the other and waits.  The module composes this loop with the      *)
(* engine and its world: every step below is a step of SyncEngine or       *)
(* leaves its variables alone.                                             *)
(***************************************************************************)
EXTENDS SyncEngine

CONSTANTS
    Rank,        \* the place of each definition in ORDER BY SyncId
    Enabled,     \* the sets of definitions that may be enabled at a time
    IdleDelay,   \* the wait when no definition is enabled: 10 s
    RetryDelay   \* the wait after an exception: 30 s

ASSUME WorkerAssumption ==
    /\ Rank \in [Definitions -> Nat]
    /\ \A c, d \in Definitions : Rank[c] = Rank[d] => c = d
    /\ Enabled \subseteq SUBSET Definitions
    /\ {IdleDelay, RetryDelay} \subseteq Nat

VARIABLES
    phase,    \* where ExecuteAsync is
    due,      \* definitions of this cycle still to synchronise, the current among them
    delay,    \* the wait at the end of this cycle, MinInterval
    wakeAt,   \* the Task.Delay in progress ends here
    seen      \* auxiliary: when the changes of a definition were last fetched

worker == <<phase, due, delay, wakeAt>>
workerVars == <<vars, worker, seen>>

WorkerTypeOK ==
    /\ phase \in {"cycle", "run", "wait", "stopped"}
    /\ due \subseteq Definitions
    /\ delay \in Nat /\ wakeAt \in Nat
    /\ seen \in [Definitions -> Nat \cup {Null}]

WorkerInit ==
    /\ Init
    /\ phase = "cycle" /\ due = {} /\ delay = 0 /\ wakeAt = 0
    /\ seen = [d \in Definitions |-> Null]

-------------------------------------------------------------------------------
\* Variant, to be rejected: the time that has passed is taken off.
RemainingInterval(ds) == Min({Config[d].interval : d \in ds}) - clock

\* definitions.Min(d => d.PollingIntervalSeconds)
MinInterval(ds) == Min({Config[d].interval : d \in ds})

Wait(ticks) == phase' = "wait" /\ wakeAt' = clock + ticks

\* CreateScope and GetEnabledDefinitionsAsync.
StartCycle ==
    /\ phase = "cycle" /\ ~ cancelled
    /\ NewScope
    /\ \/ /\ UNCHANGED faults
          /\ \E enabled \in Enabled :
                \/ /\ enabled = {}
                   /\ Wait(IdleDelay)
                   /\ UNCHANGED <<due, delay>>
                \/ /\ enabled # {}
                   /\ due' = enabled
                   /\ delay' = MinInterval(enabled)
                   /\ phase' = "run"
                   /\ UNCHANGED wakeAt
       \/ Fault /\ Wait(RetryDelay) /\ UNCHANGED <<due, delay>>
    /\ UNCHANGED seen

RunDefinition ==
    /\ phase = "run"
    /\ \E d \in due :
          /\ \A c \in due : Rank[d] <= Rank[c]
          /\ ExecuteSync(d)
    /\ UNCHANGED <<worker, seen>>

\* The awaited ExecuteSyncAsync returns.
DefinitionDone ==
    /\ LogWritten
    /\ due' = due \ {def}
    /\ UNCHANGED <<phase, delay, wakeAt, seen>>

\* ExecuteSyncAsync throws: a cancellation ends the loop, any other exception
\* ends the cycle.
DefinitionFails ==
    /\ LogLost
    /\ due' = {}
    /\ IF cancelled THEN phase' = "stopped" /\ UNCHANGED wakeAt ELSE Wait(RetryDelay)
    /\ UNCHANGED <<delay, seen>>

EndCycle ==
    /\ phase = "run" /\ due = {} /\ pc = "idle"
    /\ Wait(delay)
    /\ UNCHANGED <<vars, due, delay, seen>>

Wake ==
    /\ phase = "wait" /\ clock >= wakeAt /\ ~ cancelled
    /\ phase' = "cycle"
    /\ UNCHANGED <<vars, due, delay, wakeAt, seen>>

\* The while condition is false, or a Task.Delay is cancelled.
LeaveLoop ==
    /\ phase \in {"cycle", "wait"} /\ cancelled
    /\ phase' = "stopped"
    /\ UNCHANGED <<vars, due, delay, wakeAt, seen>>

RestartService ==
    /\ phase = "stopped"
    /\ Restart
    /\ phase' = "cycle" /\ due' = {}
    /\ UNCHANGED <<delay, wakeAt, seen>>

CrashService ==
    /\ Crash
    /\ phase' = "cycle" /\ due' = {}
    /\ UNCHANGED <<delay, wakeAt, seen>>

\* The rest of ExecuteSyncAsync.
FetchStep ==
    /\ FetchChanges
    /\ seen' = IF pc' = "mapping" THEN [seen EXCEPT ![def] = clock] ELSE seen
    /\ UNCHANGED worker

InnerStep ==
    /\ EngineStep /\ pc \notin {"fetch", "writeLog"}
    /\ UNCHANGED <<worker, seen>>

WorldStep ==
    /\ UserStep \/ Tick \/ Stop
    /\ UNCHANGED <<worker, seen>>

\* Where the bounds stop the model while the program would go on.
Horizon ==
    /\ pc = "idle" /\ (clock = MaxTime \/ syncs = MaxSyncs)
    /\ UNCHANGED workerVars

WorkerStep ==
    \/ StartCycle \/ RunDefinition \/ DefinitionDone \/ DefinitionFails \/ EndCycle
    \/ Wake \/ LeaveLoop \/ FetchStep \/ InnerStep

WorkerNext == WorkerStep \/ RestartService \/ CrashService \/ WorldStep \/ Horizon

WorkerSpec == WorkerInit /\ [][WorkerNext]_workerVars

\* Awaited calls complete and timers elapse.
FairWorkerSpec == WorkerSpec /\ WF_workerVars(WorkerStep) /\ WF_workerVars(Tick /\ WorldStep)

-------------------------------------------------------------------------------
\* Properties.

\* The time an engine remembers for a definition is never the start of a window:
\* each cycle has a new engine and calls it once for each definition.
EngineStartsCold ==
    [][pc = "prepare" /\ pc' = "fetch" => lastSyncTimes[def] = Null]_workerVars

\* When the source is fetched again within the polling interval of a definition, no
\* change of a user since the fetch before is left out: not those made while the
\* synchronisation in between ran, and not after a restart either.
SteadyPollingSkipsNothing ==
    [][/\ pc = "fetch" /\ pc' = "mapping" /\ seen[def] # Null
       /\ clock <= seen[def] + Definition.interval
       => \A r \in sites[Definition.source].rows :
             r.time > seen[def] /\ r.updator # Definition.syncUser => r \in changed']_workerVars

\* A request to stop ends the loop, although the inner catches of ExecuteSyncAsync
\* swallow the cancellation (up to the bound on the synchronisations).
StopIsHonoured == cancelled ~> (phase = "stopped" \/ syncs = MaxSyncs)
===============================================================================
