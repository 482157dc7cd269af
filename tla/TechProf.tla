------------------------------ MODULE TechProf ------------------------------
(***************************************************************************)
(* Tech profile processing of one ONU (onu_uni_tp.go and the inter-adapter *)
(* handlers of device_handler.go).                                         *)
(*                                                                         *)
(* A request is one inter-adapter message, handled on a goroutine of its   *)
(* own.  It takes tpProcMutex, updates the path of its UNI, starts up to   *)
(* two goroutines under a deadline context, waits for both and releases    *)
(* the mutex.  Both goroutines hand their work to further goroutines that  *)
(* report on two unbuffered channels shared by all requests:               *)
(*                                                                         *)
(*   configureUniTp          -> readAniSideConfigFromTechProfile (step 1)  *)
(*                           -> setAniSideConfigFromTechProfile  (step 2)  *)
(*   updateOnuTpPathKvStore  -> storePersistentData              (step 1)  *)
(*                                                                         *)
(* Step 2 starts the ANI configuration state machine, which reports from   *)
(* the callback of its disabled state, under the mutex of the machine.     *)
(* Here the machine is seen from outside; AniConfigFsm has its messages.   *)
(* A sender that finds no receiver waits in the order of the channel, as   *)
(* Go queues it.                                                           *)
(***************************************************************************)
EXTENDS Naturals, Sequences, FiniteSets

CONSTANTS
    Downloads,      \* tech profile download requests
    TcontDeletes,   \* delete T-CONT requests
    GemDeletes,     \* delete GEM port requests
    Reconciles,     \* reconcileDeviceTechProf, after a restart of the adapter
    Unis,           \* UNI ids of the ONU
    Uni0,           \* UNI id 0
    Paths,          \* tech profile paths
    NoPath,         \* absent map entry
    Unusable,       \* paths of profiles without any p-bit set
    UniOf,          \* UNI of a request
    PathOf,         \* path of a download
    Stored,         \* paths restored from the KV store when the adapter started
    None,           \* no request
    MaxDowns,       \* bound: 1 if the ONU may go down once, else 0
    MaxExpired,     \* bound: deadlines that pass
    MaxFaults       \* bound: missing UNI ports, unreadable profiles, failed writes

Requests == Downloads \cup TcontDeletes \cup GemDeletes \cup Reconciles

ASSUME TechProfAssumption ==
    /\ None \notin Requests
    /\ Downloads \cap (TcontDeletes \cup GemDeletes \cup Reconciles) = {}
    /\ NoPath \notin Paths
    /\ Uni0 \in Unis
    /\ Unusable \subseteq Paths
    /\ UniOf \in [Requests -> Unis]
    /\ PathOf \in [Downloads -> Paths]
    /\ Stored \in [Unis -> Paths \cup {NoPath}]
    /\ MaxDowns \in 0 .. 1
    /\ MaxExpired \in Nat
    /\ MaxFaults \in Nat

VARIABLES
    pc,           \* goroutine of each request
    owner,        \* holder of tpProcMutex, or None
    job,          \* the UNI and the path the request works on
    ctx,          \* its context: "none", "live", "expired", "cancelled"
    result,       \* what its handler returned
    procResult,   \* shared error indication
    cfgFailed,    \* history: requests whose configureUniTp has found an error
    overtaken,    \* history: requests not answered before another one began
    cfg,          \* configureUniTp of each request
    reader,       \* readAniSideConfigFromTechProfile
    setter,       \* setAniSideConfigFromTechProfile
    kv,           \* updateOnuTpPathKvStore
    store,        \* storePersistentData
    snapshot,     \* the data it marshalled
    writes,       \* requests whose write the KV store may still apply
    cfgChan,      \* senders blocked on chTpConfigProcessingStep
    kvChan,       \* senders blocked on chTpKvProcessingStep
    mapUniTpPath, \* path of each UNI
    pers,         \* sOnuPersistentData.PersUniTpPath
    kvStore,      \* what the KV store holds for this ONU
    profile,      \* mapUniTpIndication: techProfileID (by its path), or NoPath
    configDone,   \* mapUniTpIndication: techProfileConfigDone
    mapPonAniConfig, \* path whose profile was read for the UNI, or NoPath
    ani,          \* the ANI configuration state machine
    applied,      \* history: path last configured completely for the UNI
    down,         \* progress of an ONU down indication
    faults        \* faults so far

requestVars == <<pc, owner, job, ctx, result>>
resultVars == <<procResult, cfgFailed, overtaken>>
cfgVars == <<cfg, reader, setter, cfgChan>>
kvVars == <<kv, store, snapshot, writes, kvChan, pers, kvStore>>
dataVars == <<mapUniTpPath, profile, configDone, mapPonAniConfig>>
aniVars == <<ani, applied>>
envVars == <<down, faults>>
vars == <<requestVars, resultVars, cfgVars, kvVars, dataVars, aniVars, envVars>>

NoPaths == [u \in Unis |-> NoPath]

\* state: "none" until created, then its states, "creating" for the six
\* states before the mapper is set.  busy: the callback of the disabled
\* state waits on the channel, holding the mutex of the machine.  preps,
\* resets, restarts: goroutines that are about to post the event.
NoAni == [state |-> "none", uni |-> Uni0, path |-> NoPath, run |-> None,
          completed |-> FALSE, chanSet |-> FALSE, busy |-> FALSE,
          preps |-> 0, resets |-> 0, restarts |-> 0]

Init ==
    /\ pc = [r \in Requests |-> "idle"]
    /\ owner = None
    /\ job = [r \in Requests |-> [uni |-> UniOf[r], path |-> NoPath]]
    /\ ctx = [r \in Requests |-> "none"]
    /\ result = [r \in Requests |-> "none"]
    /\ procResult = "ok"
    /\ cfgFailed = {} /\ overtaken = {}
    /\ cfg = [r \in Requests |-> "off"]
    /\ reader = [r \in Requests |-> "off"]
    /\ setter = [r \in Requests |-> "off"]
    /\ kv = [r \in Requests |-> "off"]
    /\ store = [r \in Requests |-> "off"]
    /\ snapshot = [r \in Requests |-> NoPaths]
    /\ cfgChan = << >>
    /\ kvChan = << >>
    /\ writes = {}
    /\ kvStore = Stored
    /\ mapUniTpPath = Stored
    /\ pers = Stored
    /\ profile = NoPaths
    /\ configDone = [u \in Unis |-> FALSE]
    /\ mapPonAniConfig = NoPaths
    /\ ani = NoAni
    /\ applied = NoPaths
    /\ down = "up"
    /\ faults = 0

-----------------------------------------------------------------------------
Ani == "ani"
Sent(from, step) == [from |-> from, step |-> step]

\* The machine goes on when its value has been taken.
AniReleased == [ani EXCEPT !.busy = FALSE, !.chanSet = FALSE]

\* A receive from chTpConfigProcessingStep.
ReceiveStep ==
    /\ cfgChan # << >>
    /\ cfgChan' = Tail(cfgChan)
    /\ ani' = IF Head(cfgChan).from = Ani THEN AniReleased ELSE ani

\* One more fault of the environment.
Fault == faults < MaxFaults /\ faults' = faults + 1

CfgFails(r, at) ==
    /\ procResult' = "error"
    /\ cfgFailed' = cfgFailed \cup {r}
    /\ UNCHANGED overtaken
    /\ cfg' = [cfg EXCEPT ![r] = at]

Finished == {"off", "done"}

-----------------------------------------------------------------------------
(* Plausible bugs.  Each operator is the definition below whose name it    *)
(* starts with, changed in the way its comment says; no specification uses *)
(* one.                                                                    *)

\* The wait group counts one goroutine only.
UnlockAfterFirst(r) ==
    /\ pc[r] = "waiting"
    /\ cfg[r] \in Finished \/ kv[r] \in Finished
    /\ owner' = None
    /\ pc' = [pc EXCEPT ![r] = "unlocked"]
    /\ UNCHANGED <<job, ctx, result, resultVars, cfgVars, kvVars, dataVars, aniVars,
                   envVars>>

\* Step 2 is started and not waited for.
ReadDoneWithoutWait(r) ==
    /\ cfg[r] = "read"
    /\ ReceiveStep
    /\ Head(cfgChan).step = 1
    /\ cfg' = [cfg EXCEPT ![r] = "done"]
    /\ setter' = [setter EXCEPT ![r] = "start"]
    /\ UNCHANGED <<requestVars, resultVars, reader, kvVars, dataVars, applied, envVars>>

\* The deadline is not observed in step 2.
SetFailsWithoutDeadline(r) ==
    /\ cfg[r] = "set"
    /\ ReceiveStep
    /\ Head(cfgChan).step # 2
    /\ CfgFails(r, "reset")
    /\ UNCHANGED <<requestVars, reader, setter, kvVars, dataVars, applied, envVars>>

\* A machine that gives up is disabled at once.
GiveUpAniAtOnce ==
    /\ ani.state = "creating"
    /\ ctx[ani.run] # "live"
    /\ ani' = [ani EXCEPT !.state = "disabled"]
    /\ UNCHANGED <<requestVars, resultVars, cfgVars, kvVars, dataVars, applied, envVars>>

\* A reset is executed that nobody has posted.
PostedResetUncounted ==
    /\ ~ani.busy
    /\ ani' = [ani EXCEPT !.resets = @ - 1]
    /\ UNCHANGED <<requestVars, resultVars, cfgVars, kvVars, dataVars, applied, envVars>>

\* The data is marshalled before the paths are collected.
CopyPathsLate(r) ==
    /\ store[r] = "copy"
    /\ store' = [store EXCEPT ![r] = "put"]
    /\ pers' = mapUniTpPath
    /\ snapshot' = [snapshot EXCEPT ![r] = pers]
    /\ UNCHANGED <<requestVars, resultVars, cfgVars, kv, writes, kvChan, kvStore, dataVars,
                   aniVars, envVars>>

\* The result of the write is not waited for.
StoreDoneWithoutWait(r) ==
    /\ kv[r] = "wait"
    /\ kv' = [kv EXCEPT ![r] = "done"]
    /\ UNCHANGED <<requestVars, resultVars, cfgVars, kvChan, store, snapshot, writes, pers,
                   kvStore, dataVars, aniVars, envVars>>

-----------------------------------------------------------------------------
(* The handlers.                                                           *)

\* The check of a download before it waits for the lock; a refused one
\* changes nothing.
Accept(r) ==
    /\ r \in Downloads
    /\ pc[r] = "idle"
    /\ down # "stopped"
    /\ pc' = [pc EXCEPT ![r] = "accepted"]
    /\ UNCHANGED <<owner, job, ctx, result, resultVars, cfgVars, kvVars, dataVars,
                   aniVars, envVars>>

\* r may take tpProcMutex.
MayLock(r) ==
    /\ owner = None
    /\ pc[r] = IF r \in Downloads THEN "accepted" ELSE "idle"

\* The path updateOnuUniTpPath is asked for; "" removes the entry.
WantedPath(r) == IF r \in Downloads THEN PathOf[r] ELSE NoPath

\* updateOnuUniTpPath has nothing to change, or reconcileDeviceTechProf
\* nothing to configure: the lock is released again.
Unchanged(r) ==
    /\ MayLock(r)
    /\ r \notin GemDeletes
    /\ IF r \in Reconciles THEN pers = NoPaths
       ELSE mapUniTpPath[UniOf[r]] = WantedPath(r)
    /\ pc' = [pc EXCEPT ![r] = "done"]
    /\ result' = [result EXCEPT ![r] = "ok"]
    /\ UNCHANGED <<owner, job, ctx, resultVars, cfgVars, kvVars, dataVars, aniVars,
                   envVars>>

\* r takes the lock and starts its goroutines for path p of UNI u.
Begin(r, u, p, configures, stores) ==
    /\ MayLock(r)
    /\ owner' = r
    /\ pc' = [pc EXCEPT ![r] = "waiting"]
    /\ ctx' = [ctx EXCEPT ![r] = "live"]
    /\ job' = [job EXCEPT ![r] = [uni |-> u, path |-> p]]
    /\ procResult' = "ok"
    /\ overtaken' = overtaken \cup {q \in Requests : pc[q] = "unlocked"}
    /\ cfg' = [cfg EXCEPT ![r] = IF configures THEN "start" ELSE "off"]
    /\ kv' = [kv EXCEPT ![r] = IF stores THEN "wait" ELSE "off"]
    /\ store' = [store EXCEPT ![r] = IF stores THEN "copy" ELSE "off"]
    /\ UNCHANGED <<result, cfgFailed, reader, setter, cfgChan, snapshot, writes, kvChan,
                   pers, kvStore, profile, configDone, mapPonAniConfig, aniVars, envVars>>

Download(r) ==
    /\ r \in Downloads
    /\ mapUniTpPath[UniOf[r]] # WantedPath(r)
    /\ mapUniTpPath' = [mapUniTpPath EXCEPT ![UniOf[r]] = WantedPath(r)]
    /\ Begin(r, UniOf[r], WantedPath(r), TRUE, TRUE)

DeleteTcont(r) ==
    /\ r \in TcontDeletes
    /\ mapUniTpPath[UniOf[r]] # WantedPath(r)
    /\ mapUniTpPath' = [mapUniTpPath EXCEPT ![UniOf[r]] = WantedPath(r)]
    /\ Begin(r, UniOf[r], WantedPath(r), FALSE, TRUE)

\* deleteTpResource, its only goroutine, does nothing.
DeleteGem(r) ==
    /\ r \in GemDeletes
    /\ Begin(r, UniOf[r], NoPath, FALSE, FALSE)
    /\ UNCHANGED mapUniTpPath

\* Only the first stored UNI is configured: the loop returns.
Reconcile(r) ==
    /\ r \in Reconciles
    /\ \E u \in Unis : pers[u] # NoPath /\ Begin(r, u, pers[u], TRUE, FALSE)
    /\ UNCHANGED mapUniTpPath

\* The deadline of the context passes.
Expire(r) ==
    /\ pc[r] = "waiting"
    /\ ctx[r] = "live"
    /\ Cardinality({q \in Requests : ctx[q] = "expired"}) < MaxExpired
    /\ ctx' = [ctx EXCEPT ![r] = "expired"]
    /\ UNCHANGED <<pc, owner, job, result, resultVars, cfgVars, kvVars, dataVars,
                   aniVars, envVars>>

\* waitForTpCompletion: both goroutines are done.
Unlock(r) ==
    /\ pc[r] = "waiting"
    /\ cfg[r] \in Finished /\ kv[r] \in Finished
    /\ owner' = None
    /\ pc' = [pc EXCEPT ![r] = "unlocked"]
    /\ UNCHANGED <<job, ctx, result, resultVars, cfgVars, kvVars, dataVars, aniVars,
                   envVars>>

\* procResult is read after the unlock; the context is cancelled last.
Return(r) ==
    /\ pc[r] = "unlocked"
    /\ pc' = [pc EXCEPT ![r] = "done"]
    /\ result' = [result EXCEPT ![r] = procResult]
    /\ ctx' = [ctx EXCEPT ![r] = IF @ = "live" THEN "cancelled" ELSE @]
    /\ UNCHANGED <<owner, job, resultVars, cfgVars, kvVars, dataVars, aniVars, envVars>>

-----------------------------------------------------------------------------
(* configureUniTp.                                                         *)

\* The UNI has no port (yet).
ConfigureUnknownUni(r) ==
    /\ cfg[r] = "start"
    /\ Fault
    /\ CfgFails(r, "done")
    /\ UNCHANGED <<requestVars, reader, setter, cfgChan, kvVars, dataVars, aniVars,
                   down>>

StartRead(r) ==
    /\ cfg[r] = "start"
    /\ cfg' = [cfg EXCEPT ![r] = "read"]
    /\ reader' = [reader EXCEPT ![r] = "start"]
    /\ UNCHANGED <<requestVars, resultVars, setter, cfgChan, kvVars, dataVars, aniVars,
                   envVars>>

\* Step 1 arrives; step 2 is started if the UNI has a configuration now.
ReadDone(r) ==
    /\ cfg[r] = "read"
    /\ ReceiveStep
    /\ Head(cfgChan).step = 1
    /\ IF mapPonAniConfig[job[r].uni] # NoPath
          THEN /\ cfg' = [cfg EXCEPT ![r] = "set"]
               /\ setter' = [setter EXCEPT ![r] = "start"]
               /\ UNCHANGED resultVars
          ELSE CfgFails(r, "done") /\ UNCHANGED setter
    /\ UNCHANGED <<requestVars, reader, kvVars, dataVars, applied, envVars>>

ReadFails(r) ==
    /\ cfg[r] = "read"
    /\ \/ ctx[r] = "expired" /\ UNCHANGED <<cfgChan, ani>>
       \/ ReceiveStep /\ Head(cfgChan).step # 1
    /\ CfgFails(r, "done")
    /\ UNCHANGED <<requestVars, reader, setter, kvVars, dataVars, applied, envVars>>

SetDone(r) ==
    /\ cfg[r] = "set"
    /\ ReceiveStep
    /\ Head(cfgChan).step = 2
    /\ cfg' = [cfg EXCEPT ![r] = "done"]
    /\ UNCHANGED <<requestVars, resultVars, reader, setter, kvVars, dataVars, applied,
                   envVars>>

SetFails(r) ==
    /\ cfg[r] = "set"
    /\ \/ ctx[r] = "expired" /\ UNCHANGED <<cfgChan, ani>>
       \/ ReceiveStep /\ Head(cfgChan).step # 2
    /\ CfgFails(r, "reset")
    /\ UNCHANGED <<requestVars, reader, setter, kvVars, dataVars, applied, envVars>>

\* The machines an event aniEvReset may leave: the goroutine of an
\* interrupted multi-entity state lives on and posts the event again when
\* its own timeout strikes.
AfterReset(a) ==
    IF a.state \in {"starting", "creating", "mapper", "configDone"}
       THEN {[a EXCEPT !.state = "resetting", !.restarts = @ + 1,
                       !.resets = @ + late] :
                late \in IF a.state = "creating" THEN {0, 1} ELSE {0}}
       ELSE {a}

\* A nil pointer is dereferenced: the adapter is gone with its goroutines.
Panic ==
    /\ pc' = [r \in Requests |-> "gone"]
    /\ owner' = None
    /\ ctx' = [r \in Requests |-> "none"]
    /\ cfg' = [r \in Requests |-> "off"]
    /\ reader' = [r \in Requests |-> "off"]
    /\ setter' = [r \in Requests |-> "off"]
    /\ kv' = [r \in Requests |-> "off"]
    /\ store' = [r \in Requests |-> "off"]
    /\ cfgChan' = << >>
    /\ kvChan' = << >>
    /\ ani' = NoAni
    /\ down' = "gone"
    /\ UNCHANGED <<job, result, resultVars, snapshot, writes, pers, kvStore, dataVars, applied,
                   faults>>

\* configureUniTp posts aniEvReset to the machine it could not finish;
\* without a machine it dereferences a nil pointer.
ResetAni(r) ==
    /\ cfg[r] = "reset"
    /\ IF ani.state = "none"
          THEN Panic
          ELSE /\ ~ani.busy
               /\ ani' \in AfterReset(ani)
               /\ cfg' = [cfg EXCEPT ![r] = "done"]
               /\ UNCHANGED <<requestVars, resultVars, reader, setter, cfgChan, kvVars,
                              dataVars, applied, envVars>>

-----------------------------------------------------------------------------
(* readAniSideConfigFromTechProfile.                                       *)

Report(r, step) == cfgChan' = Append(cfgChan, Sent(r, step))

\* The path has not the expected format.
ReadInvalid(r) ==
    /\ reader[r] = "start"
    /\ reader' = [reader EXCEPT ![r] = "gone"]
    /\ Fault
    /\ Report(r, 0)
    /\ UNCHANGED <<requestVars, resultVars, cfg, setter, kvVars, dataVars, aniVars,
                   down>>

\* The old configuration goes, the profile id is noted; configDone stays.
ReadBegin(r) ==
    /\ reader[r] = "start"
    /\ reader' = [reader EXCEPT ![r] = "get"]
    /\ mapPonAniConfig' = [mapPonAniConfig EXCEPT ![job[r].uni] = NoPath]
    /\ profile' = [profile EXCEPT ![job[r].uni] = job[r].path]
    /\ UNCHANGED <<requestVars, resultVars, cfg, setter, cfgChan, kvVars, mapUniTpPath,
                   configDone, aniVars, envVars>>

\* The profile cannot be read from the KV store, or the time is over.
ReadMissing(r) ==
    /\ reader[r] = "get"
    /\ reader' = [reader EXCEPT ![r] = "gone"]
    /\ IF ctx[r] = "live" THEN Fault ELSE UNCHANGED faults
    /\ Report(r, 0)
    /\ UNCHANGED <<requestVars, resultVars, cfg, setter, kvVars, dataVars, aniVars,
                   down>>

ReadGet(r) ==
    /\ reader[r] = "get"
    /\ ctx[r] = "live"
    /\ reader' = [reader EXCEPT ![r] = "fill"]
    /\ UNCHANGED <<requestVars, resultVars, cfg, setter, cfgChan, kvVars, dataVars,
                   aniVars, envVars>>

\* Some value of the profile is refused: the configuration is removed.
ReadRefused(r) ==
    /\ reader[r] = "fill"
    /\ reader' = [reader EXCEPT ![r] = "gone"]
    /\ mapPonAniConfig' = [mapPonAniConfig EXCEPT ![job[r].uni] = NoPath]
    /\ Fault
    /\ Report(r, 0)
    /\ UNCHANGED <<requestVars, resultVars, cfg, setter, kvVars, mapUniTpPath, profile,
                   configDone, aniVars, down>>

\* The configuration is stored, then that of UNI 0 is logged.
ReadFill(r) ==
    /\ reader[r] = "fill"
    /\ IF job[r].uni # Uni0 /\ mapPonAniConfig[Uni0] = NoPath
          THEN Panic
          ELSE /\ reader' = [reader EXCEPT ![r] = "gone"]
               /\ mapPonAniConfig' = [mapPonAniConfig EXCEPT ![job[r].uni] = job[r].path]
               /\ Report(r, 1)
               /\ UNCHANGED <<requestVars, resultVars, cfg, setter, kvVars, mapUniTpPath,
                              profile, configDone, aniVars, envVars>>

-----------------------------------------------------------------------------
(* setAniSideConfigFromTechProfile and the machine it starts.              *)

\* The machine is created for the UNI of the first request and kept.  If it
\* is disabled it is told where to report; the event follows.
SetChannel(r) ==
    /\ setter[r] = "start"
    /\ LET a == IF ani.state = "none"
                   THEN [NoAni EXCEPT !.state = "disabled", !.uni = job[r].uni]
                   ELSE ani
           ready == a.state = "disabled"
       IN /\ ani' = [a EXCEPT !.chanSet = @ \/ ready]
          /\ setter' = [setter EXCEPT ![r] = IF ready THEN "event" ELSE "gone"]
    /\ UNCHANGED <<requestVars, resultVars, cfg, reader, cfgChan, kvVars, dataVars,
                   applied, envVars>>

StartAni(r) ==
    /\ setter[r] = "event"
    /\ ~ani.busy
    /\ setter' = [setter EXCEPT ![r] = "gone"]
    /\ ani' = IF ani.state = "disabled"
                 THEN [ani EXCEPT !.state = "starting", !.run = r, !.preps = @ + 1]
                 ELSE ani
    /\ UNCHANGED <<requestVars, resultVars, cfg, reader, cfgChan, kvVars, dataVars,
                   applied, envVars>>

\* prepareAndEnterConfigState.
PrepareAni ==
    /\ ani.preps > 0
    /\ IF mapPonAniConfig[ani.uni] = NoPath
          THEN Panic
          ELSE /\ ~ani.busy
               /\ ani' = IF ani.state = "starting"
                            THEN [ani EXCEPT !.preps = @ - 1, !.state = "creating",
                                             !.path = mapPonAniConfig[ani.uni]]
                            ELSE [ani EXCEPT !.preps = @ - 1]
               /\ UNCHANGED <<requestVars, resultVars, cfgVars, kvVars, dataVars,
                              applied, envVars>>

\* The ONU has answered everything up to the priority queues.  Without a
\* GEM port for any p-bit a reset is posted, and the mapper set anyway.
SetMapper ==
    /\ ani.state = "creating"
    /\ ani' = [ani EXCEPT !.state = "mapper",
                          !.resets = IF ani.path \in Unusable THEN @ + 1 ELSE @]
    /\ UNCHANGED <<requestVars, resultVars, cfgVars, kvVars, dataVars, applied, envVars>>

\* The last response: a reset is posted.
CompleteAni ==
    /\ ani.state = "mapper"
    /\ ani' = [ani EXCEPT !.state = "configDone", !.completed = TRUE, !.resets = @ + 1]
    /\ applied' = IF ani.path \in Unusable THEN applied
                  ELSE [applied EXCEPT ![ani.uni] = ani.path]
    /\ UNCHANGED <<requestVars, resultVars, cfgVars, kvVars, dataVars, envVars>>

\* A multi-entity state waits 30 s for a response; it was entered after
\* the deadline of the request, also 30 s, was set.
GiveUpAni ==
    /\ ani.state = "creating"
    /\ ctx[ani.run] # "live"
    /\ ani' = [ani EXCEPT !.state = "resetting", !.restarts = @ + 1]
    /\ UNCHANGED <<requestVars, resultVars, cfgVars, kvVars, dataVars, applied, envVars>>

\* A posted aniEvReset is executed.
PostedReset ==
    /\ ani.resets > 0
    /\ ~ani.busy
    /\ ani' \in AfterReset([ani EXCEPT !.resets = @ - 1])
    /\ UNCHANGED <<requestVars, resultVars, cfgVars, kvVars, dataVars, applied, envVars>>

\* A posted aniEvRestart: enterDisabledState.  It tells the device handler
\* of a completed run, which overwrites the device reason, marks the
\* profile as done and reports on the channel.
RestartAni ==
    /\ ani.restarts > 0
    /\ ~ani.busy
    /\ IF ani.state = "resetting"
          THEN /\ ani' = [ani EXCEPT !.restarts = @ - 1, !.state = "disabled",
                                     !.completed = FALSE, !.busy = ani.chanSet]
               /\ cfgChan' = IF ani.chanSet THEN Append(cfgChan, Sent(Ani, 2)) ELSE cfgChan
               /\ configDone' = [configDone EXCEPT ![ani.uni] = profile[ani.uni] # NoPath]
               /\ down' = IF ani.completed /\ down = "stopped" THEN "overwritten" ELSE down
          ELSE /\ ani' = [ani EXCEPT !.restarts = @ - 1]
               /\ UNCHANGED <<cfgChan, configDone, down>>
    /\ UNCHANGED <<requestVars, resultVars, cfg, reader, setter, kvVars, mapUniTpPath,
                   profile, mapPonAniConfig, applied, faults>>

-----------------------------------------------------------------------------
(* updateOnuTpPathKvStore and storePersistentData.                         *)

CopyPaths(r) ==
    /\ store[r] = "copy"
    /\ store' = [store EXCEPT ![r] = "put"]
    /\ pers' = mapUniTpPath
    /\ snapshot' = [snapshot EXCEPT ![r] = mapUniTpPath]
    /\ UNCHANGED <<requestVars, resultVars, cfgVars, kv, writes, kvChan, kvStore, dataVars,
                   aniVars, envVars>>

\* The client does not send a write for an expired context.
Put(r) ==
    /\ store[r] = "put"
    /\ IF ctx[r] = "live"
          THEN /\ store' = [store EXCEPT ![r] = "sent"]
               /\ writes' = writes \cup {r}
               /\ UNCHANGED kvChan
          ELSE /\ store' = [store EXCEPT ![r] = "failed"]
               /\ kvChan' = Append(kvChan, Sent(r, 0))
               /\ UNCHANGED writes
    /\ UNCHANGED <<requestVars, resultVars, cfgVars, kv, snapshot, pers, kvStore, dataVars,
                   aniVars, envVars>>

\* The KV store applies a write, which may be long after it was sent.
WriteLands(r) ==
    /\ r \in writes
    /\ writes' = writes \ {r}
    /\ kvStore' = snapshot[r]
    /\ UNCHANGED <<requestVars, resultVars, cfgVars, kv, store, snapshot, kvChan, pers,
                   dataVars, aniVars, envVars>>

\* A write that the client reports as failed may be applied before, later or
\* never.
PutReturns(r) ==
    /\ store[r] = "sent"
    /\ \E ok \in {FALSE} \cup {r \notin writes} :
          /\ store' = [store EXCEPT ![r] = IF ok THEN "stored" ELSE "failed"]
          /\ kvChan' = Append(kvChan, Sent(r, IF ok THEN 1 ELSE 0))
          /\ IF ok \/ ctx[r] # "live" THEN UNCHANGED faults ELSE Fault
    /\ UNCHANGED <<requestVars, resultVars, cfgVars, kv, snapshot, writes, pers, kvStore,
                   dataVars, aniVars, down>>

StoreDone(r) ==
    /\ kv[r] = "wait"
    /\ kvChan # << >>
    /\ kvChan' = Tail(kvChan)
    /\ kv' = [kv EXCEPT ![r] = "done"]
    /\ procResult' = IF Head(kvChan).step = 1 THEN procResult ELSE "error"
    /\ UNCHANGED <<requestVars, cfgFailed, overtaken, cfgVars, store, snapshot, writes, pers,
                   kvStore, dataVars, aniVars, envVars>>

StoreExpires(r) ==
    /\ kv[r] = "wait"
    /\ ctx[r] = "expired"
    /\ kv' = [kv EXCEPT ![r] = "done"]
    /\ procResult' = "error"
    /\ UNCHANGED <<requestVars, cfgFailed, overtaken, cfgVars, store, snapshot, writes, kvChan,
                   pers, kvStore, dataVars, aniVars, envVars>>

-----------------------------------------------------------------------------
(* updateInterface, on an ONU down indication.                             *)

DownReset ==
    /\ MaxDowns = 1 /\ down = "up"
    /\ ani.state # "none" => ~ani.busy
    /\ ani' \in AfterReset(ani)
    /\ down' = "reset"
    /\ UNCHANGED <<requestVars, resultVars, cfgVars, kvVars, dataVars, applied, faults>>

DownClear ==
    /\ down = "reset"
    /\ configDone' = [u \in Unis |-> FALSE]
    /\ down' = "cleared"
    /\ UNCHANGED <<requestVars, resultVars, cfgVars, kvVars, mapUniTpPath, profile,
                   mapPonAniConfig, aniVars, faults>>

DownStop ==
    /\ down = "cleared"
    /\ down' = "stopped"
    /\ UNCHANGED <<requestVars, resultVars, cfgVars, kvVars, dataVars, aniVars, faults>>

-----------------------------------------------------------------------------
Handle(r) ==
    \/ Unchanged(r) \/ Download(r) \/ DeleteTcont(r) \/ DeleteGem(r) \/ Reconcile(r)
    \/ Unlock(r) \/ Return(r)

Configure(r) ==
    \/ ConfigureUnknownUni(r) \/ StartRead(r) \/ ReadDone(r) \/ ReadFails(r)
    \/ SetDone(r) \/ SetFails(r) \/ ResetAni(r)

Read(r) ==
    \/ ReadInvalid(r) \/ ReadBegin(r) \/ ReadMissing(r) \/ ReadGet(r)
    \/ ReadRefused(r) \/ ReadFill(r)

SetAni(r) == SetChannel(r) \/ StartAni(r)
Store(r) == CopyPaths(r) \/ Put(r) \/ PutReturns(r) \/ StoreDone(r) \/ StoreExpires(r)
AniEvents == PrepareAni \/ PostedReset \/ RestartAni
AniProgress == SetMapper \/ CompleteAni \/ GiveUpAni
OnuDown == DownReset \/ DownClear \/ DownStop

Next ==
    \/ \E r \in Requests :
         \/ Accept(r) \/ Handle(r) \/ Expire(r)
         \/ Configure(r) \/ Read(r) \/ SetAni(r) \/ Store(r) \/ WriteLands(r)
    \/ AniEvents \/ AniProgress
    \/ OnuDown

Spec == Init /\ [][Next]_vars

(* Goroutines are scheduled, the KV client returns, time passes.  Nothing  *)
(* is assumed of the arrival of requests, of the ONU or of indications.    *)
FairSpec ==
    /\ Spec
    /\ \A r \in Requests :
         /\ WF_vars(Handle(r))
         /\ WF_vars(Expire(r))
         /\ WF_vars(Configure(r))
         /\ WF_vars(Read(r))
         /\ WF_vars(SetAni(r))
         /\ WF_vars(Store(r))
    /\ WF_vars(AniEvents)

-----------------------------------------------------------------------------
(* Properties.                                                             *)

PathMap == [Unis -> Paths \cup {NoPath}]
Message == [from : Requests \cup {Ani}, step : 0 .. 2]

RequestType ==
    /\ pc \in [Requests -> {"idle", "accepted", "waiting", "unlocked", "done", "gone"}]
    /\ owner \in Requests \cup {None}
    /\ job \in [Requests -> [uni : Unis, path : Paths \cup {NoPath}]]
    /\ ctx \in [Requests -> {"none", "live", "expired", "cancelled"}]
    /\ result \in [Requests -> {"none", "ok", "error"}]
ResultType ==
    /\ procResult \in {"ok", "error"}
    /\ cfgFailed \subseteq Requests /\ overtaken \subseteq Requests
CfgType ==
    /\ cfg \in [Requests -> {"off", "start", "read", "set", "reset", "done"}]
    /\ reader \in [Requests -> {"off", "start", "get", "fill", "gone"}]
    /\ setter \in [Requests -> {"off", "start", "event", "gone"}]
    /\ cfgChan \in Seq(Message)
KvType ==
    /\ kv \in [Requests -> {"off", "wait", "done"}]
    /\ store \in [Requests -> {"off", "copy", "put", "sent", "stored", "failed"}]
    /\ snapshot \in [Requests -> PathMap] /\ writes \subseteq Requests
    /\ kvChan \in Seq(Message)
    /\ pers \in PathMap /\ kvStore \in PathMap
DataType ==
    /\ mapUniTpPath \in PathMap /\ profile \in PathMap /\ mapPonAniConfig \in PathMap
    /\ configDone \in [Unis -> BOOLEAN]
Machines ==
    [state : {"none", "disabled", "starting", "creating", "mapper", "configDone",
              "resetting"},
     uni : Unis, path : Paths \cup {NoPath}, run : Requests \cup {None},
     completed : BOOLEAN, chanSet : BOOLEAN, busy : BOOLEAN,
     preps : Nat, resets : Nat, restarts : Nat]
AniType == ani \in Machines /\ applied \in PathMap
EnvType ==
    /\ down \in {"up", "reset", "cleared", "stopped", "overwritten", "gone"}
    /\ faults \in Nat

\* The values the fields and goroutines range over.
TypeOK ==
    /\ RequestType /\ ResultType
    /\ CfgType /\ KvType /\ DataType /\ AniType /\ EnvType

(* tpProcMutex and the wait group: configureUniTp and                      *)
(* updateOnuTpPathKvStore of a request run only while it holds the mutex.  *)
OneRequestAtWork ==
    \A r \in Requests :
        cfg[r] \notin Finished \/ kv[r] \notin Finished => owner = r

\* No deadline has passed, the ONU is up, and no profile without any
\* p-bit has been requested.
Undisturbed ==
    /\ \A r \in Requests : ctx[r] # "expired"
    /\ down = "up"
    /\ \A r \in Requests : job[r].path \notin Unusable

\* No goroutine of a request is left, and the machine is at rest.
NothingRuns ==
    /\ \A r \in Requests :
         /\ reader[r] \in {"off", "gone"}
         /\ setter[r] \in {"off", "gone"}
         /\ store[r] \in {"off", "stored", "failed"}
    /\ cfgChan = << >> /\ kvChan = << >>
    /\ ani.state \in {"none", "disabled"}
    /\ ani.preps = 0 /\ ani.resets = 0 /\ ani.restarts = 0

(* "The complete sequence is ensured to run to completion before some new  *)
(* request is accepted" (updateOnuUniTpPath), as long as nothing disturbs  *)
(* it: when the mutex is free, nothing of an earlier request still runs.   *)
LeftoversNeedADisturbance == owner = None /\ Undisturbed => NothingRuns

(* storePersistentData: when no request is at work, the KV store holds the *)
(* paths in memory, unless a write failed or a deadline passed.            *)
KvFollowsPaths ==
    /\ owner = None /\ down # "gone"
    /\ \A r \in Requests : ctx[r] # "expired" /\ store[r] # "failed"
    => kvStore = mapUniTpPath

\* Download r is answered with success in this step.
Succeeds(r) == result[r] = "none" /\ result'[r] = "ok"

\* The path of download r is in the map, and nothing has changed it since
\* the adapter started, or a request that could not configure it has put it
\* there.
LeftOver(r) ==
    /\ pc[r] = "accepted"
    /\ \/ /\ Stored[UniOf[r]] = PathOf[r]
          /\ \A q \in Requests : UniOf[q] = UniOf[r] => kv[q] = "off"
       \/ \E q \in cfgFailed : job[q] = [uni |-> UniOf[r], path |-> PathOf[r]]

(* "wait for background process to finish and collect their result"        *)
(* (processInterAdapterTechProfileDownloadReqMessage): a download is       *)
(* answered with success only when the ONU has been configured for its UNI *)
(* with the profile of its path.  There are two exceptions: the path was   *)
(* found in place, restored or left by a request that could not configure  *)
(* it; or another request has begun, and reset procResult, between the     *)
(* release of the mutex and the return.                                    *)
SuccessIsConfigured ==
    [][\A r \in Downloads :
          Succeeds(r) /\ Undisturbed
              => \/ applied[UniOf[r]] = PathOf[r]
                 \/ LeftOver(r)
                 \/ r \in overtaken]_vars

(* "deadline context to ensure completion of background routines waited    *)
(* for": the mutex is released again.                                      *)
DeadlineReleasesLock ==
    \A r \in Requests : owner = r ~> owner # r

\* configureUniTp waits for the machine and the machine for configureUniTp.
Jammed(r) == cfg[r] = "reset" /\ ani.busy

(* Once they do, the request holds the mutex for ever: nothing but the end  *)
(* of the adapter helps.                                                   *)
JamsStay ==
    [][\A r \in Requests : Jammed(r) => (Jammed(r)' /\ owner' = r) \/ down' = "gone"]_vars

(* The mutex is released again unless configureUniTp and the completion    *)
(* callback of the machine wait for each other.                            *)
ReleasedUnlessJammed ==
    \A r \in Requests : owner = r ~> (owner # r \/ Jammed(r))

\* The machine, of which all that counts here is how far it has come.
Machine == INSTANCE AniMachine WITH
    phase <- IF down = "gone" THEN "gone"
             ELSE IF ani.state = "none" THEN "disabled" ELSE ani.state,
    completed <- ani.completed /\ down # "gone"

(* The machine is used as AniMachine says, which AniConfigFsm implements.  *)
UsesMachine == Machine!Spec

=============================================================================
