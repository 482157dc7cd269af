---------------------------- MODULE DeviceHandler ----------------------------
(***************************************************************************)
(* The life of one ONU in the device handler (device_handler.go) with the  *)
(* device entry behind it (onu_device_entry.go).                           *)
(*                                                                         *)
(* Every indication, every stage event and every request of the core runs  *)
(* on a goroutine of its own, and each blocks on calls to the core between *)
(* the steps below.  They share the device reason, the device entry with   *)
(* its channel object, and three state machines, seen here from outside:   *)
(*                                                                         *)
(*   up -> MIB upload -> MibDatabaseSync -> MIB download                   *)
(*      -> MibDownloadDone -> UNI unlock -> ports up                       *)
(*                                                                         *)
(* A request of a machine is answered on the channel object it was sent    *)
(* on, and only while that object is the current one (OmciCC).             *)
(***************************************************************************)
EXTENDS Naturals, FiniteSets

CONSTANTS
    MaxUps,      \* bound: up indications of the OLT
    MaxDowns,    \* bound: down indications
    MaxReboots,  \* bound: reboot requests of the core
    MaxFaults    \* bound: failed calls and answers, late adoption

ASSUME DeviceHandlerAssumption ==
    /\ MaxUps \in Nat \ {0} /\ MaxDowns \in Nat
    /\ MaxReboots \in Nat /\ MaxFaults \in Nat

Ups == 1 .. MaxUps
Simulated == 1    \* reconciling: the indication reconcileDeviceOnuInd makes up
Downs == 1 .. MaxDowns
Reboots == 1 .. MaxReboots

\* OnuDeviceEvent, in the order devState is compared by.
DeviceInit == 0
MibDatabaseSync == 1
MibDownloadDone == 2
OmciAniConfigDone == 3
Stages == MibDatabaseSync .. OmciAniConfigDone

\* The device reason of each stage.
StageReason ==
    [s \in Stages |-> IF s = MibDatabaseSync THEN "discovery-mibsync-complete"
                      ELSE IF s = MibDownloadDone THEN "initial-mib-downloaded"
                      ELSE "tech-profile-config-download-success"]

VARIABLES
    adopt,        \* adoptOrReconcileDevice
    entry,        \* pOnuOmciDevice is set
    token,        \* deviceEntrySet holds its value
    fromRestart,  \* the adapter was restarted: Reconcile_device, not Adopt_device
    reconciling,  \* the core is not told
    deviceReason, \* "none" stands for the empty string
    devState,     \* of the device entry
    channel,      \* the current PDevOmciCC, counted
    ul, dl, un,   \* upload, download and unlock machine
    db,           \* pOnuDB holds the MIB of the ONU
    ports,        \* uniEntityMap has the UNI ports
    portsUp,      \* their operational state is ACTIVE
    up, down, reboot, \* goroutines of indications and reboot requests
    stage,        \* goroutines of stage events
    enable,       \* goroutines spawned when the ports are unlocked
    restored,     \* tech profile paths were found by the restore
    downloads, unlocks, \* history: starts of these machines
    told,         \* history: last stage reported to the core
    orderly,      \* history: see Arrives
    faults        \* faults so far

entryVars == <<adopt, entry, token, fromRestart, restored>>
reasonVars == <<deviceReason, told>>
machineVars == <<ul, dl, un, db, downloads, unlocks>>
portVars == <<ports, portsUp, enable>>
taskVars == <<up, down, reboot, stage, devState>>
restVars == <<reconciling, channel, orderly, faults>>
vars == <<entryVars, reasonVars, machineVars, portVars, taskVars, restVars>>

\* A machine and the channel object its open request was sent on.
Machine(state, chan) == [state |-> state, chan |-> chan]

Init ==
    /\ adopt = "none"
    /\ entry = FALSE
    /\ token = FALSE
    /\ fromRestart \in BOOLEAN
    /\ reconciling = fromRestart
    /\ restored \in {FALSE, fromRestart}
    /\ deviceReason = "none"
    /\ devState = DeviceInit
    /\ channel = 0
    /\ ul = Machine("disabled", 0)
    /\ dl = Machine("disabled", 0)
    /\ un = Machine("none", 0)
    /\ db = FALSE
    /\ ports = FALSE
    /\ portsUp = FALSE
    /\ up = [i \in Ups |-> "none"]
    /\ down = [i \in Downs |-> "none"]
    /\ reboot = [i \in Reboots |-> "none"]
    /\ stage = [s \in Stages |-> "none"]
    /\ enable = "none"
    /\ downloads = 0
    /\ unlocks = 0
    /\ told = DeviceInit
    /\ orderly = TRUE
    /\ faults = 0

-----------------------------------------------------------------------------
\* One more fault of the environment.
Fault == faults < MaxFaults /\ faults' = faults + 1

AtRest == {"none", "done"}
UploadRuns == ul.state \in {"getting", "template", "uploading"}
UnlockRuns == un.state = "running"
DownloadRuns == dl.state = "running"

\* No goroutine of the handler is under way; an indication that is still
\* being restored has not arrived.
Quiet ==
    /\ \A i \in Ups : up[i] \in AtRest \cup {"restore", "restored"}
    /\ \A i \in Downs : down[i] \in AtRest
    /\ \A i \in Reboots : reboot[i] \in AtRest
    /\ \A s \in Stages : stage[s] \in AtRest
    /\ enable \in AtRest

\* History: an indication is orderly if it arrives when the handler is at
\* rest, and an up indication only for an ONU that is not up.
Arrives(expected) == orderly' = (orderly /\ Quiet /\ expected)

-----------------------------------------------------------------------------
(* Plausible bugs.  Each operator is the definition below whose name it    *)
(* starts with, changed in the way its comment says; no specification uses *)
(* one.                                                                    *)

\* devState is not looked at.
TransferSystemEventAlways(s) ==
    devState' = s /\ stage' = [stage EXCEPT ![s] = "spawned"]

\* The ONU is asked for its MIB before its type is known.
UploadAsksOnuAtOnce ==
    /\ ul.state \in {"getting", "template"}
    /\ ul' = Machine("uploading", channel)
    /\ UNCHANGED <<entryVars, reasonVars, dl, un, db, downloads, unlocks, portVars,
                   taskVars, restVars>>

\* The device entry is set and nobody who waits is told.
AdoptPostInitSilently ==
    /\ adopt = "init"
    /\ adopt' = "done"
    /\ entry' = TRUE
    /\ up' = [up EXCEPT ![Simulated] = IF reconciling THEN "restore" ELSE @]
    /\ UNCHANGED <<token, fromRestart, restored, reasonVars, machineVars, portVars,
                   down, reboot, stage, devState, restVars>>

\* The download is sent back to its first state instead of being reset.
StopMachinesByTimeout ==
    /\ ul' = IF deviceReason = "starting-openomci" THEN Machine("disabled", ul.chan) ELSE ul
    /\ dl' = IF deviceReason = "discovery-mibsync-complete" /\ DownloadRuns
                THEN Machine("starting", dl.chan) ELSE dl
    /\ UNCHANGED un

\* The unlock of the ports is taken for a part of the download.
StopMachinesButUnlock ==
    /\ ul' = IF deviceReason = "starting-openomci" THEN Machine("disabled", ul.chan) ELSE ul
    /\ dl' = IF deviceReason = "discovery-mibsync-complete" /\ DownloadRuns
                THEN Machine("resetting", dl.chan) ELSE dl
    /\ UNCHANGED un

-----------------------------------------------------------------------------
\* transferSystemEvent, called by a machine that has completed.
TransferSystemEvent(s) ==
    IF devState < s
       THEN devState' = s /\ stage' = [stage EXCEPT ![s] = "spawned"]
       ELSE UNCHANGED <<devState, stage>>

\* The answer to the open request of machine m can reach it.
Answerable(m) == m.chan = channel

-----------------------------------------------------------------------------
(* Adoption and reconciliation.                                            *)

\* doStateInit.  The device object tells the core the reason too.
AdoptInit ==
    /\ adopt = "none"
    /\ adopt' = "init"
    /\ deviceReason' = "activating-onu"
    /\ UNCHANGED <<entry, token, fromRestart, restored, told, machineVars, portVars,
                   taskVars, restVars>>

\* postInit with addOnuDeviceEntry: one value for those who wait.
AdoptPostInit ==
    /\ adopt = "init"
    /\ adopt' = "done"
    /\ entry' = TRUE
    /\ token' = TRUE
    /\ up' = [up EXCEPT ![Simulated] = IF reconciling THEN "restore" ELSE @]
    /\ UNCHANGED <<fromRestart, restored, reasonVars, machineVars, portVars, down,
                   reboot, stage, devState, restVars>>

\* reconcileDeviceOnuInd: the restore succeeds or fails.
Restore ==
    /\ up[Simulated] = "restore"
    /\ \/ /\ up' = [up EXCEPT ![Simulated] = "restored"]
          /\ UNCHANGED <<reconciling, faults>>
       \/ /\ up' = [up EXCEPT ![Simulated] = "done"]
          /\ reconciling' = FALSE
          /\ Fault
    /\ UNCHANGED <<entryVars, reasonVars, machineVars, portVars, down, reboot, stage,
                   devState, channel, orderly>>

-----------------------------------------------------------------------------
(* createInterface, on an up indication.                                   *)

UpArrives(i) ==
    /\ adopt # "none"
    /\ \/ up[i] = "restored"
       \/ up[i] = "none" /\ ~(fromRestart /\ i = Simulated)
    /\ up' = [up EXCEPT ![i] = "entry"]
    /\ Arrives(deviceReason \in {"activating-onu", "stopping-openomci"})
    /\ UNCHANGED <<entryVars, reasonVars, machineVars, portVars, down, reboot, stage,
                   devState, reconciling, channel, faults>>

UpFindsNoEntry(i) ==
    /\ up[i] = "entry" /\ ~entry
    /\ up' = [up EXCEPT ![i] = "waiting"]
    /\ UNCHANGED <<entryVars, reasonVars, machineVars, portVars, down, reboot, stage,
                   devState, restVars>>

\* The entry is there, or its token is taken: the entry starts with a new
\* channel object.
UpStartsEntry(i) ==
    /\ \/ up[i] = "entry" /\ entry /\ UNCHANGED token
       \/ up[i] = "waiting" /\ token /\ token' = FALSE
    /\ up' = [up EXCEPT ![i] = "started"]
    /\ channel' = channel + 1
    /\ UNCHANGED <<adopt, entry, fromRestart, restored, reasonVars, machineVars,
                   portVars, down, reboot, stage, devState, reconciling, orderly,
                   faults>>

\* 60 s without a value; a late adoption is a fault.
UpGivesUp(i) ==
    /\ up[i] = "waiting" /\ ~token
    /\ up' = [up EXCEPT ![i] = "done"]
    /\ IF entry THEN UNCHANGED faults ELSE Fault
    /\ UNCHANGED <<entryVars, reasonVars, machineVars, portVars, down, reboot, stage,
                   devState, reconciling, channel, orderly>>

\* The core is told, then the handler takes the reason over.
UpNames(i) ==
    /\ up[i] = "started"
    /\ up' = [up EXCEPT ![i] = "verify"]
    /\ deviceReason' = "starting-openomci"
    /\ UNCHANGED <<entryVars, told, machineVars, portVars, down, reboot, stage,
                   devState, restVars>>

\* After the verification or its 2 s the upload is started, with an empty
\* database, unless its machine is in a wrong state.
UpStartsUpload(i) ==
    /\ up[i] = "verify"
    /\ up' = [up EXCEPT ![i] = "done"]
    /\ IF ul.state = "disabled"
          THEN ul' = Machine("getting", channel) /\ db' = FALSE
          ELSE UNCHANGED <<ul, db>>
    /\ UNCHANGED <<entryVars, reasonVars, dl, un, downloads, unlocks, portVars, down,
                   reboot, stage, devState, restVars>>

-----------------------------------------------------------------------------
(* The machines.  An answer that reports an error, or comes in a wrong     *)
(* state, stops the upload; the later machines give up after 30 s.         *)

\* The identity of the ONU is known, its template is looked for.
UploadGetsTemplate ==
    /\ ul.state = "getting" /\ Answerable(ul)
    /\ ul' = Machine("template", ul.chan)
    /\ UNCHANGED <<entryVars, reasonVars, dl, un, db, downloads, unlocks, portVars,
                   taskVars, restVars>>

\* There is no template: the ONU is asked for its MIB.
UploadAsksOnu ==
    /\ ul.state = "template"
    /\ ul' = Machine("uploading", channel)
    /\ UNCHANGED <<entryVars, reasonVars, dl, un, db, downloads, unlocks, portVars,
                   taskVars, restVars>>

UploadInSync ==
    /\ \/ ul.state = "template"
       \/ ul.state = "uploading" /\ Answerable(ul)
    /\ ul' = Machine("inSync", ul.chan)
    /\ db' = TRUE
    /\ TransferSystemEvent(MibDatabaseSync)
    /\ UNCHANGED <<entryVars, reasonVars, dl, un, downloads, unlocks, portVars, up,
                   down, reboot, restVars>>

\* A MIB without entities sends the machine back, with nothing more to wait
\* for; any other error stops it.
UploadFails ==
    /\ ul.state \in {"getting", "uploading"} /\ Answerable(ul)
    /\ Fault
    /\ \/ ul' = Machine("disabled", ul.chan)
       \/ ul.state = "uploading" /\ ul' = Machine("getting", 0)
    /\ UNCHANGED <<entryVars, reasonVars, dl, un, db, downloads, unlocks, portVars,
                   taskVars, reconciling, channel, orderly>>

DownloadDone ==
    /\ DownloadRuns /\ Answerable(dl)
    /\ dl' = Machine("downloaded", dl.chan)
    /\ TransferSystemEvent(MibDownloadDone)
    /\ UNCHANGED <<entryVars, reasonVars, ul, un, db, downloads, unlocks, portVars, up,
                   down, reboot, restVars>>

DownloadFails ==
    /\ DownloadRuns
    /\ IF Answerable(dl) THEN Fault ELSE UNCHANGED faults
    /\ dl' = Machine("resetting", dl.chan)
    /\ UNCHANGED <<entryVars, reasonVars, ul, un, db, downloads, unlocks, portVars,
                   taskVars, reconciling, channel, orderly>>

\* The goroutines that post dlEvReset and dlEvRestart.
DownloadWindsDown ==
    /\ dl.state \in {"downloaded", "resetting"}
    /\ dl' = Machine(IF dl.state = "downloaded" THEN "resetting" ELSE "disabled", dl.chan)
    /\ UNCHANGED <<entryVars, reasonVars, ul, un, db, downloads, unlocks, portVars,
                   taskVars, restVars>>

\* enterAdminDoneState calls processUniUnlockStateDoneEvent.  The UNIs are PPTPs:
\* the answer of a VEIP is not recognised, and its unlock fails.
UnlockDone ==
    /\ UnlockRuns /\ Answerable(un)
    /\ un' = Machine("adminDone", un.chan)
    /\ enable' = "spawned"
    /\ UNCHANGED <<entryVars, reasonVars, ul, dl, db, downloads, unlocks, ports,
                   portsUp, taskVars, restVars>>

UnlockFails ==
    /\ UnlockRuns
    /\ IF Answerable(un) THEN Fault ELSE UNCHANGED faults
    /\ un' = Machine("resetting", un.chan)
    /\ UNCHANGED <<entryVars, reasonVars, ul, dl, db, downloads, unlocks, portVars,
                   taskVars, reconciling, channel, orderly>>

UnlockWindsDown ==
    /\ un.state \in {"adminDone", "resetting"}
    /\ un' = Machine(IF un.state = "adminDone" THEN "resetting" ELSE "disabled", un.chan)
    /\ UNCHANGED <<entryVars, reasonVars, ul, dl, db, downloads, unlocks, portVars,
                   taskVars, restVars>>

-----------------------------------------------------------------------------
(* deviceProcStatusUpdate.                                                 *)

\* The tech profile of a UNI that the core has seen come up is configured
\* (TechProf).
TechProfConfigured ==
    /\ enable = "done" /\ portsUp
    /\ deviceReason # "stopping-openomci"
    /\ stage[OmciAniConfigDone] = "none"
    /\ stage' = [stage EXCEPT ![OmciAniConfigDone] = "spawned"]
    /\ UNCHANGED <<entryVars, reasonVars, machineVars, portVars, up, down, reboot,
                   devState, restVars>>

\* The core is told of stage s, unless the call fails or the handler
\* reconciles; the handler takes the reason over.  After MibDatabaseSync the
\* ports of the database are added.
StageNames(s) ==
    /\ stage[s] = "spawned"
    /\ stage' = [stage EXCEPT ![s] = IF s = OmciAniConfigDone THEN "done" ELSE "named"]
    /\ \/ told' = (IF reconciling THEN told ELSE s) /\ UNCHANGED faults
       \/ ~reconciling /\ Fault /\ UNCHANGED told
    /\ deviceReason' = StageReason[s]
    /\ ports' = (ports \/ (s = MibDatabaseSync /\ db))
    /\ UNCHANGED <<entryVars, machineVars, portsUp, enable, up, down, reboot, devState,
                   reconciling, channel, orderly>>

\* processMibDatabaseSyncEvent goes on with the download.
StartDownload ==
    /\ stage[MibDatabaseSync] = "named"
    /\ stage' = [stage EXCEPT ![MibDatabaseSync] = "done"]
    /\ IF dl.state = "disabled"
          THEN dl' = Machine("running", channel) /\ downloads' = downloads + 1
          ELSE UNCHANGED <<dl, downloads>>
    /\ UNCHANGED <<entryVars, reasonVars, ul, un, db, unlocks, portVars, up, down,
                   reboot, devState, restVars>>

\* processMibDownloadDoneEvent goes on with the unlock, on the channel
\* object its machine was created with.
StartUnlock ==
    /\ stage[MibDownloadDone] = "named"
    /\ stage' = [stage EXCEPT ![MibDownloadDone] = "done"]
    /\ IF un.state \in {"none", "disabled"}
          THEN /\ un' = Machine("running", IF un.state = "none" THEN channel ELSE un.chan)
               /\ unlocks' = unlocks + 1
          ELSE UNCHANGED <<un, unlocks>>
    /\ UNCHANGED <<entryVars, reasonVars, ul, dl, db, downloads, portVars, up, down,
                   reboot, devState, restVars>>

\* enableUniPortStateUpdate and, reconciling, reconcileDeviceTechProf, which
\* leaves reconciling set if there is a path to configure.
EnablePorts ==
    /\ enable = "spawned"
    /\ enable' = "done"
    /\ portsUp' = ports
    /\ reconciling' = (reconciling /\ restored)
    /\ UNCHANGED <<entryVars, reasonVars, machineVars, ports, taskVars, channel,
                   orderly, faults>>

-----------------------------------------------------------------------------
(* updateInterface, on a down indication.                                  *)

\* What is stopped depends on the device reason.
StopMachines ==
    /\ ul' = IF deviceReason = "starting-openomci" THEN Machine("disabled", ul.chan) ELSE ul
    /\ dl' = IF deviceReason = "discovery-mibsync-complete"
                /\ dl.state \in {"running", "downloaded"}
                THEN Machine("resetting", dl.chan) ELSE dl
    /\ un' = IF deviceReason \notin {"starting-openomci", "discovery-mibsync-complete"}
                /\ un.state \in {"running", "adminDone"}
                THEN Machine("resetting", un.chan) ELSE un

DownArrives(i) ==
    /\ adopt # "none"
    /\ down[i] = "none"
    /\ Arrives(TRUE)
    /\ IF entry /\ deviceReason # "stopping-openomci"
          THEN /\ StopMachines
               /\ portsUp' = FALSE
               /\ down' = [down EXCEPT ![i] = "stopped"]
          ELSE /\ down' = [down EXCEPT ![i] = "done"]
               /\ UNCHANGED <<ul, dl, un, portsUp>>
    /\ UNCHANGED <<entryVars, reasonVars, db, downloads, unlocks, ports, enable, up,
                   reboot, stage, devState, reconciling, channel, faults>>

\* The core is told, even by a handler that reconciles; a failed call ends
\* the processing.
DownNames(i) ==
    /\ down[i] = "stopped"
    /\ down' = [down EXCEPT ![i] = "done"]
    /\ \/ deviceReason' = "stopping-openomci" /\ UNCHANGED faults
       \/ Fault /\ UNCHANGED deviceReason
    /\ UNCHANGED <<entryVars, told, machineVars, portVars, up, reboot, stage, devState,
                   reconciling, channel, orderly>>

-----------------------------------------------------------------------------
\* rebootDevice, of a device that has been reported as reachable; a failed
\* call ends it.
Reboot(i) ==
    /\ ~fromRestart => \E j \in Ups : up[j] # "none"
    /\ adopt # "none"
    /\ reboot[i] = "none"
    /\ reboot' = [reboot EXCEPT ![i] = "done"]
    /\ orderly' = FALSE
    /\ \/ deviceReason' = "rebooting-onu" /\ UNCHANGED faults
       \/ Fault /\ UNCHANGED deviceReason
    /\ UNCHANGED <<entryVars, told, machineVars, portVars, up, down, stage, devState,
                   reconciling, channel>>

-----------------------------------------------------------------------------
Adopt == AdoptInit \/ AdoptPostInit \/ Restore
UpGoes(i) ==
    \/ UpFindsNoEntry(i) \/ UpStartsEntry(i) \/ UpGivesUp(i)
    \/ UpNames(i) \/ UpStartsUpload(i)
StagesGo == StartDownload \/ StartUnlock \/ EnablePorts
MachinesGo ==
    \/ UploadGetsTemplate \/ UploadAsksOnu \/ UploadInSync \/ DownloadDone
    \/ DownloadWindsDown \/ UnlockDone \/ UnlockWindsDown
MachinesFail == UploadFails \/ DownloadFails \/ UnlockFails

Next ==
    \/ Adopt
    \/ \E i \in Ups : UpArrives(i) \/ UpGoes(i)
    \/ \E i \in Downs : DownArrives(i) \/ DownNames(i)
    \/ \E i \in Reboots : Reboot(i)
    \/ \E s \in Stages : StageNames(s)
    \/ StagesGo \/ MachinesGo \/ MachinesFail
    \/ TechProfConfigured

Spec == Init /\ [][Next]_vars

(* Goroutines are scheduled, calls to the core return, the ONU answers, and *)
(* a simulated indication is processed.  Nothing is assumed of indications, *)
(* reboots and tech profiles.                                               *)
FairSpec ==
    /\ Spec
    /\ WF_vars(Adopt)
    /\ WF_vars(UpArrives(Simulated))
    /\ \A i \in Ups : WF_vars(UpGoes(i))
    /\ \A s \in Stages : WF_vars(StageNames(s))
    /\ WF_vars(StartDownload) /\ WF_vars(StartUnlock) /\ WF_vars(EnablePorts)
    /\ WF_vars(MachinesGo)

-----------------------------------------------------------------------------
(* Properties.                                                             *)

Reasons ==
    {"none", "activating-onu", "starting-openomci", "stopping-openomci", "rebooting-onu"}
        \cup {StageReason[s] : s \in Stages}
MachineIn(states) == [state : states, chan : Nat]

EntryType ==
    /\ adopt \in {"none", "init", "done"}
    /\ entry \in BOOLEAN /\ token \in BOOLEAN
    /\ fromRestart \in BOOLEAN /\ restored \in BOOLEAN
ReasonType == deviceReason \in Reasons /\ told \in {DeviceInit} \cup Stages
MachinesType ==
    /\ ul \in MachineIn({"disabled", "getting", "template", "uploading", "inSync"})
    /\ dl \in MachineIn({"disabled", "running", "downloaded", "resetting"})
    /\ un \in MachineIn({"none", "disabled", "running", "adminDone", "resetting"})
    /\ db \in BOOLEAN /\ downloads \in Nat /\ unlocks \in Nat
PortType ==
    ports \in BOOLEAN /\ portsUp \in BOOLEAN /\ enable \in {"none", "spawned", "done"}
TaskType ==
    /\ up \in [Ups -> {"none", "restore", "restored", "entry", "waiting", "started",
                       "verify", "done"}]
    /\ down \in [Downs -> {"none", "stopped", "done"}]
    /\ reboot \in [Reboots -> {"none", "done"}]
    /\ stage \in [Stages -> {"none", "spawned", "named", "done"}]
    /\ devState \in DeviceInit .. MibDownloadDone
RestType ==
    /\ reconciling \in BOOLEAN /\ orderly \in BOOLEAN
    /\ channel \in Nat /\ faults \in Nat

\* The values the fields and goroutines range over.
TypeOK ==
    EntryType /\ ReasonType /\ MachinesType /\ PortType /\ TaskType /\ RestType

(* transferSystemEvent and devState: whatever indications come, the initial *)
(* download and the unlock of the ports are started at most once.           *)
StagesRunOnce == downloads <= 1 /\ unlocks <= 1

(* The goroutines of the stage events report on their own; the core is     *)
(* nevertheless told of the stages in their order, and never twice.        *)
StagesToldInOrder == [][told' # told => told' > told]_told

NothingRuns == ~UploadRuns /\ ~DownloadRuns /\ ~UnlockRuns /\ ~portsUp

(* "stop all running SM processing - make use of the DH-state as mirrored  *)
(* in the deviceReason" (updateInterface), for indications that do not     *)
(* overlap and without a reboot: a stopped device has nothing running.     *)
OrderlyStopStopsAll ==
    orderly /\ Quiet /\ deviceReason = "stopping-openomci" => NothingRuns

\* More than one up indication has come, or a down or a reboot, or a fault
\* has happened.
Disturbed ==
    \/ \E i, j \in Ups : i # j /\ up[i] # "none" /\ up[j] # "none"
    \/ \E i \in Downs : down[i] # "none"
    \/ \E i \in Reboots : reboot[i] # "none"
    \/ faults > 0

(* An undisturbed ONU that comes up gets its ports up, also if the         *)
(* indication is there before the device entry.                            *)
BringUp == \A i \in Ups : up[i] = "entry" ~> (portsUp \/ Disturbed)

(* deviceEntrySet holds one value, and of several up indications that wait *)
(* only one takes it: an indication that waits in vain for an entry that is *)
(* there does so because another one has started the entry.                *)
WaitingIsWoken == (\E i \in Ups : up[i] = "waiting") /\ entry => token \/ channel > 0

(* "assumption there is obviously, that the system may continue with some  *)
(* 'after mib-download-done' state" (updateInterface): an ONU that is up   *)
(* again does not stay in the state it starts from.                        *)
UpAgainGetsGoing ==
    orderly /\ Quiet /\ faults = 0 /\ deviceReason = "starting-openomci" => UploadRuns

(* Why it does not: a stage whose goroutine is done is entered by no later  *)
(* step, and the ports that were enabled once stay down after the ONU went  *)
(* down, whatever indications come.                                        *)
NoSecondBringUp ==
    [][/\ \A s \in {MibDatabaseSync, MibDownloadDone} :
             stage[s] = "done" =>
                /\ stage'[s] = "done"
                /\ deviceReason' = StageReason[s] => UNCHANGED deviceReason
       /\ enable = "done" => enable' = "done" /\ (portsUp' => portsUp)]_vars

Upload == INSTANCE UploadMachine WITH phase <- ul.state

Phase(m) ==
    CASE m.state = "none" -> "disabled"
      [] m.state \in {"downloaded", "adminDone"} -> "done"
      [] OTHER -> m.state

Download == INSTANCE StageMachine WITH
    phase <- Phase(dl), told <- stage[MibDownloadDone] # "none"
Unlock == INSTANCE StageMachine WITH phase <- Phase(un), told <- enable # "none"

(* The handler relies on nothing else of the upload, the download and the  *)
(* unlock (enterInSyncState, updateInterface, processMibDownloadDoneEvent, *)
(* processUniUnlockStateDoneEvent) than what MibSync and InitialConfig     *)
(* implement.                                                              *)
UsesMachines == Upload!Spec /\ Download!Spec /\ Unlock!Spec

=============================================================================
