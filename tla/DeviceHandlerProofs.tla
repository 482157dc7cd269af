------------------------- MODULE DeviceHandlerProofs -------------------------
(***************************************************************************)
(* What is proved of the device handler, for any number of indications,    *)
(* reboots and faults: the type invariant, that every stage runs once and  *)
(* is told in its order, that an orderly down stops everything, and that   *)
(* the handler uses its machines as MibSync and InitialConfig have them.   *)
(***************************************************************************)
EXTENDS DeviceHandler, TLAPS

UpBusy(i) == up[i] \in {"entry", "waiting", "started", "verify"}
DownBusy(i) == down[i] = "stopped"
IndicationBusy == (\E i \in Ups : UpBusy(i)) \/ (\E i \in Downs : DownBusy(i))
StageBusy == (\E s \in Stages : stage[s] \in {"spawned", "named"}) \/ enable = "spawned"

\* How far the stages are, in terms of one another.
StageInv ==
    /\ devState = DeviceInit <=> stage[MibDatabaseSync] = "none"
    /\ devState = MibDownloadDone <=> stage[MibDownloadDone] # "none"
    /\ dl.state # "disabled" \/ stage[MibDownloadDone] # "none"
       => stage[MibDatabaseSync] = "done"
    /\ un.state # "none" \/ enable # "none" => stage[MibDownloadDone] = "done"
    /\ stage[MibDownloadDone] # "none" => ~DownloadRuns
    /\ enable # "none" => ~UnlockRuns
    /\ stage[OmciAniConfigDone] # "none" \/ portsUp => enable = "done"
    /\ stage[MibDatabaseSync] # "done" => downloads = 0
    /\ stage[MibDownloadDone] # "done" => unlocks = 0
    /\ downloads <= 1 /\ unlocks <= 1
    /\ \A s \in Stages : told >= s => stage[s] \in {"named", "done"}

\* Indications do not overlap.
OneIndication ==
    /\ \A i, j \in Ups : UpBusy(i) /\ UpBusy(j) => i = j
    /\ \A i, j \in Downs : DownBusy(i) /\ DownBusy(j) => i = j
    /\ \A i \in Ups, j \in Downs : ~(UpBusy(i) /\ DownBusy(j))

\* The reason mirrors what is under way.
ReasonFits ==
    /\ IndicationBusy \/ deviceReason \in {"none", "activating-onu", "stopping-openomci"}
       => NothingRuns /\ ~StageBusy
    /\ \A i \in Ups : up[i] = "verify" => deviceReason = "starting-openomci"
    /\ UploadRuns \/ stage[MibDatabaseSync] = "spawned"
       => deviceReason = "starting-openomci"
    /\ UploadRuns => stage[MibDatabaseSync] # "spawned"
    /\ stage[MibDatabaseSync] = "named" \/ DownloadRuns
       \/ stage[MibDownloadDone] = "spawned"
       => deviceReason = "discovery-mibsync-complete"
    /\ DownloadRuns => stage[MibDownloadDone] # "spawned"
    /\ stage[MibDownloadDone] = "named" \/ UnlockRuns \/ enable = "spawned"
       => deviceReason = "initial-mib-downloaded"
    /\ portsUp \/ stage[OmciAniConfigDone] = "spawned"
       => deviceReason \in {"initial-mib-downloaded",
                            "tech-profile-config-download-success"}

OrderInv == orderly => OneIndication /\ ReasonFits

\* Nothing happens before the adoption.
AdoptFirst ==
    adopt = "none" =>
        /\ \A i \in Ups : up[i] = "none"
        /\ \A i \in Downs : down[i] = "none"
        /\ \A s \in Stages : stage[s] = "none"
        /\ enable = "none" /\ ~portsUp
        /\ ul.state = "disabled" /\ dl.state = "disabled" /\ un.state = "none"

IInv == TypeOK /\ StageInv /\ AdoptFirst /\ OrderInv

-----------------------------------------------------------------------------
USE DeviceHandlerAssumption
    DEF DeviceInit, MibDatabaseSync, MibDownloadDone, OmciAniConfigDone

LEMMA StageReasonValue ==
    /\ StageReason[1] = "discovery-mibsync-complete"
    /\ StageReason[2] = "initial-mib-downloaded"
    /\ StageReason[3] = "tech-profile-config-download-success"
    /\ Stages = {1, 2, 3}
  BY DEF StageReason, Stages

LEMMA InitType == Init => TypeOK
<1> SUFFICES ASSUME Init PROVE TypeOK
  OBVIOUS
<1> USE DEF Init
<1>1. EntryType /\ PortType /\ RestType
  BY DEF EntryType, PortType, RestType
<1>2. ReasonType
  BY DEF ReasonType, Reasons
<1>3. MachinesType
  BY DEF MachinesType, MachineIn, Machine
<1>4. TaskType
  BY DEF TaskType
<1> QED
  BY <1>1, <1>2, <1>3, <1>4 DEF TypeOK

LEMMA SameType ==
    /\ EntryType /\ UNCHANGED entryVars => EntryType'
    /\ ReasonType /\ UNCHANGED reasonVars => ReasonType'
    /\ MachinesType /\ UNCHANGED machineVars => MachinesType'
    /\ PortType /\ UNCHANGED portVars => PortType'
    /\ TaskType /\ UNCHANGED taskVars => TaskType'
    /\ RestType /\ UNCHANGED restVars => RestType'
<1>1. EntryType /\ UNCHANGED entryVars => EntryType'
  BY DEF EntryType, entryVars
<1>2. ReasonType /\ UNCHANGED reasonVars => ReasonType'
  BY DEF ReasonType, reasonVars
<1>3. MachinesType /\ UNCHANGED machineVars => MachinesType'
  BY DEF MachinesType, machineVars
<1>4. PortType /\ UNCHANGED portVars => PortType'
  BY DEF PortType, portVars
<1>5. TaskType /\ UNCHANGED taskVars => TaskType'
  BY DEF TaskType, taskVars
<1>6. RestType /\ UNCHANGED restVars => RestType'
  BY DEF RestType, restVars
<1> QED
  BY <1>1, <1>2, <1>3, <1>4, <1>5, <1>6

LEMMA FaultType == RestType /\ (Fault \/ UNCHANGED faults) => faults' \in Nat
  BY DEF RestType, Fault

LEMMA AdoptType == TypeOK /\ Adopt => TypeOK'
<1> SUFFICES ASSUME TypeOK, Adopt PROVE TypeOK'
  OBVIOUS
<1> USE DEF TypeOK
<1>1. CASE AdoptInit
  <2>1. EntryType' /\ ReasonType'
    BY <1>1 DEF AdoptInit, EntryType, ReasonType, Reasons
  <2> QED
    BY <1>1, <2>1, SameType DEF AdoptInit
<1>2. CASE AdoptPostInit
  <2>1. EntryType'
    BY <1>2 DEF AdoptPostInit, EntryType
  <2>2. TaskType'
    BY <1>2 DEF AdoptPostInit, TaskType, Simulated
  <2> QED
    BY <1>2, <2>1, <2>2, SameType DEF AdoptPostInit
<1>3. CASE Restore
  <2>1. TaskType'
    BY <1>3 DEF Restore, TaskType
  <2>2. RestType'
    BY <1>3, FaultType DEF Restore, RestType
  <2> QED
    BY <1>3, <2>1, <2>2, SameType DEF Restore
<1> QED
  BY <1>1, <1>2, <1>3 DEF Adopt

LEMMA UpType ==
  ASSUME TypeOK, NEW i \in Ups, UpArrives(i) \/ UpGoes(i) PROVE TypeOK'
<1> USE DEF TypeOK
<1>1. CASE UpArrives(i)
  <2>1. TaskType'
    BY <1>1 DEF UpArrives, TaskType
  <2>2. orderly' \in BOOLEAN
    BY <1>1, Zenon DEF UpArrives, Arrives
  <2>3. RestType'
    BY <1>1, <2>2 DEF UpArrives, RestType
  <2> QED
    BY <1>1, <2>1, <2>3, SameType DEF UpArrives
<1>2. CASE UpFindsNoEntry(i)
  <2>1. TaskType'
    BY <1>2 DEF UpFindsNoEntry, TaskType
  <2> QED
    BY <1>2, <2>1, SameType DEF UpFindsNoEntry
<1>3. CASE UpStartsEntry(i)
  <2>1. EntryType'
    BY <1>3 DEF UpStartsEntry, EntryType
  <2>2. TaskType'
    BY <1>3 DEF UpStartsEntry, TaskType
  <2>3. RestType'
    BY <1>3 DEF UpStartsEntry, RestType
  <2> QED
    BY <1>3, <2>1, <2>2, <2>3, SameType DEF UpStartsEntry
<1>4. CASE UpGivesUp(i)
  <2>1. TaskType'
    BY <1>4 DEF UpGivesUp, TaskType
  <2>2. RestType'
    BY <1>4, FaultType DEF UpGivesUp, RestType
  <2> QED
    BY <1>4, <2>1, <2>2, SameType DEF UpGivesUp
<1>5. CASE UpNames(i)
  <2>1. TaskType'
    BY <1>5 DEF UpNames, TaskType
  <2>2. ReasonType'
    BY <1>5 DEF UpNames, ReasonType, Reasons
  <2> QED
    BY <1>5, <2>1, <2>2, SameType DEF UpNames
<1>6. CASE UpStartsUpload(i)
  <2>1. TaskType'
    BY <1>6 DEF UpStartsUpload, TaskType
  <2>2. MachinesType'
    <3>1. /\ ul' \in {ul, Machine("getting", channel)}
          /\ db' \in BOOLEAN
          /\ UNCHANGED <<dl, un, downloads, unlocks>>
      BY <1>6 DEF UpStartsUpload, MachinesType
    <3> QED
      BY <3>1 DEF MachinesType, MachineIn, Machine, RestType
  <2> QED
    BY <1>6, <2>1, <2>2, SameType DEF UpStartsUpload
<1> QED
  BY <1>1, <1>2, <1>3, <1>4, <1>5, <1>6 DEF UpGoes

LEMMA DownType ==
  ASSUME TypeOK, NEW i \in Downs, DownArrives(i) \/ DownNames(i) PROVE TypeOK'
<1> USE DEF TypeOK
<1>1. CASE DownArrives(i)
  <2>1. TaskType'
    BY <1>1 DEF DownArrives, TaskType
  <2>2. orderly' \in BOOLEAN
    BY <1>1, Zenon DEF DownArrives, Arrives
  <2>3. RestType' /\ PortType'
    BY <1>1, <2>2 DEF DownArrives, RestType, PortType
  <2>4. MachinesType'
    BY <1>1 DEF DownArrives, StopMachines, MachinesType, MachineIn, Machine
  <2> QED
    BY <1>1, <2>1, <2>3, <2>4, SameType DEF DownArrives
<1>2. CASE DownNames(i)
  <2>1. TaskType'
    BY <1>2 DEF DownNames, TaskType
  <2>2. ReasonType'
    BY <1>2 DEF DownNames, ReasonType, Reasons
  <2>3. RestType'
    BY <1>2, FaultType DEF DownNames, RestType
  <2> QED
    BY <1>2, <2>1, <2>2, <2>3, SameType DEF DownNames
<1> QED
  BY <1>1, <1>2

LEMMA RebootType == ASSUME TypeOK, NEW i \in Reboots, Reboot(i) PROVE TypeOK'
<1> USE DEF TypeOK
<1>1. TaskType'
  BY DEF Reboot, TaskType
<1>2. ReasonType'
  BY DEF Reboot, ReasonType, Reasons
<1>3. RestType'
  BY FaultType DEF Reboot, RestType
<1> QED
  BY <1>1, <1>2, <1>3, SameType DEF Reboot

LEMMA StagesType ==
  ASSUME TypeOK, \/ \E s \in Stages : StageNames(s)
                 \/ StagesGo \/ TechProfConfigured
  PROVE TypeOK'
<1> USE DEF TypeOK
<1>1. ASSUME NEW s \in Stages, StageNames(s) PROVE TypeOK'
  <2>1. TaskType' /\ PortType'
    BY <1>1 DEF StageNames, TaskType, PortType
  <2>2. ReasonType'
    BY <1>1 DEF StageNames, ReasonType, Reasons
  <2>3. RestType'
    BY <1>1, FaultType DEF StageNames, RestType
  <2> QED
    BY <1>1, <2>1, <2>2, <2>3, SameType DEF StageNames
<1>2. CASE StartDownload
  <2>1. TaskType'
    BY <1>2 DEF StartDownload, TaskType, Stages
  <2>2. MachinesType'
    BY <1>2 DEF StartDownload, MachinesType, MachineIn, Machine, RestType
  <2> QED
    BY <1>2, <2>1, <2>2, SameType DEF StartDownload
<1>3. CASE StartUnlock
  <2>1. TaskType'
    BY <1>3 DEF StartUnlock, TaskType, Stages
  <2>2. MachinesType'
    BY <1>3 DEF StartUnlock, MachinesType, MachineIn, Machine, RestType
  <2> QED
    BY <1>3, <2>1, <2>2, SameType DEF StartUnlock
<1>4. CASE EnablePorts
  <2>1. RestType' /\ PortType'
    BY <1>4 DEF EnablePorts, RestType, PortType, EntryType
  <2> QED
    BY <1>4, <2>1, SameType DEF EnablePorts
<1>5. CASE TechProfConfigured
  <2>1. TaskType'
    BY <1>5 DEF TechProfConfigured, TaskType, Stages
  <2> QED
    BY <1>5, <2>1, SameType DEF TechProfConfigured
<1> QED
  BY <1>1, <1>2, <1>3, <1>4, <1>5 DEF StagesGo

LEMMA MachinesGoType == ASSUME TypeOK, MachinesGo \/ MachinesFail PROVE TypeOK'
<1> USE DEF TypeOK
<1>1. MachinesType'
  <2> USE DEF MachinesType, MachineIn, Machine, RestType
  <2>1. CASE UploadGetsTemplate
    BY <2>1 DEF UploadGetsTemplate
  <2>2. CASE UploadAsksOnu
    BY <2>2 DEF UploadAsksOnu
  <2>3. CASE UploadInSync
    <3>1. ul' = Machine("inSync", ul.chan) /\ db' = TRUE
      BY <2>3 DEF UploadInSync
    <3> QED
      BY <2>3, <3>1 DEF UploadInSync
  <2>4. CASE DownloadDone \/ DownloadWindsDown
    BY <2>4 DEF DownloadDone, DownloadWindsDown
  <2>5. CASE UnlockDone \/ UnlockWindsDown
    BY <2>5 DEF UnlockDone, UnlockWindsDown
  <2>6. CASE MachinesFail
    BY <2>6 DEF MachinesFail, UploadFails, DownloadFails, UnlockFails
  <2> QED
    BY <2>1, <2>2, <2>3, <2>4, <2>5, <2>6 DEF MachinesGo
<1>2. TaskType'
  <2>1. CASE UploadInSync \/ DownloadDone
    BY <2>1 DEF UploadInSync, DownloadDone, TransferSystemEvent, TaskType
  <2>2. UploadInSync \/ DownloadDone \/ UNCHANGED taskVars
    BY DEF MachinesGo, MachinesFail, UploadGetsTemplate, UploadAsksOnu,
           DownloadWindsDown, UnlockDone, UnlockWindsDown, UploadFails, DownloadFails,
           UnlockFails
  <2> QED
    BY <2>1, <2>2, SameType
<1>3. PortType'
  <2>1. CASE UnlockDone
    BY <2>1 DEF UnlockDone, PortType
  <2>2. UnlockDone \/ UNCHANGED portVars
    BY DEF MachinesGo, MachinesFail, UploadGetsTemplate, UploadAsksOnu, UploadInSync,
           DownloadDone, DownloadWindsDown, UnlockWindsDown, UploadFails,
           DownloadFails, UnlockFails
  <2> QED
    BY <2>1, <2>2, SameType
<1>4. RestType'
  <2>1. CASE MachinesFail
    BY <2>1, FaultType
       DEF MachinesFail, UploadFails, DownloadFails, UnlockFails, RestType
  <2>2. MachinesFail \/ UNCHANGED restVars
    BY DEF MachinesGo, UploadGetsTemplate, UploadAsksOnu, UploadInSync, DownloadDone,
           DownloadWindsDown, UnlockDone, UnlockWindsDown
  <2> QED
    BY <2>1, <2>2, SameType
<1>5. UNCHANGED <<entryVars, reasonVars>>
  BY DEF MachinesGo, MachinesFail, UploadGetsTemplate, UploadAsksOnu, UploadInSync,
         DownloadDone, DownloadWindsDown, UnlockDone, UnlockWindsDown, UploadFails,
         DownloadFails, UnlockFails
<1> QED
  BY <1>1, <1>2, <1>3, <1>4, <1>5, SameType

LEMMA NextType == TypeOK /\ [Next]_vars => TypeOK'
<1> SUFFICES ASSUME TypeOK, [Next]_vars PROVE TypeOK'
  OBVIOUS
<1>1. CASE UNCHANGED vars
  BY <1>1, SameType DEF vars, TypeOK
<1> QED
  BY <1>1, AdoptType, UpType, DownType, RebootType, StagesType, MachinesGoType DEF Next

-----------------------------------------------------------------------------
(* The stages.                                                             *)

\* What StageInv is about.
stageInvVars ==
    <<devState, stage, dl, un, enable, portsUp, downloads, unlocks, told>>

LEMMA InitStage == Init => StageInv
  BY StageReasonValue DEF Init, StageInv, Machine, UnlockRuns, DownloadRuns

LEMMA SameStage == StageInv /\ UNCHANGED stageInvVars => StageInv'
  BY DEF StageInv, stageInvVars, UnlockRuns, DownloadRuns

LEMMA NextStage == TypeOK /\ StageInv /\ [Next]_vars => StageInv'
<1> SUFFICES ASSUME TypeOK, StageInv, [Next]_vars PROVE StageInv'
  OBVIOUS
<1> USE DEF entryVars, reasonVars, machineVars, portVars, taskVars, restVars
<1>a. /\ stage \in [Stages -> {"none", "spawned", "named", "done"}]
      /\ devState \in 0 .. 2 /\ told \in {0, 1, 2, 3} /\ Stages = {1, 2, 3}
  BY StageReasonValue DEF TypeOK, TaskType, ReasonType
<1>1. CASE Adopt
  BY <1>1, SameStage DEF stageInvVars, Adopt, AdoptInit, AdoptPostInit, Restore
<1>2. ASSUME NEW i \in Ups, UpArrives(i) \/ UpGoes(i) PROVE StageInv'
  BY <1>2, SameStage
     DEF stageInvVars, UpArrives, UpGoes, UpFindsNoEntry, UpStartsEntry, UpGivesUp,
         UpNames, UpStartsUpload
<1>3. ASSUME NEW i \in Downs, DownArrives(i) PROVE StageInv'
  <2>1. /\ UNCHANGED <<devState, stage, enable, downloads, unlocks, told>>
        /\ portsUp' => portsUp
        /\ dl'.state # "disabled" => dl.state # "disabled"
        /\ un'.state # "none" => un.state # "none"
        /\ un'.state = "running" => un.state = "running"
        /\ dl'.state = "running" => dl.state = "running"
    BY <1>3 DEF DownArrives, StopMachines, Machine
  <2> QED
    BY <2>1, <1>a DEF StageInv, UnlockRuns, DownloadRuns
<1>4. ASSUME NEW i \in Downs, DownNames(i) PROVE StageInv'
  BY <1>4, SameStage DEF stageInvVars, DownNames
<1>5. ASSUME NEW i \in Reboots, Reboot(i) PROVE StageInv'
  BY <1>5, SameStage DEF stageInvVars, Reboot
<1>6. ASSUME NEW s \in Stages, StageNames(s) PROVE StageInv'
  BY <1>6, <1>a DEF StageNames, StageInv, UnlockRuns, DownloadRuns
<1>7. CASE StartDownload
  BY <1>7, <1>a DEF StartDownload, StageInv, UnlockRuns, DownloadRuns, Machine
<1>8. CASE StartUnlock
  BY <1>8, <1>a DEF StartUnlock, StageInv, UnlockRuns, DownloadRuns, Machine
<1>9. CASE EnablePorts
  BY <1>9, <1>a DEF EnablePorts, StageInv, UnlockRuns, DownloadRuns
<1>10. CASE UploadInSync
  BY <1>10, <1>a DEF UploadInSync, TransferSystemEvent, StageInv, UnlockRuns, DownloadRuns
<1>11. CASE DownloadDone
  BY <1>11, <1>a
     DEF DownloadDone, TransferSystemEvent, StageInv, UnlockRuns, DownloadRuns, Machine
<1>12. CASE UnlockDone
  BY <1>12, <1>a DEF UnlockDone, StageInv, UnlockRuns, DownloadRuns, Machine
<1>13. CASE DownloadWindsDown \/ DownloadFails
  BY <1>13, <1>a
     DEF DownloadWindsDown, DownloadFails, StageInv, UnlockRuns, DownloadRuns, Machine
<1>14. CASE UnlockWindsDown \/ UnlockFails
  BY <1>14, <1>a DEF UnlockWindsDown, UnlockFails, StageInv, UnlockRuns, DownloadRuns, Machine
<1>15. CASE UploadGetsTemplate \/ UploadAsksOnu \/ UploadFails
  BY <1>15, SameStage DEF stageInvVars, UploadGetsTemplate, UploadAsksOnu, UploadFails
<1>16. CASE TechProfConfigured
  BY <1>16, <1>a DEF TechProfConfigured, StageInv, UnlockRuns, DownloadRuns
<1>17. CASE UNCHANGED vars
  BY <1>17, SameStage DEF stageInvVars, vars
<1> QED
  BY <1>1, <1>2, <1>3, <1>4, <1>5, <1>6, <1>7, <1>8, <1>9, <1>10, <1>11, <1>12, <1>13,
     <1>14, <1>15, <1>16, <1>17 DEF Next, StagesGo, MachinesGo, MachinesFail

-----------------------------------------------------------------------------
(* The adoption.                                                           *)

LEMMA InitAdopt == Init => AdoptFirst
  BY DEF Init, AdoptFirst, Machine

LEMMA NextAdopt == TypeOK /\ AdoptFirst /\ [Next]_vars => AdoptFirst'
<1> SUFFICES ASSUME AdoptFirst, [Next]_vars, adopt = "none", adopt' = "none"
             PROVE AdoptFirst'
  <2>1. Next /\ adopt' = "none" => adopt = "none"
    BY DEF Next, Adopt, AdoptInit, AdoptPostInit, Restore, UpArrives, UpGoes,
           UpFindsNoEntry, UpStartsEntry, UpGivesUp, UpNames, UpStartsUpload,
           DownArrives, DownNames, Reboot, StageNames, StagesGo, StartDownload,
           StartUnlock, EnablePorts, MachinesGo, UploadGetsTemplate, UploadAsksOnu,
           UploadInSync, DownloadDone, DownloadWindsDown, UnlockDone, UnlockWindsDown,
           MachinesFail, UploadFails, DownloadFails, UnlockFails, TechProfConfigured,
           entryVars
  <2> QED
    BY <2>1 DEF AdoptFirst, vars, entryVars
<1>1. ~Next
  <2> USE StageReasonValue DEF AdoptFirst
  <2>1. ~Adopt
    BY DEF Adopt, AdoptInit, AdoptPostInit, Restore, Simulated, Ups
  <2>2. ASSUME NEW i \in Ups PROVE ~UpArrives(i) /\ ~UpGoes(i)
    BY DEF UpArrives, UpGoes, UpFindsNoEntry, UpStartsEntry, UpGivesUp, UpNames,
           UpStartsUpload
  <2>3. ASSUME NEW i \in Downs PROVE ~DownArrives(i) /\ ~DownNames(i)
    BY DEF DownArrives, DownNames
  <2>4. ASSUME NEW i \in Reboots PROVE ~Reboot(i)
    BY DEF Reboot
  <2>5. ASSUME NEW s \in Stages PROVE ~StageNames(s)
    BY DEF StageNames
  <2>6. ~StagesGo /\ ~TechProfConfigured
    BY DEF StagesGo, StartDownload, StartUnlock, EnablePorts, TechProfConfigured
  <2>7. ~MachinesGo
    BY DEF MachinesGo, UploadGetsTemplate, UploadAsksOnu, UploadInSync, DownloadDone,
           DownloadWindsDown, UnlockDone, UnlockWindsDown, DownloadRuns, UnlockRuns
  <2>8. ~MachinesFail
    BY DEF MachinesFail, UploadFails, DownloadFails, UnlockFails, DownloadRuns,
           UnlockRuns
  <2> QED
    BY <2>1, <2>2, <2>3, <2>4, <2>5, <2>6, <2>7, <2>8 DEF Next
<1> QED
  BY <1>1 DEF vars, portVars, machineVars, taskVars, AdoptFirst

-----------------------------------------------------------------------------
(* The order of what is under way.                                         *)

LEMMA InitOrder == Init => OrderInv
  BY StageReasonValue
     DEF Init, OrderInv, OneIndication, ReasonFits, IndicationBusy, UpBusy, DownBusy,
         StageBusy, NothingRuns, UploadRuns, DownloadRuns, UnlockRuns, Machine

\* Nothing new is under way, and the reason is the same.
Calmer ==
    /\ \A i \in Ups : UpBusy(i)' => UpBusy(i)
    /\ \A i \in Ups : (up[i] = "verify")' => up[i] = "verify"
    /\ \A i \in Downs : DownBusy(i)' => DownBusy(i)
    /\ UploadRuns' => UploadRuns
    /\ DownloadRuns' => DownloadRuns
    /\ UnlockRuns' => UnlockRuns
    /\ portsUp' => portsUp
    /\ UNCHANGED <<deviceReason, stage, enable>>
    /\ orderly' => orderly

LEMMA CalmerOrder == OrderInv /\ Calmer => OrderInv'
<1> SUFFICES ASSUME OrderInv, Calmer PROVE OrderInv'
  OBVIOUS
<1>1. orderly' => OneIndication'
  BY DEF OrderInv, Calmer, OneIndication
<1>2. orderly' => ReasonFits'
  BY StageReasonValue
     DEF OrderInv, Calmer, ReasonFits, IndicationBusy, StageBusy, NothingRuns
<1> QED
  BY <1>1, <1>2 DEF OrderInv, Calmer

LEMMA AdoptOrder == TypeOK /\ AdoptFirst /\ OrderInv /\ Adopt => OrderInv'
<1> SUFFICES ASSUME TypeOK, AdoptFirst, OrderInv, Adopt PROVE OrderInv'
  OBVIOUS
<1> USE DEF reasonVars, machineVars, portVars, taskVars, restVars
<1>1. CASE AdoptInit
  <2>1. /\ \A i \in Ups : up'[i] = "none"
        /\ \A i \in Downs : down'[i] = "none"
        /\ \A s \in Stages : stage'[s] = "none"
        /\ enable' = "none" /\ ~portsUp'
        /\ ul'.state = "disabled" /\ dl'.state = "disabled" /\ un'.state = "none"
    BY <1>1 DEF AdoptInit, AdoptFirst
  <2>2. OneIndication'
    BY <2>1 DEF OneIndication, UpBusy, DownBusy
  <2>3. ReasonFits'
    BY <2>1, StageReasonValue
       DEF ReasonFits, IndicationBusy, UpBusy, DownBusy, StageBusy, NothingRuns,
           UploadRuns, DownloadRuns, UnlockRuns
  <2> QED
    BY <2>2, <2>3 DEF OrderInv
<1>2. CASE AdoptPostInit
  <2>1. \A i \in Ups : up'[i] \in {up[i], "restore"}
    BY <1>2 DEF AdoptPostInit, TypeOK, TaskType
  <2>2. Calmer
    BY <1>2, <2>1
       DEF AdoptPostInit, Calmer, UploadRuns, DownloadRuns, UnlockRuns, UpBusy, DownBusy
  <2> QED
    BY <2>2, CalmerOrder
<1>3. CASE Restore
  <2>1. \A i \in Ups : up'[i] \in {up[i], "restored", "done"}
    BY <1>3 DEF Restore, TypeOK, TaskType
  <2>2. Calmer
    BY <1>3, <2>1
       DEF Restore, Calmer, UploadRuns, DownloadRuns, UnlockRuns, UpBusy, DownBusy
  <2> QED
    BY <2>2, CalmerOrder
<1> QED
  BY <1>1, <1>2, <1>3 DEF Adopt

LEMMA UpOrder ==
  ASSUME TypeOK, OrderInv, NEW i \in Ups, UpArrives(i) \/ UpGoes(i) PROVE OrderInv'
<1> USE DEF reasonVars, machineVars, portVars, taskVars, restVars
<1>a. up \in [Ups -> {"none", "restore", "restored", "entry", "waiting", "started",
                      "verify", "done"}]
  BY DEF TypeOK, TaskType
<1>1. CASE UpArrives(i)
  <2> SUFFICES ASSUME orderly' PROVE OneIndication' /\ ReasonFits'
    BY DEF OrderInv
  <2>1. /\ orderly /\ Quiet
        /\ deviceReason \in {"activating-onu", "stopping-openomci"}
    BY <1>1 DEF UpArrives, Arrives
  <2>2. (\A j \in Ups : ~UpBusy(j)) /\ (\A j \in Downs : ~DownBusy(j))
    BY <2>1 DEF Quiet, AtRest, UpBusy, DownBusy
  <2>3. up' = [up EXCEPT ![i] = "entry"] /\ UNCHANGED down
    BY <1>1 DEF UpArrives
  <2>4. /\ \A j \in Ups : UpBusy(j)' => j = i
        /\ \A j \in Ups : up'[j] # "verify"
        /\ \A j \in Downs : ~DownBusy(j)'
    BY <1>a, <2>2, <2>3 DEF UpBusy, DownBusy
  <2>5. UNCHANGED <<deviceReason, ul, dl, un, portsUp, stage, enable>>
    BY <1>1 DEF UpArrives
  <2>6. ReasonFits'
    <3>1. NothingRuns /\ ~StageBusy
      BY <2>1 DEF OrderInv, ReasonFits
    <3>2. NothingRuns' /\ ~StageBusy'
      BY <2>5, <3>1 DEF StageBusy, NothingRuns, UploadRuns, DownloadRuns, UnlockRuns
    <3> QED
      BY <3>2, <2>4, StageReasonValue DEF ReasonFits, StageBusy, NothingRuns
  <2> QED
    BY <2>4, <2>6 DEF OneIndication
<1>2. CASE UpFindsNoEntry(i) \/ UpStartsEntry(i) \/ UpGivesUp(i)
  <2>1. /\ up[i] \in {"entry", "waiting"}
        /\ \E pc \in {"waiting", "started", "done"} : up' = [up EXCEPT ![i] = pc]
        /\ UNCHANGED <<down, deviceReason, ul, dl, un, portsUp, stage, enable, orderly>>
    BY <1>2 DEF UpFindsNoEntry, UpStartsEntry, UpGivesUp
  <2>2. \A j \in Ups : up'[j] # up[j] => j = i /\ up'[j] \in {"waiting", "started", "done"}
    BY <1>a, <2>1
  <2>3. Calmer
    BY <2>1, <2>2
       DEF Calmer, UploadRuns, DownloadRuns, UnlockRuns, UpBusy, DownBusy
  <2> QED
    BY <2>3, CalmerOrder
<1>3. CASE UpNames(i)
  <2> SUFFICES ASSUME orderly' PROVE OneIndication' /\ ReasonFits'
    BY DEF OrderInv
  <2>1. /\ up[i] = "started" /\ up' = [up EXCEPT ![i] = "verify"]
        /\ deviceReason' = "starting-openomci"
        /\ UNCHANGED <<down, ul, dl, un, portsUp, stage, enable, orderly>>
    BY <1>3 DEF UpNames
  <2>2. OneIndication /\ NothingRuns /\ ~StageBusy
    BY <2>1 DEF OrderInv, ReasonFits, IndicationBusy, UpBusy
  <2>3. \A j \in Ups : UpBusy(j)' => UpBusy(j)
    BY <1>a, <2>1 DEF UpBusy
  <2>4. OneIndication'
    BY <2>1, <2>2, <2>3 DEF OneIndication, DownBusy
  <2>5. NothingRuns' /\ ~StageBusy'
    BY <2>1, <2>2 DEF StageBusy, NothingRuns, UploadRuns, DownloadRuns, UnlockRuns
  <2> QED
    BY <2>1, <2>4, <2>5, StageReasonValue DEF ReasonFits, StageBusy, NothingRuns
<1>4. CASE UpStartsUpload(i)
  <2> SUFFICES ASSUME orderly' PROVE OneIndication' /\ ReasonFits'
    BY DEF OrderInv
  <2>1. /\ up[i] = "verify" /\ up' = [up EXCEPT ![i] = "done"]
        /\ UNCHANGED <<down, deviceReason, dl, un, portsUp, stage, enable, orderly>>
    BY <1>4 DEF UpStartsUpload
  <2>2. /\ OneIndication /\ NothingRuns /\ ~StageBusy
        /\ deviceReason' = "starting-openomci"
    BY <2>1 DEF OrderInv, ReasonFits, IndicationBusy, UpBusy
  <2>3. (\A j \in Ups : ~UpBusy(j)') /\ (\A j \in Downs : ~DownBusy(j)')
    <3>1. \A j \in Ups : UpBusy(j)' => UpBusy(j) /\ j # i
      BY <1>a, <2>1 DEF UpBusy
    <3>2. UpBusy(i)
      BY <2>1 DEF UpBusy
    <3> QED
      BY <2>1, <2>2, <3>1, <3>2 DEF OneIndication, DownBusy
  <2>4. ~DownloadRuns' /\ ~UnlockRuns' /\ ~portsUp' /\ ~StageBusy'
    BY <2>1, <2>2 DEF StageBusy, NothingRuns, DownloadRuns, UnlockRuns
  <2>5. OneIndication' /\ ~IndicationBusy'
    BY <2>3 DEF OneIndication, IndicationBusy
  <2> QED
    BY <2>2, <2>4, <2>5, StageReasonValue DEF ReasonFits, StageBusy, NothingRuns
<1> QED
  BY <1>1, <1>2, <1>3, <1>4 DEF UpGoes

LEMMA DownOrder ==
  ASSUME TypeOK, OrderInv, NEW i \in Downs, DownArrives(i) \/ DownNames(i)
  PROVE OrderInv'
<1> SUFFICES ASSUME orderly' PROVE OneIndication' /\ ReasonFits'
  BY DEF OrderInv
<1> USE DEF reasonVars, machineVars, portVars, taskVars, restVars
<1>a. down \in [Downs -> {"none", "stopped", "done"}]
  BY DEF TypeOK, TaskType
<1>1. CASE DownArrives(i)
  <2>1. /\ orderly /\ Quiet /\ OneIndication /\ ReasonFits
        /\ UNCHANGED <<up, deviceReason, stage, enable>>
    BY <1>1 DEF DownArrives, Arrives, OrderInv
  <2>2. /\ \A j \in Ups : ~UpBusy(j) /\ ~UpBusy(j)'
        /\ \A j \in Downs : ~DownBusy(j)
        /\ ~StageBusy /\ ~StageBusy'
    BY <2>1 DEF Quiet, AtRest, UpBusy, DownBusy, StageBusy
  <2>3. \A j \in Downs : DownBusy(j)' => j = i
    BY <1>1, <1>a, <2>2 DEF DownArrives, DownBusy
  <2>4. OneIndication'
    BY <2>2, <2>3 DEF OneIndication
  <2>5. \A j \in Ups : up'[j] # "verify"
    BY <2>2 DEF UpBusy
  <2>6. CASE down'[i] = "stopped"
    <3>1. StopMachines /\ ~portsUp'
      BY <1>1, <1>a, <2>6 DEF DownArrives
    <3>2. ~UploadRuns'
      BY <2>1, <3>1 DEF StopMachines, UploadRuns, ReasonFits, Machine
    <3>3. ~DownloadRuns'
      BY <2>1, <3>1 DEF StopMachines, DownloadRuns, ReasonFits, Machine
    <3>4. ~UnlockRuns'
      BY <2>1, <3>1 DEF StopMachines, UnlockRuns, ReasonFits, Machine
    <3> QED
      BY <2>2, <2>4, <2>5, <3>1, <3>2, <3>3, <3>4, StageReasonValue
         DEF ReasonFits, StageBusy, NothingRuns
  <2>7. CASE down'[i] # "stopped"
    <3>1. down' = [down EXCEPT ![i] = "done"] /\ UNCHANGED <<ul, dl, un, portsUp>>
      BY <1>1, <1>a, <2>7 DEF DownArrives
    <3>2. \A j \in Downs : ~DownBusy(j)'
      BY <1>a, <2>2, <3>1 DEF DownBusy
    <3>3. Calmer
      BY <2>1, <2>2, <2>5, <3>1, <3>2
         DEF Calmer, UploadRuns, DownloadRuns, UnlockRuns
    <3> QED
      BY <3>3, CalmerOrder DEF OrderInv
  <2> QED
    BY <2>6, <2>7
<1>2. CASE DownNames(i)
  <2>1. /\ down[i] = "stopped" /\ down' = [down EXCEPT ![i] = "done"]
        /\ UNCHANGED <<up, ul, dl, un, portsUp, stage, enable, orderly>>
    BY <1>2 DEF DownNames
  <2>2. OneIndication /\ NothingRuns /\ ~StageBusy
    BY <2>1 DEF OrderInv, ReasonFits, IndicationBusy, DownBusy
  <2>3. (\A j \in Ups : ~UpBusy(j)') /\ (\A j \in Downs : ~DownBusy(j)')
    BY <1>a, <2>1, <2>2 DEF OneIndication, UpBusy, DownBusy
  <2>4. NothingRuns' /\ ~StageBusy'
    BY <2>1, <2>2 DEF StageBusy, NothingRuns, UploadRuns, DownloadRuns, UnlockRuns
  <2>5. OneIndication' /\ \A j \in Ups : up'[j] # "verify"
    BY <2>3 DEF OneIndication, UpBusy
  <2> QED
    BY <2>4, <2>5, StageReasonValue DEF ReasonFits, StageBusy, NothingRuns
<1> QED
  BY <1>1, <1>2

LEMMA StagesOrder ==
  ASSUME TypeOK, StageInv, OrderInv,
         \/ \E s \in Stages : StageNames(s)
         \/ StagesGo \/ TechProfConfigured
  PROVE OrderInv'
<1> SUFFICES ASSUME orderly' PROVE OneIndication' /\ ReasonFits'
  BY DEF OrderInv
<1> USE DEF reasonVars, machineVars, portVars, taskVars, restVars
<1>a. /\ stage \in [Stages -> {"none", "spawned", "named", "done"}]
      /\ devState \in 0 .. 2 /\ Stages = {1, 2, 3}
  BY StageReasonValue DEF TypeOK, TaskType
<1>1. /\ orderly /\ OneIndication /\ ReasonFits
      /\ UNCHANGED <<up, down, ul>>
  BY DEF StageNames, StagesGo, StartDownload, StartUnlock, EnablePorts,
         TechProfConfigured, OrderInv
<1>2. OneIndication'
  BY <1>1 DEF OneIndication, UpBusy, DownBusy
<1>3. IndicationBusy' <=> IndicationBusy
  BY <1>1 DEF IndicationBusy, UpBusy, DownBusy
<1>4. UploadRuns' <=> UploadRuns
  BY <1>1 DEF UploadRuns
\* Something was under way, so no indication was.
<1>5. ASSUME ~NothingRuns \/ StageBusy
      PROVE ~IndicationBusy' /\ \A j \in Ups : up'[j] # "verify"
  BY <1>1, <1>3, <1>5 DEF ReasonFits, IndicationBusy, UpBusy
<1>6. ASSUME NEW s \in Stages, StageNames(s) PROVE ReasonFits'
  <2>1. /\ stage[s] = "spawned"
        /\ stage' = [stage EXCEPT ![s] = IF s = 3 THEN "done" ELSE "named"]
        /\ deviceReason' = StageReason[s]
        /\ UNCHANGED <<dl, un, portsUp, enable>>
    BY <1>6 DEF StageNames
  <2>2. ~IndicationBusy' /\ \A j \in Ups : up'[j] # "verify"
    BY <1>5, <2>1 DEF StageBusy
  <2>3. (DownloadRuns' <=> DownloadRuns) /\ (UnlockRuns' <=> UnlockRuns)
    BY <2>1 DEF DownloadRuns, UnlockRuns
  <2>4. CASE s = 1
    BY <1>a, <1>1, <1>4, <2>1, <2>2, <2>3, <2>4, StageReasonValue DEF ReasonFits
  <2>5. CASE s = 2
    BY <1>a, <1>1, <1>4, <2>1, <2>2, <2>3, <2>5, StageReasonValue
       DEF ReasonFits, StageInv
  <2>6. CASE s = 3
    BY <1>a, <1>1, <1>4, <2>1, <2>2, <2>3, <2>6, StageReasonValue
       DEF ReasonFits, StageInv
  <2> QED
    BY <1>a, <2>4, <2>5, <2>6
<1>7. CASE StartDownload
  <2>1. /\ stage[1] = "named" /\ stage' = [stage EXCEPT ![1] = "done"]
        /\ UNCHANGED <<un, portsUp, enable, deviceReason>>
    BY <1>7 DEF StartDownload
  <2>2. ~IndicationBusy' /\ \A j \in Ups : up'[j] # "verify"
    BY <1>a, <1>5, <2>1 DEF StageBusy
  <2>3. UnlockRuns' <=> UnlockRuns
    BY <2>1 DEF UnlockRuns
  <2>4. /\ deviceReason = "discovery-mibsync-complete"
        /\ stage[2] = "none" /\ stage[3] # "spawned"
        /\ ~UploadRuns /\ ~UnlockRuns /\ enable # "spawned" /\ ~portsUp
    BY <1>1, <2>1 DEF ReasonFits, StageInv
  <2>5. stage'[1] = "done" /\ stage'[2] = "none" /\ stage'[3] # "spawned"
    BY <1>a, <2>1, <2>4
  <2> QED
    BY <1>2, <1>4, <2>1, <2>2, <2>3, <2>4, <2>5 DEF ReasonFits
<1>8. CASE StartUnlock
  <2>1. /\ stage[2] = "named" /\ stage' = [stage EXCEPT ![2] = "done"]
        /\ UNCHANGED <<dl, portsUp, enable, deviceReason>>
    BY <1>8 DEF StartUnlock
  <2>2. ~IndicationBusy' /\ \A j \in Ups : up'[j] # "verify"
    BY <1>a, <1>5, <2>1 DEF StageBusy
  <2>3. DownloadRuns' <=> DownloadRuns
    BY <2>1 DEF DownloadRuns
  <2>4. /\ deviceReason = "initial-mib-downloaded"
        /\ stage[1] \notin {"spawned", "named"}
        /\ ~UploadRuns /\ ~DownloadRuns
    BY <1>1, <2>1 DEF ReasonFits
  <2>5. stage'[1] \notin {"spawned", "named"} /\ stage'[2] = "done"
    BY <1>a, <2>1, <2>4
  <2> QED
    BY <1>2, <1>4, <2>1, <2>2, <2>3, <2>4, <2>5 DEF ReasonFits
<1>9. CASE EnablePorts
  <2>1. /\ enable = "spawned" /\ enable' = "done"
        /\ UNCHANGED <<dl, un, stage, deviceReason>>
    BY <1>9 DEF EnablePorts
  <2>2. ~IndicationBusy' /\ \A j \in Ups : up'[j] # "verify"
    BY <1>5, <2>1 DEF StageBusy
  <2>3. (DownloadRuns' <=> DownloadRuns) /\ (UnlockRuns' <=> UnlockRuns)
    BY <2>1 DEF DownloadRuns, UnlockRuns
  <2>4. /\ deviceReason = "initial-mib-downloaded"
        /\ stage[1] \notin {"spawned", "named"} /\ stage[2] # "spawned"
        /\ ~UploadRuns /\ ~DownloadRuns
    BY <1>1, <2>1 DEF ReasonFits
  <2> QED
    BY <1>2, <1>4, <2>1, <2>2, <2>3, <2>4 DEF ReasonFits
<1>10. CASE TechProfConfigured
  <2>1. /\ portsUp /\ stage' = [stage EXCEPT ![3] = "spawned"]
        /\ UNCHANGED <<dl, un, portsUp, enable, deviceReason>>
    BY <1>10 DEF TechProfConfigured
  <2>2. ~IndicationBusy' /\ \A j \in Ups : up'[j] # "verify"
    BY <1>5, <2>1 DEF NothingRuns
  <2>3. (DownloadRuns' <=> DownloadRuns) /\ (UnlockRuns' <=> UnlockRuns)
    BY <2>1 DEF DownloadRuns, UnlockRuns
  <2>4. /\ deviceReason \in {"initial-mib-downloaded",
                               "tech-profile-config-download-success"}
        /\ stage[1] \notin {"spawned", "named"} /\ stage[2] # "spawned"
        /\ ~UploadRuns /\ ~DownloadRuns
    BY <1>1, <2>1 DEF ReasonFits
  <2>5. stage'[1] = stage[1] /\ stage'[2] = stage[2]
    BY <1>a, <2>1
  <2> QED
    BY <1>1, <1>2, <1>4, <2>1, <2>2, <2>3, <2>4, <2>5 DEF ReasonFits
<1> QED
  BY <1>2, <1>6, <1>7, <1>8, <1>9, <1>10 DEF StagesGo

LEMMA MachinesOrder ==
  ASSUME TypeOK, StageInv, OrderInv, MachinesGo \/ MachinesFail PROVE OrderInv'
<1> USE DEF reasonVars, machineVars, portVars, taskVars, restVars
<1>a. /\ stage \in [Stages -> {"none", "spawned", "named", "done"}]
      /\ devState \in 0 .. 2 /\ Stages = {1, 2, 3}
  BY StageReasonValue DEF TypeOK, TaskType
<1>b. UNCHANGED <<up, down, deviceReason, portsUp, orderly>>
  BY DEF MachinesGo, MachinesFail, UploadGetsTemplate, UploadAsksOnu, UploadInSync,
         DownloadDone, DownloadWindsDown, UnlockDone, UnlockWindsDown, UploadFails,
         DownloadFails, UnlockFails
<1>1. CASE \/ UploadGetsTemplate \/ UploadAsksOnu \/ DownloadWindsDown
           \/ UnlockWindsDown \/ MachinesFail
  <2>1. UNCHANGED <<stage, enable>>
    BY <1>1 DEF UploadGetsTemplate, UploadAsksOnu, DownloadWindsDown, UnlockWindsDown,
                MachinesFail, UploadFails, DownloadFails, UnlockFails
  <2>2. /\ UploadRuns' => UploadRuns
        /\ DownloadRuns' => DownloadRuns
        /\ UnlockRuns' => UnlockRuns
    BY <1>1 DEF UploadGetsTemplate, UploadAsksOnu, DownloadWindsDown, UnlockWindsDown,
                MachinesFail, UploadFails, DownloadFails, UnlockFails, UploadRuns,
                DownloadRuns, UnlockRuns, Machine
  <2>3. Calmer
    BY <1>b, <2>1, <2>2 DEF Calmer, UpBusy, DownBusy
  <2> QED
    BY <2>3, CalmerOrder
<1>2. CASE UploadInSync \/ DownloadDone \/ UnlockDone
  <2> SUFFICES ASSUME orderly' PROVE OneIndication' /\ ReasonFits'
    BY DEF OrderInv
  <2>1. OneIndication /\ ReasonFits
    BY <1>b DEF OrderInv
  <2>2. OneIndication' /\ (IndicationBusy' <=> IndicationBusy)
    BY <1>b, <2>1 DEF OneIndication, IndicationBusy, UpBusy, DownBusy
  <2>3. ~IndicationBusy' /\ \A j \in Ups : up'[j] # "verify"
    <3>1. UploadRuns \/ DownloadRuns \/ UnlockRuns
      BY <1>2 DEF UploadInSync, DownloadDone, UnlockDone, UploadRuns
    <3> QED
      BY <1>b, <2>1, <2>2, <3>1 DEF ReasonFits, NothingRuns, IndicationBusy, UpBusy
  <2>4. CASE UploadInSync
    <3>1. /\ UploadRuns /\ ~UploadRuns' /\ UNCHANGED <<dl, un, enable>>
          /\ stage' \in {stage, [stage EXCEPT ![1] = "spawned"]}
      BY <2>4 DEF UploadInSync, UploadRuns, Machine, TransferSystemEvent
    <3>2. (DownloadRuns' <=> DownloadRuns) /\ (UnlockRuns' <=> UnlockRuns)
      BY <3>1 DEF DownloadRuns, UnlockRuns
    <3> QED
      BY <1>a, <1>b, <2>1, <2>2, <2>3, <3>1, <3>2 DEF ReasonFits
  <2>5. CASE DownloadDone
    <3>1. /\ DownloadRuns /\ ~DownloadRuns' /\ UNCHANGED <<ul, un, enable>>
          /\ stage' \in {stage, [stage EXCEPT ![2] = "spawned"]}
      BY <2>5 DEF DownloadDone, DownloadRuns, Machine, TransferSystemEvent
    <3>2. (UploadRuns' <=> UploadRuns) /\ (UnlockRuns' <=> UnlockRuns)
      BY <3>1 DEF UploadRuns, UnlockRuns
    <3> QED
      BY <1>a, <1>b, <2>1, <2>2, <2>3, <3>1, <3>2 DEF ReasonFits
  <2>6. CASE UnlockDone
    <3>1. /\ UnlockRuns /\ ~UnlockRuns' /\ UNCHANGED <<ul, dl, stage>>
      BY <2>6 DEF UnlockDone, UnlockRuns, Machine
    <3>2. (UploadRuns' <=> UploadRuns) /\ (DownloadRuns' <=> DownloadRuns)
      BY <3>1 DEF UploadRuns, DownloadRuns
    <3> QED
      BY <1>a, <1>b, <2>1, <2>2, <2>3, <3>1, <3>2 DEF ReasonFits
  <2> QED
    BY <1>2, <2>2, <2>4, <2>5, <2>6
<1> QED
  BY <1>1, <1>2 DEF MachinesGo

LEMMA NextOrder == TypeOK /\ StageInv /\ AdoptFirst /\ OrderInv /\ [Next]_vars => OrderInv'
<1> SUFFICES ASSUME TypeOK, StageInv, AdoptFirst, OrderInv, [Next]_vars PROVE OrderInv'
  OBVIOUS
<1>1. ASSUME NEW i \in Reboots, Reboot(i) PROVE OrderInv'
  BY <1>1 DEF Reboot, OrderInv
<1>2. CASE UNCHANGED vars
  <2>1. Calmer
    BY <1>2 DEF vars, Calmer, UploadRuns, DownloadRuns, UnlockRuns, UpBusy, DownBusy,
                reasonVars, machineVars, portVars, taskVars, restVars
  <2> QED
    BY <2>1, CalmerOrder
<1> QED
  BY <1>1, <1>2, AdoptOrder, UpOrder, DownOrder, StagesOrder, MachinesOrder DEF Next

-----------------------------------------------------------------------------
(* The theorems.                                                           *)

LEMMA Inductive == Spec => []IInv
<1>1. Init => IInv
  BY InitType, InitStage, InitAdopt, InitOrder DEF IInv
<1>2. IInv /\ [Next]_vars => IInv'
  BY NextType, NextStage, NextAdopt, NextOrder DEF IInv
<1> QED
  BY <1>1, <1>2, PTL DEF Spec

(* The fields of the handler, its device entry and its machines keep to    *)
(* their values (device_handler.go, onu_device_entry.go).                  *)
THEOREM TypeCorrect == Spec => []TypeOK
  BY InitType, NextType, PTL DEF Spec

(* However indications, reboots and faults interleave, transferSystemEvent  *)
(* and its comparison with devState start the initial download and the     *)
(* unlock of the ports at most once.                                       *)
THEOREM StagesOnce == Spec => []StagesRunOnce
<1>1. IInv => StagesRunOnce
  BY DEF IInv, StageInv, StagesRunOnce
<1> QED
  BY <1>1, Inductive, PTL

(* The goroutines of the stage events tell the core of the stages in their *)
(* order, and never twice (deviceProcStatusUpdate).                        *)
THEOREM StagesInOrder == Spec => StagesToldInOrder
<1>1. IInv /\ [Next]_vars => [told' # told => told' > told]_told
  <2> SUFFICES ASSUME IInv, [Next]_vars, told' # told PROVE told' > told
    OBVIOUS
  <2>1. PICK s \in Stages : StageNames(s)
    BY DEF Next, Adopt, AdoptInit, AdoptPostInit, Restore, UpArrives, UpGoes,
           UpFindsNoEntry, UpStartsEntry, UpGivesUp, UpNames, UpStartsUpload,
           DownArrives, DownNames, Reboot, StagesGo, StartDownload, StartUnlock,
           EnablePorts, MachinesGo, UploadGetsTemplate, UploadAsksOnu, UploadInSync,
           DownloadDone, DownloadWindsDown, UnlockDone, UnlockWindsDown, MachinesFail,
           UploadFails, DownloadFails, UnlockFails, TechProfConfigured, vars, reasonVars
  <2>2. stage[s] = "spawned" /\ told' = s
    BY <2>1 DEF StageNames
  <2>3. ~(told >= s)
    BY <2>2 DEF IInv, StageInv
  <2>4. told \in Nat /\ s \in Nat
    BY StageReasonValue DEF IInv, TypeOK, ReasonType
  <2> QED
    BY <2>2, <2>3, <2>4
<1> QED
  BY <1>1, Inductive, PTL DEF Spec, StagesToldInOrder

(* updateInterface picks what to stop by the device reason alone; for      *)
(* indications that do not overlap, and without a reboot, the reason       *)
(* mirrors what is under way, and a stopped device has nothing running.    *)
THEOREM OrderlyStop == Spec => []OrderlyStopStopsAll
<1>1. IInv => OrderlyStopStopsAll
  BY DEF IInv, OrderInv, ReasonFits, OrderlyStopStopsAll
<1> QED
  BY <1>1, Inductive, PTL

\* The first two stages are over, and so is the only start of the ports.
StagesKept ==
    /\ \A s \in {MibDatabaseSync, MibDownloadDone} :
         stage[s] = "done" =>
            /\ stage'[s] = "done"
            /\ deviceReason' = StageReason[s] => UNCHANGED deviceReason
    /\ enable = "done" => enable' = "done" /\ (portsUp' => portsUp)

\* The reasons given by others than the stages.
Unstaged ==
    deviceReason' \in {deviceReason, "activating-onu", "starting-openomci",
                       "stopping-openomci", "rebooting-onu"}

LEMMA SameStages == Unstaged /\ UNCHANGED <<stage, enable, portsUp>> => StagesKept
  BY StageReasonValue DEF Unstaged, StagesKept

LEMMA NextKeepsStages == IInv /\ [Next]_vars => StagesKept
<1> SUFFICES ASSUME IInv, [Next]_vars PROVE StagesKept
  OBVIOUS
<1> USE StageReasonValue
    DEF IInv, entryVars, reasonVars, machineVars, portVars, taskVars, restVars
<1>a. stage \in [{1, 2, 3} -> {"none", "spawned", "named", "done"}] /\ devState \in 0 .. 2
  BY DEF TypeOK, TaskType
<1>1. CASE Adopt
  BY <1>1, SameStages DEF Unstaged, Adopt, AdoptInit, AdoptPostInit, Restore
<1>2. ASSUME NEW i \in Ups, UpArrives(i) \/ UpGoes(i) PROVE StagesKept
  BY <1>2, SameStages
     DEF Unstaged, UpArrives, UpGoes, UpFindsNoEntry, UpStartsEntry, UpGivesUp, UpNames,
         UpStartsUpload
<1>3. ASSUME NEW i \in Downs, DownArrives(i) PROVE StagesKept
  BY <1>3 DEF DownArrives, StagesKept
<1>4. ASSUME NEW i \in Downs, DownNames(i) PROVE StagesKept
  BY <1>4, SameStages DEF Unstaged, DownNames
<1>5. ASSUME NEW i \in Reboots, Reboot(i) PROVE StagesKept
  BY <1>5, SameStages DEF Unstaged, Reboot
<1>6. ASSUME NEW s \in Stages, StageNames(s) PROVE StagesKept
  <2>1. /\ stage[s] = "spawned" /\ deviceReason' = StageReason[s]
        /\ UNCHANGED <<enable, portsUp>>
    BY <1>6 DEF StageNames
  <2>2. \A t \in Stages : t # s => stage'[t] = stage[t]
    BY <1>6, <1>a DEF StageNames
  <2>3. \A t \in {1, 2} : t # s => StageReason[t] # StageReason[s]
    OBVIOUS
  <2> QED
    BY <2>1, <2>2, <2>3 DEF StagesKept
<1>7. CASE StartDownload \/ StartUnlock
  BY <1>7, <1>a DEF StartDownload, StartUnlock, StagesKept
<1>8. CASE EnablePorts
  BY <1>8 DEF EnablePorts, StagesKept
<1>9. CASE UploadInSync \/ DownloadDone
  <2>1. /\ UNCHANGED <<deviceReason, enable, portsUp>>
        /\ TransferSystemEvent(1) \/ TransferSystemEvent(2)
    BY <1>9 DEF UploadInSync, DownloadDone
  <2>2. ASSUME NEW s \in {1, 2}, stage[s] = "done" PROVE stage'[s] = "done"
    <3>1. ~(devState < s)
      BY <2>2, <1>a DEF StageInv
    <3>2. CASE TransferSystemEvent(1)
      BY <2>2, <3>1, <3>2, <1>a DEF TransferSystemEvent
    <3>3. CASE TransferSystemEvent(2)
      BY <2>2, <3>1, <3>3, <1>a DEF TransferSystemEvent
    <3> QED
      BY <2>1, <3>2, <3>3
  <2> QED
    BY <2>1, <2>2 DEF StagesKept
<1>10. CASE UnlockDone
  BY <1>10 DEF UnlockDone, StageInv, StagesKept
<1>11. CASE \/ UploadGetsTemplate \/ UploadAsksOnu \/ DownloadWindsDown
            \/ UnlockWindsDown \/ MachinesFail
  BY <1>11, SameStages
     DEF Unstaged, UploadGetsTemplate, UploadAsksOnu, DownloadWindsDown, UnlockWindsDown,
         MachinesFail, UploadFails, DownloadFails, UnlockFails
<1>12. CASE TechProfConfigured
  BY <1>12, <1>a DEF TechProfConfigured, StagesKept
<1>13. CASE UNCHANGED vars
  BY <1>13, SameStages DEF Unstaged, vars
<1> QED
  BY <1>1, <1>2, <1>3, <1>4, <1>5, <1>6, <1>7, <1>8, <1>9, <1>10, <1>11, <1>12, <1>13
     DEF Next, StagesGo, MachinesGo

(* device_handler.go:1157-1160: a device that comes up again does not go    *)
(* on after the download.  transferSystemEvent compares with a devState    *)
(* that is never set back, so no stage is entered, and no port enabled, a  *)
(* second time.                                                            *)
THEOREM SecondBringUp == Spec => NoSecondBringUp
<1>1. IInv /\ [Next]_vars
      => [/\ \A s \in {MibDatabaseSync, MibDownloadDone} :
               stage[s] = "done" =>
                  /\ stage'[s] = "done"
                  /\ deviceReason' = StageReason[s] => UNCHANGED deviceReason
          /\ enable = "done" => enable' = "done" /\ (portsUp' => portsUp)]_vars
  BY NextKeepsStages DEF StagesKept
<1> QED
  BY <1>1, Inductive, PTL DEF Spec, NoSecondBringUp

-----------------------------------------------------------------------------
(* Those who wait for the device entry.                                    *)

\* The value of deviceEntrySet is only gone when the entry has been started.
TokenInv == entry => token \/ channel > 0

\* What the steps do to it: only an indication that starts the entry takes
\* the value, and no step destroys a channel object.
TokenMoves == (entry' => entry \/ token') /\ (token' \/ channel' = channel + 1
                                              \/ UNCHANGED <<token, channel>>)

LEMMA NextTokenMoves == ASSUME EntryType, RestType, [Next]_vars PROVE TokenMoves
<1> USE DEF TokenMoves, EntryType, RestType, entryVars, reasonVars, machineVars, portVars,
            taskVars, restVars
<1>1. CASE Adopt
  BY <1>1 DEF Adopt, AdoptInit, AdoptPostInit, Restore
<1>2. ASSUME NEW i \in Ups, UpArrives(i) \/ UpGoes(i) PROVE TokenMoves
  <2>1. CASE UpStartsEntry(i)
    <3>1. channel' = channel + 1 /\ UNCHANGED entry
      BY <2>1 DEF UpStartsEntry
    <3> QED
      BY <3>1
  <2>2. CASE UpArrives(i) \/ UpFindsNoEntry(i) \/ UpGivesUp(i)
    BY <2>2 DEF UpArrives, UpFindsNoEntry, UpGivesUp
  <2>3. CASE UpNames(i) \/ UpStartsUpload(i)
    BY <2>3 DEF UpNames, UpStartsUpload
  <2> QED
    BY <1>2, <2>1, <2>2, <2>3 DEF UpGoes
<1>3. ASSUME NEW i \in Downs, DownArrives(i) \/ DownNames(i) PROVE TokenMoves
  <2>1. CASE DownArrives(i)
    <3>1. UNCHANGED <<entry, token, channel>>
      BY <2>1 DEF DownArrives
    <3> QED
      BY <3>1
  <2>2. CASE DownNames(i)
    BY <2>2 DEF DownNames
  <2> QED
    BY <1>3, <2>1, <2>2
<1>4. ASSUME NEW i \in Reboots, Reboot(i) PROVE TokenMoves
  BY <1>4 DEF Reboot
<1>5. ASSUME NEW s \in Stages, StageNames(s) PROVE TokenMoves
  BY <1>5 DEF StageNames
<1>6. CASE StagesGo \/ TechProfConfigured
  BY <1>6 DEF StagesGo, StartDownload, StartUnlock, EnablePorts, TechProfConfigured
<1>7. CASE MachinesGo \/ MachinesFail
  BY <1>7 DEF MachinesGo, UploadGetsTemplate, UploadAsksOnu, UploadInSync, DownloadDone,
              DownloadWindsDown, UnlockDone, UnlockWindsDown, MachinesFail, UploadFails,
              DownloadFails, UnlockFails
<1>8. CASE UNCHANGED vars
  BY <1>8 DEF vars
<1> QED
  BY <1>1, <1>2, <1>3, <1>4, <1>5, <1>6, <1>7, <1>8 DEF Next

(* createInterface and addOnuDeviceEntry: however often the ONU comes up    *)
(* before its entry is there, the only value of deviceEntrySet is not lost *)
(* to those who wait for it.                                               *)
THEOREM SomeoneIsWoken == Spec => []WaitingIsWoken
<1>1. Init => TokenInv
  BY DEF Init, TokenInv
<1>2. IInv /\ TokenInv /\ [Next]_vars => TokenInv'
  <2> SUFFICES ASSUME IInv, TokenInv, [Next]_vars PROVE TokenInv'
    OBVIOUS
  <2>1. EntryType /\ RestType
    BY DEF IInv, TypeOK
  <2>2. TokenMoves
    BY <2>1, NextTokenMoves
  <2> QED
    BY <2>1, <2>2 DEF RestType, TokenInv, TokenMoves
<1>3. TokenInv => WaitingIsWoken
  BY DEF TokenInv, WaitingIsWoken
<1> QED
  BY <1>1, <1>2, <1>3, Inductive, PTL DEF Spec

-----------------------------------------------------------------------------
(* The machines the handler uses.                                          *)

LEMMA UploadStep == ASSUME [Next]_vars PROVE [Upload!Next]_(ul.state)
<1> USE DEF Upload!Next, Upload!Go, Machine
<1>1. ASSUME UNCHANGED ul PROVE [Upload!Next]_(ul.state)
  BY <1>1
<1>2. ASSUME NEW i \in Ups, UpStartsUpload(i) PROVE [Upload!Next]_(ul.state)
  BY <1>2, <1>1 DEF UpStartsUpload, Upload!Start
<1>3. CASE UploadGetsTemplate
  BY <1>3 DEF UploadGetsTemplate, Upload!Template
<1>4. CASE UploadAsksOnu
  BY <1>4 DEF UploadAsksOnu, Upload!Upload
<1>5. CASE UploadInSync
  BY <1>5 DEF UploadInSync, Upload!Sync
<1>6. CASE UploadFails
  BY <1>6 DEF UploadFails, Upload!Stop, Upload!Retreat
<1>7. ASSUME NEW i \in Downs, DownArrives(i) PROVE [Upload!Next]_(ul.state)
  BY <1>1, <1>7 DEF DownArrives, StopMachines, Upload!Stop
<1>8. ASSUME \/ Adopt
             \/ \E i \in Ups : \/ UpArrives(i) \/ UpFindsNoEntry(i) \/ UpStartsEntry(i)
                               \/ UpGivesUp(i) \/ UpNames(i)
             \/ \E i \in Downs : DownNames(i)
             \/ \E i \in Reboots : Reboot(i)
             \/ \E s \in Stages : StageNames(s)
             \/ StagesGo \/ TechProfConfigured
             \/ DownloadDone \/ DownloadWindsDown \/ UnlockDone \/ UnlockWindsDown
             \/ DownloadFails \/ UnlockFails
             \/ UNCHANGED vars
      PROVE  UNCHANGED ul
  BY <1>8 DEF Adopt, AdoptInit, AdoptPostInit, Restore, UpArrives, UpFindsNoEntry,
              UpStartsEntry, UpGivesUp, UpNames, DownNames, Reboot, StageNames, StagesGo,
              StartDownload, StartUnlock, EnablePorts, DownloadDone, DownloadWindsDown,
              UnlockDone, UnlockWindsDown, DownloadFails, UnlockFails, TechProfConfigured,
              vars, machineVars
<1> QED
  BY <1>1, <1>2, <1>3, <1>4, <1>5, <1>6, <1>7, <1>8
     DEF Next, UpGoes, StagesGo, MachinesGo, MachinesFail

LEMMA DownloadStep ==
  ASSUME IInv, [Next]_vars PROVE [Download!Next]_<<Phase(dl), stage[2] # "none">>
<1> DEFINE told2 == stage[2] # "none"
<1> USE DEF Machine
<1>a. /\ stage \in [Stages -> {"none", "spawned", "named", "done"}] /\ Stages = {1, 2, 3}
      /\ dl.state \in {"disabled", "running", "downloaded", "resetting"}
  BY StageReasonValue DEF IInv, TypeOK, TaskType, MachinesType, MachineIn
<1>1. ASSUME Phase(dl)' = Phase(dl), told2' = told2
      PROVE  [Download!Next]_<<Phase(dl), told2>>
  BY <1>1
<1>6. UNCHANGED dl => Phase(dl)' = Phase(dl)
  BY DEF Phase
<1>2. CASE StartDownload
  <2>1. told2' = told2
    BY <1>2, <1>a DEF StartDownload
  <2>2. CASE dl.state = "disabled"
    <3>1. Phase(dl) = "disabled" /\ Phase(dl)' = "running"
      BY <1>2, <2>2 DEF StartDownload, Phase
    <3> QED
      BY <2>1, <3>1 DEF Download!Next, Download!Start, Download!Go
  <2>3. CASE dl.state # "disabled"
    BY <1>1, <1>2, <2>1, <2>3 DEF StartDownload
  <2> QED
    BY <2>2, <2>3
<1>3. CASE DownloadDone
  <2>1. Phase(dl) = "running" /\ Phase(dl)' = "done"
    BY <1>3 DEF DownloadDone, DownloadRuns, Phase
  <2>2. ~told2 /\ devState < 2
    BY <1>3, StageReasonValue
       DEF DownloadDone, IInv, StageInv, TypeOK, TaskType
  <2>3. told2'
    BY <1>3, <1>a, <2>2 DEF DownloadDone, TransferSystemEvent
  <2> QED
    BY <2>1, <2>2, <2>3 DEF Download!Next, Download!Complete
<1>4. CASE DownloadFails \/ DownloadWindsDown \/ \E i \in Downs : DownArrives(i)
  <2>1. told2' = told2
    BY <1>4 DEF DownloadFails, DownloadWindsDown, DownArrives, taskVars
  <2>2. \/ dl' = dl
        \/ dl.state \in {"running", "downloaded"} /\ dl'.state = "resetting"
        \/ dl.state = "resetting" /\ dl'.state = "disabled"
    <3>1. CASE DownloadFails
      BY <3>1 DEF DownloadFails, DownloadRuns
    <3>2. CASE DownloadWindsDown
      BY <3>2 DEF DownloadWindsDown
    <3>3. ASSUME NEW i \in Downs, DownArrives(i)
          PROVE  \/ dl' = dl
                 \/ dl.state \in {"running", "downloaded"} /\ dl'.state = "resetting"
      BY <3>3 DEF DownArrives, StopMachines
    <3> QED
      BY <1>4, <3>1, <3>2, <3>3
  <2>3. \/ dl' = dl
        \/ Phase(dl) \in {"running", "done"} /\ Phase(dl)' = "resetting"
        \/ Phase(dl) = "resetting" /\ Phase(dl)' = "disabled"
    BY <2>2 DEF Phase
  <2> QED
    BY <1>1, <1>6, <2>1, <2>3
       DEF Download!Next, Download!Reset, Download!Restart, Download!Go
<1>5. ASSUME \/ Adopt
             \/ \E i \in Ups : UpArrives(i) \/ UpGoes(i)
             \/ \E i \in Downs : DownNames(i)
             \/ \E i \in Reboots : Reboot(i)
             \/ \E s \in Stages : StageNames(s)
             \/ StartUnlock \/ EnablePorts \/ TechProfConfigured
             \/ UploadGetsTemplate \/ UploadAsksOnu \/ UploadInSync \/ UploadFails
             \/ UnlockDone \/ UnlockWindsDown \/ UnlockFails
             \/ UNCHANGED vars
      PROVE  UNCHANGED dl /\ told2' = told2
  <2>1. UNCHANGED dl
    BY <1>5 DEF Adopt, AdoptInit, AdoptPostInit, Restore, UpArrives, UpGoes,
                UpFindsNoEntry, UpStartsEntry, UpGivesUp, UpNames, UpStartsUpload,
                DownNames, Reboot, StageNames, StartUnlock, EnablePorts,
                TechProfConfigured, UploadGetsTemplate, UploadAsksOnu, UploadInSync,
                UploadFails, UnlockDone, UnlockWindsDown, UnlockFails, vars, machineVars
  <2>2. (\E s \in Stages : StageNames(s)) => told2' = told2
    BY <1>a DEF StageNames
  <2>3. StartUnlock \/ TechProfConfigured \/ UploadInSync => told2' = told2
    BY <1>a, StageReasonValue DEF StartUnlock, TechProfConfigured, UploadInSync, TransferSystemEvent
  <2>4. UNCHANGED stage => told2' = told2
    OBVIOUS
  <2> QED
    BY <1>5, <2>1, <2>2, <2>3, <2>4
       DEF Adopt, AdoptInit, AdoptPostInit, Restore, UpArrives, UpGoes,
           UpFindsNoEntry, UpStartsEntry, UpGivesUp, UpNames, UpStartsUpload,
           DownNames, Reboot, EnablePorts, UploadGetsTemplate, UploadAsksOnu,
           UploadFails, UnlockDone, UnlockWindsDown, UnlockFails, vars, taskVars
<1> QED
  BY <1>1, <1>2, <1>3, <1>4, <1>5, <1>6 DEF Next, StagesGo, MachinesGo, MachinesFail

LEMMA UnlockStep ==
  ASSUME IInv, [Next]_vars PROVE [Unlock!Next]_<<Phase(un), enable # "none">>
<1> DEFINE ended == enable # "none"
<1> USE DEF Machine
<1>a. un.state \in {"none", "disabled", "running", "adminDone", "resetting"}
  BY DEF IInv, TypeOK, MachinesType, MachineIn
<1>1. ASSUME Phase(un)' = Phase(un), ended' = ended
      PROVE  [Unlock!Next]_<<Phase(un), ended>>
  BY <1>1
<1>6. UNCHANGED un => Phase(un)' = Phase(un)
  BY DEF Phase
<1>2. CASE StartUnlock
  <2>1. ended' = ended
    BY <1>2 DEF StartUnlock, portVars
  <2>2. CASE un.state \in {"none", "disabled"}
    <3>1. Phase(un) = "disabled" /\ Phase(un)' = "running"
      BY <1>2, <2>2 DEF StartUnlock, Phase
    <3> QED
      BY <2>1, <3>1 DEF Unlock!Next, Unlock!Start, Unlock!Go
  <2>3. CASE un.state \notin {"none", "disabled"}
    BY <1>1, <1>2, <2>1, <2>3 DEF StartUnlock
  <2> QED
    BY <2>2, <2>3
<1>3. CASE UnlockDone
  <2>1. Phase(un) = "running" /\ Phase(un)' = "done"
    BY <1>3 DEF UnlockDone, UnlockRuns, Phase
  <2>2. ~ended /\ ended'
    BY <1>3 DEF UnlockDone, IInv, StageInv
  <2> QED
    BY <2>1, <2>2 DEF Unlock!Next, Unlock!Complete
<1>4. CASE UnlockFails \/ UnlockWindsDown \/ \E i \in Downs : DownArrives(i)
  <2>1. ended' = ended
    BY <1>4 DEF UnlockFails, UnlockWindsDown, DownArrives, portVars
  <2>2. \/ un' = un
        \/ un.state \in {"running", "adminDone"} /\ un'.state = "resetting"
        \/ un.state = "resetting" /\ un'.state = "disabled"
    <3>1. CASE UnlockFails
      BY <3>1 DEF UnlockFails, UnlockRuns
    <3>2. CASE UnlockWindsDown
      BY <3>2 DEF UnlockWindsDown
    <3>3. ASSUME NEW i \in Downs, DownArrives(i)
          PROVE  \/ un' = un
                 \/ un.state \in {"running", "adminDone"} /\ un'.state = "resetting"
      BY <3>3 DEF DownArrives, StopMachines
    <3> QED
      BY <1>4, <3>1, <3>2, <3>3
  <2>3. \/ un' = un
        \/ Phase(un) \in {"running", "done"} /\ Phase(un)' = "resetting"
        \/ Phase(un) = "resetting" /\ Phase(un)' = "disabled"
    BY <2>2 DEF Phase
  <2> QED
    BY <1>1, <1>6, <2>1, <2>3
       DEF Unlock!Next, Unlock!Reset, Unlock!Restart, Unlock!Go
<1>5. ASSUME \/ Adopt
             \/ \E i \in Ups : UpArrives(i) \/ UpGoes(i)
             \/ \E i \in Downs : DownNames(i)
             \/ \E i \in Reboots : Reboot(i)
             \/ \E s \in Stages : StageNames(s)
             \/ StartDownload \/ EnablePorts \/ TechProfConfigured
             \/ UploadGetsTemplate \/ UploadAsksOnu \/ UploadInSync \/ UploadFails
             \/ DownloadDone \/ DownloadWindsDown \/ DownloadFails
             \/ UNCHANGED vars
      PROVE  UNCHANGED un /\ ended' = ended
  <2>1. UNCHANGED un
    BY <1>5 DEF Adopt, AdoptInit, AdoptPostInit, Restore, UpArrives, UpGoes,
                UpFindsNoEntry, UpStartsEntry, UpGivesUp, UpNames, UpStartsUpload,
                DownNames, Reboot, StageNames, StartDownload, EnablePorts,
                TechProfConfigured, UploadGetsTemplate, UploadAsksOnu, UploadInSync,
                UploadFails, DownloadDone, DownloadWindsDown, DownloadFails, vars,
                machineVars
  <2>2. EnablePorts => ended' = ended
    BY DEF EnablePorts
  <2>3. UNCHANGED enable => ended' = ended
    OBVIOUS
  <2> QED
    BY <1>5, <2>1, <2>2, <2>3
       DEF Adopt, AdoptInit, AdoptPostInit, Restore, UpArrives, UpGoes,
           UpFindsNoEntry, UpStartsEntry, UpGivesUp, UpNames, UpStartsUpload,
           DownNames, Reboot, StageNames, StartDownload, TechProfConfigured,
           UploadGetsTemplate, UploadAsksOnu, UploadInSync, UploadFails,
           DownloadDone, DownloadWindsDown, DownloadFails, vars, portVars
<1> QED
  BY <1>1, <1>2, <1>3, <1>4, <1>5, <1>6 DEF Next, StagesGo, MachinesGo, MachinesFail

(* enterInSyncState, processMibDownloadDoneEvent, updateInterface and the   *)
(* rest: however indications, reboots and faults interleave, the handler   *)
(* moves its machines only in the ways MibSync and InitialConfig have, and *)
(* each completed run is told to it once.                                  *)
THEOREM HandlerUsesMachines == Spec => UsesMachines
<1>1. Init => Upload!Init /\ Download!Init /\ Unlock!Init
  BY StageReasonValue DEF Init, Upload!Init, Download!Init, Unlock!Init, Machine, Phase
<1>2. IInv /\ [Next]_vars => /\ [Upload!Next]_(ul.state)
                             /\ [Download!Next]_<<Phase(dl), stage[2] # "none">>
                             /\ [Unlock!Next]_<<Phase(un), enable # "none">>
  BY UploadStep, DownloadStep, UnlockStep
<1> QED
  BY <1>1, <1>2, Inductive, PTL
     DEF Spec, UsesMachines, Upload!Spec, Download!Spec, Unlock!Spec, Download!vars,
         Unlock!vars
=============================================================================
