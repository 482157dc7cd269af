--------------------------- MODULE TechProfProofs ---------------------------
(***************************************************************************)
(* What is proved of the tech profile processing, for any number of        *)
(* requests, UNIs, paths, deadlines and faults: the type invariant; that   *)
(* the goroutines of a request only run while it holds tpProcMutex; that   *)
(* the KV store keeps up with the memory; that an undisturbed request      *)
(* leaves nothing behind; what, with one UNI, the answer of a download     *)
(* means; and that the machine is used as AniMachine says.                 *)
(***************************************************************************)
EXTENDS TechProf, TLAPS

USE DEF resultVars

\* A request holds the mutex exactly while its handler waits.
WaitingOwns == \A r \in Requests : pc[r] = "waiting" <=> owner = r

LockInv == TypeOK /\ WaitingOwns /\ OneRequestAtWork

\* Nothing begins to work, and the mutex and who waits stay as they are.
Calm ==
    /\ UNCHANGED <<pc, owner>>
    /\ \A r \in Requests :
         /\ cfg'[r] \notin Finished => cfg[r] \notin Finished
         /\ kv'[r] \notin Finished => kv[r] \notin Finished

-----------------------------------------------------------------------------
(* Type correctness.                                                       *)

LEMMA InitType == Init => TypeOK
<1> SUFFICES ASSUME Init PROVE TypeOK
  OBVIOUS
<1> USE TechProfAssumption DEF Init
<1>1. NoPaths \in PathMap /\ Stored \in PathMap
  BY DEF NoPaths, PathMap
<1>2. RequestType
  BY DEF RequestType
<1>3. CfgType
  BY DEF CfgType
<1>4. KvType
  BY <1>1 DEF KvType
<1>5. DataType
  BY <1>1 DEF DataType
<1>6. AniType
  BY <1>1 DEF AniType, NoAni, Machines
<1>7. EnvType
  BY DEF EnvType
<1>8. ResultType
  BY DEF ResultType
<1> QED
  BY <1>2, <1>3, <1>4, <1>5, <1>6, <1>7, <1>8 DEF TypeOK

LEMMA SameType ==
    /\ RequestType /\ UNCHANGED requestVars => RequestType'
    /\ CfgType /\ UNCHANGED cfgVars => CfgType'
    /\ KvType /\ UNCHANGED kvVars => KvType'
    /\ DataType /\ UNCHANGED dataVars => DataType'
    /\ AniType /\ UNCHANGED aniVars => AniType'
    /\ EnvType /\ UNCHANGED envVars => EnvType'
    /\ ResultType /\ UNCHANGED resultVars => ResultType'
<1>1. RequestType /\ UNCHANGED requestVars => RequestType'
  BY DEF RequestType, requestVars
<1>2. CfgType /\ UNCHANGED cfgVars => CfgType'
  BY DEF CfgType, cfgVars
<1>3. KvType /\ UNCHANGED kvVars => KvType'
  BY DEF KvType, kvVars
<1>4. DataType /\ UNCHANGED dataVars => DataType'
  BY DEF DataType, dataVars
<1>5. AniType /\ UNCHANGED aniVars => AniType'
  BY DEF AniType, aniVars
<1>6. EnvType /\ UNCHANGED envVars => EnvType'
  BY DEF EnvType, envVars
<1>7. ResultType /\ UNCHANGED resultVars => ResultType'
  BY DEF ResultType
<1> QED
  BY <1>1, <1>2, <1>3, <1>4, <1>5, <1>6, <1>7

LEMMA FaultType == EnvType /\ (Fault \/ UNCHANGED faults) => faults' \in Nat
  BY DEF EnvType, Fault

\* A receive leaves a queue of messages and a machine.
LEMMA ReceiveType ==
  ASSUME CfgType, AniType, ReceiveStep PROVE cfgChan' \in Seq(Message) /\ ani' \in Machines
<1>1. cfgChan' \in Seq(Message)
  BY DEF ReceiveStep, CfgType
<1>2. AniReleased \in Machines
  BY DEF AniReleased, AniType, Machines
<1> QED
  BY <1>1, <1>2 DEF ReceiveStep, AniType

LEMMA ReportType ==
  ASSUME CfgType, NEW r \in Requests, NEW step \in 0 .. 2, Report(r, step)
  PROVE cfgChan' \in Seq(Message)
<1>1. Sent(r, step) \in Message
  BY DEF Sent, Message
<1> QED
  BY <1>1 DEF Report, CfgType

\* A reset leaves one of the machines the events know.
LEMMA ResetType == ASSUME NEW a \in Machines PROVE AfterReset(a) \subseteq Machines
<1>1. ASSUME NEW late \in {0, 1}
      PROVE [a EXCEPT !.state = "resetting", !.restarts = @ + 1,
                      !.resets = @ + late] \in Machines
  <2>1. a.restarts + 1 \in Nat /\ a.resets + late \in Nat
    BY DEF Machines
  <2> QED
    BY <2>1 DEF Machines
<1> QED
  BY <1>1 DEF AfterReset

LEMMA PanicType == TypeOK /\ Panic => TypeOK'
<1> SUFFICES ASSUME TypeOK, Panic PROVE TypeOK'
  OBVIOUS
<1> USE DEF TypeOK
<1>1. RequestType'
  BY DEF Panic, RequestType
<1>2. CfgType'
  BY DEF Panic, CfgType
<1>3. KvType'
  BY DEF Panic, KvType
<1>4. AniType'
  BY TechProfAssumption DEF Panic, AniType, NoAni, Machines
<1>5. EnvType' /\ ResultType'
  BY DEF Panic, EnvType, ResultType
<1> QED
  BY <1>1, <1>2, <1>3, <1>4, <1>5, SameType DEF Panic

\* Accept, Expire and the steps of a handler.
LEMMA HandleType ==
  ASSUME TypeOK, NEW r \in Requests, Accept(r) \/ Handle(r) \/ Expire(r)
  PROVE TypeOK'
<1> USE TechProfAssumption DEF TypeOK
<1>1. CASE Accept(r)
  <2>1. RequestType'
    BY <1>1 DEF Accept, RequestType
  <2> QED
    BY <1>1, <2>1, SameType DEF Accept
<1>2. CASE Unchanged(r)
  <2>1. RequestType'
    BY <1>2 DEF Unchanged, RequestType
  <2> QED
    BY <1>2, <2>1, SameType DEF Unchanged
<1>3. ASSUME NEW u \in Unis, NEW p \in Paths \cup {NoPath},
             NEW configures \in BOOLEAN, NEW stores \in BOOLEAN,
             Begin(r, u, p, configures, stores),
             mapUniTpPath' \in PathMap
      PROVE  TypeOK'
  <2>1. RequestType'
    BY <1>3 DEF Begin, RequestType
  <2>2. CfgType'
    BY <1>3 DEF Begin, CfgType
  <2>3. KvType'
    BY <1>3 DEF Begin, KvType
  <2>4. DataType' /\ ResultType'
    BY <1>3 DEF Begin, DataType, ResultType
  <2> QED
    BY <1>3, <2>1, <2>2, <2>3, <2>4, SameType DEF Begin
<1>4. WantedPath(r) \in Paths \cup {NoPath} /\ UniOf[r] \in Unis
  BY DEF WantedPath
<1>5. [mapUniTpPath EXCEPT ![UniOf[r]] = WantedPath(r)] \in PathMap
  BY <1>4 DEF DataType, PathMap
<1>6. CASE Download(r)
  BY <1>3, <1>4, <1>5, <1>6 DEF Download
<1>7. CASE DeleteTcont(r)
  BY <1>3, <1>4, <1>5, <1>7 DEF DeleteTcont
<1>8. CASE DeleteGem(r)
  BY <1>3, <1>4, <1>8 DEF DeleteGem, DataType
<1>9. CASE Reconcile(r)
  <2>1. PICK u \in Unis : Begin(r, u, pers[u], TRUE, FALSE)
    BY <1>9 DEF Reconcile
  <2>2. pers[u] \in Paths \cup {NoPath} /\ mapUniTpPath' \in PathMap
    BY <1>9 DEF Reconcile, KvType, DataType, PathMap
  <2> QED
    BY <1>3, <2>1, <2>2
<1>10. CASE Unlock(r)
  <2>1. RequestType'
    BY <1>10 DEF Unlock, RequestType
  <2> QED
    BY <1>10, <2>1, SameType DEF Unlock
<1>11. CASE Return(r)
  <2>1. RequestType'
    BY <1>11 DEF Return, RequestType, ResultType
  <2> QED
    BY <1>11, <2>1, SameType DEF Return
<1>12. CASE Expire(r)
  <2>1. RequestType'
    BY <1>12 DEF Expire, RequestType
  <2> QED
    BY <1>12, <2>1, SameType DEF Expire
<1> QED
  BY <1>1, <1>2, <1>6, <1>7, <1>8, <1>9, <1>10, <1>11, <1>12 DEF Handle

\* The steps of configureUniTp.
LEMMA ConfigureType ==
  ASSUME TypeOK, NEW r \in Requests, Configure(r) PROVE TypeOK'
<1> USE DEF TypeOK
<1>1. CASE ConfigureUnknownUni(r)
  <2>1. CfgType' /\ ResultType'
    BY <1>1 DEF ConfigureUnknownUni, CfgFails, CfgType, ResultType
  <2>2. EnvType'
    BY <1>1, FaultType DEF ConfigureUnknownUni, EnvType
  <2> QED
    BY <1>1, <2>1, <2>2, SameType DEF ConfigureUnknownUni
<1>2. CASE StartRead(r)
  <2>1. CfgType'
    BY <1>2 DEF StartRead, CfgType
  <2> QED
    BY <1>2, <2>1, SameType DEF StartRead
<1>3. ASSUME ReceiveStep \/ UNCHANGED <<cfgChan, ani>>
      PROVE  cfgChan' \in Seq(Message) /\ ani' \in Machines
  BY <1>3, ReceiveType DEF CfgType, AniType
<1>4. CASE ReadDone(r)
  <2>1. CfgType' /\ ResultType'
    BY <1>3, <1>4 DEF ReadDone, CfgFails, CfgType, ResultType
  <2>2. AniType'
    BY <1>3, <1>4 DEF ReadDone, AniType
  <2> QED
    BY <1>4, <2>1, <2>2, SameType DEF ReadDone
<1>5. CASE ReadFails(r)
  <2>1. CfgType' /\ ResultType'
    BY <1>3, <1>5 DEF ReadFails, CfgFails, CfgType, ResultType
  <2>2. AniType'
    BY <1>3, <1>5 DEF ReadFails, AniType
  <2> QED
    BY <1>5, <2>1, <2>2, SameType DEF ReadFails
<1>6. CASE SetDone(r)
  <2>1. CfgType'
    BY <1>3, <1>6 DEF SetDone, CfgType
  <2>2. AniType'
    BY <1>3, <1>6 DEF SetDone, AniType
  <2> QED
    BY <1>6, <2>1, <2>2, SameType DEF SetDone
<1>7. CASE SetFails(r)
  <2>1. CfgType' /\ ResultType'
    BY <1>3, <1>7 DEF SetFails, CfgFails, CfgType, ResultType
  <2>2. AniType'
    BY <1>3, <1>7 DEF SetFails, AniType
  <2> QED
    BY <1>7, <2>1, <2>2, SameType DEF SetFails
<1>8. CASE ResetAni(r)
  <2>1. CASE ani.state = "none"
    BY <1>8, <2>1, PanicType DEF ResetAni
  <2>2. CASE ani.state # "none"
    <3>1. CfgType'
      BY <1>8, <2>2 DEF ResetAni, CfgType
    <3>2. AniType'
      BY <1>8, <2>2, ResetType DEF ResetAni, AniType
    <3> QED
      BY <1>8, <2>2, <3>1, <3>2, SameType DEF ResetAni
  <2> QED
    BY <2>1, <2>2
<1> QED
  BY <1>1, <1>2, <1>4, <1>5, <1>6, <1>7, <1>8 DEF Configure

\* The steps of readAniSideConfigFromTechProfile.
LEMMA ReadType == ASSUME TypeOK, NEW r \in Requests, Read(r) PROVE TypeOK'
<1> USE DEF TypeOK
<1>1. job[r].uni \in Unis /\ job[r].path \in Paths \cup {NoPath}
  BY DEF RequestType
<1>2. \A step \in 0 .. 2 : Report(r, step) => cfgChan' \in Seq(Message)
  BY ReportType
<1>3. CASE ReadInvalid(r)
  <2>1. CfgType'
    BY <1>2, <1>3 DEF ReadInvalid, CfgType
  <2>2. EnvType'
    BY <1>3, FaultType DEF ReadInvalid, EnvType
  <2> QED
    BY <1>3, <2>1, <2>2, SameType DEF ReadInvalid
<1>4. CASE ReadBegin(r)
  <2>1. CfgType'
    BY <1>4 DEF ReadBegin, CfgType
  <2>2. DataType'
    BY <1>1, <1>4 DEF ReadBegin, DataType, PathMap
  <2> QED
    BY <1>4, <2>1, <2>2, SameType DEF ReadBegin
<1>5. CASE ReadMissing(r)
  <2>1. CfgType'
    BY <1>2, <1>5 DEF ReadMissing, CfgType
  <2>2. EnvType'
    BY <1>5, FaultType DEF ReadMissing, EnvType
  <2> QED
    BY <1>5, <2>1, <2>2, SameType DEF ReadMissing
<1>6. CASE ReadGet(r)
  <2>1. CfgType'
    BY <1>6 DEF ReadGet, CfgType
  <2> QED
    BY <1>6, <2>1, SameType DEF ReadGet
<1>7. CASE ReadRefused(r)
  <2>1. CfgType'
    BY <1>2, <1>7 DEF ReadRefused, CfgType
  <2>2. EnvType'
    BY <1>7, FaultType DEF ReadRefused, EnvType
  <2>3. DataType'
    BY <1>1, <1>7 DEF ReadRefused, DataType, PathMap
  <2> QED
    BY <1>7, <2>1, <2>2, <2>3, SameType DEF ReadRefused
<1>8. CASE ReadFill(r) /\ ~Panic
  <2>1. CfgType'
    BY <1>2, <1>8 DEF ReadFill, CfgType
  <2>2. DataType'
    BY <1>1, <1>8 DEF ReadFill, DataType, PathMap
  <2> QED
    BY <1>8, <2>1, <2>2, SameType DEF ReadFill
<1> QED
  BY <1>3, <1>4, <1>5, <1>6, <1>7, <1>8, PanicType DEF Read

\* The steps of setAniSideConfigFromTechProfile.
LEMMA SetAniType == ASSUME TypeOK, NEW r \in Requests, SetAni(r) PROVE TypeOK'
<1> USE DEF TypeOK
<1>1. CASE SetChannel(r)
  <2>1. CfgType'
    BY <1>1 DEF SetChannel, CfgType
  <2>2. [NoAni EXCEPT !.state = "disabled", !.uni = job[r].uni] \in Machines
    BY TechProfAssumption DEF RequestType, NoAni, Machines
  <2>3. \A a \in Machines, b \in BOOLEAN : [a EXCEPT !.chanSet = @ \/ b] \in Machines
    BY DEF Machines
  <2>4. AniType'
    BY <1>1, <2>2, <2>3 DEF SetChannel, AniType
  <2> QED
    BY <1>1, <2>1, <2>4, SameType DEF SetChannel
<1>2. CASE StartAni(r)
  <2>1. CfgType'
    BY <1>2 DEF StartAni, CfgType
  <2>2. ani.preps + 1 \in Nat
    BY DEF AniType, Machines
  <2>3. AniType'
    BY <1>2, <2>2 DEF StartAni, AniType, Machines
  <2> QED
    BY <1>2, <2>1, <2>3, SameType DEF StartAni
<1> QED
  BY <1>1, <1>2 DEF SetAni

\* The steps of updateOnuTpPathKvStore and storePersistentData.
LEMMA StoreType == ASSUME TypeOK, NEW r \in Requests, Store(r) \/ WriteLands(r) PROVE TypeOK'
<1> USE DEF TypeOK
<1>1. CASE CopyPaths(r)
  <2>1. KvType'
    BY <1>1 DEF CopyPaths, KvType, DataType
  <2> QED
    BY <1>1, <2>1, SameType DEF CopyPaths
<1>2. ASSUME NEW step \in 0 .. 2, kvChan' = Append(kvChan, Sent(r, step))
      PROVE  kvChan' \in Seq(Message)
  <2>1. Sent(r, step) \in Message
    BY DEF Sent, Message
  <2> QED
    BY <1>2, <2>1 DEF KvType
<1>3. CASE Put(r)
  <2>1. kvChan' \in Seq(Message)
    BY <1>2, <1>3 DEF Put, KvType
  <2>2. KvType'
    BY <1>3, <2>1 DEF Put, KvType
  <2> QED
    BY <1>3, <2>2, SameType DEF Put
<1>4. CASE PutReturns(r)
  <2>1. PICK ok \in BOOLEAN :
           /\ store' = [store EXCEPT ![r] = IF ok THEN "stored" ELSE "failed"]
           /\ kvChan' = Append(kvChan, Sent(r, IF ok THEN 1 ELSE 0))
    BY <1>4 DEF PutReturns
  <2>2. kvChan' \in Seq(Message)
    BY <1>2, <2>1
  <2>3. KvType'
    BY <1>4, <2>1, <2>2 DEF PutReturns, KvType
  <2>4. Fault \/ UNCHANGED faults
    BY <1>4 DEF PutReturns
  <2>5. EnvType'
    BY <1>4, <2>4, FaultType DEF PutReturns, EnvType
  <2> QED
    BY <1>4, <2>3, <2>5, SameType DEF PutReturns
<1>5. CASE StoreDone(r)
  <2>1. KvType' /\ ResultType'
    BY <1>5 DEF StoreDone, KvType, ResultType
  <2> QED
    BY <1>5, <2>1, SameType DEF StoreDone
<1>6. CASE StoreExpires(r)
  <2>1. KvType' /\ ResultType'
    BY <1>6 DEF StoreExpires, KvType, ResultType
  <2> QED
    BY <1>6, <2>1, SameType DEF StoreExpires
<1>7. CASE WriteLands(r)
  <2>1. KvType'
    BY <1>7 DEF WriteLands, KvType
  <2> QED
    BY <1>7, <2>1, SameType DEF WriteLands
<1> QED
  BY <1>1, <1>3, <1>4, <1>5, <1>6, <1>7 DEF Store

\* The steps of the ANI configuration machine and of updateInterface.
LEMMA MachineType == ASSUME TypeOK, AniEvents \/ AniProgress \/ OnuDown PROVE TypeOK'
<1> USE DEF TypeOK
<1>1. /\ ani.uni \in Unis /\ ani.preps \in Nat
      /\ ani.resets \in Nat /\ ani.resets + 1 \in Nat
      /\ ani.restarts \in Nat /\ ani.restarts + 1 \in Nat
  BY DEF AniType, Machines
<1>2. CASE PrepareAni /\ ~Panic
  <2>1. ani.preps - 1 \in Nat
    BY <1>1, <1>2 DEF PrepareAni
  <2>2. ani.uni \in Unis /\ mapPonAniConfig[ani.uni] # NoPath
    BY <1>1, <1>2 DEF PrepareAni
  <2>3. mapPonAniConfig[ani.uni] \in Paths
    BY <2>2 DEF DataType, PathMap
  <2>4. \/ ani' = [ani EXCEPT !.preps = ani.preps - 1]
        \/ ani' = [ani EXCEPT !.preps = ani.preps - 1, !.state = "creating",
                              !.path = mapPonAniConfig[ani.uni]]
    BY <1>2, <2>2 DEF PrepareAni
  <2>5. ani' \in Machines
    BY <2>1, <2>3, <2>4 DEF AniType, Machines
  <2>6. AniType'
    BY <1>2, <2>2, <2>5 DEF PrepareAni, AniType
  <2> QED
    BY <1>2, <2>2, <2>6, SameType DEF PrepareAni
<1>3. CASE PostedReset
  <2>1. ani.resets - 1 \in Nat
    BY <1>1, <1>3 DEF PostedReset
  <2>2. [ani EXCEPT !.resets = @ - 1] \in Machines
    BY <2>1 DEF AniType, Machines
  <2>3. AniType'
    BY <1>3, <2>2, ResetType DEF PostedReset, AniType
  <2> QED
    BY <1>3, <2>3, SameType DEF PostedReset
<1>4. CASE RestartAni
  <2>1. ani.restarts - 1 \in Nat
    BY <1>1, <1>4 DEF RestartAni
  <2>2. /\ [ani EXCEPT !.restarts = @ - 1] \in Machines
        /\ [ani EXCEPT !.restarts = @ - 1, !.state = "disabled", !.completed = FALSE,
                       !.busy = ani.chanSet] \in Machines
    BY <2>1 DEF AniType, Machines
  <2>3. AniType'
    BY <1>4, <2>2 DEF RestartAni, AniType
  <2>4. Append(cfgChan, Sent(Ani, 2)) \in Seq(Message)
    BY DEF Sent, Message, CfgType
  <2>5. cfgChan' \in {cfgChan, Append(cfgChan, Sent(Ani, 2))}
    BY <1>4 DEF RestartAni
  <2>6. CfgType'
    BY <1>4, <2>4, <2>5 DEF RestartAni, CfgType
  <2>7. [configDone EXCEPT ![ani.uni] = profile[ani.uni] # NoPath] \in [Unis -> BOOLEAN]
    BY DEF DataType
  <2>8. DataType'
    BY <1>4, <2>7 DEF RestartAni, DataType
  <2>9. EnvType'
    BY <1>4 DEF RestartAni, EnvType
  <2> QED
    BY <1>4, <2>3, <2>6, <2>8, <2>9, SameType DEF RestartAni
<1>5. CASE SetMapper
  <2>1. ani.resets' = ani.resets + 1 \/ ani.resets' = ani.resets
    BY <1>5 DEF SetMapper, AniType, Machines
  <2>2. AniType'
    BY <1>1, <1>5, <2>1 DEF SetMapper, AniType, Machines
  <2> QED
    BY <1>5, <2>2, SameType DEF SetMapper
<1>6. CASE CompleteAni
  <2>1. ani' \in Machines
    BY <1>1, <1>6 DEF CompleteAni, AniType, Machines
  <2>2. [applied EXCEPT ![ani.uni] = ani.path] \in PathMap
    BY DEF AniType, Machines, PathMap
  <2>3. AniType'
    BY <1>6, <2>1, <2>2 DEF CompleteAni, AniType
  <2> QED
    BY <1>6, <2>3, SameType DEF CompleteAni
<1>7. CASE GiveUpAni
  <2>1. AniType'
    BY <1>1, <1>7 DEF GiveUpAni, AniType, Machines
  <2> QED
    BY <1>7, <2>1, SameType DEF GiveUpAni
<1>8. CASE DownReset
  <2>1. AniType' /\ EnvType'
    BY <1>8, ResetType DEF DownReset, AniType, EnvType
  <2> QED
    BY <1>8, <2>1, SameType DEF DownReset
<1>9. CASE DownClear
  <2>1. DataType' /\ EnvType'
    BY <1>9 DEF DownClear, DataType, EnvType
  <2> QED
    BY <1>9, <2>1, SameType DEF DownClear
<1>10. CASE DownStop
  <2>1. EnvType'
    BY <1>10 DEF DownStop, EnvType
  <2> QED
    BY <1>10, <2>1, SameType DEF DownStop
<1> QED
  BY <1>2, <1>3, <1>4, <1>5, <1>6, <1>7, <1>8, <1>9, <1>10, PanicType
  DEF AniEvents, AniProgress, OnuDown

LEMMA NextType == TypeOK /\ [Next]_vars => TypeOK'
<1>1. TypeOK /\ Next => TypeOK'
  BY HandleType, ConfigureType, ReadType, SetAniType, StoreType, MachineType DEF Next
<1>2. TypeOK /\ UNCHANGED vars => TypeOK'
  BY SameType DEF TypeOK, vars
<1> QED
  BY <1>1, <1>2

(* The fields of the tech profile processing, the step channels and the    *)
(* ANI configuration machine hold values of their types; in particular no  *)
(* more events are executed than were posted.                              *)
THEOREM TypeCorrect == Spec => []TypeOK
<1> QED
  BY InitType, NextType, PTL DEF Spec

-----------------------------------------------------------------------------
(* The mutex.                                                              *)

LEMMA InitLock == Init => LockInv
<1> SUFFICES ASSUME Init PROVE LockInv
  OBVIOUS
<1>1. WaitingOwns
  BY TechProfAssumption DEF Init, WaitingOwns
<1>2. OneRequestAtWork
  BY DEF Init, OneRequestAtWork, Finished
<1> QED
  BY <1>1, <1>2, InitType DEF LockInv

LEMMA CalmKeepsLock ==
  WaitingOwns /\ OneRequestAtWork /\ Calm => WaitingOwns' /\ OneRequestAtWork'
  BY DEF WaitingOwns, OneRequestAtWork, Calm, Finished

LEMMA PanicKeepsLock == Panic => WaitingOwns' /\ OneRequestAtWork'
  BY TechProfAssumption DEF Panic, WaitingOwns, OneRequestAtWork, Finished

\* Accept, Expire and the steps of a handler: the only ones that move the
\* mutex.
LEMMA HandleKeepsLock ==
  ASSUME LockInv, NEW r \in Requests, Accept(r) \/ Handle(r) \/ Expire(r)
  PROVE WaitingOwns' /\ OneRequestAtWork'
<1> USE DEF LockInv, TypeOK
<1>1. pc \in [Requests -> {"idle", "accepted", "waiting", "unlocked", "done", "gone"}]
  BY DEF RequestType
<1>2. ASSUME pc[r] # "waiting", NEW place, place # "waiting",
             pc' = [pc EXCEPT ![r] = place],
             UNCHANGED <<owner, cfg, kv>>
      PROVE  WaitingOwns' /\ OneRequestAtWork'
  BY <1>1, <1>2 DEF WaitingOwns, OneRequestAtWork
<1>3. CASE Accept(r)
  BY <1>2, <1>3 DEF Accept, cfgVars, kvVars
<1>4. CASE Unchanged(r)
  BY <1>2, <1>4 DEF Unchanged, MayLock, cfgVars, kvVars
<1>5. CASE Return(r)
  BY <1>2, <1>5 DEF Return, cfgVars, kvVars
<1>6. CASE Expire(r)
  BY <1>6, CalmKeepsLock DEF Expire, Calm, cfgVars, kvVars
<1>7. ASSUME NEW u, NEW p, NEW configures, NEW stores, Begin(r, u, p, configures, stores)
      PROVE  WaitingOwns' /\ OneRequestAtWork'
  <2>1. owner = None /\ owner' = r /\ None \notin Requests
    BY <1>7, TechProfAssumption DEF Begin, MayLock
  <2>2. WaitingOwns'
    BY <1>1, <1>7, <2>1 DEF Begin, WaitingOwns
  <2>3. \A q \in Requests : q # r => cfg'[q] \in Finished /\ kv'[q] \in Finished
    BY <1>7, <2>1 DEF Begin, OneRequestAtWork, CfgType, KvType
  <2> QED
    BY <2>1, <2>2, <2>3 DEF OneRequestAtWork
<1>8. CASE Download(r) \/ DeleteTcont(r) \/ DeleteGem(r) \/ Reconcile(r)
  BY <1>7, <1>8 DEF Download, DeleteTcont, DeleteGem, Reconcile
<1>9. CASE Unlock(r)
  <2>1. owner = r /\ owner' = None /\ None \notin Requests
    BY <1>9, TechProfAssumption DEF Unlock, WaitingOwns
  <2>2. WaitingOwns'
    BY <1>1, <1>9, <2>1 DEF Unlock, WaitingOwns
  <2>3. \A q \in Requests : cfg'[q] \in Finished /\ kv'[q] \in Finished
    BY <1>9, <2>1 DEF Unlock, OneRequestAtWork, cfgVars, kvVars
  <2> QED
    BY <2>2, <2>3 DEF OneRequestAtWork
<1> QED
  BY <1>3, <1>4, <1>5, <1>6, <1>8, <1>9 DEF Handle

\* Everything else lets the goroutines of a request go on, or ends them.
LEMMA WorkIsCalm ==
  ASSUME LockInv, NEW r \in Requests, Configure(r) \/ Read(r) \/ SetAni(r) \/ Store(r)
                                      \/ WriteLands(r)
  PROVE Calm \/ Panic
<1> USE DEF LockInv, TypeOK, Calm, requestVars
<1>1. CASE Configure(r)
  BY <1>1 DEF CfgType, Finished, Configure, ConfigureUnknownUni, StartRead, ReadDone,
     ReadFails, SetDone, SetFails, ResetAni, CfgFails, kvVars
<1>2. CASE Read(r)
  BY <1>2 DEF Read, ReadInvalid, ReadBegin, ReadMissing, ReadGet, ReadRefused, ReadFill,
     kvVars
<1>3. CASE SetAni(r)
  BY <1>3 DEF SetAni, SetChannel, StartAni, kvVars
<1>4. CASE Store(r) \/ WriteLands(r)
  BY <1>4 DEF KvType, Finished, Store, CopyPaths, Put, PutReturns, StoreDone, StoreExpires,
              WriteLands, cfgVars
<1> QED
  BY <1>1, <1>2, <1>3, <1>4

LEMMA MachineIsCalm == AniEvents \/ AniProgress \/ OnuDown => Calm \/ Panic
  BY DEF Calm, AniEvents, PrepareAni, PostedReset, RestartAni, AniProgress, SetMapper,
     CompleteAni, GiveUpAni, OnuDown, DownReset, DownClear, DownStop, requestVars, cfgVars,
     kvVars

LEMMA NextLock == LockInv /\ [Next]_vars => LockInv'
<1> SUFFICES ASSUME LockInv, [Next]_vars PROVE WaitingOwns' /\ OneRequestAtWork'
  BY NextType DEF LockInv
<1>1. CASE Calm \/ Panic
  BY <1>1, CalmKeepsLock, PanicKeepsLock DEF LockInv
<1>2. CASE UNCHANGED vars
  BY <1>1, <1>2 DEF vars, requestVars, cfgVars, kvVars, Calm
<1>3. CASE Next
  BY <1>1, <1>3, HandleKeepsLock, WorkIsCalm, MachineIsCalm DEF Next
<1> QED
  BY <1>2, <1>3

(* tpProcMutex and the wait group of a handler: the goroutines of two      *)
(* requests for one ONU never work at the same time.                       *)
THEOREM OneRequest == Spec => []OneRequestAtWork
<1>1. LockInv => OneRequestAtWork
  BY DEF LockInv
<1> QED
  BY <1>1, InitLock, NextLock, PTL DEF Spec

-----------------------------------------------------------------------------
(* What the KV store holds.                                                *)

\* storePersistentData has work left to do.
Behind(r) == store[r] \in {"copy", "put", "sent"}

\* No deadline has passed and the adapter lives.
NoExpiry == down # "gone" /\ \A r \in Requests : ctx[r] # "expired"

\* Moreover no write has failed.
NoFailure == NoExpiry /\ \A r \in Requests : store[r] # "failed"

\* A request that has not begun has no context, no path and no goroutine;
\* one that is at work has a context.
Contexts ==
    \A r \in Requests :
        /\ pc[r] \in {"idle", "accepted"} =>
              ctx[r] = "none" /\ store[r] = "off" /\ job[r].path = NoPath
        /\ pc[r] = "waiting" => ctx[r] \in {"live", "expired"}

\* Only a goroutine that is waited for and has not reported is behind, and
\* there is one report at most.
StoreOrder ==
    /\ \A r \in Requests : Behind(r) => kv[r] = "wait" /\ kvChan = << >>
    /\ Len(kvChan) \in {0, 1}
    /\ kvChan # << >> => \E r \in Requests : kv[r] = "wait"

\* What was marshalled, or written if nobody is behind, is what is in
\* memory; the KV store applies no write that is not waited for.
StoreFollows ==
    /\ (\E r \in Requests : Behind(r)) \/ kvStore = mapUniTpPath
    /\ \A r \in Requests : store[r] \in {"put", "sent"} => snapshot[r] = mapUniTpPath
    /\ \A r \in Requests : store[r] = "sent" => r \in writes \/ kvStore = mapUniTpPath
    /\ \A r \in writes : store[r] = "sent"

KvInv ==
    LockInv /\ Contexts /\ (NoExpiry => StoreOrder) /\ (NoFailure => StoreFollows)

\* What KvInv adds to LockInv, after a step.
KvKept == Contexts' /\ (NoExpiry => StoreOrder)' /\ (NoFailure => StoreFollows)'

\* What the KV store is about stays as it is.
KvRests ==
    /\ UNCHANGED <<kv, store, snapshot, writes, kvChan, kvStore, mapUniTpPath>>
    /\ NoExpiry' => NoExpiry

LEMMA KvRestsKeeps == KvInv /\ KvRests /\ Contexts' => KvKept
  BY DEF KvInv, KvKept, KvRests, NoFailure, StoreOrder, StoreFollows, Behind

\* The goroutines of different requests do not work together.
LEMMA OneWaits ==
  ASSUME LockInv, NEW r \in Requests, NEW q \in Requests, kv[r] = "wait", kv[q] = "wait"
  PROVE  q = r
  BY DEF LockInv, OneRequestAtWork, Finished

LEMMA NobodyBehind ==
  ASSUME LockInv, StoreOrder, owner = None
  PROVE  kvChan = << >> /\ \A r \in Requests : ~Behind(r)
<1>1. \A r \in Requests : kv[r] # "wait"
  BY TechProfAssumption DEF LockInv, OneRequestAtWork, Finished
<1> QED
  BY <1>1 DEF StoreOrder

LEMMA ContextTypes ==
  ASSUME LockInv
  PROVE  /\ pc \in [Requests -> {"idle", "accepted", "waiting", "unlocked", "done", "gone"}]
         /\ ctx \in [Requests -> {"none", "live", "expired", "cancelled"}]
         /\ job \in [Requests -> [uni : Unis, path : Paths \cup {NoPath}]]
         /\ kv \in [Requests -> {"off", "wait", "done"}]
         /\ store \in [Requests -> {"off", "copy", "put", "sent", "stored", "failed"}]
         /\ snapshot \in [Requests -> PathMap] /\ writes \subseteq Requests
         /\ kvChan \in Seq(Message)
  BY DEF LockInv, TypeOK, RequestType, KvType

LEMMA BeginKeepsKv ==
  ASSUME KvInv, NEW r \in Requests, NEW u, NEW p, NEW configures \in BOOLEAN,
         NEW stores \in BOOLEAN, Begin(r, u, p, configures, stores),
         stores \/ UNCHANGED mapUniTpPath
  PROVE  KvKept
<1> USE ContextTypes DEF KvInv
<1>1. owner = None /\ pc[r] \in {"idle", "accepted"}
  BY DEF Begin, MayLock
<1>2. \A q \in Requests \ {r} :
        pc'[q] = pc[q] /\ ctx'[q] = ctx[q] /\ job'[q] = job[q] /\ store'[q] = store[q]
  BY DEF Begin
<1>3. pc'[r] = "waiting" /\ ctx'[r] = "live"
  BY DEF Begin
<1>4. Contexts'
  BY <1>2, <1>3 DEF Contexts
<1>5. NoExpiry' => NoExpiry
  BY <1>1, <1>2 DEF Begin, Contexts, NoExpiry, envVars
<1>6. NoFailure' => NoFailure
  BY <1>1, <1>2, <1>5 DEF Contexts, NoFailure
<1>7. ASSUME NoExpiry PROVE kvChan = << >> /\ \A q \in Requests : ~Behind(q)
  BY <1>1, <1>7, NobodyBehind
<1>8. ASSUME NoExpiry PROVE StoreOrder'
  <2>1. kvChan' = << >>
    BY <1>7, <1>8 DEF Begin
  <2>2. \A q \in Requests \ {r} : ~Behind(q)'
    BY <1>2, <1>7, <1>8 DEF Behind
  <2>3. Behind(r)' => kv'[r] = "wait"
    BY DEF Begin, Behind
  <2> QED
    BY <2>1, <2>2, <2>3 DEF StoreOrder
<1>9. ASSUME NoFailure PROVE StoreFollows'
  <2>1. kvStore' = mapUniTpPath /\ \A q \in Requests : ~Behind(q)
    BY <1>7, <1>9 DEF Begin, NoFailure, StoreFollows
  <2>2. \A q \in Requests \ {r} : ~Behind(q)'
    BY <1>2, <2>1 DEF Behind
  <2>3. store'[r] = IF stores THEN "copy" ELSE "off"
    BY DEF Begin
  <2>4. \A q \in Requests : store'[q] \notin {"put", "sent"}
    BY <2>2, <2>3 DEF Behind
  <2>5. writes' = {}
    <3>1. writes' = writes /\ writes \subseteq Requests
      BY DEF Begin
    <3>2. \A q \in writes : FALSE
      BY <1>9, <2>1, <3>1 DEF StoreFollows, Behind
    <3> QED
      BY <3>1, <3>2
  <2>6. CASE stores
    <3>1. Behind(r)'
      BY <2>3, <2>6 DEF Behind
    <3> QED
      BY <2>4, <2>5, <3>1 DEF StoreFollows
  <2>7. CASE ~stores
    BY <2>1, <2>4, <2>5, <2>7 DEF StoreFollows
  <2> QED
    BY <2>6, <2>7
<1> QED
  BY <1>4, <1>5, <1>6, <1>8, <1>9 DEF KvKept

\* Accept, Expire and the steps of a handler.
LEMMA HandleKeepsKv ==
  ASSUME KvInv, NEW r \in Requests, Accept(r) \/ Handle(r) \/ Expire(r) PROVE KvKept
<1> USE ContextTypes DEF KvInv
<1>1. CASE Accept(r)
  <2>1. Contexts'
    BY <1>1 DEF Accept, Contexts, kvVars
  <2>2. KvRests
    BY <1>1 DEF Accept, KvRests, NoExpiry, kvVars, dataVars, envVars
  <2> QED
    BY <2>1, <2>2, KvRestsKeeps
<1>2. CASE Unchanged(r) \/ Unlock(r) \/ Return(r)
  <2>1. Contexts'
    BY <1>2 DEF Unchanged, Unlock, Return, Contexts, kvVars
  <2>2. KvRests
    BY <1>2 DEF Unchanged, Unlock, Return, KvRests, NoExpiry, kvVars, dataVars, envVars
  <2> QED
    BY <2>1, <2>2, KvRestsKeeps
<1>3. CASE Expire(r)
  <2>1. Contexts'
    BY <1>3 DEF Expire, Contexts, kvVars
  <2>2. ~NoExpiry'
    BY <1>3 DEF Expire, NoExpiry
  <2> QED
    BY <2>1, <2>2 DEF KvKept, NoFailure
<1>4. CASE Download(r)
  BY <1>4, BeginKeepsKv DEF Download
<1>5. CASE DeleteTcont(r)
  BY <1>5, BeginKeepsKv DEF DeleteTcont
<1>6. CASE DeleteGem(r)
  BY <1>6, BeginKeepsKv DEF DeleteGem
<1>7. CASE Reconcile(r)
  BY <1>7, BeginKeepsKv DEF Reconcile
<1> QED
  BY <1>1, <1>2, <1>3, <1>4, <1>5, <1>6, <1>7 DEF Handle

\* The steps of updateOnuTpPathKvStore and storePersistentData.
LEMMA StoreKeepsKv == ASSUME KvInv, NEW r \in Requests, Store(r) \/ WriteLands(r) PROVE KvKept
<1> USE ContextTypes DEF KvInv
<1>1. UNCHANGED <<pc, ctx, job>>
  BY DEF Store, CopyPaths, Put, PutReturns, StoreDone, StoreExpires, WriteLands, requestVars
<1>2. \A q \in Requests : store'[q] = store[q] \/ store[q] # "off"
  BY DEF Store, CopyPaths, Put, PutReturns, StoreDone, StoreExpires, WriteLands
<1>3. Contexts'
  BY <1>1, <1>2 DEF Contexts
<1>4. NoExpiry' <=> NoExpiry
  BY <1>1 DEF Store, CopyPaths, Put, PutReturns, StoreDone, StoreExpires, WriteLands, NoExpiry,
              envVars
<1> SUFFICES ASSUME NoExpiry PROVE StoreOrder' /\ (NoFailure' => StoreFollows')
  BY <1>3, <1>4 DEF KvKept, NoFailure
<1>5. \A q \in Requests : Behind(q) /\ Behind(r) => q = r
  BY OneWaits DEF StoreOrder
<1>6. CASE CopyPaths(r)
  <2>1. /\ \A q \in Requests : store'[q] = IF q = r THEN "put" ELSE store[q]
        /\ \A q \in Requests : snapshot'[q] = IF q = r THEN mapUniTpPath ELSE snapshot[q]
        /\ UNCHANGED <<kv, writes, kvChan, kvStore, mapUniTpPath>>
    BY <1>6 DEF CopyPaths, dataVars
  <2>2. Behind(r) /\ kv[r] = "wait" /\ kvChan = << >>
    BY <1>6 DEF CopyPaths, Behind, StoreOrder
  <2>3. \A q \in Requests : Behind(q)' => q = r
    BY <1>5, <2>1, <2>2 DEF Behind
  <2>4. Behind(r)' /\ kvChan' = << >> /\ kv'[r] = "wait"
    BY <2>1, <2>2 DEF Behind
  <2>5. StoreOrder'
    BY <2>3, <2>4 DEF StoreOrder
  <2>6. \A q \in Requests : store'[q] \in {"put", "sent"} => q = r
    BY <2>3 DEF Behind
  <2>7. store'[r] = "put"
    BY <2>1
  <2>8. ASSUME NoFailure' PROVE StoreFollows'
    <3>1. NoFailure
      BY <1>4, <2>1, <2>8, <2>2 DEF NoFailure, Behind
    <3>2. \A q \in writes : FALSE
      BY <1>5, <1>6, <2>2, <3>1 DEF StoreFollows, Behind, CopyPaths
    <3> QED
      BY <2>1, <2>4, <2>6, <2>7, <3>2 DEF StoreFollows
  <2> QED
    BY <2>5, <2>8
<1>7. CASE Put(r)
  <2>1. Behind(r) /\ kv[r] = "wait" /\ kvChan = << >> /\ store[r] = "put"
    BY <1>7 DEF Put, Behind, StoreOrder
  <2>2. ctx[r] = "live"
    <3>1. pc[r] = "waiting"
      BY <2>1 DEF LockInv, OneRequestAtWork, WaitingOwns, Finished
    <3> QED
      BY <3>1 DEF Contexts, NoExpiry
  <2>3. /\ \A q \in Requests : store'[q] = IF q = r THEN "sent" ELSE store[q]
        /\ writes' = writes \cup {r}
        /\ UNCHANGED <<kv, kvChan, snapshot, kvStore, mapUniTpPath>>
    BY <1>7, <2>2 DEF Put, dataVars
  <2>4. \A q \in Requests : Behind(q)' => q = r
    BY <1>5, <2>1, <2>3 DEF Behind
  <2>5. Behind(r)' /\ store'[r] = "sent"
    BY <2>3 DEF Behind
  <2>6. StoreOrder'
    BY <2>1, <2>3, <2>4 DEF StoreOrder
  <2>7. ASSUME NoFailure' PROVE StoreFollows'
    <3>1. NoFailure
      BY <1>4, <2>1, <2>3, <2>7 DEF NoFailure
    <3>2. snapshot[r] = mapUniTpPath
      BY <2>1, <3>1 DEF StoreFollows
    <3>3. \A q \in writes' : store'[q] = "sent"
      BY <2>3, <2>5, <3>1 DEF StoreFollows
    <3>4. \A q \in Requests : store'[q] \in {"put", "sent"} => q = r
      BY <2>4 DEF Behind
    <3> QED
      BY <2>3, <2>5, <3>2, <3>3, <3>4 DEF StoreFollows
  <2> QED
    BY <2>6, <2>7
<1>8. CASE PutReturns(r)
  <2>1. Behind(r) /\ kv[r] = "wait" /\ kvChan = << >> /\ store[r] = "sent"
    BY <1>8 DEF PutReturns, Behind, StoreOrder
  <2>2. PICK ok \in BOOLEAN :
           /\ store' = [store EXCEPT ![r] = IF ok THEN "stored" ELSE "failed"]
           /\ kvChan' = Append(kvChan, Sent(r, IF ok THEN 1 ELSE 0))
           /\ ok => r \notin writes
    BY <1>8 DEF PutReturns
  <2>3. UNCHANGED <<kv, snapshot, writes, kvStore, mapUniTpPath>>
    BY <1>8 DEF PutReturns, dataVars
  <2>4. \A q \in Requests \ {r} : store'[q] = store[q]
    BY <2>2
  <2>5. store'[r] = IF ok THEN "stored" ELSE "failed"
    BY <2>2
  <2>6. \A q \in Requests : ~Behind(q)'
    BY <1>5, <2>1, <2>4, <2>5 DEF Behind
  <2>7. kv'[r] = "wait" /\ Len(kvChan') = 1
    BY <2>1, <2>2, <2>3 DEF Sent
  <2>8. StoreOrder'
    BY <2>6, <2>7 DEF StoreOrder
  <2>9. ASSUME NoFailure' PROVE StoreFollows'
    <3>1. ok
      BY <2>5, <2>9 DEF NoFailure
    <3>2. NoFailure
      BY <1>4, <2>1, <2>4, <2>9 DEF NoFailure
    <3>3. kvStore' = mapUniTpPath'
      BY <2>1, <2>2, <2>3, <3>1, <3>2 DEF StoreFollows
    <3>4. \A q \in Requests : store'[q] \notin {"put", "sent"}
      BY <2>6 DEF Behind
    <3>5. \A q \in writes' : FALSE
      <4>1. \A q \in writes : q = r
        BY <1>5, <2>1, <3>2 DEF StoreFollows, Behind
      <4> QED
        BY <2>2, <2>3, <3>1, <4>1
    <3> QED
      BY <3>3, <3>4, <3>5 DEF StoreFollows
  <2> QED
    BY <2>8, <2>9
<1>9. CASE StoreDone(r)
  <2>1. /\ kvChan # << >> /\ kvChan' = Tail(kvChan)
        /\ UNCHANGED <<store, snapshot, writes, kvStore, mapUniTpPath>>
    BY <1>9 DEF StoreDone, dataVars
  <2>2. Len(kvChan) = 1
    BY <2>1 DEF StoreOrder
  <2>3. Len(kvChan') = 0 /\ kvChan' = << >>
    BY <2>1, <2>2
  <2>4. \A q \in Requests : ~Behind(q)'
    BY <2>1 DEF StoreOrder, Behind
  <2>5. StoreOrder'
    BY <2>3, <2>4 DEF StoreOrder
  <2>6. NoFailure' => StoreFollows'
    BY <1>4, <2>1 DEF StoreFollows, NoFailure, Behind
  <2> QED
    BY <2>5, <2>6
<1>10. CASE StoreExpires(r)
  BY <1>10 DEF StoreExpires, NoExpiry
<1>11. CASE WriteLands(r)
  <2>1. /\ r \in writes /\ kvStore' = snapshot[r] /\ writes' = writes \ {r}
        /\ UNCHANGED <<kv, store, snapshot, kvChan, mapUniTpPath>>
    BY <1>11 DEF WriteLands, dataVars
  <2>2. StoreOrder'
    BY <2>1 DEF StoreOrder, Behind
  <2>3. ASSUME NoFailure' PROVE StoreFollows'
    <3>1. NoFailure
      BY <1>4, <2>1, <2>3 DEF NoFailure
    <3>2. kvStore' = mapUniTpPath'
      BY <2>1, <3>1 DEF StoreFollows
    <3> QED
      BY <2>1, <3>1, <3>2 DEF StoreFollows
  <2> QED
    BY <2>2, <2>3
<1> QED
  BY <1>6, <1>7, <1>8, <1>9, <1>10, <1>11 DEF Store

\* The other goroutines have nothing to do with the store.
Elsewhere == UNCHANGED <<pc, ctx, job>> /\ KvRests

LEMMA OthersRest ==
  ASSUME NEW r \in Requests, Configure(r) \/ Read(r) \/ SetAni(r)
  PROVE  Elsewhere \/ Panic
<1> USE DEF requestVars, kvVars, dataVars, envVars, Elsewhere, KvRests, NoExpiry
<1>1. CASE Configure(r)
  BY <1>1 DEF Configure, ConfigureUnknownUni, StartRead, ReadDone, ReadFails, SetDone,
     SetFails, ResetAni
<1>2. CASE Read(r)
  BY <1>2 DEF Read, ReadInvalid, ReadBegin, ReadMissing, ReadGet, ReadRefused, ReadFill
<1>3. CASE SetAni(r)
  BY <1>3 DEF SetAni, SetChannel, StartAni
<1> QED
  BY <1>1, <1>2, <1>3

LEMMA MachineRests == AniEvents \/ AniProgress \/ OnuDown => Elsewhere \/ Panic
  BY DEF AniEvents, PrepareAni, PostedReset, RestartAni, AniProgress, SetMapper,
     CompleteAni, GiveUpAni, OnuDown, DownReset, DownClear, DownStop, requestVars, kvVars,
     dataVars, envVars, Elsewhere, KvRests, NoExpiry

LEMMA NextKv == KvInv /\ [Next]_vars => KvInv'
<1> SUFFICES ASSUME KvInv, [Next]_vars PROVE KvKept
  BY NextLock DEF KvInv, KvKept
<1>1. CASE Elsewhere
  <2>1. Contexts'
    BY <1>1 DEF KvInv, Contexts, Elsewhere, KvRests
  <2> QED
    BY <1>1, <2>1, KvRestsKeeps DEF Elsewhere
<1>2. CASE Panic
  <2>1. ~NoExpiry'
    BY <1>2 DEF Panic, NoExpiry
  <2>2. Contexts'
    BY <1>2 DEF Panic, Contexts
  <2> QED
    BY <2>1, <2>2 DEF KvKept, NoFailure
<1>3. CASE UNCHANGED vars
  BY <1>1, <1>3 DEF vars, requestVars, kvVars, dataVars, envVars, Elsewhere, KvRests, NoExpiry
<1>4. CASE Next
  BY <1>1, <1>2, <1>4, HandleKeepsKv, StoreKeepsKv, OthersRest, MachineRests DEF Next
<1> QED
  BY <1>3, <1>4

LEMMA InitKv == Init => KvInv
<1> SUFFICES ASSUME Init PROVE Contexts /\ StoreOrder /\ StoreFollows
  BY InitLock DEF KvInv
<1>1. Contexts
  BY DEF Init, Contexts
<1>2. StoreOrder /\ StoreFollows
  BY DEF Init, StoreOrder, StoreFollows, Behind
<1> QED
  BY <1>1, <1>2

(* storePersistentData: a free mutex means that the KV store holds the     *)
(* paths in memory, for any number of requests and UNIs, as long as no     *)
(* write fails and no deadline passes.                                     *)
THEOREM StoreKeepsUp == Spec => []KvFollowsPaths
<1>1. KvInv => KvFollowsPaths
  <2> SUFFICES ASSUME KvInv, owner = None, NoFailure PROVE kvStore = mapUniTpPath
    BY DEF KvFollowsPaths, NoFailure, NoExpiry
  <2> QED
    BY NobodyBehind DEF KvInv, NoFailure, StoreFollows
<1> QED
  BY <1>1, InitKv, NextKv, PTL DEF Spec

-----------------------------------------------------------------------------
(* What an undisturbed request leaves behind.                              *)

Away(r) == reader[r] \in {"off", "gone"} /\ setter[r] \in {"off", "gone"}

NoEvents == ani.preps = 0 /\ ani.resets = 0 /\ ani.restarts = 0

AniRests ==
    ani.state \in {"none", "disabled"} /\ ~ani.busy /\ ~ani.chanSet /\ NoEvents

AtRest == AniRests /\ cfgChan = << >>

\* configureUniTp waits for step 1: the reader runs, or has reported.
Reads(r) ==
    /\ setter[r] \in {"off", "gone"} /\ AniRests
    /\ \/ reader[r] \in {"start", "get", "fill"} /\ cfgChan = << >>
       \/ reader[r] = "gone" /\ Len(cfgChan) = 1

\* The machine runs for r, and one event or one message is under way.
Runs(r) ==
    /\ ani.run = r /\ ~ani.busy
    /\ \/ ani.state = "starting" /\ ani.preps = 1 /\ ani.resets = 0 /\ ani.restarts = 0
       \/ ani.state \in {"creating", "mapper"} /\ NoEvents /\ ani.path \notin Unusable
       \/ ani.state = "configDone" /\ ani.preps = 0 /\ ani.resets = 1 /\ ani.restarts = 0
       \/ ani.state = "resetting" /\ ani.preps = 0 /\ ani.resets = 0 /\ ani.restarts = 1

\* It has been told where to report, and is not started yet.
Told == ani.state = "disabled" /\ ~ani.busy /\ ani.chanSet /\ NoEvents

\* It waits until its report is taken.
Reports ==
    ani.state = "disabled" /\ ani.busy /\ NoEvents /\ cfgChan = <<Sent(Ani, 2)>>

\* configureUniTp waits for step 2: the setter runs, or the machine.
Sets(r) ==
    /\ reader[r] \in {"off", "gone"}
    /\ \/ setter[r] = "start" /\ AtRest
       \/ setter[r] = "event" /\ Told /\ cfgChan = << >>
       \/ setter[r] = "gone" /\ Runs(r) /\ ani.chanSet /\ cfgChan = << >>
       \/ setter[r] = "gone" /\ Reports

Works(r) == cfg[r] \in {"read", "set"}

\* Only what configureUniTp waits for runs.
Chain ==
    /\ \A r \in Requests : cfg[r] # "reset" /\ (Works(r) \/ Away(r))
    /\ (\E r \in Requests : Works(r)) \/ AtRest
    /\ \A r \in Requests : cfg[r] = "read" => Reads(r)
    /\ \A r \in Requests : cfg[r] = "set" => Sets(r)
    /\ \A u \in Unis : mapPonAniConfig[u] \notin Unusable

\* Where r and the machine are if nobody else is at work.
Place(r) ==
    \/ cfg[r] \in {"off", "start", "done"} /\ Away(r) /\ AtRest
    \/ cfg[r] = "read" /\ Reads(r)
    \/ cfg[r] = "set" /\ Sets(r)

ChainInv == KvInv /\ (Undisturbed => Chain)

chainVars == <<cfg, reader, setter, cfgChan, mapPonAniConfig, ani>>

LEMMA SameChain == Chain /\ UNCHANGED chainVars => Chain'
<1> SUFFICES ASSUME Chain, UNCHANGED chainVars PROVE Chain'
  OBVIOUS
<1>1. \A r \in Requests :
        /\ Away(r) => Away(r)'
        /\ Works(r) => Works(r)'
        /\ Reads(r) => Reads(r)'
        /\ Sets(r) => Sets(r)'
  BY DEF chainVars, Away, Works, Reads, Sets, AtRest, AniRests, NoEvents, Runs, Told, Reports
<1>2. AtRest => AtRest'
  BY DEF chainVars, AtRest, AniRests, NoEvents
<1> QED
  BY <1>1, <1>2 DEF Chain, chainVars

\* The step of one request, or of the machine that runs for it.
LEMMA PlaceKeeps ==
  ASSUME Chain, NEW r \in Requests,
         \A q \in Requests \ {r} :
            /\ ~Works(q) /\ cfg'[q] = cfg[q]
            /\ reader'[q] = reader[q] /\ setter'[q] = setter[q],
         Place(r)',
         \A u \in Unis : mapPonAniConfig'[u] \notin Unusable
  PROVE  Chain'
<1>1. \A q \in Requests \ {r} : Away(q)' /\ ~Works(q)' /\ cfg'[q] # "reset"
  BY DEF Chain, Away, Works
<1>2. cfg'[r] # "reset" /\ (Works(r)' \/ (Away(r)' /\ AtRest'))
  BY DEF Place, Works
<1>3. cfg'[r] = "read" => Reads(r)'
  BY DEF Place
<1>4. cfg'[r] = "set" => Sets(r)'
  BY DEF Place
<1>5. \A q \in Requests \ {r} : cfg'[q] # "read" /\ cfg'[q] # "set"
  BY <1>1 DEF Works
<1> QED
  BY <1>1, <1>2, <1>3, <1>4, <1>5 DEF Chain

\* The request whose configureUniTp runs has the machine for itself.
LEMMA AlonePlace ==
  ASSUME LockInv, Chain, NEW r \in Requests, cfg[r] \notin Finished
  PROVE  Place(r) /\ \A q \in Requests \ {r} : ~Works(q)
<1>1. \A q \in Requests \ {r} : ~Works(q)
  BY DEF LockInv, OneRequestAtWork, Finished, Works
<1>2. CASE Works(r)
  BY <1>1, <1>2 DEF Works, Chain, Place
<1>3. CASE ~Works(r)
  <2>1. cfg[r] = "start" /\ Away(r)
    BY <1>3 DEF LockInv, TypeOK, CfgType, Chain, Works, Finished
  <2>2. AtRest
    BY <1>1, <1>3 DEF Chain
  <2> QED
    BY <1>1, <2>1, <2>2 DEF Place
<1> QED
  BY <1>2, <1>3

LEMMA FreeRests ==
  ASSUME LockInv, Chain, owner = None
  PROVE  AtRest /\ \A q \in Requests : ~Works(q) /\ Away(q)
<1>1. \A q \in Requests : ~Works(q)
  BY TechProfAssumption DEF LockInv, OneRequestAtWork, Finished, Works
<1> QED
  BY <1>1 DEF Chain

\* A machine that moves runs for the request that waits for it.
LEMMA MachineAtWork ==
  ASSUME LockInv, Chain, ~AniRests
  PROVE  \E r \in Requests : /\ cfg[r] = "set" /\ Sets(r)
                             /\ \A q \in Requests \ {r} : ~Works(q)
<1>1. PICK r \in Requests : Works(r)
  BY DEF Chain, AtRest
<1>2. Place(r) /\ \A q \in Requests \ {r} : ~Works(q)
  BY <1>1, AlonePlace DEF Works, Finished
<1>3. cfg[r] # "read"
  BY <1>2 DEF Place, Reads
<1> QED
  BY <1>1, <1>2, <1>3 DEF Works, Place

LEMMA ReceiveRests == AniType /\ AniRests /\ ReceiveStep => AniRests'
<1> SUFFICES ASSUME AniType, AniRests, ReceiveStep PROVE AniRests'
  OBVIOUS
<1>1. CASE ani' = ani
  BY <1>1 DEF AniRests, NoEvents
<1>2. CASE ani' = AniReleased
  <2>1. /\ ani'.state = ani.state /\ ani'.busy = FALSE /\ ani'.chanSet = FALSE
        /\ ani'.preps = ani.preps /\ ani'.resets = ani.resets
        /\ ani'.restarts = ani.restarts
    BY <1>2 DEF AniReleased, AniType, Machines
  <2> QED
    BY <2>1 DEF AniRests, NoEvents
<1> QED
  BY <1>1, <1>2 DEF ReceiveStep

\* A disturbance lasts.
LEMMA Disturbed == ASSUME KvInv, [Next]_vars, Undisturbed' PROVE Undisturbed
<1> USE ContextTypes DEF KvInv
<1>1. down = "up"
  <2>1. down' = "up"
    BY DEF Undisturbed
  <2>2. ~Panic
    BY <2>1 DEF Panic
  <2>3. ASSUME NEW r \in Requests, Accept(r) \/ Handle(r) \/ Expire(r) \/ Store(r)
             \/ WriteLands(r)
        PROVE  down' = down
    BY <2>3 DEF Accept, Handle, Unchanged, Download, DeleteTcont, DeleteGem, Reconcile,
       Begin, Unlock, Return, Expire, Store, CopyPaths, Put, PutReturns, StoreDone, StoreExpires,
       WriteLands, envVars
  <2>4. ASSUME NEW r \in Requests, Configure(r) \/ Read(r) \/ SetAni(r)
        PROVE  down' = down
    BY <2>2, <2>4 DEF Configure, ConfigureUnknownUni, StartRead, ReadDone, ReadFails,
       SetDone, SetFails, ResetAni, Read, ReadInvalid, ReadBegin, ReadMissing, ReadGet,
       ReadRefused, ReadFill, SetAni, SetChannel, StartAni, envVars
  <2>5. ASSUME AniEvents \/ AniProgress PROVE down = "up"
    BY <2>1, <2>2, <2>5 DEF AniEvents, PrepareAni, PostedReset, RestartAni, AniProgress,
       SetMapper, CompleteAni, GiveUpAni, envVars
  <2>6. ~OnuDown
    BY <2>1 DEF OnuDown, DownReset, DownClear, DownStop
  <2>7. CASE Next
    BY <2>1, <2>3, <2>4, <2>5, <2>6, <2>7 DEF Next
  <2>8. CASE UNCHANGED vars
    BY <2>1, <2>8 DEF vars, envVars
  <2> QED
    BY <2>7, <2>8
<1>2. ASSUME UNCHANGED <<ctx, job>> PROVE Undisturbed
  BY <1>1, <1>2 DEF Undisturbed
<1>3. ~Panic
  BY DEF Panic, Undisturbed
<1>4. ASSUME NEW r \in Requests, NEW u, NEW p, NEW configures, NEW stores,
             Begin(r, u, p, configures, stores)
      PROVE  Undisturbed
  <2>1. pc[r] \in {"idle", "accepted"}
    BY <1>4 DEF Begin, MayLock
  <2>2. ctx[r] = "none" /\ job[r].path = NoPath
    BY <2>1 DEF Contexts
  <2>3. \A q \in Requests \ {r} : ctx'[q] = ctx[q] /\ job'[q] = job[q]
    BY <1>4 DEF Begin
  <2> QED
    BY <1>1, <2>2, <2>3, TechProfAssumption DEF Undisturbed
<1>5. ASSUME NEW r \in Requests, Accept(r) \/ Handle(r) \/ Expire(r) PROVE Undisturbed
  <2>1. CASE Download(r) \/ DeleteTcont(r) \/ DeleteGem(r) \/ Reconcile(r)
    BY <1>4, <2>1 DEF Download, DeleteTcont, DeleteGem, Reconcile
  <2>2. CASE Accept(r) \/ Unchanged(r) \/ Unlock(r)
    BY <1>2, <2>2 DEF Accept, Unchanged, Unlock
  <2>3. CASE Return(r) \/ Expire(r)
    <3>1. job' = job /\ \A q \in Requests : ctx[q] = "expired" => ctx'[q] = "expired"
      BY <2>3 DEF Return, Expire
    <3> QED
      BY <1>1, <3>1 DEF Undisturbed
  <2> QED
    BY <1>5, <2>1, <2>2, <2>3 DEF Handle
<1>6. ASSUME NEW r \in Requests, Store(r) \/ WriteLands(r) PROVE Undisturbed
  BY <1>2, <1>6 DEF Store, CopyPaths, Put, PutReturns, StoreDone, StoreExpires, WriteLands,
                    requestVars
<1>7. CASE UNCHANGED vars
  BY <1>2, <1>7 DEF vars, requestVars
<1>8. CASE Next
  BY <1>2, <1>3, <1>5, <1>6, <1>8, OthersRest, MachineRests DEF Next, Elsewhere
<1> QED
  BY <1>7, <1>8

LEMMA HandleKeepsChain ==
  ASSUME LockInv, Chain, NEW r \in Requests, Accept(r) \/ Handle(r) \/ Expire(r)
  PROVE  Chain'
<1>1. CASE Accept(r) \/ Unchanged(r) \/ Unlock(r) \/ Return(r) \/ Expire(r)
  BY <1>1, SameChain
     DEF Accept, Unchanged, Unlock, Return, Expire, chainVars, cfgVars, dataVars, aniVars
<1>2. ASSUME NEW u, NEW p, NEW configures \in BOOLEAN, NEW stores \in BOOLEAN,
             Begin(r, u, p, configures, stores)
      PROVE  Chain'
  <2>1. AtRest /\ \A q \in Requests : ~Works(q) /\ Away(q)
    BY <1>2, FreeRests DEF Begin, MayLock
  <2>2. UNCHANGED <<reader, setter, cfgChan, mapPonAniConfig, ani>>
    BY <1>2 DEF Begin, aniVars
  <2>3. /\ \A q \in Requests \ {r} : cfg'[q] = cfg[q]
        /\ cfg'[r] \in {"off", "start"}
    BY <1>2 DEF Begin, LockInv, TypeOK, CfgType
  <2>4. Place(r)'
    BY <2>1, <2>2, <2>3 DEF Place, Away, AtRest, AniRests, NoEvents
  <2> QED
    BY <2>1, <2>2, <2>3, <2>4, PlaceKeeps DEF Chain
<1>3. CASE Download(r) \/ DeleteTcont(r) \/ DeleteGem(r) \/ Reconcile(r)
  BY <1>2, <1>3 DEF Download, DeleteTcont, DeleteGem, Reconcile
<1> QED
  BY <1>1, <1>3 DEF Handle

\* The steps of configureUniTp.
LEMMA ConfigureKeepsChain ==
  ASSUME KvInv, Undisturbed, Chain, NEW r \in Requests, Configure(r), ~Panic
  PROVE  Chain'
<1>1. LockInv /\ CfgType /\ AniType
  BY DEF KvInv, LockInv, TypeOK
<1>2. cfg[r] # "reset" /\ ctx[r] # "expired"
  BY DEF Chain, Undisturbed
<1>3. cfg[r] \notin Finished
  BY DEF Finished, Configure, ConfigureUnknownUni, StartRead, ReadDone, ReadFails, SetDone,
     SetFails, ResetAni
<1>4. Place(r) /\ \A q \in Requests \ {r} : ~Works(q)
  BY <1>1, <1>3, AlonePlace
<1>5. UNCHANGED <<reader, mapPonAniConfig>> \/ StartRead(r)
  BY <1>2 DEF Configure, ConfigureUnknownUni, ReadDone, ReadFails, SetDone,
     SetFails, ResetAni, dataVars
<1>6. /\ \A q \in Requests \ {r} :
           /\ cfg'[q] = cfg[q] /\ reader'[q] = reader[q] /\ setter'[q] = setter[q]
      /\ mapPonAniConfig' = mapPonAniConfig
  BY <1>1, <1>2 DEF CfgType, CfgFails, Configure, ConfigureUnknownUni, StartRead, ReadDone,
     ReadFails, SetDone, SetFails, ResetAni, dataVars
<1> SUFFICES Place(r)'
  BY <1>4, <1>6, PlaceKeeps DEF Chain
<1>7. CASE ConfigureUnknownUni(r)
  <2>1. Away(r) /\ AtRest
    BY <1>4, <1>7 DEF Place, ConfigureUnknownUni
  <2>2. cfg'[r] = "done" /\ UNCHANGED <<reader, setter, cfgChan, ani>>
    BY <1>1, <1>7 DEF ConfigureUnknownUni, CfgFails, CfgType, aniVars
  <2> QED
    BY <2>1, <2>2 DEF Place, Away, AtRest, AniRests, NoEvents
<1>8. CASE StartRead(r)
  <2>1. Away(r) /\ AtRest
    BY <1>4, <1>8 DEF Place, StartRead
  <2>2. /\ cfg'[r] = "read" /\ reader'[r] = "start"
        /\ UNCHANGED <<setter, cfgChan, ani>>
    BY <1>1, <1>8 DEF StartRead, CfgType, aniVars
  <2> QED
    BY <2>1, <2>2 DEF Place, Reads, Away, AtRest, AniRests, NoEvents
<1>9. ASSUME cfg[r] = "read", ReceiveStep
      PROVE  /\ reader[r] = "gone" /\ setter[r] \in {"off", "gone"}
             /\ cfgChan' = << >> /\ AniRests'
  <2>1. Reads(r) /\ cfgChan # << >>
    BY <1>4, <1>9 DEF Place, ReceiveStep
  <2>2. reader[r] = "gone" /\ Len(cfgChan) = 1 /\ setter[r] \in {"off", "gone"} /\ AniRests
    BY <2>1 DEF Reads
  <2>3. Len(cfgChan') = 0 /\ cfgChan' = << >>
    BY <1>1, <1>9, <2>2 DEF ReceiveStep, CfgType
  <2> QED
    BY <1>1, <1>9, <2>2, <2>3, ReceiveRests
<1>10. CASE ReadDone(r)
  <2>1. /\ reader'[r] = "gone" /\ setter[r] \in {"off", "gone"} /\ AtRest'
    BY <1>9, <1>10 DEF ReadDone, AtRest
  <2>2. \/ cfg'[r] = "set" /\ setter'[r] = "start"
        \/ cfg'[r] = "done" /\ setter' = setter
    BY <1>1, <1>10 DEF ReadDone, CfgFails, CfgType
  <2> QED
    BY <2>1, <2>2 DEF Place, Sets, Away
<1>11. CASE ReadFails(r)
  <2>1. ReceiveStep
    BY <1>2, <1>11 DEF ReadFails
  <2>2. /\ reader'[r] = "gone" /\ setter'[r] \in {"off", "gone"} /\ AtRest'
    BY <1>9, <1>11, <2>1 DEF ReadFails, AtRest
  <2>3. cfg'[r] = "done"
    BY <1>1, <1>11 DEF ReadFails, CfgFails, CfgType
  <2> QED
    BY <2>2, <2>3 DEF Place, Away
<1>12. ASSUME cfg[r] = "set", ReceiveStep
       PROVE  /\ reader[r] \in {"off", "gone"} /\ setter[r] = "gone" /\ Reports
              /\ Head(cfgChan).step = 2
  <2>1. Sets(r) /\ cfgChan # << >>
    BY <1>4, <1>12 DEF Place, ReceiveStep
  <2>2. reader[r] \in {"off", "gone"} /\ setter[r] = "gone" /\ Reports
    BY <2>1 DEF Sets, AtRest
  <2>3. Head(cfgChan) = Sent(Ani, 2)
    BY <2>2 DEF Reports
  <2> QED
    BY <2>2, <2>3 DEF Sent
<1>13. CASE SetDone(r)
  <2>1. /\ reader[r] \in {"off", "gone"} /\ setter[r] = "gone" /\ Reports
    BY <1>12, <1>13 DEF SetDone
  <2>2. Head(cfgChan) = Sent(Ani, 2) /\ Tail(cfgChan) = << >>
    BY <2>1 DEF Reports
  <2>3. cfgChan' = << >> /\ ani' = AniReleased
    BY <1>13, <2>2 DEF SetDone, ReceiveStep, Sent
  <2>4. /\ ani'.state = ani.state /\ ani'.busy = FALSE /\ ani'.chanSet = FALSE
        /\ ani'.preps = ani.preps /\ ani'.resets = ani.resets
        /\ ani'.restarts = ani.restarts
    BY <1>1, <2>3 DEF AniReleased, AniType, Machines
  <2>5. AtRest'
    BY <2>1, <2>3, <2>4 DEF AtRest, AniRests, NoEvents, Reports
  <2>6. cfg'[r] = "done" /\ UNCHANGED <<reader, setter>>
    BY <1>1, <1>13 DEF SetDone, CfgType
  <2> QED
    BY <2>1, <2>5, <2>6 DEF Place, Away
<1>14. CASE SetFails(r)
  BY <1>2, <1>12, <1>14 DEF SetFails
<1>15. CASE ResetAni(r)
  BY <1>2, <1>15 DEF ResetAni
<1> QED
  BY <1>7, <1>8, <1>10, <1>11, <1>13, <1>14, <1>15 DEF Configure

\* The steps of readAniSideConfigFromTechProfile.
LEMMA ReadKeepsChain ==
  ASSUME LockInv, Undisturbed, Chain, NEW r \in Requests, Read(r), ~Panic
  PROVE  Chain'
<1>1. CfgType /\ DataType /\ job[r].uni \in Unis
  BY DEF LockInv, TypeOK, RequestType
<1>2. reader[r] \in {"start", "get", "fill"}
  BY DEF Read, ReadInvalid, ReadBegin, ReadMissing, ReadGet, ReadRefused, ReadFill
<1>3. Works(r)
  BY <1>2 DEF Chain, Away
<1>4. Place(r) /\ \A q \in Requests \ {r} : ~Works(q)
  BY <1>3, AlonePlace DEF Works, Finished
<1>5. /\ cfg[r] = "read" /\ setter[r] \in {"off", "gone"} /\ AniRests /\ cfgChan = << >>
  BY <1>2, <1>3, <1>4 DEF Place, Works, Reads, Sets
<1>6. UNCHANGED <<cfg, setter, ani>>
  BY DEF Read, ReadInvalid, ReadBegin, ReadMissing, ReadGet, ReadRefused, ReadFill, aniVars
<1>7. AniRests'
  BY <1>5, <1>6 DEF AniRests, NoEvents
<1>8. \A q \in Requests \ {r} : reader'[q] = reader[q]
  BY <1>1 DEF CfgType, Read, ReadInvalid, ReadBegin, ReadMissing, ReadGet, ReadRefused,
     ReadFill
<1>9. \A u \in Unis : mapPonAniConfig'[u] \notin Unusable
  <2>1. \A u \in Unis : mapPonAniConfig'[u] \in {mapPonAniConfig[u], NoPath, job[r].path}
    BY <1>1 DEF DataType, PathMap, dataVars, Read, ReadInvalid, ReadBegin, ReadMissing,
       ReadGet, ReadRefused, ReadFill
  <2>2. NoPath \notin Unusable /\ job[r].path \notin Unusable
    BY TechProfAssumption DEF Undisturbed
  <2> QED
    BY <2>1, <2>2 DEF Chain
<1>10. \/ reader'[r] \in {"get", "fill"} /\ cfgChan' = << >>
       \/ reader'[r] = "gone" /\ \E step \in {0, 1} : cfgChan' = Append(<< >>, Sent(r, step))
  <2>1. CASE ReadInvalid(r) \/ ReadMissing(r) \/ ReadRefused(r)
    BY <1>1, <1>5, <2>1 DEF CfgType, ReadInvalid, ReadMissing, ReadRefused, Report
  <2>2. CASE ReadBegin(r) \/ ReadGet(r)
    BY <1>1, <1>5, <2>2 DEF CfgType, ReadBegin, ReadGet
  <2>3. CASE ReadFill(r)
    BY <1>1, <1>5, <2>3 DEF CfgType, ReadFill, Report
  <2> QED
    BY <2>1, <2>2, <2>3 DEF Read
<1>11. \A m : Len(Append(<< >>, m)) = 1
  OBVIOUS
<1>12. Reads(r)'
  BY <1>5, <1>6, <1>7, <1>10, <1>11 DEF Reads
<1> QED
  BY <1>4, <1>5, <1>6, <1>8, <1>9, <1>12, PlaceKeeps DEF Place

\* The steps of setAniSideConfigFromTechProfile.
LEMMA SetAniKeepsChain ==
  ASSUME LockInv, Chain, NEW r \in Requests, SetAni(r) PROVE Chain'
<1>1. CfgType /\ AniType
  BY DEF LockInv, TypeOK
<1>2. setter[r] \in {"start", "event"}
  BY DEF SetAni, SetChannel, StartAni
<1>3. Works(r)
  BY <1>2 DEF Chain, Away
<1>4. Place(r) /\ \A q \in Requests \ {r} : ~Works(q)
  BY <1>3, AlonePlace DEF Works, Finished
<1>5. cfg[r] = "set" /\ Sets(r)
  BY <1>2, <1>3, <1>4 DEF Place, Works, Reads
<1>6. UNCHANGED <<cfg, reader, cfgChan, mapPonAniConfig>>
  BY DEF SetAni, SetChannel, StartAni, dataVars
<1>7. \A q \in Requests \ {r} : setter'[q] = setter[q]
  BY <1>1 DEF CfgType, SetAni, SetChannel, StartAni
<1> SUFFICES Sets(r)'
  BY <1>4, <1>5, <1>6, <1>7, PlaceKeeps DEF Place, Chain
<1>8. CASE SetChannel(r)
  <2>1. AtRest
    BY <1>5, <1>8 DEF SetChannel, Sets
  <2>2. CASE ani.state = "none"
    <3>1. setter'[r] = "event"
      BY <1>1, <1>8, <2>2 DEF SetChannel, CfgType, NoAni
    <3>2. /\ ani'.state = "disabled" /\ ani'.chanSet /\ ~ani'.busy
          /\ ani'.preps = 0 /\ ani'.resets = 0 /\ ani'.restarts = 0
      BY <1>8, <2>2 DEF SetChannel, NoAni
    <3> QED
      BY <1>5, <1>6, <2>1, <3>1, <3>2 DEF Sets, Told, NoEvents, AtRest
  <2>3. CASE ani.state = "disabled"
    <3>1. setter'[r] = "event"
      BY <1>1, <1>8, <2>3 DEF SetChannel, CfgType
    <3>2. ani' = [ani EXCEPT !.chanSet = ani.chanSet \/ TRUE]
      BY <1>8, <2>3 DEF SetChannel
    <3>3. /\ ani'.state = "disabled" /\ ani'.chanSet /\ ani'.busy = ani.busy
          /\ ani'.preps = ani.preps /\ ani'.resets = ani.resets
          /\ ani'.restarts = ani.restarts
      BY <1>1, <2>3, <3>2 DEF AniType, Machines
    <3> QED
      BY <1>5, <1>6, <2>1, <3>1, <3>3 DEF Sets, Told, NoEvents, AtRest, AniRests
  <2> QED
    BY <2>1, <2>2, <2>3 DEF AtRest, AniRests
<1>9. CASE StartAni(r)
  <2>1. Told /\ cfgChan = << >>
    BY <1>5, <1>9 DEF StartAni, Sets
  <2>2. ani' = [ani EXCEPT !.state = "starting", !.run = r, !.preps = @ + 1]
    BY <1>9, <2>1 DEF StartAni, Told
  <2>3. /\ ani'.state = "starting" /\ ani'.run = r /\ ani'.busy = ani.busy
        /\ ani'.chanSet = ani.chanSet /\ ani'.preps = ani.preps + 1
        /\ ani'.resets = ani.resets /\ ani'.restarts = ani.restarts
    BY <1>1, <2>2 DEF AniType, Machines
  <2>4. setter'[r] = "gone"
    BY <1>1, <1>9 DEF StartAni, CfgType
  <2> QED
    BY <1>5, <1>6, <2>1, <2>3, <2>4 DEF Sets, Told, NoEvents, Runs
<1> QED
  BY <1>8, <1>9 DEF SetAni

\* An undisturbed machine moves for the request that waits for it only.
LEMMA MachineRunsFor ==
  ASSUME KvInv, Undisturbed, Chain, AniEvents \/ AniProgress, ~Panic
  PROVE  /\ UNCHANGED <<cfg, reader, setter, mapPonAniConfig>>
         /\ \E r \in Requests :
               /\ cfg[r] = "set" /\ \A q \in Requests \ {r} : ~Works(q)
               /\ reader[r] \in {"off", "gone"} /\ setter[r] = "gone"
               /\ Runs(r) /\ ani.chanSet /\ cfgChan = << >>
               /\ ctx[r] = "live" /\ owner = r
<1>1. LockInv /\ AniType
  BY DEF KvInv, LockInv, TypeOK
<1>2. ~AniRests
  BY DEF AniEvents, PrepareAni, PostedReset, RestartAni, AniProgress, SetMapper,
     CompleteAni, GiveUpAni, AniRests, NoEvents
<1>3. PICK r \in Requests :
         cfg[r] = "set" /\ Sets(r) /\ \A q \in Requests \ {r} : ~Works(q)
  BY <1>1, <1>2, MachineAtWork
<1>4. UNCHANGED <<cfg, reader, setter, mapPonAniConfig>>
  BY DEF AniEvents, PrepareAni, PostedReset, RestartAni, AniProgress, SetMapper,
     CompleteAni, GiveUpAni, cfgVars, dataVars
<1>5. ctx[r] = "live" /\ owner = r
  BY <1>1, <1>3 DEF KvInv, Contexts, Undisturbed, LockInv, OneRequestAtWork, WaitingOwns,
     Finished
<1>6. ~Told
  BY DEF Told, NoEvents, AniEvents, PrepareAni, PostedReset, RestartAni, AniProgress,
     SetMapper, CompleteAni, GiveUpAni
<1>7. ~Reports
  BY DEF Reports, NoEvents, AniEvents, PrepareAni, PostedReset, RestartAni, AniProgress,
     SetMapper, CompleteAni, GiveUpAni
<1>8. /\ reader[r] \in {"off", "gone"} /\ setter[r] = "gone"
      /\ Runs(r) /\ ani.chanSet /\ cfgChan = << >>
  BY <1>2, <1>3, <1>6, <1>7 DEF Sets, AtRest
<1> QED
  BY <1>3, <1>4, <1>5, <1>8

\* The steps of the machine.
LEMMA MachineKeepsChain ==
  ASSUME KvInv, Undisturbed, Undisturbed', Chain, AniEvents \/ AniProgress \/ OnuDown
  PROVE  Chain'
<1>1. LockInv /\ AniType
  BY DEF KvInv, LockInv, TypeOK
<1>2. ~Panic /\ ~OnuDown
  BY DEF Undisturbed, Panic, OnuDown, DownReset, DownClear, DownStop
<1>3. UNCHANGED <<cfg, reader, setter, mapPonAniConfig>>
  BY <1>2, MachineRunsFor
<1>4. PICK r \in Requests :
         /\ cfg[r] = "set" /\ \A q \in Requests \ {r} : ~Works(q)
         /\ reader[r] \in {"off", "gone"} /\ setter[r] = "gone"
         /\ Runs(r) /\ ani.chanSet /\ cfgChan = << >>
         /\ ctx[r] = "live" /\ owner = r
  BY <1>2, MachineRunsFor
<1> SUFFICES \/ Runs(r)' /\ ani'.chanSet /\ cfgChan' = << >>
             \/ Reports'
  BY <1>3, <1>4, PlaceKeeps DEF Sets, Place, Chain
<1>5. CASE PrepareAni
  <2>1. ani.state = "starting" /\ ani.preps = 1 /\ ani.resets = 0 /\ ani.restarts = 0
    BY <1>4, <1>5 DEF PrepareAni, Runs, NoEvents
  <2>2. ani' = [ani EXCEPT !.preps = @ - 1, !.state = "creating",
                           !.path = mapPonAniConfig[ani.uni]]
    BY <1>2, <1>5, <2>1 DEF PrepareAni
  <2>3. /\ ani'.state = "creating" /\ ani'.path = mapPonAniConfig[ani.uni]
        /\ ani'.preps = ani.preps - 1 /\ ani'.resets = ani.resets
        /\ ani'.restarts = ani.restarts /\ ani'.run = ani.run
        /\ ani'.busy = ani.busy /\ ani'.chanSet = ani.chanSet
    BY <1>1, <2>2 DEF AniType, Machines
  <2>4. ani'.path \notin Unusable
    BY <1>1, <2>3 DEF Chain, AniType, Machines
  <2>5. cfgChan' = cfgChan
    BY <1>2, <1>5 DEF PrepareAni, cfgVars
  <2> QED
    BY <1>4, <2>1, <2>3, <2>4, <2>5 DEF Runs, NoEvents
<1>6. CASE PostedReset
  <2>1. /\ ani.state = "configDone"
        /\ ani.preps = 0 /\ ani.resets = 1 /\ ani.restarts = 0
    BY <1>4, <1>6 DEF PostedReset, Runs, NoEvents
  <2> DEFINE a == [ani EXCEPT !.resets = @ - 1]
  <2>2. /\ a.state = ani.state /\ a.resets = 0 /\ a.restarts = 0 /\ a.preps = 0
        /\ a.run = ani.run /\ a.busy = ani.busy /\ a.chanSet = ani.chanSet
        /\ a \in Machines
    BY <1>1, <2>1 DEF AniType, Machines
  <2>3. ani' \in AfterReset(a)
    BY <1>6 DEF PostedReset
  <2> HIDE DEF a
  <2>4. ani' = [a EXCEPT !.state = "resetting", !.restarts = @ + 1, !.resets = @ + 0]
    BY <2>1, <2>2, <2>3 DEF AfterReset
  <2>5. /\ ani'.state = "resetting" /\ ani'.resets = 0 /\ ani'.restarts = 1
        /\ ani'.preps = 0 /\ ani'.run = ani.run /\ ani'.busy = ani.busy
        /\ ani'.chanSet = ani.chanSet
    BY <2>2, <2>4 DEF Machines
  <2>6. cfgChan' = cfgChan
    BY <1>6 DEF PostedReset, cfgVars
  <2> QED
    BY <1>4, <2>5, <2>6 DEF Runs
<1>7. CASE RestartAni
  <2>1. /\ ani.state = "resetting"
        /\ ani.preps = 0 /\ ani.resets = 0 /\ ani.restarts = 1
    BY <1>4, <1>7 DEF RestartAni, Runs, NoEvents
  <2>2. /\ ani' = [ani EXCEPT !.restarts = @ - 1, !.state = "disabled",
                              !.completed = FALSE, !.busy = ani.chanSet]
        /\ cfgChan' = Append(cfgChan, Sent(Ani, 2))
    BY <1>4, <1>7, <2>1 DEF RestartAni
  <2>3. /\ ani'.state = "disabled" /\ ani'.restarts = 0 /\ ani'.resets = 0
        /\ ani'.preps = 0 /\ ani'.busy = ani.chanSet
    BY <1>1, <2>1, <2>2 DEF AniType, Machines
  <2>4. cfgChan' = <<Sent(Ani, 2)>>
    BY <1>4, <2>2
  <2> QED
    BY <1>4, <2>3, <2>4 DEF Reports, NoEvents
<1>8. CASE SetMapper
  <2>1. ani.state = "creating" /\ NoEvents /\ ani.path \notin Unusable
    BY <1>4, <1>8 DEF SetMapper, Runs
  <2>2. ani' = [ani EXCEPT !.state = "mapper", !.resets = ani.resets]
    BY <1>8, <2>1 DEF SetMapper
  <2>3. /\ ani'.state = "mapper" /\ ani'.path = ani.path
        /\ ani'.preps = ani.preps /\ ani'.resets = ani.resets
        /\ ani'.restarts = ani.restarts /\ ani'.run = ani.run
        /\ ani'.busy = ani.busy /\ ani'.chanSet = ani.chanSet
    BY <1>1, <2>2 DEF AniType, Machines
  <2>4. cfgChan' = cfgChan
    BY <1>8 DEF SetMapper, cfgVars
  <2> QED
    BY <1>4, <2>1, <2>3, <2>4 DEF Runs, NoEvents
<1>9. CASE CompleteAni
  <2>1. ani.state = "mapper" /\ NoEvents
    BY <1>4, <1>9 DEF CompleteAni, Runs
  <2>2. /\ ani'.state = "configDone"
        /\ ani'.preps = ani.preps /\ ani'.resets = ani.resets + 1
        /\ ani'.restarts = ani.restarts /\ ani'.run = ani.run
        /\ ani'.busy = ani.busy /\ ani'.chanSet = ani.chanSet
    BY <1>1, <1>9 DEF CompleteAni, AniType, Machines
  <2>3. cfgChan' = cfgChan
    BY <1>9 DEF CompleteAni, cfgVars
  <2> QED
    BY <1>4, <2>1, <2>2, <2>3 DEF Runs, NoEvents
<1>10. CASE GiveUpAni
  BY <1>4, <1>10 DEF GiveUpAni, Runs
<1> QED
  BY <1>2, <1>5, <1>6, <1>7, <1>8, <1>9, <1>10 DEF AniEvents, AniProgress

LEMMA InitChain == Init => ChainInv
<1> SUFFICES ASSUME Init PROVE Chain
  BY InitKv DEF ChainInv
<1>1. AtRest
  BY DEF Init, NoAni, AtRest, AniRests, NoEvents
<1>2. \A u \in Unis : mapPonAniConfig[u] \notin Unusable
  BY TechProfAssumption DEF Init, NoPaths
<1> QED
  BY <1>1, <1>2 DEF Init, Chain, Works, Away

LEMMA NextChain == ChainInv /\ [Next]_vars => ChainInv'
<1> SUFFICES ASSUME ChainInv, [Next]_vars, Undisturbed' PROVE Chain'
  BY NextKv DEF ChainInv
<1>1. KvInv /\ LockInv /\ Undisturbed /\ Chain
  BY Disturbed DEF ChainInv, KvInv
<1>2. ~Panic
  BY DEF Panic, Undisturbed
<1>3. ASSUME NEW r \in Requests, Store(r) \/ WriteLands(r) PROVE Chain'
  BY <1>1, <1>3, SameChain
     DEF Store, CopyPaths, Put, PutReturns, StoreDone, StoreExpires, WriteLands, chainVars,
         cfgVars, dataVars, aniVars
<1>4. CASE UNCHANGED vars
  BY <1>1, <1>4, SameChain DEF vars, chainVars, cfgVars, dataVars, aniVars
<1>5. CASE Next
  BY <1>1, <1>2, <1>3, <1>5, HandleKeepsChain, ConfigureKeepsChain, ReadKeepsChain,
     SetAniKeepsChain, MachineKeepsChain DEF Next
<1> QED
  BY <1>4, <1>5

(* "The complete sequence is ensured to run to completion before some new  *)
(* request is accepted": without a passed deadline, an ONU down indication *)
(* or an unusable profile, a free mutex means that no goroutine of an      *)
(* earlier request and no event of the machine is left, for any number of  *)
(* requests, UNIs and faults.                                              *)
THEOREM RunsToCompletion == Spec => []LeftoversNeedADisturbance
<1>1. ChainInv => LeftoversNeedADisturbance
  <2> SUFFICES ASSUME ChainInv, owner = None, Undisturbed PROVE NothingRuns
    BY DEF LeftoversNeedADisturbance
  <2>1. KvInv /\ LockInv /\ Chain
    BY DEF ChainInv, KvInv
  <2>2. AtRest /\ \A r \in Requests : Away(r)
    BY <2>1, FreeRests
  <2>3. kvChan = << >> /\ \A r \in Requests : ~Behind(r)
    BY <2>1, NobodyBehind DEF KvInv, NoExpiry, Undisturbed
  <2>4. \A r \in Requests : store[r] \in {"off", "stored", "failed"}
    BY <2>1, <2>3, ContextTypes DEF Behind
  <2> QED
    BY <2>2, <2>3, <2>4 DEF NothingRuns, AtRest, AniRests, NoEvents, Away
<1> QED
  BY <1>1, InitChain, NextChain, PTL DEF Spec

-----------------------------------------------------------------------------
(* What a successful request has configured.                               *)

\* The path of the request goes from the reader to the machine to the ONU.
Applies(r) ==
    /\ cfg[r] = "read" /\ cfgChan # << >> /\ Head(cfgChan).step = 1 =>
          mapPonAniConfig[Uni0] = job[r].path
    /\ cfg[r] = "set" => mapPonAniConfig[Uni0] = job[r].path
    /\ cfg[r] = "set" /\ ani.state \in {"creating", "mapper"} => ani.path = job[r].path
    /\ cfg[r] = "set" /\ (ani.state \in {"configDone", "resetting"} \/ ani.busy) =>
          applied[Uni0] = job[r].path
    /\ cfg[r] = "done" /\ owner = r /\ procResult = "ok" => applied[Uni0] = job[r].path

Applied == \A r \in Requests : Applies(r)

AppliedInv == ChainInv /\ (Undisturbed => Applied)

\* Only the holder of the mutex can fail to apply.
LEMMA OnlyOwner ==
  ASSUME LockInv, NEW r \in Requests, owner # r PROVE Applies(r)
  BY DEF LockInv, OneRequestAtWork, Finished, Applies

LEMMA OwnerApplies ==
  ASSUME LockInv', NEW r \in Requests, owner' = r, Applies(r)' PROVE Applied'
<1>1. ASSUME NEW q \in Requests, q # r PROVE Applies(q)'
  BY <1>1 DEF LockInv, OneRequestAtWork, Finished, Applies
<1> QED
  BY <1>1 DEF Applied

\* What does not touch the configuration.
LEMMA SameApplied ==
  ASSUME Applied,
         UNCHANGED <<cfg, cfgChan, mapPonAniConfig, job, ani, applied, owner>>,
         procResult' \in {procResult, "error"}
  PROVE  Applied'
  BY DEF Applied, Applies

LEMMA HandleApplies ==
  ASSUME LockInv, LockInv', Applied, NEW r \in Requests,
         Accept(r) \/ Handle(r) \/ Expire(r)
  PROVE  Applied'
<1>1. CASE Accept(r) \/ Unchanged(r) \/ Return(r) \/ Expire(r)
  BY <1>1, SameApplied
     DEF Accept, Unchanged, Return, Expire, cfgVars, dataVars, aniVars
<1>2. CASE Unlock(r)
  BY <1>2, TechProfAssumption
     DEF Unlock, LockInv, OneRequestAtWork, Finished, Applied, Applies
<1>3. ASSUME NEW u, NEW p, NEW configures \in BOOLEAN, NEW stores \in BOOLEAN,
             Begin(r, u, p, configures, stores)
      PROVE  Applied'
  <2>1. owner' = r /\ cfg'[r] \in {"start", "off"}
    BY <1>3 DEF Begin, LockInv, TypeOK, CfgType
  <2>2. Applies(r)'
    BY <2>1 DEF Applies
  <2> QED
    BY <2>1, <2>2, OwnerApplies
<1>4. CASE Download(r) \/ DeleteTcont(r) \/ DeleteGem(r) \/ Reconcile(r)
  BY <1>3, <1>4 DEF Download, DeleteTcont, DeleteGem, Reconcile
<1> QED
  BY <1>1, <1>2, <1>4 DEF Handle

LEMMA ConfigureApplies ==
  ASSUME Unis = {Uni0}, KvInv, LockInv', Undisturbed, Chain, Chain', Applied,
         NEW r \in Requests, Configure(r), ~Panic
  PROVE  Applied'
<1>1. LockInv /\ CfgType /\ job[r].uni = Uni0
  BY DEF KvInv, LockInv, TypeOK, RequestType
<1>2. cfg[r] # "reset" /\ ctx[r] # "expired"
  BY DEF Chain, Undisturbed
<1>3. cfg[r] \notin Finished
  BY DEF Finished, Configure, ConfigureUnknownUni, StartRead, ReadDone, ReadFails, SetDone,
     SetFails, ResetAni
<1>4. UNCHANGED <<owner, job, mapPonAniConfig, applied>> /\ owner = r
  BY <1>1, <1>2, <1>3 DEF LockInv, OneRequestAtWork, Configure, ConfigureUnknownUni,
     StartRead, ReadDone, ReadFails, SetDone, SetFails, ResetAni, requestVars, dataVars,
     aniVars
<1> SUFFICES Applies(r)'
  BY <1>4, OwnerApplies
<1>5. CASE ConfigureUnknownUni(r) \/ ReadFails(r)
  BY <1>1, <1>5 DEF ConfigureUnknownUni, ReadFails, CfgFails, CfgType, Applies
<1>6. CASE StartRead(r)
  <2>1. cfg'[r] = "read" /\ reader'[r] = "start"
    BY <1>1, <1>6 DEF StartRead, CfgType
  <2>2. cfgChan' = << >>
    BY <2>1 DEF Chain, Reads
  <2> QED
    BY <2>1, <2>2 DEF Applies
<1>7. CASE ReadDone(r)
  <2>1. mapPonAniConfig[Uni0] = job[r].path
    BY <1>7 DEF ReadDone, ReceiveStep, Applied, Applies
  <2>2. CASE mapPonAniConfig[job[r].uni] # NoPath
    <3>1. cfg'[r] = "set" /\ setter'[r] = "start"
      BY <1>1, <1>7, <2>2 DEF ReadDone, CfgType
    <3>2. ani'.state \in {"none", "disabled"} /\ ~ani'.busy
      BY <3>1 DEF Chain, Sets, AtRest, AniRests
    <3> QED
      BY <1>4, <2>1, <3>1, <3>2 DEF Applies
  <2>3. CASE mapPonAniConfig[job[r].uni] = NoPath
    BY <1>1, <1>7, <2>3 DEF ReadDone, CfgFails, CfgType, Applies
  <2> QED
    BY <2>2, <2>3
<1>8. CASE SetDone(r)
  <2>1. Reports
    BY <1>8 DEF SetDone, ReceiveStep, Chain, Sets, AtRest
  <2>2. applied[Uni0] = job[r].path
    BY <1>8, <2>1 DEF SetDone, Reports, Applied, Applies
  <2>3. cfg'[r] = "done"
    BY <1>1, <1>8 DEF SetDone, CfgType
  <2> QED
    BY <1>4, <2>2, <2>3 DEF Applies
<1>9. CASE SetFails(r)
  <2>1. Reports /\ Head(cfgChan).step # 2
    BY <1>2, <1>9 DEF SetFails, ReceiveStep, Chain, Sets, AtRest
  <2>2. Head(cfgChan) = Sent(Ani, 2)
    BY <2>1 DEF Reports
  <2> QED
    BY <2>1, <2>2 DEF Sent
<1>10. CASE ResetAni(r)
  BY <1>2, <1>10 DEF ResetAni
<1> QED
  BY <1>5, <1>6, <1>7, <1>8, <1>9, <1>10 DEF Configure

LEMMA ReadApplies ==
  ASSUME Unis = {Uni0}, LockInv, LockInv', Chain, Applied, NEW r \in Requests, Read(r),
         ~Panic
  PROVE  Applied'
<1>1. CfgType /\ DataType /\ job[r].uni = Uni0
  BY DEF LockInv, TypeOK, RequestType
<1>2. Works(r) /\ reader[r] \in {"start", "get", "fill"}
  BY DEF Chain, Away, Read, ReadInvalid, ReadBegin, ReadMissing, ReadGet, ReadRefused,
     ReadFill
<1>3. cfg[r] = "read" /\ cfgChan = << >>
  BY <1>2 DEF Works, Chain, Reads, Sets
<1>4. owner = r
  BY <1>3 DEF LockInv, OneRequestAtWork, Finished
<1>5. UNCHANGED <<owner, cfg, job>>
  BY DEF Read, ReadInvalid, ReadBegin, ReadMissing, ReadGet, ReadRefused, ReadFill,
     requestVars
<1> SUFFICES ASSUME cfgChan' # << >>, Head(cfgChan').step = 1
             PROVE  mapPonAniConfig'[Uni0] = job'[r].path
  BY <1>3, <1>4, <1>5, OwnerApplies DEF Applies
<1>6. \A step \in {0, 1} : Head(Append(<< >>, Sent(r, step))).step = step
  BY DEF Sent
<1>7. CASE ReadInvalid(r) \/ ReadMissing(r) \/ ReadRefused(r)
  BY <1>3, <1>6, <1>7 DEF ReadInvalid, ReadMissing, ReadRefused, Report
<1>8. CASE ReadBegin(r) \/ ReadGet(r)
  BY <1>3, <1>8 DEF ReadBegin, ReadGet
<1>9. CASE ReadFill(r)
  BY <1>1, <1>5, <1>9 DEF ReadFill, DataType, PathMap
<1> QED
  BY <1>7, <1>8, <1>9 DEF Read

LEMMA SetAniApplies ==
  ASSUME LockInv, LockInv', Chain, Applied, NEW r \in Requests, SetAni(r)
  PROVE  Applied'
<1>1. AniType /\ CfgType
  BY DEF LockInv, TypeOK
<1>2. Works(r) /\ setter[r] \in {"start", "event"}
  BY DEF Chain, Away, SetAni, SetChannel, StartAni
<1>3. cfg[r] = "set" /\ Sets(r)
  BY <1>2 DEF Works, Chain, Reads
<1>4. owner = r
  BY <1>3 DEF LockInv, OneRequestAtWork, Finished
<1>5. UNCHANGED <<owner, cfg, job, mapPonAniConfig>>
  BY DEF SetAni, SetChannel, StartAni, requestVars, dataVars
<1>6. mapPonAniConfig[Uni0] = job[r].path
  BY <1>3 DEF Applied, Applies
<1> SUFFICES ani'.state \in {"disabled", "starting"} /\ ~ani'.busy
  BY <1>3, <1>4, <1>5, <1>6, OwnerApplies DEF Applies
<1>7. CASE SetChannel(r)
  <2>1. AtRest
    BY <1>3, <1>7 DEF SetChannel, Sets
  <2>2. CASE ani.state = "none"
    BY <1>7, <2>2 DEF SetChannel, NoAni
  <2>3. CASE ani.state = "disabled"
    BY <1>1, <1>7, <2>1, <2>3 DEF SetChannel, AtRest, AniRests, AniType, Machines
  <2> QED
    BY <2>1, <2>2, <2>3 DEF AtRest, AniRests
<1>8. CASE StartAni(r)
  <2>1. Told
    BY <1>3, <1>8 DEF StartAni, Sets
  <2> QED
    BY <1>1, <1>8, <2>1 DEF StartAni, Told, AniType, Machines
<1> QED
  BY <1>7, <1>8 DEF SetAni

LEMMA MachineApplies ==
  ASSUME Unis = {Uni0}, KvInv, LockInv', Undisturbed, Undisturbed', Chain, Applied,
         AniEvents \/ AniProgress \/ OnuDown
  PROVE  Applied'
<1>1. AniType /\ ani.uni = Uni0
  BY DEF KvInv, LockInv, TypeOK, AniType, Machines
<1>2. ~Panic /\ ~OnuDown
  BY DEF Undisturbed, Panic, OnuDown, DownReset, DownClear, DownStop
<1>3. UNCHANGED <<cfg, mapPonAniConfig>>
  BY <1>2, MachineRunsFor
<1>4. PICK r \in Requests :
         /\ cfg[r] = "set" /\ Runs(r) /\ ani.chanSet /\ ctx[r] = "live" /\ owner = r
  BY <1>2, MachineRunsFor
<1>5. UNCHANGED <<owner, job>>
  BY <1>2 DEF AniEvents, PrepareAni, PostedReset, RestartAni, AniProgress, SetMapper,
     CompleteAni, GiveUpAni, requestVars
<1>6. mapPonAniConfig[Uni0] = job[r].path
  BY <1>4 DEF Applied, Applies
<1> SUFFICES /\ ani'.state \in {"creating", "mapper"} => ani'.path = job[r].path
             /\ ani'.state \in {"configDone", "resetting"} \/ ani'.busy =>
                   applied'[Uni0] = job[r].path
  BY <1>3, <1>4, <1>5, <1>6, OwnerApplies DEF Applies
<1>7. CASE PrepareAni
  <2>1. ani.state = "starting" /\ ~ani.busy
    BY <1>4, <1>7 DEF PrepareAni, Runs, NoEvents
  <2>2. ani' = [ani EXCEPT !.preps = @ - 1, !.state = "creating",
                           !.path = mapPonAniConfig[ani.uni]]
    BY <1>2, <1>7, <2>1 DEF PrepareAni
  <2>3. /\ ani'.state = "creating" /\ ani'.path = mapPonAniConfig[ani.uni]
        /\ ani'.busy = ani.busy
    BY <1>1, <2>2 DEF AniType, Machines
  <2> QED
    BY <1>1, <1>6, <2>1, <2>3
<1>8. CASE PostedReset
  <2>1. ani.state = "configDone" /\ ani.resets = 1
    BY <1>4, <1>8 DEF PostedReset, Runs, NoEvents
  <2>2. applied'[Uni0] = job[r].path
    BY <1>4, <1>8, <2>1 DEF PostedReset, Applied, Applies
  <2> DEFINE a == [ani EXCEPT !.resets = @ - 1]
  <2>3. a \in Machines /\ a.state = "configDone"
    BY <1>1, <2>1 DEF AniType, Machines
  <2>4. ani' \in AfterReset(a)
    BY <1>8 DEF PostedReset
  <2> HIDE DEF a
  <2>5. ani'.state = "resetting"
    BY <2>3, <2>4 DEF AfterReset, Machines
  <2> QED
    BY <2>2, <2>5
<1>9. CASE RestartAni
  <2>1. ani.state = "resetting"
    BY <1>4, <1>9 DEF RestartAni, Runs, NoEvents
  <2>2. applied'[Uni0] = job[r].path
    BY <1>4, <1>9, <2>1 DEF RestartAni, Applied, Applies
  <2>3. ani'.state = "disabled"
    BY <1>1, <1>9, <2>1 DEF RestartAni, AniType, Machines
  <2> QED
    BY <2>2, <2>3
<1>10. CASE SetMapper
  <2>1. ani.state = "creating" /\ ~ani.busy /\ ani.path = job[r].path
    BY <1>4, <1>10 DEF SetMapper, Runs, Applied, Applies
  <2>2. ani'.state = "mapper" /\ ani'.path = ani.path /\ ani'.busy = ani.busy
    BY <1>1, <1>10 DEF SetMapper, AniType, Machines
  <2> QED
    BY <2>1, <2>2
<1>11. CASE CompleteAni
  <2>1. ani.path \notin Unusable /\ ani.path = job[r].path
    BY <1>4, <1>11 DEF CompleteAni, Runs, Applied, Applies
  <2>2. applied'[Uni0] = job[r].path
    BY <1>1, <1>11, <2>1, TechProfAssumption DEF CompleteAni, AniType, PathMap
  <2>3. ani'.state = "configDone"
    BY <1>1, <1>11 DEF CompleteAni, AniType, Machines
  <2> QED
    BY <2>2, <2>3
<1>12. CASE GiveUpAni
  BY <1>4, <1>12 DEF GiveUpAni, Runs
<1> QED
  BY <1>2, <1>7, <1>8, <1>9, <1>10, <1>11, <1>12 DEF AniEvents, AniProgress

LEMMA NextApplies == Unis = {Uni0} /\ AppliedInv /\ [Next]_vars => AppliedInv'
<1> SUFFICES ASSUME Unis = {Uni0}, AppliedInv, [Next]_vars, Undisturbed' PROVE Applied'
  BY NextChain DEF AppliedInv
<1>1. KvInv /\ LockInv /\ Undisturbed /\ Chain /\ Applied
  BY Disturbed DEF AppliedInv, ChainInv, KvInv
<1>2. LockInv' /\ Chain'
  BY NextChain DEF AppliedInv, ChainInv, KvInv
<1>3. ~Panic
  BY DEF Panic, Undisturbed
<1>4. ASSUME NEW r \in Requests, Store(r) \/ WriteLands(r) PROVE Applied'
  <2>1. UNCHANGED <<cfg, cfgChan, mapPonAniConfig, job, ani, applied, owner>>
    BY <1>4 DEF Store, CopyPaths, Put, PutReturns, StoreDone, StoreExpires, WriteLands,
                requestVars, cfgVars,
       dataVars, aniVars
  <2>2. procResult' \in {procResult, "error"}
    BY <1>4 DEF Store, CopyPaths, Put, PutReturns, StoreDone, StoreExpires, WriteLands
  <2> QED
    BY <1>1, <2>1, <2>2, SameApplied
<1>5. CASE UNCHANGED vars
  BY <1>1, <1>5, SameApplied DEF vars, requestVars, cfgVars, dataVars, aniVars
<1>6. CASE Next
  BY <1>1, <1>2, <1>3, <1>4, <1>6, HandleApplies, ConfigureApplies, ReadApplies,
     SetAniApplies, MachineApplies DEF Next
<1> QED
  BY <1>5, <1>6

-----------------------------------------------------------------------------
(* What the answer of a download means.                                    *)

\* The path in the map is in persistent data as well, or about to be.
PersFollows == (\E r \in Requests : store[r] = "copy") \/ pers = mapUniTpPath

\* How far a request has come; overtaken has everybody who was not answered
\* when the holder of the mutex began.
Begun ==
    /\ \A r \in Requests :
         pc[r] \in {"idle", "accepted"} => r \notin cfgFailed /\ kv[r] = "off"
    /\ \A r \in Downloads :
         /\ pc[r] = "waiting" => cfg[r] # "off"
         /\ pc[r] \in {"waiting", "unlocked"} => job[r].path = PathOf[r]
    /\ owner # None => \A r \in Requests : pc[r] = "unlocked" => r \in overtaken
    /\ down # "gone" => PersFollows

\* configureUniTp runs and has not failed.
Configuring(r) == cfg[r] \in {"start", "read", "set"}

\* It works on the path in the map.
JobFollows == \A r \in Requests : Configuring(r) => job[r].path = mapUniTpPath[Uni0]

\* Where the path in the map comes from.
InPlace ==
    \/ mapUniTpPath[Uni0] = NoPath
    \/ mapUniTpPath = Stored /\ \A q \in Requests : kv[q] = "off"
    \/ \E q \in cfgFailed : job[q].path = mapUniTpPath[Uni0]
    \/ applied[Uni0] = mapUniTpPath[Uni0]
    \/ \E q \in Requests : Configuring(q)

\* The answer a download is about to return.
Answers ==
    \A r \in Downloads :
        pc[r] = "unlocked" /\ r \notin overtaken /\ procResult = "ok"
            => applied[Uni0] = PathOf[r]

Traced == JobFollows /\ InPlace /\ Answers

AnswerInv == AppliedInv /\ Begun /\ (Undisturbed => Traced)

\* The parts of Begun that the goroutines of the requests leave alone.
BegunRests ==
    /\ UNCHANGED <<pc, owner, job, overtaken>>
    /\ cfgFailed' \subseteq cfgFailed \cup {r \in Requests : owner = r}
    /\ \A r \in Requests : /\ kv[r] = "off" => kv'[r] = "off"
                           /\ cfg[r] # "off" => cfg'[r] # "off"
    /\ down' # "gone" => down # "gone" /\ (PersFollows => PersFollows')

LEMMA BegunRestsKeeps == LockInv /\ Begun /\ BegunRests => Begun'
<1> SUFFICES ASSUME LockInv, Begun, BegunRests PROVE Begun'
  OBVIOUS
<1>1. \A r \in Requests : owner = r => pc[r] = "waiting"
  BY DEF LockInv, WaitingOwns
<1>2. \A r \in Requests :
         pc'[r] \in {"idle", "accepted"} => r \notin cfgFailed' /\ kv'[r] = "off"
  <2> SUFFICES ASSUME NEW r \in Requests, pc'[r] \in {"idle", "accepted"}
               PROVE  r \notin cfgFailed' /\ kv'[r] = "off"
    OBVIOUS
  <2>1. pc[r] \in {"idle", "accepted"}
    BY DEF BegunRests
  <2>2. r \notin cfgFailed /\ kv[r] = "off" /\ owner # r
    BY <1>1, <2>1 DEF Begun
  <2> QED
    BY <2>2 DEF BegunRests
<1>3. \A r \in Downloads : r \in Requests
  BY DEF Requests
<1>4. \A r \in Downloads :
         /\ pc'[r] = "waiting" => cfg'[r] # "off"
         /\ pc'[r] \in {"waiting", "unlocked"} => job'[r].path = PathOf[r]
  BY <1>3 DEF Begun, BegunRests
<1>5. owner' # None => \A r \in Requests : pc'[r] = "unlocked" => r \in overtaken'
  BY DEF Begun, BegunRests
<1>6. down' # "gone" => PersFollows'
  BY DEF Begun, BegunRests
<1> QED
  BY <1>2, <1>4, <1>5, <1>6 DEF Begun

LEMMA BeginKeepsBegun ==
  ASSUME KvInv, Begun, NEW r \in Requests, NEW u, NEW p, NEW configures \in BOOLEAN,
         NEW stores \in BOOLEAN, Begin(r, u, p, configures, stores),
         stores \/ UNCHANGED mapUniTpPath,
         r \in Downloads => configures /\ p = PathOf[r]
  PROVE  Begun'
<1> USE DEF KvInv
<1>1. pc[r] \in {"idle", "accepted"} /\ store[r] = "off"
  BY DEF Begin, MayLock, Contexts
<1>2. pc \in [Requests -> {"idle", "accepted", "waiting", "unlocked", "done", "gone"}]
      /\ job \in [Requests -> [uni : Unis, path : Paths \cup {NoPath}]]
      /\ cfg \in [Requests -> {"off", "start", "read", "set", "reset", "done"}]
      /\ kv \in [Requests -> {"off", "wait", "done"}]
      /\ store \in [Requests -> {"off", "copy", "put", "sent", "stored", "failed"}]
  BY DEF LockInv, TypeOK, RequestType, CfgType, KvType
<1>3. /\ \A q \in Requests \ {r} :
            pc'[q] = pc[q] /\ job'[q] = job[q] /\ cfg'[q] = cfg[q] /\ kv'[q] = kv[q]
            /\ store'[q] = store[q]
      /\ pc'[r] = "waiting" /\ job'[r] = [uni |-> u, path |-> p]
      /\ cfg'[r] = (IF configures THEN "start" ELSE "off")
      /\ store'[r] = (IF stores THEN "copy" ELSE "off")
  BY <1>2 DEF Begin
<1>4. UNCHANGED <<cfgFailed, pers>> /\ down' = down
  BY DEF Begin, envVars
<1>5. overtaken' = overtaken \cup {q \in Requests : pc[q] = "unlocked"}
  BY DEF Begin
<1>6. \A q \in Requests :
        pc'[q] \in {"idle", "accepted"} => q \notin cfgFailed' /\ kv'[q] = "off"
  BY <1>3, <1>4 DEF Begun
<1>7. \A q \in Downloads :
        /\ pc'[q] = "waiting" => cfg'[q] # "off"
        /\ pc'[q] \in {"waiting", "unlocked"} => job'[q].path = PathOf[q]
  <2> TAKE q \in Downloads
  <2>1. CASE q = r
    BY <1>3, <2>1
  <2>2. CASE q # r
    BY <1>3, <2>2 DEF Begun, Requests
  <2> QED
    BY <2>1, <2>2
<1>8. \A q \in Requests : pc'[q] = "unlocked" => q \in overtaken'
  BY <1>3, <1>5
<1>9. down' # "gone" => PersFollows'
  <2>1. CASE stores
    BY <1>3, <2>1 DEF PersFollows
  <2>2. CASE ~stores
    BY <1>1, <1>3, <1>4, <2>2 DEF PersFollows, Begun
  <2> QED
    BY <2>1, <2>2
<1> QED
  BY <1>6, <1>7, <1>8, <1>9 DEF Begun

LEMMA HandleKeepsBegun ==
  ASSUME KvInv, Begun, NEW r \in Requests, Accept(r) \/ Handle(r) \/ Expire(r)
  PROVE  Begun'
<1> USE DEF KvInv
<1>1. pc \in [Requests -> {"idle", "accepted", "waiting", "unlocked", "done", "gone"}]
  BY DEF LockInv, TypeOK, RequestType
<1>2. ASSUME UNCHANGED <<job, cfgFailed, overtaken, cfg, kv, store, pers, mapUniTpPath>>,
             down' = down, owner' \in {owner, None},
             \A q \in Requests :
                /\ pc'[q] \in {"idle", "accepted"} => pc[q] \in {"idle", "accepted"}
                /\ pc'[q] = "waiting" => pc[q] = "waiting"
                /\ pc'[q] = "unlocked" =>
                      pc[q] = "unlocked" \/ (pc[q] = "waiting" /\ owner' = None)
      PROVE  Begun'
  BY <1>2 DEF Begun, PersFollows, Requests
<1>3. CASE Accept(r)
  <2>1. UNCHANGED <<owner, job, cfgFailed, overtaken, cfg, kv, store, pers, mapUniTpPath, down>>
    BY <1>3 DEF Accept, cfgVars, kvVars, dataVars, envVars
  <2>2. pc' = [pc EXCEPT ![r] = "accepted"] /\ pc[r] = "idle"
    BY <1>3 DEF Accept
  <2> QED
    BY <1>1, <1>2, <2>1, <2>2
<1>4. CASE Unchanged(r) \/ Return(r)
  <2>1. UNCHANGED <<owner, job, cfgFailed, overtaken, cfg, kv, store, pers, mapUniTpPath, down>>
    BY <1>4 DEF Unchanged, Return, cfgVars, kvVars, dataVars, envVars
  <2>2. pc' = [pc EXCEPT ![r] = "done"]
    BY <1>4 DEF Unchanged, Return
  <2> QED
    BY <1>1, <1>2, <2>1, <2>2
<1>5. CASE Unlock(r)
  <2>1. UNCHANGED <<job, cfgFailed, overtaken, cfg, kv, store, pers, mapUniTpPath, down>>
    BY <1>5 DEF Unlock, cfgVars, kvVars, dataVars, envVars
  <2>2. pc' = [pc EXCEPT ![r] = "unlocked"] /\ pc[r] = "waiting" /\ owner' = None
    BY <1>5 DEF Unlock
  <2> QED
    BY <1>1, <1>2, <2>1, <2>2
<1>6. CASE Expire(r)
  <2>1. UNCHANGED <<pc, owner, job, cfgFailed, overtaken, cfg, kv, store, pers,
                    mapUniTpPath, down>>
    BY <1>6 DEF Expire, cfgVars, kvVars, dataVars, envVars
  <2> QED
    BY <1>2, <2>1
<1>7. CASE Download(r)
  BY <1>7, BeginKeepsBegun DEF Download, WantedPath
<1>8. CASE DeleteTcont(r)
  BY <1>8, BeginKeepsBegun, TechProfAssumption DEF DeleteTcont
<1>9. CASE DeleteGem(r)
  BY <1>9, BeginKeepsBegun, TechProfAssumption DEF DeleteGem
<1>10. CASE Reconcile(r)
  BY <1>10, BeginKeepsBegun, TechProfAssumption DEF Reconcile
<1> QED
  BY <1>3, <1>4, <1>5, <1>6, <1>7, <1>8, <1>9, <1>10 DEF Handle

LEMMA WorkKeepsBegun ==
  ASSUME LockInv, NEW r \in Requests,
         Configure(r) \/ Read(r) \/ SetAni(r) \/ Store(r) \/ WriteLands(r), ~Panic
  PROVE  BegunRests
<1> USE DEF requestVars, kvVars, dataVars, envVars, BegunRests, PersFollows
<1>1. cfg \in [Requests -> {"off", "start", "read", "set", "reset", "done"}]
      /\ kv \in [Requests -> {"off", "wait", "done"}]
      /\ store \in [Requests -> {"off", "copy", "put", "sent", "stored", "failed"}]
  BY DEF LockInv, TypeOK, CfgType, KvType
<1>2. CASE Configure(r)
  <2>1. UNCHANGED <<pc, owner, job, overtaken, kv, store, pers, mapUniTpPath, down>>
    BY <1>2 DEF Configure, ConfigureUnknownUni, StartRead, ReadDone, ReadFails, SetDone,
       SetFails, ResetAni, CfgFails
  <2>2. cfg[r] \notin Finished
    BY <1>2 DEF Finished, Configure, ConfigureUnknownUni, StartRead, ReadDone, ReadFails,
       SetDone, SetFails, ResetAni
  <2>3. owner = r
    BY <2>2 DEF LockInv, OneRequestAtWork
  <2>4. cfgFailed' \subseteq cfgFailed \cup {r}
    BY <1>2 DEF Configure, ConfigureUnknownUni, StartRead, ReadDone, ReadFails, SetDone,
       SetFails, ResetAni, CfgFails
  <2>5. \A q \in Requests : cfg[q] # "off" => cfg'[q] # "off"
    BY <1>1, <1>2 DEF Configure, ConfigureUnknownUni, StartRead, ReadDone, ReadFails,
       SetDone, SetFails, ResetAni, CfgFails
  <2> QED
    BY <2>1, <2>3, <2>4, <2>5
<1>3. CASE Read(r)
  BY <1>3 DEF Read, ReadInvalid, ReadBegin, ReadMissing, ReadGet, ReadRefused, ReadFill
<1>4. CASE SetAni(r)
  BY <1>4 DEF SetAni, SetChannel, StartAni
<1>5. CASE Store(r) \/ WriteLands(r)
  <2>1. UNCHANGED <<pc, owner, job, cfgFailed, overtaken, cfg, mapUniTpPath, down>>
    BY <1>5 DEF Store, CopyPaths, Put, PutReturns, StoreDone, StoreExpires, WriteLands, cfgVars
  <2>2. \A q \in Requests : kv[q] = "off" => kv'[q] = "off"
    BY <1>1, <1>5 DEF Store, CopyPaths, Put, PutReturns, StoreDone, StoreExpires, WriteLands
  <2>3. PersFollows => PersFollows'
    <3>1. CASE CopyPaths(r)
      BY <3>1 DEF CopyPaths
    <3>2. CASE Put(r) \/ PutReturns(r) \/ StoreDone(r) \/ StoreExpires(r) \/ WriteLands(r)
      <4>1. UNCHANGED <<pers, mapUniTpPath>>
        BY <3>2 DEF Put, PutReturns, StoreDone, StoreExpires, WriteLands
      <4>2. \A q \in Requests : store[q] = "copy" => store'[q] = "copy"
        BY <1>1, <3>2 DEF Put, PutReturns, StoreDone, StoreExpires, WriteLands
      <4> QED
        BY <4>1, <4>2
    <3> QED
      BY <1>5, <3>1, <3>2 DEF Store
  <2> QED
    BY <2>1, <2>2, <2>3
<1> QED
  BY <1>2, <1>3, <1>4, <1>5

LEMMA MachineKeepsBegun ==
  ASSUME AniEvents \/ AniProgress \/ OnuDown, ~Panic PROVE BegunRests
  BY DEF AniEvents, PrepareAni, PostedReset, RestartAni, AniProgress, SetMapper,
     CompleteAni, GiveUpAni, OnuDown, DownReset, DownClear, DownStop, requestVars, cfgVars,
     kvVars, dataVars, envVars, BegunRests, PersFollows

LEMMA NextBegun == KvInv /\ Begun /\ [Next]_vars => Begun'
<1> SUFFICES ASSUME KvInv, Begun, [Next]_vars PROVE Begun'
  OBVIOUS
<1>1. CASE BegunRests
  BY <1>1, BegunRestsKeeps DEF KvInv
<1>2. CASE Panic
  BY <1>2, TechProfAssumption DEF Panic, Begun, Requests
<1>3. CASE UNCHANGED vars
  BY <1>1, <1>3 DEF vars, requestVars, cfgVars, kvVars, dataVars, envVars, BegunRests,
     PersFollows
<1>4. CASE Next
  BY <1>1, <1>2, <1>4, HandleKeepsBegun, WorkKeepsBegun, MachineKeepsBegun DEF Next, KvInv
<1> QED
  BY <1>3, <1>4

-----------------------------------------------------------------------------
(* Where the path in the map comes from.                                   *)

\* What touches neither the paths nor the configuration.
LEMMA SameTraced ==
  ASSUME Traced,
         UNCHANGED <<cfg, job, mapUniTpPath, cfgFailed, applied, overtaken>>,
         \A r \in Requests : /\ kv[r] = "off" => kv'[r] = "off"
                             /\ pc'[r] = "unlocked" => pc[r] = "unlocked",
         procResult' \in {procResult, "error"}
  PROVE  Traced'
<1>1. JobFollows'
  BY DEF Traced, JobFollows, Configuring
<1>2. InPlace'
  BY DEF Traced, InPlace, Configuring
<1>3. Answers'
  BY DEF Traced, Answers, Requests
<1> QED
  BY <1>1, <1>2, <1>3 DEF Traced

\* While the mutex is taken nobody waits for an answer of his own.
LEMMA NobodyAnswers ==
  ASSUME Begun', owner' # None PROVE Answers'
  BY DEF Begun, Answers, Requests

LEMMA FreeMutex ==
  ASSUME LockInv, owner = None PROVE \A r \in Requests : ~Configuring(r)
  BY TechProfAssumption DEF LockInv, OneRequestAtWork, Configuring, Finished

LEMMA BeginTraces ==
  ASSUME Unis = {Uni0}, KvInv, Begun, Begun', Traced, NEW r \in Requests, NEW u \in Unis,
         NEW p, NEW configures \in BOOLEAN, NEW stores \in BOOLEAN,
         Begin(r, u, p, configures, stores),
         configures => p = mapUniTpPath'[Uni0],
         \/ configures
         \/ UNCHANGED mapUniTpPath /\ ~stores
         \/ mapUniTpPath'[Uni0] = NoPath
  PROVE  Traced'
<1>1. /\ owner = None /\ pc[r] \in {"idle", "accepted"}
      /\ owner' = r /\ None \notin Requests
  BY TechProfAssumption DEF Begin, MayLock
<1>2. LockInv /\ \A q \in Requests : ~Configuring(q)
  BY <1>1, FreeMutex DEF KvInv
<1>3. cfg \in [Requests -> {"off", "start", "read", "set", "reset", "done"}]
      /\ job \in [Requests -> [uni : Unis, path : Paths \cup {NoPath}]]
      /\ kv \in [Requests -> {"off", "wait", "done"}] /\ cfgFailed \subseteq Requests
  BY <1>2 DEF LockInv, TypeOK, RequestType, CfgType, KvType, ResultType
<1>4. /\ \A q \in Requests \ {r} :
            cfg'[q] = cfg[q] /\ job'[q] = job[q] /\ kv'[q] = kv[q]
      /\ cfg'[r] = (IF configures THEN "start" ELSE "off") /\ job'[r].path = p
      /\ kv'[r] = (IF stores THEN "wait" ELSE "off")
      /\ UNCHANGED <<cfgFailed, applied>>
  BY <1>3 DEF Begin, aniVars
<1>5. JobFollows'
  BY <1>2, <1>4 DEF JobFollows, Configuring
<1>6. CASE configures
  <2>1. Configuring(r)'
    BY <1>4, <1>6 DEF Configuring
  <2>2. InPlace'
    BY <2>1 DEF InPlace
  <2> QED
    BY <1>1, <1>5, <2>2, NobodyAnswers DEF Traced
<1>7. CASE mapUniTpPath'[Uni0] = NoPath
  BY <1>1, <1>5, <1>7, NobodyAnswers DEF Traced, InPlace
<1>8. CASE UNCHANGED mapUniTpPath /\ ~stores
  <2>1. r \notin cfgFailed
    BY <1>1 DEF Begun
  <2>2. \A q \in cfgFailed : job'[q] = job[q]
    BY <1>3, <1>4, <2>1
  <2>3. (\A q \in Requests : kv[q] = "off") => \A q \in Requests : kv'[q] = "off"
    BY <1>4, <1>8
  <2>4. InPlace'
    BY <1>2, <1>4, <1>8, <2>2, <2>3 DEF Traced, InPlace
  <2> QED
    BY <1>1, <1>5, <2>4, NobodyAnswers DEF Traced
<1> QED
  BY <1>6, <1>7, <1>8

LEMMA HandleTraces ==
  ASSUME Unis = {Uni0}, KvInv, NoExpiry => StoreOrder, Undisturbed, Applied, Begun, Begun',
         Traced, NEW r \in Requests, Accept(r) \/ Handle(r) \/ Expire(r)
  PROVE  Traced'
<1>1. LockInv /\ UniOf[r] = Uni0
  BY TechProfAssumption DEF KvInv
<1>2. /\ pc \in [Requests -> {"idle", "accepted", "waiting", "unlocked", "done", "gone"}]
      /\ mapUniTpPath \in [Unis -> Paths \cup {NoPath}]
      /\ cfg \in [Requests -> {"off", "start", "read", "set", "reset", "done"}]
  BY <1>1 DEF LockInv, TypeOK, RequestType, DataType, PathMap, CfgType
<1>3. CASE Accept(r) \/ Unchanged(r) \/ Return(r) \/ Expire(r)
  <2>1. UNCHANGED <<cfg, job, mapUniTpPath, cfgFailed, applied, overtaken, kv, procResult>>
    BY <1>3 DEF Accept, Unchanged, Return, Expire, cfgVars, kvVars, dataVars, aniVars
  <2>2. \A q \in Requests : pc'[q] = "unlocked" => pc[q] = "unlocked"
    BY <1>2, <1>3 DEF Accept, Unchanged, Return, Expire
  <2> QED
    BY <2>1, <2>2, SameTraced
<1>4. CASE Unlock(r)
  <2>1. UNCHANGED <<cfg, job, mapUniTpPath, cfgFailed, applied, overtaken, kv, procResult>>
    BY <1>4 DEF Unlock, cfgVars, kvVars, dataVars, aniVars
  <2>2. JobFollows' /\ InPlace'
    BY <2>1 DEF Traced, JobFollows, InPlace, Configuring
  <2>3. owner = r /\ pc[r] = "waiting" /\ cfg[r] \in Finished
    BY <1>1, <1>4 DEF Unlock, LockInv, WaitingOwns
  <2>4. \A q \in Requests \ {r} : pc'[q] = pc[q]
    BY <1>2, <1>4 DEF Unlock
  <2>5. ASSUME r \in Downloads, procResult = "ok" PROVE applied[Uni0] = PathOf[r]
    <3>1. cfg[r] = "done" /\ job[r].path = PathOf[r]
      BY <2>3, <2>5 DEF Begun, Finished
    <3> QED
      BY <2>3, <2>5, <3>1 DEF Applied, Applies
  <2>6. Answers'
    BY <2>1, <2>4, <2>5 DEF Traced, Answers, Requests
  <2> QED
    BY <2>2, <2>6 DEF Traced
<1>5. CASE Download(r)
  <2>1. mapUniTpPath'[Uni0] = WantedPath(r)
    BY <1>1, <1>2, <1>5 DEF Download
  <2> QED
    BY <1>1, <1>5, <2>1, BeginTraces DEF Download
<1>6. CASE DeleteTcont(r)
  <2>1. mapUniTpPath'[Uni0] = NoPath
    BY <1>1, <1>2, <1>6, TechProfAssumption DEF DeleteTcont, WantedPath
  <2> QED
    BY <1>1, <1>6, <2>1, BeginTraces DEF DeleteTcont
<1>7. CASE DeleteGem(r)
  BY <1>1, <1>7, BeginTraces DEF DeleteGem
<1>8. CASE Reconcile(r)
  <2>1. PICK u \in Unis : Begin(r, u, pers[u], TRUE, FALSE)
    BY <1>8 DEF Reconcile
  <2>2. owner = None /\ NoExpiry
    BY <2>1 DEF Begin, MayLock, Undisturbed, NoExpiry
  <2>3. \A q \in Requests : store[q] # "copy"
    BY <1>1, <2>2, NobodyBehind DEF Behind
  <2>4. pers = mapUniTpPath
    BY <2>2, <2>3 DEF Begun, PersFollows, NoExpiry
  <2>5. u = Uni0 /\ mapUniTpPath' = mapUniTpPath
    BY <1>8 DEF Reconcile
  <2> QED
    BY <2>1, <2>4, <2>5, BeginTraces
<1> QED
  BY <1>3, <1>4, <1>5, <1>6, <1>7, <1>8 DEF Handle

LEMMA ConfigureTraces ==
  ASSUME Unis = {Uni0}, KvInv, LockInv', Undisturbed, Chain, Applied, Begun', Traced,
         NEW r \in Requests, Configure(r), ~Panic
  PROVE  Traced'
<1>1. LockInv /\ CfgType /\ ResultType
  BY DEF KvInv, LockInv, TypeOK
<1>2. cfg[r] # "reset" /\ ctx[r] # "expired"
  BY DEF Chain, Undisturbed
<1>3. Configuring(r) /\ owner = r /\ None \notin Requests
  <2>1. cfg[r] \in {"start", "read", "set"}
    BY <1>2 DEF Configure, ConfigureUnknownUni, StartRead, ReadDone, ReadFails, SetDone,
       SetFails, ResetAni
  <2> QED
    BY <1>1, <2>1, TechProfAssumption DEF Configuring, Finished, LockInv, OneRequestAtWork
<1>4. UNCHANGED <<owner, job, kv, mapUniTpPath, applied>>
  BY <1>2 DEF Configure, ConfigureUnknownUni, StartRead, ReadDone, ReadFails, SetDone,
     SetFails, ResetAni, requestVars, kvVars, dataVars, aniVars
<1>5. \A q \in Requests \ {r} : cfg'[q] = cfg[q]
  BY <1>1, <1>2 DEF CfgType, CfgFails, Configure, ConfigureUnknownUni, StartRead, ReadDone,
     ReadFails, SetDone, SetFails, ResetAni
<1>6. JobFollows'
  BY <1>3, <1>4, <1>5 DEF Traced, JobFollows, Configuring
<1>7. Answers'
  BY <1>3, <1>4, NobodyAnswers
<1>8. job[r].path = mapUniTpPath[Uni0]
  BY <1>3 DEF Traced, JobFollows
<1> SUFFICES InPlace'
  BY <1>6, <1>7 DEF Traced
<1>9. ASSUME r \in cfgFailed' PROVE InPlace'
  BY <1>4, <1>8, <1>9 DEF InPlace
<1>10. ASSUME cfg'[r] \in {"read", "set"} PROVE InPlace'
  BY <1>10 DEF InPlace, Configuring
<1>11. CASE ConfigureUnknownUni(r) \/ ReadFails(r) \/ SetFails(r)
  BY <1>9, <1>11 DEF ConfigureUnknownUni, ReadFails, SetFails, CfgFails
<1>12. CASE StartRead(r)
  BY <1>1, <1>10, <1>12 DEF StartRead, CfgType
<1>13. CASE ReadDone(r)
  <2>1. cfg'[r] = "set" \/ r \in cfgFailed'
    BY <1>1, <1>13 DEF ReadDone, CfgFails, CfgType
  <2> QED
    BY <1>9, <1>10, <2>1
<1>14. CASE SetDone(r)
  <2>1. Reports
    BY <1>14 DEF SetDone, ReceiveStep, Chain, Sets, AtRest
  <2>2. applied[Uni0] = job[r].path
    BY <1>14, <2>1 DEF SetDone, Reports, Applied, Applies
  <2> QED
    BY <1>4, <1>8, <2>2 DEF InPlace
<1>15. CASE ResetAni(r)
  BY <1>2, <1>15 DEF ResetAni
<1> QED
  BY <1>11, <1>12, <1>13, <1>14, <1>15 DEF Configure

LEMMA MachineTraces ==
  ASSUME KvInv, Undisturbed, Undisturbed', Chain, Begun', Traced,
         AniEvents \/ AniProgress \/ OnuDown
  PROVE  Traced'
<1>1. ~Panic /\ ~OnuDown
  BY DEF Undisturbed, Panic, OnuDown, DownReset, DownClear, DownStop
<1>2. cfg' = cfg
  BY <1>1, MachineRunsFor
<1>3. PICK r \in Requests : cfg[r] = "set" /\ owner = r
  BY <1>1, MachineRunsFor
<1>4. UNCHANGED <<owner, job, mapUniTpPath>>
  BY <1>1 DEF AniEvents, PrepareAni, PostedReset, RestartAni, AniProgress, SetMapper,
     CompleteAni, GiveUpAni, requestVars, dataVars
<1>5. JobFollows'
  BY <1>2, <1>4 DEF Traced, JobFollows, Configuring
<1>6. InPlace'
  BY <1>2, <1>3 DEF InPlace, Configuring
<1>7. Answers'
  BY <1>3, <1>4, NobodyAnswers, TechProfAssumption
<1> QED
  BY <1>5, <1>6, <1>7 DEF Traced

LEMMA NextAnswers == Unis = {Uni0} /\ AnswerInv /\ [Next]_vars => AnswerInv'
<1> SUFFICES ASSUME Unis = {Uni0}, AnswerInv, [Next]_vars, Undisturbed',
                    AppliedInv', Begun'
             PROVE  Traced'
  BY NextApplies, NextBegun DEF AnswerInv, AppliedInv, ChainInv
<1>1. KvInv /\ LockInv /\ (NoExpiry => StoreOrder)
  BY DEF AnswerInv, AppliedInv, ChainInv, KvInv
<1>2. Undisturbed
  BY <1>1, Disturbed
<1>3. Chain /\ Applied /\ Begun /\ Traced /\ LockInv'
  BY <1>2 DEF AnswerInv, AppliedInv, ChainInv, KvInv
<1>4. ~Panic
  BY DEF Panic, Undisturbed
<1>5. ASSUME NEW r \in Requests, Read(r) \/ SetAni(r) PROVE Traced'
  <2>1. UNCHANGED <<cfg, job, mapUniTpPath, cfgFailed, applied, overtaken, kv, pc, procResult>>
    BY <1>4, <1>5 DEF Read, ReadInvalid, ReadBegin, ReadMissing, ReadGet, ReadRefused,
       ReadFill, SetAni, SetChannel, StartAni, requestVars, kvVars, dataVars, aniVars
  <2> QED
    BY <1>3, <2>1, SameTraced
<1>6. ASSUME NEW r \in Requests, Store(r) \/ WriteLands(r) PROVE Traced'
  <2>1. UNCHANGED <<cfg, job, mapUniTpPath, cfgFailed, applied, overtaken, pc>>
    BY <1>6 DEF Store, CopyPaths, Put, PutReturns, StoreDone, StoreExpires, WriteLands,
       requestVars, cfgVars, dataVars, aniVars
  <2>2. procResult' \in {procResult, "error"}
    BY <1>6 DEF Store, CopyPaths, Put, PutReturns, StoreDone, StoreExpires, WriteLands
  <2>3. \A q \in Requests : kv[q] = "off" => kv'[q] = "off"
    BY <1>1, <1>4, <1>6, WorkKeepsBegun DEF BegunRests
  <2> QED
    BY <1>3, <2>1, <2>2, <2>3, SameTraced
<1>7. CASE UNCHANGED vars
  BY <1>3, <1>7, SameTraced DEF vars, requestVars, cfgVars, kvVars, dataVars, aniVars
<1>8. CASE Next
  BY <1>1, <1>2, <1>3, <1>4, <1>5, <1>6, <1>8, HandleTraces, ConfigureTraces,
     MachineTraces DEF Next
<1> QED
  BY <1>7, <1>8

LEMMA InitAnswers == Init => AnswerInv
<1> SUFFICES ASSUME Init PROVE Applied /\ Begun /\ Traced
  BY InitChain DEF AnswerInv, AppliedInv
<1>1. Applied
  BY DEF Init, Applied, Applies
<1>2. Begun
  BY TechProfAssumption DEF Init, Begun, PersFollows, Requests
<1>3. Traced
  BY DEF Init, Traced, JobFollows, InPlace, Answers, Configuring, Requests
<1> QED
  BY <1>1, <1>2, <1>3

(* waitForTpCompletion and updateOnuUniTpPath: on an ONU with one UNI, an  *)
(* undisturbed download that is answered with success has had the ONU      *)
(* configured with the profile of its path, or has found the path in place *)
(* without having been configured before, or has returned the result of a  *)
(* later request, for any number of requests and faults.  With a second    *)
(* UNI this is not so: the machine keeps the UNI it was created for.       *)
THEOREM SuccessConfigures ==
  ASSUME Unis = {Uni0}
  PROVE  Spec => SuccessIsConfigured
<1>1. AnswerInv /\ [Next]_vars => AnswerInv'
  BY NextAnswers
<1>2. ASSUME AnswerInv, [Next]_vars, NEW r \in Downloads, Succeeds(r), Undisturbed
      PROVE  applied[UniOf[r]] = PathOf[r] \/ LeftOver(r) \/ r \in overtaken
  <2>1. KvInv /\ LockInv /\ Begun /\ Traced /\ UniOf[r] = Uni0 /\ r \in Requests
    BY <1>2, TechProfAssumption DEF AnswerInv, AppliedInv, ChainInv, KvInv, Requests
  <2>2. result \in [Requests -> {"none", "ok", "error"}]
    BY <2>1 DEF LockInv, TypeOK, RequestType
  <2>3. \/ Unchanged(r)
        \/ Return(r)
    <3>1. ASSUME NEW q \in Requests, Unchanged(q) \/ Return(q) PROVE q = r
      BY <1>2, <2>1, <2>2, <3>1 DEF Unchanged, Return, Succeeds
    <3>2. ASSUME result' = result PROVE FALSE
      BY <1>2, <2>1, <3>2 DEF Succeeds
    <3>3. ASSUME Panic PROVE FALSE
      BY <3>2, <3>3 DEF Panic
    <3>4. ASSUME NEW q \in Requests, Accept(q) \/ Handle(q) \/ Expire(q)
          PROVE  Unchanged(r) \/ Return(r)
      BY <3>1, <3>2, <3>4 DEF Accept, Handle, Download, DeleteTcont, DeleteGem, Reconcile,
         Begin, Unlock, Expire
    <3>5. ASSUME NEW q \in Requests, Configure(q) \/ Read(q) \/ SetAni(q) PROVE FALSE
      BY <3>2, <3>3, <3>5 DEF Configure, ConfigureUnknownUni, StartRead, ReadDone, ReadFails,
         SetDone, SetFails, ResetAni, Read, ReadInvalid, ReadBegin, ReadMissing, ReadGet,
         ReadRefused, ReadFill, SetAni, SetChannel, StartAni, requestVars
    <3>6. ASSUME NEW q \in Requests, Store(q) \/ WriteLands(q) PROVE FALSE
      BY <3>2, <3>6 DEF Store, CopyPaths, Put, PutReturns, StoreDone, StoreExpires,
         WriteLands, requestVars
    <3>7. ASSUME AniEvents \/ AniProgress \/ OnuDown PROVE FALSE
      BY <3>2, <3>3, <3>7 DEF AniEvents, PrepareAni, PostedReset, RestartAni, AniProgress,
         SetMapper, CompleteAni, GiveUpAni, OnuDown, DownReset, DownClear, DownStop,
         requestVars
    <3>8. CASE UNCHANGED vars
      BY <3>2, <3>8 DEF vars, requestVars
    <3> QED
      BY <1>2, <3>4, <3>5, <3>6, <3>7, <3>8 DEF Next
  <2>4. CASE Return(r)
    <3>1. pc[r] = "unlocked" /\ procResult = "ok"
      BY <1>2, <2>1, <2>2, <2>4 DEF Return, Succeeds
    <3> QED
      BY <2>1, <3>1 DEF Traced, Answers
  <2>5. CASE Unchanged(r)
    <3>1. owner = None /\ pc[r] = "accepted" /\ mapUniTpPath[Uni0] = PathOf[r]
      <4>1. r \notin Reconciles
        BY TechProfAssumption
      <4> QED
        BY <2>1, <2>5, <4>1 DEF Unchanged, MayLock, WantedPath
    <3>2. PathOf[r] # NoPath
      BY TechProfAssumption
    <3>3. \A q \in Requests : ~Configuring(q)
      BY <2>1, <3>1, FreeMutex
    <3>4. CASE mapUniTpPath = Stored /\ \A q \in Requests : kv[q] = "off"
      BY <2>1, <3>1, <3>4 DEF LeftOver
    <3>5. CASE applied[Uni0] = mapUniTpPath[Uni0]
      BY <2>1, <3>1, <3>5
    <3>6. ASSUME NEW q \in cfgFailed, job[q].path = mapUniTpPath[Uni0] PROVE LeftOver(r)
      <4>1. job[q] \in [uni : Unis, path : Paths \cup {NoPath}]
        BY <2>1 DEF LockInv, TypeOK, RequestType, ResultType
      <4>2. job[q] = [uni |-> UniOf[r], path |-> PathOf[r]]
        BY <2>1, <3>1, <3>6, <4>1
      <4> QED
        BY <3>1, <3>6, <4>2 DEF LeftOver
    <3> QED
      BY <2>1, <3>1, <3>2, <3>3, <3>4, <3>5, <3>6 DEF Traced, InPlace
  <2> QED
    BY <2>3, <2>4, <2>5
<1>3. AnswerInv /\ [Next]_vars
      => [\A r \in Downloads :
             Succeeds(r) /\ Undisturbed
                 => \/ applied[UniOf[r]] = PathOf[r]
                    \/ LeftOver(r)
                    \/ r \in overtaken]_vars
  BY <1>2
<1> QED
  BY <1>1, <1>3, InitAnswers, PTL DEF Spec, SuccessIsConfigured

-----------------------------------------------------------------------------
(* The machine of the ANI configuration.                                   *)

\* What AniMachine sees of it.
Phase == IF down = "gone" THEN "gone"
         ELSE IF ani.state = "none" THEN "disabled" ELSE ani.state
Done == ani.completed /\ down # "gone"

\* A machine that has not been created has completed nothing.
Fresh == ani.state = "none" => ~ani.completed

UseInv == TypeOK /\ Fresh
AniMoves == Fresh' /\ [Machine!Next]_<<Phase, Done>>

\* Nothing to be seen from outside.
LEMMA SameAni ==
  ASSUME UseInv, ani'.state = ani.state, ani'.completed = ani.completed,
         down' = "gone" <=> down = "gone"
  PROVE  AniMoves
  BY DEF UseInv, Fresh, AniMoves, Phase, Done

LEMMA PanicMoves == Panic => AniMoves
  BY DEF Panic, NoAni, Fresh, AniMoves, Phase, Done, Machine!Next, Machine!Die

LEMMA ResetMoves ==
  ASSUME UseInv, NEW a \in Machines, a.state = ani.state, a.completed = ani.completed,
         ani' \in AfterReset(a), down' = "gone" <=> down = "gone"
  PROVE  AniMoves
<1>1. CASE a.state \in {"starting", "creating", "mapper", "configDone"}
  <2>1. ani'.state = "resetting" /\ ani'.completed = a.completed
    BY <1>1 DEF AfterReset, Machines
  <2> QED
    BY <1>1, <2>1 DEF Fresh, AniMoves, Phase, Done, Machine!Next, Machine!Abort, Machine!Go
<1>2. CASE a.state \notin {"starting", "creating", "mapper", "configDone"}
  BY <1>2, SameAni DEF AfterReset
<1> QED
  BY <1>1, <1>2

LEMMA RequestMoves ==
  ASSUME UseInv, NEW r \in Requests,
         \/ Accept(r) \/ Handle(r) \/ Expire(r) \/ Configure(r) \/ Read(r)
         \/ SetAni(r) \/ Store(r) \/ WriteLands(r)
  PROVE  AniMoves
<1> USE DEF UseInv, TypeOK, AniType
<1>1. ASSUME UNCHANGED <<ani, down>> PROVE AniMoves
  BY <1>1, SameAni
<1>2. CASE Accept(r) \/ Handle(r) \/ Expire(r)
  BY <1>1, <1>2 DEF Accept, Handle, Unchanged, Begin, Download, DeleteTcont, DeleteGem,
                    Reconcile, Unlock, Return, Expire, aniVars, envVars
<1>3. CASE ConfigureUnknownUni(r) \/ StartRead(r)
  BY <1>1, <1>3 DEF ConfigureUnknownUni, StartRead, aniVars, envVars
<1>4. CASE ReadDone(r) \/ ReadFails(r) \/ SetDone(r) \/ SetFails(r)
  <2>1. ReceiveStep \/ UNCHANGED ani
    BY <1>4 DEF ReadDone, ReadFails, SetDone, SetFails
  <2>2. ani'.state = ani.state /\ ani'.completed = ani.completed
    BY <2>1 DEF ReceiveStep, AniReleased, Machines
  <2>3. down' = down
    BY <1>4 DEF ReadDone, ReadFails, SetDone, SetFails, envVars
  <2> QED
    BY <2>2, <2>3, SameAni
<1>5. CASE ResetAni(r)
  BY <1>5, PanicMoves, ResetMoves DEF ResetAni, envVars
<1>6. CASE Read(r)
  BY <1>1, <1>6, PanicMoves
     DEF Read, ReadInvalid, ReadBegin, ReadMissing, ReadGet, ReadRefused, ReadFill,
         aniVars, envVars
<1>7. CASE SetChannel(r)
  <2>1. CASE ani.state = "none"
    <3>1. ani'.state = "disabled" /\ ani'.completed = FALSE
      BY <1>7, <2>1 DEF SetChannel, NoAni
    <3> QED
      BY <1>7, <2>1, <3>1 DEF SetChannel, Fresh, AniMoves, Phase, Done, envVars
  <2>2. CASE ani.state # "none"
    <3>1. ani'.state = ani.state /\ ani'.completed = ani.completed
      BY <1>7, <2>2 DEF SetChannel, Machines
    <3> QED
      BY <1>7, <3>1, SameAni DEF SetChannel, envVars
  <2> QED
    BY <2>1, <2>2
<1>8. CASE StartAni(r)
  <2>1. CASE ani.state = "disabled"
    <3>1. ani'.state = "starting" /\ ani'.completed = ani.completed
      BY <1>8, <2>1 DEF StartAni, Machines
    <3> QED
      BY <1>8, <2>1, <3>1
         DEF StartAni, Fresh, AniMoves, Phase, Done, envVars, Machine!Next, Machine!Start,
             Machine!Go
  <2>2. CASE ani.state # "disabled"
    BY <1>1, <1>8, <2>2 DEF StartAni, envVars
  <2> QED
    BY <2>1, <2>2
<1>9. CASE Store(r) \/ WriteLands(r)
  BY <1>1, <1>9 DEF Store, CopyPaths, Put, PutReturns, StoreDone, StoreExpires, WriteLands,
                    aniVars, envVars
<1> QED
  BY <1>2, <1>3, <1>4, <1>5, <1>6, <1>7, <1>8, <1>9 DEF Configure, SetAni

LEMMA MachineMoves == ASSUME UseInv, AniEvents \/ AniProgress \/ OnuDown PROVE AniMoves
<1> USE DEF UseInv, TypeOK, AniType
<1>1. CASE PrepareAni /\ ~Panic
  <2>1. CASE ani.state = "starting"
    <3>1. ani'.state = "creating" /\ ani'.completed = ani.completed /\ down' = down
      BY <1>1, <2>1 DEF PrepareAni, Machines, envVars
    <3> QED
      BY <2>1, <3>1 DEF Fresh, AniMoves, Phase, Done, Machine!Next, Machine!Create, Machine!Go
  <2>2. CASE ani.state # "starting"
    <3>1. ani'.state = ani.state /\ ani'.completed = ani.completed /\ down' = down
      BY <1>1, <2>2 DEF PrepareAni, Machines, envVars
    <3> QED
      BY <3>1, SameAni
  <2> QED
    BY <2>1, <2>2
<1>2. CASE PostedReset
  <2>1. ani.resets - 1 \in Nat
    BY <1>2 DEF PostedReset, Machines
  <2>2. [ani EXCEPT !.resets = @ - 1] \in Machines
    BY <2>1 DEF Machines
  <2>3. /\ [ani EXCEPT !.resets = @ - 1].state = ani.state
        /\ [ani EXCEPT !.resets = @ - 1].completed = ani.completed
    BY DEF Machines
  <2> QED
    BY <1>2, <2>2, <2>3, ResetMoves DEF PostedReset, envVars
<1>3. CASE RestartAni
  <2>1. down' = "gone" <=> down = "gone"
    BY <1>3 DEF RestartAni
  <2>2. CASE ani.state = "resetting"
    <3>1. ani'.state = "disabled" /\ ani'.completed = FALSE
      <4>1. ani' = [ani EXCEPT !.restarts = @ - 1, !.state = "disabled",
                               !.completed = FALSE, !.busy = ani.chanSet]
        BY <1>3, <2>2 DEF RestartAni
      <4> QED
        BY <4>1 DEF Machines
    <3>2. Fresh'
      BY <3>1 DEF Fresh
    <3>3. CASE down = "gone"
      <4>1. UNCHANGED <<Phase, Done>>
        BY <2>1, <3>3 DEF Phase, Done
      <4> QED
        BY <3>2, <4>1 DEF AniMoves
    <3>4. CASE down # "gone"
      <4>1. Phase = "resetting" /\ Phase' = "disabled" /\ Done' = FALSE
        BY <2>1, <2>2, <3>1, <3>4 DEF Phase, Done
      <4>2. Machine!Restart
        BY <4>1 DEF Machine!Restart, Phase, Done
      <4> QED
        BY <3>2, <4>2 DEF AniMoves, Machine!Next
    <3> QED
      BY <3>3, <3>4
  <2>3. CASE ani.state # "resetting"
    <3>1. ani'.state = ani.state /\ ani'.completed = ani.completed
      BY <1>3, <2>3 DEF RestartAni, Machines
    <3> QED
      BY <2>1, <3>1, SameAni
  <2> QED
    BY <2>2, <2>3
<1>4. CASE SetMapper
  <2>1. ani'.state = "mapper" /\ ani'.completed = ani.completed /\ down' = down
    BY <1>4 DEF SetMapper, Machines, envVars
  <2> QED
    BY <1>4, <2>1
       DEF SetMapper, Fresh, AniMoves, Phase, Done, Machine!Next, Machine!SetMapper,
           Machine!Go
<1>5. CASE CompleteAni
  <2>1. ani'.state = "configDone" /\ ani'.completed = TRUE /\ down' = down
    BY <1>5 DEF CompleteAni, Machines, envVars
  <2> QED
    BY <1>5, <2>1
       DEF CompleteAni, Fresh, AniMoves, Phase, Done, Machine!Next, Machine!Complete
<1>6. CASE GiveUpAni
  <2>1. ani'.state = "resetting" /\ ani'.completed = ani.completed /\ down' = down
    BY <1>6 DEF GiveUpAni, Machines, envVars
  <2> QED
    BY <1>6, <2>1
       DEF GiveUpAni, Fresh, AniMoves, Phase, Done, Machine!Next, Machine!Abort, Machine!Go
<1>7. CASE DownReset
  BY <1>7, ResetMoves DEF DownReset
<1>8. CASE DownClear \/ DownStop
  BY <1>8, SameAni DEF DownClear, DownStop, aniVars
<1> QED
  BY <1>1, <1>2, <1>3, <1>4, <1>5, <1>6, <1>7, <1>8, PanicMoves
     DEF AniEvents, AniProgress, OnuDown

(* setAniSideConfigFromTechProfile, configureUniTp and updateInterface: the *)
(* requests and the ONU that goes down move the machine only in the ways    *)
(* AniConfigFsm has.                                                       *)
THEOREM UsesAniMachine == Spec => UsesMachine
<1>1. Init => UseInv /\ Machine!Init
  BY InitType DEF UseInv, Fresh, Init, NoAni, Machine!Init
<1>2. UseInv /\ [Next]_vars => UseInv' /\ [Machine!Next]_<<Phase, Done>>
  <2> SUFFICES ASSUME UseInv, [Next]_vars PROVE TypeOK' /\ AniMoves
    BY DEF UseInv, AniMoves
  <2>1. TypeOK'
    BY NextType DEF UseInv
  <2>2. AniMoves
    BY RequestMoves, MachineMoves, SameAni DEF Next, vars, aniVars, envVars
  <2> QED
    BY <2>1, <2>2
<1> QED
  BY <1>1, <1>2, PTL DEF Spec, UsesMachine, Machine!Spec, Machine!vars, Phase, Done

-----------------------------------------------------------------------------
(* configureUniTp and the machine that wait for each other.                *)

\* The callback that reports holds the machine in its disabled state.
BusyAtRest == ani.busy => ani.state = "disabled"

\* What a step may do to the machine while its callback waits.
Received == ReceiveStep /\ \E q \in Requests : cfg[q] \in {"read", "set"}
Waits == ani.busy => ani'.busy
BusyMoves == BusyAtRest' /\ (Panic \/ Received \/ Waits)

LEMMA BusyResets ==
  ASSUME AniType, BusyAtRest, NEW a \in Machines, a.state = ani.state, a.busy = ani.busy,
         ani' \in AfterReset(a)
  PROVE  BusyMoves
<1>1. CASE a.state \in {"starting", "creating", "mapper", "configDone"}
  <2>1. ~ani.busy
    BY <1>1 DEF BusyAtRest
  <2>2. ani'.busy = a.busy
    BY <1>1 DEF AfterReset, Machines
  <2> QED
    BY <2>1, <2>2 DEF BusyMoves, BusyAtRest, Waits
<1>2. CASE a.state \notin {"starting", "creating", "mapper", "configDone"}
  BY <1>2 DEF AfterReset, BusyMoves, BusyAtRest, Waits
<1> QED
  BY <1>1, <1>2

LEMMA BusyPanics == Panic => BusyMoves
  BY DEF Panic, NoAni, BusyMoves, BusyAtRest

LEMMA RequestBusy ==
  ASSUME TypeOK, BusyAtRest, NEW r \in Requests,
         \/ Accept(r) \/ Handle(r) \/ Expire(r) \/ Configure(r) \/ Read(r)
         \/ SetAni(r) \/ Store(r) \/ WriteLands(r)
  PROVE  BusyMoves
<1> USE DEF TypeOK, AniType
<1>1. ASSUME UNCHANGED ani PROVE BusyMoves
  BY <1>1 DEF BusyMoves, BusyAtRest, Waits
<1>2. CASE Accept(r) \/ Handle(r) \/ Expire(r)
  BY <1>1, <1>2 DEF Accept, Handle, Unchanged, Begin, Download, DeleteTcont, DeleteGem,
                    Reconcile, Unlock, Return, Expire, aniVars
<1>3. CASE ConfigureUnknownUni(r) \/ StartRead(r)
  BY <1>1, <1>3 DEF ConfigureUnknownUni, StartRead, aniVars
<1>4. CASE ReadDone(r) \/ ReadFails(r) \/ SetDone(r) \/ SetFails(r)
  <2>1. cfg[r] \in {"read", "set"} /\ (ReceiveStep \/ UNCHANGED ani)
    BY <1>4 DEF ReadDone, ReadFails, SetDone, SetFails
  <2>2. CASE ReceiveStep
    <3>1. ani' = ani \/ ~ani'.busy
      BY <2>2 DEF ReceiveStep, AniReleased, Machines
    <3> QED
      BY <2>1, <2>2, <3>1 DEF BusyMoves, BusyAtRest, Received
  <2> QED
    BY <1>1, <2>1, <2>2
<1>5. CASE ResetAni(r)
  BY <1>5, BusyPanics, BusyResets DEF ResetAni
<1>6. CASE Read(r)
  BY <1>1, <1>6, BusyPanics
     DEF Read, ReadInvalid, ReadBegin, ReadMissing, ReadGet, ReadRefused, ReadFill, aniVars
<1>7. CASE SetChannel(r)
  <2>1. CASE ani.state = "none"
    <3>1. ani'.state = "disabled"
      BY <1>7, <2>1 DEF SetChannel, NoAni
    <3> QED
      BY <2>1, <3>1 DEF BusyMoves, BusyAtRest, Waits
  <2>2. CASE ani.state # "none"
    <3>1. ani'.state = ani.state /\ ani'.busy = ani.busy
      BY <1>7, <2>2 DEF SetChannel, Machines
    <3> QED
      BY <3>1 DEF BusyMoves, BusyAtRest, Waits
  <2> QED
    BY <2>1, <2>2
<1>8. CASE StartAni(r)
  <2>1. ~ani.busy /\ ani'.busy = ani.busy
    BY <1>8 DEF StartAni, Machines
  <2> QED
    BY <2>1 DEF BusyMoves, BusyAtRest, Waits
<1>9. CASE Store(r) \/ WriteLands(r)
  BY <1>1, <1>9 DEF Store, CopyPaths, Put, PutReturns, StoreDone, StoreExpires, WriteLands,
                    aniVars
<1> QED
  BY <1>2, <1>3, <1>4, <1>5, <1>6, <1>7, <1>8, <1>9 DEF Configure, SetAni

LEMMA MachineBusy ==
  ASSUME TypeOK, BusyAtRest, AniEvents \/ AniProgress \/ OnuDown
  PROVE  BusyMoves
<1> USE DEF TypeOK, AniType
<1>1. CASE PrepareAni /\ ~Panic
  <2>1. ~ani.busy /\ ani'.busy = ani.busy
    BY <1>1 DEF PrepareAni, Machines
  <2> QED
    BY <2>1 DEF BusyMoves, BusyAtRest, Waits
<1>2. CASE PostedReset
  <2>1. ani.resets - 1 \in Nat
    BY <1>2 DEF PostedReset, Machines
  <2>2. [ani EXCEPT !.resets = @ - 1] \in Machines
    BY <2>1 DEF Machines
  <2>3. /\ [ani EXCEPT !.resets = @ - 1].state = ani.state
        /\ [ani EXCEPT !.resets = @ - 1].busy = ani.busy
    BY DEF Machines
  <2> QED
    BY <1>2, <2>2, <2>3, BusyResets DEF PostedReset
<1>3. CASE RestartAni
  <2>1. CASE ani.state = "resetting"
    <3>1. ani'.state = "disabled"
      BY <1>3, <2>1 DEF RestartAni, Machines
    <3> QED
      BY <1>3, <3>1 DEF RestartAni, BusyMoves, BusyAtRest, Waits
  <2>2. CASE ani.state # "resetting"
    <3>1. ani'.busy = ani.busy
      BY <1>3, <2>2 DEF RestartAni, Machines
    <3> QED
      BY <1>3, <3>1 DEF RestartAni, BusyMoves, BusyAtRest, Waits
  <2> QED
    BY <2>1, <2>2
<1>4. CASE SetMapper \/ CompleteAni \/ GiveUpAni
  <2>1. ~ani.busy
    BY <1>4 DEF SetMapper, CompleteAni, GiveUpAni, BusyAtRest
  <2>2. ani'.busy = ani.busy
    BY <1>4 DEF SetMapper, CompleteAni, GiveUpAni, Machines
  <2> QED
    BY <2>1, <2>2 DEF BusyMoves, BusyAtRest, Waits
<1>5. CASE DownReset
  BY <1>5, BusyResets DEF DownReset
<1>6. CASE DownClear \/ DownStop
  BY <1>6 DEF DownClear, DownStop, aniVars, BusyMoves, BusyAtRest, Waits
<1> QED
  BY <1>1, <1>2, <1>3, <1>4, <1>5, <1>6, BusyPanics DEF AniEvents, AniProgress, OnuDown

LEMMA NextBusy == TypeOK /\ BusyAtRest /\ [Next]_vars => BusyMoves
<1>1. UNCHANGED vars /\ BusyAtRest => BusyMoves
  BY DEF vars, aniVars, BusyMoves, BusyAtRest, Waits
<1> QED
  BY <1>1, RequestBusy, MachineBusy DEF Next

\* Nobody but configureUniTp of r itself moves its step on.
LEMMA ResetWaits ==
  ASSUME LockInv, NEW r \in Requests, Jammed(r), [Next]_vars
  PROVE  Panic \/ (cfg'[r] = "reset" /\ owner' = owner)
<1> USE DEF LockInv, TypeOK, RequestType, CfgType, Jammed
<1>1. ASSUME UNCHANGED <<cfg, owner>> PROVE Panic \/ (cfg'[r] = "reset" /\ owner' = owner)
  BY <1>1
<1>2. owner = r
  BY DEF OneRequestAtWork, Finished
<1>3. ASSUME NEW q \in Requests, Handle(q)
      PROVE  cfg'[r] = "reset" /\ owner' = owner
  <2>1. None \notin Requests
    BY TechProfAssumption
  <2>2. ~MayLock(q)
    BY <1>2, <2>1 DEF MayLock
  <2>3. CASE Unlock(q)
    <3>1. q = r
      BY <1>2, <2>3 DEF Unlock, WaitingOwns
    <3> QED
      BY <2>3, <3>1 DEF Unlock, Finished
  <2>4. CASE Return(q)
    BY <2>4 DEF Return, cfgVars
  <2> QED
    BY <1>3, <2>2, <2>3, <2>4
       DEF Handle, Unchanged, Download, DeleteTcont, DeleteGem, Reconcile, Begin
<1>4. ASSUME NEW q \in Requests, Configure(q)
      PROVE  Panic \/ (cfg'[r] = "reset" /\ owner' = owner)
  <2>1. CASE ResetAni(q)
    <3>1. CASE ani.state = "none"
      BY <2>1, <3>1 DEF ResetAni
    <3>2. CASE ani.state # "none"
      BY <2>1, <3>2 DEF ResetAni
    <3> QED
      BY <3>1, <3>2
  <2>2. CASE ~ResetAni(q)
    <3>1. cfg[q] \in {"start", "read", "set"} /\ owner' = owner
      BY <1>4, <2>2
         DEF Configure, ConfigureUnknownUni, StartRead, ReadDone, ReadFails, SetDone,
             SetFails, requestVars
    <3>2. q # r
      BY <3>1
    <3>3. cfg'[r] = cfg[r]
      BY <1>4, <2>2, <3>2
         DEF Configure, ConfigureUnknownUni, StartRead, ReadDone, ReadFails, SetDone,
             SetFails, CfgFails
    <3> QED
      BY <3>1, <3>3
  <2> QED
    BY <2>1, <2>2
<1>5. ASSUME NEW q \in Requests, Accept(q) \/ Expire(q) \/ Read(q) \/ SetAni(q) \/ Store(q)
             \/ WriteLands(q)
      PROVE  Panic \/ (cfg'[r] = "reset" /\ owner' = owner)
  BY <1>1, <1>5
     DEF Accept, Expire, Read, ReadInvalid, ReadBegin, ReadMissing, ReadGet, ReadRefused,
         ReadFill, SetAni, SetChannel, StartAni, Store, CopyPaths, Put, PutReturns, StoreDone,
         StoreExpires, WriteLands, requestVars, cfgVars
<1>6. ASSUME AniEvents \/ AniProgress \/ OnuDown
      PROVE  Panic \/ (cfg'[r] = "reset" /\ owner' = owner)
  BY <1>1, <1>6
     DEF AniEvents, PrepareAni, PostedReset, RestartAni, AniProgress, SetMapper,
         CompleteAni, GiveUpAni, OnuDown, DownReset, DownClear, DownStop, requestVars, cfgVars
<1> QED
  BY <1>1, <1>3, <1>4, <1>5, <1>6 DEF Next, vars, requestVars, cfgVars

(* onu_uni_tp.go:275 against omci_ani_config.go:487: once configureUniTp    *)
(* waits for the machine while its callback waits for a receiver, no        *)
(* deadline, no response of the ONU, no request and no indication releases  *)
(* tpProcMutex again.                                                      *)
THEOREM JamsAreForever == Spec => JamsStay
<1> DEFINE IInv == LockInv /\ BusyAtRest
<1>1. Init => IInv
  BY InitLock DEF Init, NoAni, BusyAtRest
<1>2. IInv /\ [Next]_vars => IInv'
  BY NextLock, NextBusy DEF LockInv, BusyMoves
<1>3. ASSUME IInv, [Next]_vars, NEW r \in Requests, Jammed(r)
      PROVE  (Jammed(r)' /\ owner' = r) \/ down' = "gone"
  <2>1. Panic => down' = "gone"
    BY DEF Panic
  <2>2. owner = r
    BY <1>3 DEF LockInv, OneRequestAtWork, Jammed, Finished
  <2>3. ~Received
    <3>1. ASSUME NEW q \in Requests, cfg[q] \in {"read", "set"} PROVE FALSE
      <4>1. owner = q
        BY <1>3, <3>1 DEF LockInv, OneRequestAtWork, Finished
      <4> QED
        BY <1>3, <2>2, <3>1, <4>1 DEF Jammed
    <3> QED
      BY <3>1 DEF Received
  <2>4. Panic \/ ani'.busy
    BY <1>3, <2>3, NextBusy DEF LockInv, BusyMoves, Waits, Jammed
  <2>5. Panic \/ (cfg'[r] = "reset" /\ owner' = r)
    BY <1>3, <2>2, ResetWaits
  <2> QED
    BY <2>1, <2>4, <2>5 DEF Jammed
<1>4. IInv /\ [Next]_vars
      => [\A r \in Requests : Jammed(r) => (Jammed(r)' /\ owner' = r) \/ down' = "gone"]_vars
  BY <1>3
<1> QED
  BY <1>1, <1>2, <1>4, PTL DEF Spec, JamsStay
=============================================================================
