---------------------------- MODULE MibSyncProofs ----------------------------
(***************************************************************************)
(* What is proved of the MIB upload, for any ONU and any number of         *)
(* indications, other ONUs and faults: the type invariant, that it is the  *)
(* machine the device handler relies on, and what holds of an ONU as long  *)
(* as its runs are not mixed.                                              *)
(***************************************************************************)
EXTENDS MibSync, TLAPS

-----------------------------------------------------------------------------
(* Type correctness.                                                       *)

LEMMA InitType == Init => TypeOK
<1> SUFFICES ASSUME Init PROVE TypeOK
  OBVIOUS
<1> USE MibAssumption DEF Init
<1>1. FsmType
  BY DEF FsmType, States
<1>2. TaskType /\ ReaderType
  BY DEF TaskType, ReaderType
<1>3. ChanType
  BY DEF ChanType
<1>4. WireType
  BY DEF WireType
<1>5. DataType /\ RestType
  BY DEF DataType, RestType
<1> QED
  BY <1>1, <1>2, <1>3, <1>4, <1>5 DEF TypeOK

LEMMA SameType ==
    /\ FsmType /\ UNCHANGED fsmVars => FsmType'
    /\ TaskType /\ UNCHANGED taskVars => TaskType'
    /\ ReaderType /\ UNCHANGED reader => ReaderType'
    /\ ChanType /\ UNCHANGED chanVars => ChanType'
    /\ WireType /\ UNCHANGED wireVars => WireType'
    /\ DataType /\ UNCHANGED dataVars => DataType'
    /\ RestType /\ UNCHANGED restVars => RestType'
<1>1. FsmType /\ UNCHANGED fsmVars => FsmType'
  BY DEF FsmType, fsmVars
<1>2. TaskType /\ UNCHANGED taskVars => TaskType'
  BY DEF TaskType, taskVars
<1>3. ReaderType /\ UNCHANGED reader => ReaderType'
  BY DEF ReaderType
<1>4. ChanType /\ UNCHANGED chanVars => ChanType'
  BY DEF ChanType, chanVars
<1>5. WireType /\ UNCHANGED wireVars => WireType'
  BY DEF WireType, wireVars
<1>6. DataType /\ UNCHANGED dataVars => DataType'
  BY DEF DataType, dataVars
<1>7. RestType /\ UNCHANGED restVars => RestType'
  BY DEF RestType, restVars
<1> QED
  BY <1>1, <1>2, <1>3, <1>4, <1>5, <1>6, <1>7

LEMMA FaultType == RestType /\ (Fault \/ UNCHANGED faults) => faults' \in Nat
  BY DEF RestType, Fault

\* Where a get leads to.
LEMMA NextGetIsState == \A g \in Gets : NextGet(g) \in States /\ NextGet(g) # "disabled"
  BY DEF NextGet, Gets, States

LEMMA PutMeIsStored == ASSUME NEW e \in Mes, DataType PROVE PutMe(e) \subseteq Stored
  BY DEF PutMe, DataType, Stored

LEMMA UploadNextType ==
  ASSUME ChanType, WireType, SendMibUploadNext, seqNo < noOfCmds
  PROVE  seqNo' \in 0 .. Cmds /\ open' \subseteq Requests
<1>1. seqNo + 1 \in Mes
  BY MibAssumption DEF ChanType, Mes
<1>2. Request("next", seqNo + 1) \in Requests
  BY <1>1 DEF Requests
<1>3. seqNo' \in 0 .. Cmds
  BY <1>1, MibAssumption DEF SendMibUploadNext, Mes
<1> QED
  BY <1>2, <1>3 DEF SendMibUploadNext, WireType

\* Indications.
LEMMA IndicationType ==
  ASSUME TypeOK, NEW u \in Ups, UpReplacesChannel(u) \/ UpGoesOn(u)
  PROVE  TypeOK'
<1> USE DEF TypeOK
<1>1. CASE UpReplacesChannel(u)
  <2> USE <1>1 DEF UpReplacesChannel
  <2>1. TaskType'
    BY DEF TaskType
  <2>2. ChanType' /\ WireType'
    BY MibAssumption DEF ChanType, WireType
  <2>3. mixed' \in BOOLEAN
    BY DEF RestType
  <2>4. RestType'
    BY <2>3 DEF RestType
  <2> QED
    BY <2>1, <2>2, <2>4, SameType
<1>2. CASE UpStarts(u)
  <2> USE <1>2 DEF UpStarts
  <2>1. TaskType' /\ FsmType'
    BY DEF TaskType, FsmType, States
  <2>2. ReaderType'
    BY DEF ReaderType
  <2>3. DataType'
    BY DEF DataType
  <2>4. mixed' \in BOOLEAN
    BY DEF RestType
  <2>5. RestType'
    BY <2>4 DEF RestType
  <2> QED
    BY <2>1, <2>2, <2>3, <2>5, SameType
<1>3. CASE UpIsRefused(u)
  <2>1. TaskType'
    BY <1>3 DEF UpIsRefused, TaskType
  <2> QED
    BY <1>3, <2>1, SameType DEF UpIsRefused
<1>4. CASE UpResetsMib(u)
  <2> USE <1>4 DEF UpResetsMib
  <2>1. TaskType'
    BY DEF TaskType
  <2>2. FsmType'
    BY DEF FsmType, States
  <2>3. WireType'
    BY DEF WireType, Requests
  <2> QED
    BY <2>1, <2>2, <2>3, SameType
<1> QED
  BY <1>1, <1>2, <1>3, <1>4 DEF UpGoesOn

LEMMA StopType == ASSUME TypeOK, DownStops PROVE TypeOK'
<1> USE DEF TypeOK
<1>1. TaskType' /\ FsmType'
  BY DEF DownStops, TaskType, FsmType, States
<1> QED
  BY <1>1, SameType DEF DownStops

LEMMA OthersType == ASSUME TypeOK, OtherOnuLoads PROVE TypeOK'
<1> USE DEF TypeOK
<1>1. DataType'
  BY MibAssumption DEF OtherOnuLoads, DataType
<1>2. RestType'
  BY DEF OtherOnuLoads, RestType
<1> QED
  BY <1>1, <1>2, SameType DEF OtherOnuLoads

LEMMA AnswerType == ASSUME TypeOK, NEW q \in open, Answer(q) PROVE TypeOK'
<1> USE DEF TypeOK
<1>1. q \in Requests
  BY DEF WireType
<1>2. q \in Responses
  BY <1>1 DEF Responses
<1>3. ASSUME q.kind \in Gets \cup {"reset"} PROVE Message(q.kind, q.arg, FALSE) \in Responses
  <2>1. q \in {Request("reset", 0)} \cup {Request(g, 0) : g \in Gets}
    <3>1. q # Request("upload", Cmds)
      BY <1>3 DEF Request, Message, Gets
    <3>2. q \notin {Request("next", e) : e \in Mes}
      BY <1>3 DEF Request, Message, Gets
    <3> QED
      BY <1>1, <3>1, <3>2 DEF Requests
  <2>2. PICK k \in Gets \cup {"reset"} : q = Request(k, 0)
    BY <2>1
  <2>3. q.kind = k /\ q.arg = 0
    BY <2>2 DEF Request, Message
  <2> QED
    BY <2>3 DEF Responses
<1>4. q.kind = "upload" => Request(q.kind, 0) \in Responses
  BY DEF Responses
<1>5. PICK m \in Responses : commChan' = Append(commChan, m)
  <2>1. PICK m \in {q, Message(q.kind, q.arg, FALSE), Request(q.kind, 0)} :
          /\ m.ok \/ q.kind \in Gets \cup {"reset"}
          /\ m.arg = q.arg \/ q.kind = "upload"
          /\ commChan' = Append(commChan, m)
    BY DEF Answer
  <2>2. CASE m = Message(q.kind, q.arg, FALSE)
    <3>1. q.kind \in Gets \cup {"reset"}
      BY <2>1, <2>2 DEF Message
    <3> QED
      BY <1>3, <2>1, <2>2, <3>1
  <2>3. CASE m = Request(q.kind, 0)
    <3>1. q.kind = "upload" \/ m = q
      <4>1. q = Request(q.kind, q.arg)
        BY <1>1 DEF Requests, Request, Message
      <4> QED
        BY <2>1, <2>3, <4>1 DEF Request, Message
    <3> QED
      BY <1>2, <1>4, <2>1, <2>3, <3>1
  <2> QED
    BY <1>2, <2>1, <2>2, <2>3
<1>6. WireType'
  BY <1>5 DEF Answer, WireType
<1>7. faults' \in Nat
  BY FaultType DEF Answer
<1>8. RestType'
  BY <1>7 DEF Answer, RestType
<1> QED
  BY <1>6, <1>8, SameType DEF Answer

-----------------------------------------------------------------------------
(* The readers.                                                            *)

\* A response is taken, and nothing but the reaction to it changes.
LEMMA ReadsType ==
  ASSUME TypeOK, NEW r \in Readers, NEW m, Reads(r, m)
  PROVE  /\ commChan' \in Seq(Responses)
         /\ FsmType' /\ TaskType'
         /\ template' \subseteq Stored /\ fsmMsg' \in BOOLEAN
         /\ others' \in Nat /\ faults' \in Nat /\ mixed' \in BOOLEAN
<1>1. commChan' \in Seq(Responses)
  BY DEF Reads, TypeOK, WireType
<1>2. FsmType' /\ TaskType'
  BY SameType DEF Reads, TypeOK
<1> QED
  BY <1>1, <1>2 DEF Reads, TypeOK, DataType, RestType

LEMMA WillPostType ==
  ASSUME ReaderType, NEW r \in Readers,
         NEW to \in States \cup {"read", "persist", "callback", "tell"},
         reader' = [reader EXCEPT ![r] = to]
  PROVE  ReaderType'
  BY DEF ReaderType

LEMMA ReadType ==
  ASSUME TypeOK, NEW r \in Readers,
         ReadReset(r) \/ ReadGet(r) \/ ReadUpload(r) \/ ReadUploadNext(r) \/ ReadLoaded(r)
  PROVE  TypeOK'
<1> USE DEF TypeOK
<1>1. CASE ReadReset(r)
  <2> USE <1>1 DEF ReadReset
  <2>1. PICK ok \in BOOLEAN : Reads(r, Message("reset", 0, ok))
    OBVIOUS
  <2>2. ReaderType'
    BY WillPostType DEF WillPost, States, Gets
  <2>3. ChanType'
    BY SameType
  <2> QED
    BY <2>1, <2>2, <2>3, ReadsType DEF WireType, DataType, RestType
<1>2. CASE ReadGet(r)
  <2> USE <1>2 DEF ReadGet
  <2>1. PICK g \in Gets, ok \in BOOLEAN :
          /\ Reads(r, Message(g, 0, ok))
          /\ IF ok /\ lastTx = None
                THEN panicked' = TRUE /\ UNCHANGED reader
                ELSE /\ WillPost(r, IF ok /\ lastTx = g THEN NextGet(g) ELSE "disabled")
                     /\ UNCHANGED panicked
    OBVIOUS
  <2>2. NextGet(g) \in States /\ "disabled" \in States
    BY NextGetIsState DEF States
  <2>3. ReaderType'
    BY <2>1, <2>2, WillPostType, SameType DEF WillPost
  <2>4. ChanType'
    BY SameType
  <2>5. panicked' \in BOOLEAN
    BY <2>1 DEF RestType
  <2> QED
    BY <2>1, <2>3, <2>4, <2>5, ReadsType DEF WireType, DataType, RestType
<1>3. CASE ReadUpload(r)
  <2> USE <1>3 DEF ReadUpload
  <2>1. PICK n \in Mes \cup {0} :
          /\ Reads(r, Message("upload", n, TRUE))
          /\ noOfCmds' = n
          /\ IF seqNo < n THEN SendMibUploadNext /\ UNCHANGED reader
             ELSE WillPost(r, "starting") /\ UNCHANGED <<seqNo, open>>
    OBVIOUS
  <2>2. n \in 0 .. Cmds
    BY MibAssumption DEF Mes
  <2>3. ReaderType'
    BY <2>1, WillPostType, SameType DEF WillPost, States
  <2>4. seqNo' \in 0 .. Cmds /\ open' \subseteq Requests
    <3>1. CASE seqNo < n
      <4>1. seqNo + 1 \in Mes
        BY <2>2, <3>1, MibAssumption DEF ChanType, Mes
      <4>2. Request("next", seqNo + 1) \in Requests
        BY <4>1 DEF Requests
      <4>3. seqNo' \in 0 .. Cmds
        BY <2>1, <3>1, <4>1, MibAssumption DEF SendMibUploadNext, Mes
      <4> QED
        BY <2>1, <3>1, <4>2, <4>3 DEF SendMibUploadNext, WireType
    <3>2. CASE ~(seqNo < n)
      BY <2>1, <3>2 DEF ChanType, WireType
    <3> QED
      BY <3>1, <3>2
  <2>5. ChanType'
    BY <2>1, <2>2, <2>4 DEF ChanType
  <2> QED
    BY <2>1, <2>3, <2>4, <2>5, ReadsType DEF WireType, DataType, RestType
<1>4. CASE ReadUploadNext(r)
  <2> USE <1>4 DEF ReadUploadNext
  <2>1. PICK e \in Mes : Reads(r, Message("next", e, TRUE)) /\ db' = PutMe(e)
    OBVIOUS
  <2>2. DataType'
    BY <2>1, PutMeIsStored, ReadsType DEF DataType
  <2>3. ReaderType'
    BY WillPostType, SameType DEF WillPost
  <2>4. seqNo' \in 0 .. Cmds /\ open' \subseteq Requests
    BY UploadNextType DEF ChanType, WireType
  <2>5. ChanType'
    BY <2>4 DEF ChanType
  <2> QED
    BY <2>1, <2>2, <2>3, <2>4, <2>5, ReadsType DEF WireType, RestType
<1>5. CASE ReadLoaded(r)
  <2> USE <1>5 DEF ReadLoaded
  <2>1. PICK ok \in BOOLEAN : Reads(r, Message("loaded", 0, ok))
    OBVIOUS
  <2>2. ReaderType'
    BY WillPostType DEF WillPost, States
  <2>3. ChanType'
    BY SameType
  <2> QED
    BY <2>1, <2>2, <2>3, ReadsType DEF WireType, DataType, RestType
<1> QED
  BY <1>1, <1>2, <1>3, <1>4, <1>5

LEMMA PersistType == ASSUME TypeOK, NEW r \in Readers, PersistTemplate(r) PROVE TypeOK'
<1> USE DEF TypeOK, PersistTemplate
<1>1. ReaderType'
  BY WillPostType DEF WillPost, States
<1>2. DataType'
  BY DEF DataType
<1>3. faults' \in Nat
  BY FaultType
<1>4. RestType'
  BY <1>3 DEF RestType
<1> QED
  BY <1>1, <1>2, <1>4, SameType

\* The search for a template.
LEMMA TemplateType ==
  ASSUME TypeOK, NEW r \in Readers, LoadTemplate(r) \/ TellLoaded(r)
  PROVE  TypeOK'
<1> USE DEF TypeOK
<1>1. CASE LoadTemplate(r)
  <2> USE <1>1 DEF LoadTemplate
  <2>1. ReaderType'
    BY WillPostType
  <2>2. FromTemplate \subseteq Stored
    BY DEF DataType, FromTemplate
  <2>3. DataType'
    BY <2>2 DEF DataType
  <2>4. faults' \in Nat
    BY FaultType
  <2>5. RestType'
    BY <2>4 DEF RestType
  <2> QED
    BY <2>1, <2>3, <2>5, SameType
<1>2. CASE TellLoaded(r)
  <2> USE <1>2 DEF TellLoaded
  <2>1. ReaderType'
    BY WillPostType DEF GoesOn
  <2>2. Message("loaded", 0, fsmMsg) \in Responses
    BY DEF DataType, Responses
  <2>3. WireType'
    BY <2>2 DEF WireType
  <2>4. FsmType'
    BY DEF FsmType
  <2> QED
    BY <2>1, <2>3, <2>4, SameType
<1> QED
  BY <1>1, <1>2

\* What an event leaves as it is, and the state it leads to.
LEMMA PostsType ==
  ASSUME TypeOK, NEW r \in Readers, NEW to \in States, Posts(r, to)
  PROVE  /\ state' \in States /\ TaskType' /\ RestType'
         /\ commChan' \in Seq(Responses) /\ lastTx' \in Gets \cup {None}
         /\ template' \subseteq Stored /\ fsmMsg' \in BOOLEAN
<1>1. TaskType' /\ RestType'
  BY SameType DEF Posts, TypeOK
<1> QED
  BY <1>1 DEF Posts, TypeOK, WireType, ChanType, DataType

LEMMA PostType ==
  ASSUME TypeOK, NEW r \in Readers,
         \/ PostRefused(r) \/ PostGet(r) \/ RecordGet(r) \/ PostTemplate(r)
         \/ PostUpload(r) \/ PostSuccess(r) \/ PostStop(r) \/ PostTimeout(r)
  PROVE  TypeOK'
<1> USE DEF TypeOK
<1>1. CASE PostRefused(r)
  <2>1. ReaderType'
    BY <1>1, WillPostType DEF PostRefused, GoesOn
  <2> QED
    BY <1>1, <2>1, SameType DEF PostRefused
<1>2. CASE PostGet(r)
  <2> USE <1>2 DEF PostGet
  <2>1. PICK g \in Gets : Posts(r, g) /\ open' = open \cup {Request(g, 0)}
    OBVIOUS
  <2>2. g \in States
    BY DEF States
  <2>3. ReaderType'
    BY WillPostType
  <2>4. open' \subseteq Requests
    BY <2>1 DEF WireType, Requests
  <2> QED
    BY <2>1, <2>2, <2>3, <2>4, PostsType DEF FsmType, ChanType, WireType, DataType
<1>3. CASE RecordGet(r)
  <2> USE <1>3 DEF RecordGet
  <2>1. ReaderType'
    BY WillPostType DEF GoesOn
  <2>2. FsmType' /\ ChanType'
    BY DEF FsmType, ChanType
  <2> QED
    BY <2>1, <2>2, SameType
<1>4. CASE PostTemplate(r)
  <2> USE <1>4 DEF PostTemplate
  <2>1. ReaderType'
    BY WillPostType
  <2>2. "gettingMibTemplate" \in States
    BY DEF States
  <2> QED
    BY <2>1, <2>2, PostsType DEF FsmType, ChanType, WireType, DataType
<1>5. CASE PostUpload(r)
  <2> USE <1>5 DEF PostUpload
  <2>1. ReaderType'
    BY WillPostType DEF GoesOn
  <2>2. "uploading" \in States
    BY DEF States
  <2>3. open' \subseteq Requests
    BY DEF WireType, Requests
  <2>4. seqNo' \in 0 .. Cmds /\ noOfCmds' \in 0 .. Cmds
    BY MibAssumption
  <2> QED
    BY <2>1, <2>2, <2>3, <2>4, PostsType DEF FsmType, ChanType, WireType, DataType
<1>6. CASE PostSuccess(r)
  <2> USE <1>6 DEF PostSuccess
  <2>1. ReaderType'
    BY WillPostType DEF GoesOn
  <2>2. "inSync" \in States
    BY DEF States
  <2> QED
    BY <2>1, <2>2, PostsType DEF FsmType, ChanType, WireType, DataType
<1>7. CASE PostStop(r)
  <2> USE <1>7 DEF PostStop
  <2>1. ReaderType'
    BY WillPostType DEF GoesOn
  <2>2. "disabled" \in States
    BY DEF States
  <2> QED
    BY <2>1, <2>2, PostsType DEF FsmType, ChanType, WireType, DataType
<1>8. CASE PostTimeout(r)
  <2> USE <1>8 DEF PostTimeout
  <2>1. ReaderType'
    BY DEF ReaderType
  <2>2. "starting" \in States
    BY DEF States
  <2> QED
    BY <2>1, <2>2, PostsType DEF FsmType, ChanType, WireType, DataType
<1> QED
  BY <1>1, <1>2, <1>3, <1>4, <1>5, <1>6, <1>7, <1>8

LEMMA NextType == TypeOK /\ [Next]_vars => TypeOK'
<1> SUFFICES ASSUME TypeOK, [Next]_vars PROVE TypeOK'
  OBVIOUS
<1>1. CASE \E u \in Ups : UpReplacesChannel(u) \/ UpGoesOn(u)
  BY <1>1, IndicationType
<1>2. CASE DownStops \/ OtherOnuLoads
  BY <1>2, StopType, OthersType
<1>3. CASE \E q \in open : Answer(q)
  BY <1>3, AnswerType
<1>4. CASE \E r \in Readers : Handles(r)
  <2>1. PICK r \in Readers : Handles(r)
    BY <1>4
  <2> QED
    BY <2>1, ReadType, PersistType, TemplateType, PostType DEF Handles
<1>5. CASE UNCHANGED vars
  BY <1>5, SameType DEF vars, TypeOK
<1> QED
  BY <1>1, <1>2, <1>3, <1>4, <1>5 DEF Next

(* mib_sync.go: the fields, channels and goroutines of the machine hold    *)
(* what TypeOK says, however many indications and faults there are.        *)
THEOREM TypeCorrect == Spec => []TypeOK
<1>1. Init => TypeOK
  BY InitType
<1>2. TypeOK /\ [Next]_vars => TypeOK'
  BY NextType
<1> QED
  BY <1>1, <1>2, PTL DEF Spec

-----------------------------------------------------------------------------
(* The machine of the device handler.                                      *)

\* What the device handler sees of the machine.
Phase == IF state \in Gets \cup {"starting", "resettingMib"} THEN "getting"
         ELSE IF state = "gettingMibTemplate" THEN "template" ELSE state

\* An event of the table is a step of that machine, or none.
LEMMA TransitionIsStep ==
  ASSUME NEW to \in States, state \in Sources(to), state' = to
  PROVE  [Machine!Next]_Phase
<1> USE DEF Phase, Machine!Next, Machine!Go
<1>1. CASE to \in Gets \cup {"resettingMib"}
  <2>1. state \in Gets \cup {"starting", "resettingMib"}
    BY <1>1 DEF Sources, NextGet, States, Gets
  <2> QED
    BY <1>1, <2>1 DEF Gets
<1>2. CASE to = "gettingMibTemplate"
  <2>1. state \in Gets
    BY <1>2 DEF Sources, NextGet, Gets
  <2> QED
    BY <1>2, <2>1 DEF Machine!Template, Gets
<1>3. CASE to = "uploading"
  <2>1. state = "gettingMibTemplate"
    BY <1>3 DEF Sources, NextGet, Gets
  <2> QED
    BY <1>3, <2>1 DEF Machine!Upload, Gets
<1>4. CASE to = "inSync"
  <2>1. state \in {"gettingMibTemplate", "uploading"}
    BY <1>4 DEF Sources, NextGet, Gets
  <2> QED
    BY <1>4, <2>1 DEF Machine!Sync, Gets
<1>5. CASE to = "starting"
  <2>1. state \in States \ {"disabled", "starting"}
    BY <1>5 DEF Sources, NextGet, Gets
  <2> QED
    BY <1>5, <2>1 DEF Machine!Retreat, Gets, States
<1>6. CASE to = "disabled"
  BY <1>6 DEF Machine!Stop, Gets
<1> QED
  BY <1>1, <1>2, <1>3, <1>4, <1>5, <1>6 DEF States

LEMMA SameStateIsStutter == UNCHANGED state => UNCHANGED Phase
  BY DEF Phase

LEMMA StepIsStep == ASSUME [Next]_vars PROVE [Machine!Next]_Phase
<1>1. ASSUME NEW u \in Ups, UpReplacesChannel(u) \/ UpGoesOn(u) PROVE [Machine!Next]_Phase
  <2>1. CASE UpStarts(u)
    BY <2>1 DEF UpStarts, Phase, Gets, Machine!Next, Machine!Start, Machine!Go
  <2>2. CASE UpResetsMib(u)
    <3>1. CASE state \in Sources("resettingMib")
      BY <2>2, <3>1, TransitionIsStep DEF UpResetsMib, States
    <3>2. CASE state \notin Sources("resettingMib")
      BY <2>2, <3>2, SameStateIsStutter DEF UpResetsMib
    <3> QED
      BY <3>1, <3>2
  <2>3. CASE UpReplacesChannel(u) \/ UpIsRefused(u)
    BY <2>3, SameStateIsStutter DEF UpReplacesChannel, UpIsRefused, fsmVars
  <2> QED
    BY <1>1, <2>1, <2>2, <2>3 DEF UpGoesOn
<1>2. CASE DownStops
  BY <1>2, TransitionIsStep DEF DownStops, States
<1>3. CASE OtherOnuLoads \/ \E q \in open : Answer(q)
  BY <1>3, SameStateIsStutter DEF OtherOnuLoads, Answer, fsmVars
<1>4. ASSUME NEW r \in Readers, Handles(r) PROVE [Machine!Next]_Phase
  <2>1. CASE ReadReset(r) \/ ReadGet(r) \/ ReadUpload(r) \/ ReadUploadNext(r) \/ ReadLoaded(r)
    <3>1. UNCHANGED state
      BY <2>1 DEF ReadReset, ReadGet, ReadUpload, ReadUploadNext, ReadLoaded, Reads, fsmVars
    <3> QED
      BY <3>1, SameStateIsStutter
  <2>2. CASE \/ PersistTemplate(r) \/ PostRefused(r) \/ RecordGet(r)
             \/ LoadTemplate(r) \/ TellLoaded(r)
    BY <2>2, SameStateIsStutter
       DEF PersistTemplate, PostRefused, RecordGet, LoadTemplate, TellLoaded, fsmVars
  <2>3. ASSUME NEW to \in States, Posts(r, to) PROVE [Machine!Next]_Phase
    BY <2>3, TransitionIsStep DEF Posts
  <2>4. CASE \/ PostGet(r) \/ PostTemplate(r) \/ PostUpload(r) \/ PostSuccess(r)
             \/ PostStop(r) \/ PostTimeout(r)
    BY <2>3, <2>4
       DEF PostGet, PostTemplate, PostUpload, PostSuccess, PostStop, PostTimeout, States
  <2> QED
    BY <1>4, <2>1, <2>2, <2>4 DEF Handles
<1>5. CASE UNCHANGED vars
  BY <1>5, SameStateIsStutter DEF vars, fsmVars
<1> QED
  BY <1>1, <1>2, <1>3, <1>4, <1>5 DEF Next

(* createInterface, updateInterface and enterInSyncState (device_handler.go *)
(* and mib_sync.go): whatever readers and indications do, the machine goes  *)
(* through its stages as DeviceHandler expects it to.                       *)
THEOREM ImplementsUploadMachine == Spec => ImplementsMachine
<1>1. Init => Machine!Init
  BY DEF Init, Machine!Init, Gets
<1>2. [Next]_vars => [Machine!Next]_Phase
  BY StepIsStep
<1> QED
  BY <1>1, <1>2, PTL DEF Spec, ImplementsMachine, Machine!Spec, Phase

-----------------------------------------------------------------------------
(***************************************************************************)
(* What is under way.  Unless runs are mixed, it is one thing at a time: a *)
(* request, its response, or a reader that has taken that; only while an   *)
(* entry callback has sent a request and not yet recorded it, its response *)
(* may already be with another reader.                                     *)
(***************************************************************************)
Free(r) == reader[r] \in {"off", "read"}
Clear == open = {} /\ commChan = << >>

WireInv ==
    \/ Clear
    \/ commChan = << >> /\ \E q \in Requests : open = {q}
    \/ open = {} /\ \E m \in Responses : commChan = <<m>>

AloneInv ==
    /\ \A r \in Readers : Clear \/ Free(r) \/ r = callback
    /\ \A r, s \in Readers : r = s \/ Free(r) \/ Free(s) \/ r = callback \/ s = callback

CallbackInv ==
    /\ \A r \in Readers : reader[r] \in {"callback", "tell"} <=> r = callback
    /\ callback # 0 => \/ state \in Gets
                       \/ /\ state = "gettingMibTemplate" /\ Clear
                          /\ \A r \in Readers : Free(r) \/ r = callback
    /\ \A r \in Readers : reader[r] = "tell" => state = "gettingMibTemplate"

RestInv == state \in {"starting", "inSync"} => Clear /\ \A r \in Readers : Free(r)

\* The database has what is taken from it, as far as this ONU is concerned.
Whole == others = 0 => Supported \subseteq db

DataInv ==
    /\ template \in {{}, Stored}
    /\ \A r \in Readers : /\ reader[r] = "persist" => db = Stored
                          /\ reader[r] = "inSync" => Whole
                          /\ reader[r] = "tell" /\ fsmMsg => Whole
    /\ state = "inSync" => Whole

\* What a request or response says of the upload so far.
ItemInv(m) ==
    /\ m.kind = "upload" => seqNo = 0
    /\ m.kind = "next" => /\ m.arg = seqNo /\ noOfCmds = Cmds
                          /\ \A e \in Stored : e < seqNo => e \in db
    /\ m.kind = "loaded" /\ m.ok => Whole
    /\ m.kind \in Gets /\ callback = 0 => lastTx # None

ItemsInv ==
    /\ \A q \in open : ItemInv(q)
    /\ \A i \in DOMAIN commChan : ItemInv(commChan[i])

FlowInv == WireInv /\ AloneInv /\ CallbackInv /\ RestInv /\ DataInv /\ ItemsInv
OneThing == ~mixed => FlowInv

\* Nothing is under way.
LEMMA QuietFlow ==
  ASSUME TypeOK', Clear', \A r \in Readers : Free(r)', callback' = 0,
         template' \in {{}, Stored}, (state = "inSync" => Whole)'
  PROVE  FlowInv'
<1>1. WireInv' /\ AloneInv' /\ RestInv'
  BY DEF WireInv, AloneInv, RestInv
<1>2. \A r \in Readers : reader'[r] \in {"off", "read"} /\ r # 0
  BY DEF Free, Readers
<1>3. CallbackInv'
  BY <1>2 DEF CallbackInv
<1>4. DataInv'
  BY <1>2 DEF DataInv
<1>5. ItemsInv'
  BY DEF ItemsInv, Clear
<1> QED
  BY <1>1, <1>3, <1>4, <1>5 DEF FlowInv

\* A request or a response is under way.
LEMMA AskedFlow ==
  ASSUME TypeOK', WireInv', ItemsInv', \A r \in Readers : Free(r)', callback' = 0,
         template' \in {{}, Stored}, state' \notin {"starting", "inSync"}
  PROVE  FlowInv'
<1>1. AloneInv' /\ RestInv'
  BY DEF AloneInv, RestInv
<1>2. \A r \in Readers : reader'[r] \in {"off", "read"} /\ r # 0
  BY DEF Free, Readers
<1>3. CallbackInv'
  BY <1>2 DEF CallbackInv
<1>4. DataInv'
  BY <1>2 DEF DataInv
<1> QED
  BY <1>1, <1>3, <1>4 DEF FlowInv

\* If all readers are free, no callback runs.
LEMMA FreeIsIdle ==
  ASSUME TypeOK, CallbackInv, \A r \in Readers : Free(r)
  PROVE  callback = 0
  BY DEF TypeOK, FsmType, CallbackInv, Free

\* Nothing of all that changes.
LEMMA SameFlow ==
  ASSUME FlowInv, UNCHANGED <<fsmVars, reader, chanVars, wireVars, dataVars, others>>
  PROVE  FlowInv'
<1> USE DEF fsmVars, chanVars, wireVars, dataVars
<1>1. WireInv' /\ AloneInv' /\ CallbackInv' /\ RestInv'
  BY DEF FlowInv, WireInv, AloneInv, CallbackInv, RestInv, Clear, Free
<1>2. DataInv' /\ ItemsInv'
  BY DEF FlowInv, DataInv, ItemsInv, ItemInv, Whole
<1> QED
  BY <1>1, <1>2 DEF FlowInv

\* Indications.
LEMMA IndicationFlow ==
  ASSUME TypeOK, TypeOK', OneThing, NEW u \in Ups, UpReplacesChannel(u) \/ UpGoesOn(u)
  PROVE  OneThing'
<1> SUFFICES ASSUME ~mixed' PROVE FlowInv'
  BY DEF OneThing
<1>1. CASE UpReplacesChannel(u)
  <2>1. ~mixed /\ state = "disabled" /\ ~Busy
    BY <1>1 DEF UpReplacesChannel, TypeOK, RestType
  <2>2. FlowInv
    BY <2>1 DEF OneThing
  <2>3. commChan = << >> /\ \A r \in Readers : Free(r)
    BY <2>1 DEF Busy, Free
  <2>4. callback = 0
    BY <2>2, <2>3, FreeIsIdle DEF FlowInv
  <2>5. Clear' /\ \A r \in Readers : Free(r)'
    BY <1>1, <2>3 DEF UpReplacesChannel, Clear, Free
  <2>6. callback' = 0 /\ template' \in {{}, Stored} /\ (state = "inSync" => Whole)'
    BY <1>1, <2>1, <2>2, <2>4 DEF UpReplacesChannel, FlowInv, DataInv, fsmVars, dataVars
  <2> QED
    BY <2>5, <2>6, QuietFlow
<1>2. CASE UpStarts(u)
  <2>1. ~mixed /\ open = {} /\ ~Busy
    BY <1>2 DEF UpStarts, TypeOK, RestType
  <2>2. FlowInv
    BY <2>1 DEF OneThing
  <2>3. commChan = << >> /\ \A r \in Readers : Free(r)
    BY <2>1 DEF Busy, Free
  <2>4. callback = 0
    BY <2>2, <2>3, FreeIsIdle DEF FlowInv
  <2>5. Clear'
    BY <1>2, <2>1, <2>3 DEF UpStarts, Clear, wireVars
  <2>6. \A r \in Readers : Free(r)'
    BY <1>2, <2>3 DEF UpStarts, Free, TypeOK, ReaderType
  <2>7. callback' = 0 /\ template' \in {{}, Stored} /\ (state = "inSync" => Whole)'
    BY <1>2, <2>2, <2>4 DEF UpStarts, FlowInv, DataInv
  <2> QED
    BY <2>5, <2>6, <2>7, QuietFlow
<1>3. CASE UpIsRefused(u)
  BY <1>3, SameFlow DEF UpIsRefused, OneThing, restVars
<1>4. CASE UpResetsMib(u)
  <2>1. FlowInv
    BY <1>4 DEF UpResetsMib, OneThing, restVars
  <2>2. CASE state \notin Sources("resettingMib")
    BY <1>4, <2>1, <2>2, SameFlow DEF UpResetsMib, fsmVars, wireVars, restVars
  <2>3. CASE state \in Sources("resettingMib")
    <3>1. state = "starting" /\ state' = "resettingMib"
      BY <1>4, <2>3 DEF UpResetsMib, Sources, NextGet, Gets
    <3>2. Clear /\ \A r \in Readers : Free(r)
      BY <2>1, <3>1 DEF FlowInv, RestInv
    <3>3. open' = {Request("reset", 0)} /\ commChan' = << >>
      BY <1>4, <2>3, <3>2 DEF UpResetsMib, Clear
    <3>4. Request("reset", 0) \in Requests
      BY DEF Requests
    <3>5. WireInv'
      BY <3>3, <3>4 DEF WireInv
    <3>6. ItemsInv'
      BY <3>3 DEF ItemsInv, ItemInv, Request, Message, Gets
    <3>7. \A r \in Readers : Free(r)'
      BY <1>4, <3>2 DEF UpResetsMib, Free
    <3>8. callback' = 0 /\ template' \in {{}, Stored}
      BY <1>4, <2>1 DEF UpResetsMib, FlowInv, DataInv, dataVars
    <3> QED
      BY <3>1, <3>5, <3>6, <3>7, <3>8, AskedFlow
  <2> QED
    BY <2>2, <2>3
<1> QED
  BY <1>1, <1>2, <1>3, <1>4 DEF UpGoesOn

LEMMA StopFlow == ASSUME TypeOK, OneThing, DownStops PROVE OneThing'
<1> SUFFICES ASSUME ~mixed' PROVE FlowInv'
  BY DEF OneThing
<1> USE DEF DownStops
<1>1. FlowInv
  BY DEF OneThing, restVars
<1>2. WireInv' /\ AloneInv' /\ RestInv'
  BY <1>1 DEF FlowInv, WireInv, AloneInv, RestInv, Clear, Free, wireVars
<1>3. CallbackInv'
  BY <1>1 DEF FlowInv, CallbackInv, Readers
<1>4. DataInv' /\ ItemsInv'
  BY <1>1 DEF FlowInv, DataInv, ItemsInv, ItemInv, Whole, chanVars, wireVars, dataVars, restVars
<1> QED
  BY <1>2, <1>3, <1>4 DEF FlowInv

LEMMA OthersFlow == ASSUME TypeOK, OneThing, OtherOnuLoads PROVE OneThing'
<1> SUFFICES ASSUME ~mixed' PROVE FlowInv'
  BY DEF OneThing
<1> USE DEF OtherOnuLoads
<1>1. FlowInv
  BY DEF OneThing
<1>2. WireInv' /\ AloneInv' /\ RestInv'
  BY <1>1 DEF FlowInv, WireInv, AloneInv, RestInv, Clear, Free, wireVars, fsmVars
<1>3. CallbackInv'
  BY <1>1 DEF FlowInv, CallbackInv, Clear, Free, wireVars, fsmVars
<1>4. Whole'
  BY DEF Whole, TypeOK, RestType
<1>5. DataInv'
  BY <1>1, <1>4 DEF FlowInv, DataInv
<1>6. ItemsInv'
  BY <1>1, <1>4 DEF FlowInv, ItemsInv, ItemInv, chanVars, wireVars, fsmVars
<1> QED
  BY <1>2, <1>3, <1>5, <1>6 DEF FlowInv

LEMMA AnswerFlow == ASSUME TypeOK, TypeOK', OneThing, NEW q \in open, Answer(q) PROVE OneThing'
<1> SUFFICES ASSUME ~mixed' PROVE FlowInv'
  BY DEF OneThing
<1>1. FlowInv
  BY DEF Answer, OneThing
<1>2. commChan = << >> /\ open = {q} /\ q \in Requests
  BY <1>1 DEF FlowInv, WireInv, Clear, TypeOK, WireType
<1>3. PICK m \in {q, Message(q.kind, q.arg, FALSE), Request(q.kind, 0)} :
        /\ m.arg = q.arg \/ q.kind = "upload"
        /\ commChan' = Append(commChan, m)
  BY DEF Answer
<1>4. commChan' = <<m>> /\ open' = {}
  BY <1>2, <1>3 DEF Answer
<1>5. m \in Responses
  <2>1. commChan'[1] = m /\ 1 \in DOMAIN commChan'
    BY <1>4
  <2> QED
    BY <2>1 DEF TypeOK, WireType
<1>6. WireInv'
  BY <1>4, <1>5 DEF WireInv
<1>7. ~Clear
  BY <1>2 DEF Clear
<1>8. AloneInv'
  BY <1>1, <1>7 DEF FlowInv, AloneInv, Answer, Free, fsmVars
<1>9. CallbackInv' /\ RestInv'
  BY <1>1, <1>7 DEF FlowInv, CallbackInv, RestInv, Answer, fsmVars
<1>10. DataInv'
  BY <1>1 DEF FlowInv, DataInv, Answer, fsmVars, dataVars, Whole
<1>11. ItemInv(q)
  BY <1>1 DEF FlowInv, ItemsInv
<1>12. q.kind # "loaded"
  BY <1>2 DEF Requests, Request, Message, Gets
<1>13. m.kind = q.kind /\ (m.arg = q.arg \/ m.kind = "upload")
  BY <1>3 DEF Request, Message
<1>14. ItemInv(m)'
  BY <1>11, <1>12, <1>13 DEF ItemInv, Answer, chanVars, dataVars, fsmVars
<1>15. ItemsInv'
  BY <1>4, <1>14 DEF ItemsInv
<1> QED
  BY <1>6, <1>8, <1>9, <1>10, <1>15 DEF FlowInv

\* A response is taken: it was the only thing under way, but for a callback.
LEMMA ReadsFlow ==
  ASSUME TypeOK, OneThing, NEW r \in Readers, NEW m, Reads(r, m), ~mixed'
  PROVE  /\ FlowInv /\ ItemInv(m) /\ m \in Responses
         /\ open = {} /\ commChan' = << >> /\ r # callback
         /\ \A s \in Readers : Free(s) \/ s = callback
         /\ callback # 0 => state \in Gets
         /\ state \notin {"starting", "inSync"}
<1>1. FlowInv
  BY DEF Reads, OneThing
<1>2. PICK k \in Responses : open = {} /\ commChan = <<k>>
  BY <1>1 DEF Reads, FlowInv, WireInv, Clear
<1>3. m = k /\ commChan' = << >>
  BY <1>2 DEF Reads
<1>4. ItemInv(m)
  <2>1. commChan[1] = m /\ 1 \in DOMAIN commChan
    BY <1>2, <1>3
  <2> QED
    BY <1>1, <2>1 DEF FlowInv, ItemsInv
<1>5. ~Clear
  BY DEF Reads, Clear
<1>6. r # callback
  BY <1>1 DEF Reads, FlowInv, CallbackInv
<1>7. \A s \in Readers : Free(s) \/ s = callback
  BY <1>1, <1>5 DEF FlowInv, AloneInv
<1>8. (callback # 0 => state \in Gets) /\ state \notin {"starting", "inSync"}
  BY <1>1, <1>5 DEF FlowInv, CallbackInv, RestInv
<1> QED
  BY <1>1, <1>2, <1>3, <1>4, <1>6, <1>7, <1>8

\* The reader has something to do.
LEMMA ReadThenBusy ==
  ASSUME TypeOK, OneThing, NEW r \in Readers, NEW m, Reads(r, m), ~mixed',
         NEW to \in States \cup {"persist"}, WillPost(r, to), UNCHANGED open,
         to = "persist" => db' = Stored, to = "inSync" => Whole'
  PROVE  FlowInv'
<1>1. /\ FlowInv /\ open = {} /\ commChan' = << >> /\ r # callback
      /\ \A s \in Readers : Free(s) \/ s = callback
      /\ callback # 0 => state \in Gets
      /\ state \notin {"starting", "inSync"}
  BY ReadsFlow
<1>2. Clear' /\ state' = state /\ callback' = callback
  BY <1>1 DEF Clear, Reads, fsmVars
<1>3. reader'[r] = to /\ \A s \in Readers \ {r} : reader'[s] = reader[s]
  BY DEF WillPost, TypeOK, ReaderType
<1>4. to \notin {"callback", "tell"}
  BY DEF States, Gets
<1>5. WireInv'
  BY <1>2 DEF WireInv
<1>6. AloneInv'
  BY <1>1, <1>2, <1>3 DEF AloneInv, Free
<1>7. CallbackInv'
  BY <1>1, <1>2, <1>3, <1>4 DEF FlowInv, CallbackInv
<1>8. RestInv'
  BY <1>1, <1>2 DEF RestInv
<1>9. \A s \in Readers \ {r} : reader'[s] \in {"off", "read", "callback"}
  <2> SUFFICES ASSUME NEW s \in Readers \ {r} PROVE reader[s] \in {"off", "read", "callback"}
    BY <1>3
  <2>1. CASE Free(s)
    BY <2>1 DEF Free
  <2>2. CASE s = callback
    <3>1. state \in Gets
      BY <1>1, <2>2 DEF Readers
    <3> QED
      BY <1>1, <2>2, <3>1 DEF FlowInv, CallbackInv, Gets
  <2> QED
    BY <1>1, <2>1, <2>2
<1>10. template' \in {{}, Stored}
  BY <1>1 DEF FlowInv, DataInv, Reads
<1>11. DataInv'
  BY <1>1, <1>2, <1>3, <1>4, <1>9, <1>10 DEF DataInv
<1>12. ItemsInv'
  BY <1>2 DEF ItemsInv, Clear
<1> QED
  BY <1>5, <1>6, <1>7, <1>8, <1>11, <1>12 DEF FlowInv

\* The readers stay as they are, and one request is under way, or none.
LEMMA ReadThenAsked ==
  ASSUME TypeOK, OneThing, NEW r \in Readers, NEW m, Reads(r, m), ~mixed',
         UNCHANGED reader, open' = {} \/ \E q \in Requests : open' = {q} /\ ItemInv(q)'
  PROVE  FlowInv'
<1>1. /\ FlowInv /\ open = {} /\ commChan' = << >> /\ r # callback
      /\ \A s \in Readers : Free(s) \/ s = callback
      /\ callback # 0 => state \in Gets
      /\ state \notin {"starting", "inSync"}
  BY ReadsFlow
<1>2. state' = state /\ callback' = callback
  BY DEF Reads, fsmVars
<1>3. WireInv'
  BY <1>1 DEF WireInv, Clear
<1>4. AloneInv' /\ RestInv'
  BY <1>1, <1>2 DEF AloneInv, RestInv, Free
<1>5. CallbackInv'
  BY <1>1, <1>2 DEF FlowInv, CallbackInv
<1>6. \A s \in Readers : reader'[s] \in {"off", "read", "callback"}
  <2> SUFFICES ASSUME NEW s \in Readers PROVE reader[s] \in {"off", "read", "callback"}
    OBVIOUS
  <2>1. CASE Free(s)
    BY <2>1 DEF Free
  <2>2. CASE s = callback
    <3>1. state \in Gets
      BY <1>1, <2>2 DEF Readers
    <3> QED
      BY <1>1, <2>2, <3>1 DEF FlowInv, CallbackInv, Gets
  <2> QED
    BY <1>1, <2>1, <2>2
<1>7. template' \in {{}, Stored}
  BY <1>1 DEF FlowInv, DataInv, Reads
<1>8. DataInv'
  BY <1>1, <1>2, <1>6, <1>7 DEF DataInv
<1>9. ItemsInv'
  BY <1>1 DEF ItemsInv
<1> QED
  BY <1>3, <1>4, <1>5, <1>8, <1>9 DEF FlowInv

\* The request for the entity after the first seqNo.
LEMMA NextIsAsked ==
  ASSUME TypeOK, SendMibUploadNext, open = {}, seqNo < Cmds, noOfCmds' = Cmds,
         \A e \in Stored : e < seqNo + 1 => e \in db'
  PROVE  \E q \in Requests : open' = {q} /\ ItemInv(q)'
<1>1. seqNo + 1 \in Mes
  BY MibAssumption DEF TypeOK, ChanType, Mes
<1>2. PICK q \in Requests : q = Request("next", seqNo + 1)
  BY <1>1 DEF Requests
<1>3. open' = {q} /\ seqNo' = seqNo + 1
  BY <1>2 DEF SendMibUploadNext
<1>4. q.kind = "next" /\ q.arg = seqNo + 1 /\ "next" \notin Gets
  BY <1>2 DEF Request, Message, Gets
<1>5. ItemInv(q)'
  BY <1>3, <1>4 DEF ItemInv
<1> QED
  BY <1>3, <1>5

LEMMA ReadFlow ==
  ASSUME TypeOK, TypeOK', OneThing, NEW r \in Readers,
         ReadReset(r) \/ ReadGet(r) \/ ReadUpload(r) \/ ReadUploadNext(r) \/ ReadLoaded(r)
  PROVE  OneThing'
<1> SUFFICES ASSUME ~mixed' PROVE FlowInv'
  BY DEF OneThing
<1>1. CASE ReadReset(r)
  <2>1. PICK ok \in BOOLEAN : Reads(r, Message("reset", 0, ok))
    BY <1>1 DEF ReadReset
  <2>2. WillPost(r, "gettingVendorAndSerial") \/ WillPost(r, "disabled")
    BY <1>1 DEF ReadReset
  <2>3. UNCHANGED open
    BY <1>1 DEF ReadReset
  <2>4. {"gettingVendorAndSerial", "disabled"} \subseteq States \ {"inSync", "persist"}
    BY DEF States, Gets
  <2> HIDE DEF WillPost
  <2> QED
    BY <2>1, <2>2, <2>3, <2>4, ReadThenBusy
<1>2. CASE ReadGet(r)
  <2>1. PICK g \in Gets, ok \in BOOLEAN :
          /\ Reads(r, Message(g, 0, ok))
          /\ IF ok /\ lastTx = None
                THEN panicked' = TRUE /\ UNCHANGED reader
                ELSE /\ WillPost(r, IF ok /\ lastTx = g THEN NextGet(g) ELSE "disabled")
                     /\ UNCHANGED panicked
    BY <1>2 DEF ReadGet
  <2>2. UNCHANGED open
    BY <1>2 DEF ReadGet
  <2>3. NextGet(g) \in States \ {"inSync", "persist"} /\ "disabled" \in States
    BY DEF NextGet, Gets, States
  <2>4. CASE UNCHANGED reader
    <3>1. open' = {}
      BY <2>1, <2>2, ReadsFlow
    <3> QED
      BY <2>1, <2>4, <3>1, ReadThenAsked
  <2>5. CASE WillPost(r, NextGet(g))
    BY <2>1, <2>2, <2>3, <2>5, ReadThenBusy
  <2>6. CASE WillPost(r, "disabled")
    BY <2>1, <2>2, <2>3, <2>6, ReadThenBusy
  <2> QED
    BY <2>1, <2>4, <2>5, <2>6
<1>3. CASE ReadUpload(r)
  <2>1. PICK n \in Mes \cup {0} :
          /\ Reads(r, Message("upload", n, TRUE))
          /\ noOfCmds' = n
          /\ IF seqNo < n THEN SendMibUploadNext /\ UNCHANGED reader
             ELSE WillPost(r, "starting") /\ UNCHANGED <<seqNo, open>>
    BY <1>3 DEF ReadUpload
  <2>2. FlowInv /\ ItemInv(Message("upload", n, TRUE)) /\ open = {}
    BY <2>1, ReadsFlow
  <2>3. seqNo = 0
    BY <2>2 DEF ItemInv, Message
  <2>4. CASE seqNo < n
    <3>1. n = Cmds
      <4>1. Message("upload", n, TRUE) \in Responses
        BY <2>1, ReadsFlow
      <4>2. n # 0
        BY <2>3, <2>4
      <4> QED
        BY <4>1, <4>2 DEF Responses, Requests, Request, Message, Gets
    <3>2. \A e \in Stored : e < seqNo + 1 => e \in db'
      BY <2>3 DEF Stored, Mes
    <3>3. SendMibUploadNext /\ UNCHANGED reader
      BY <2>1, <2>4
    <3>4. \E q \in Requests : open' = {q} /\ ItemInv(q)'
      BY <2>1, <2>2, <2>4, <3>1, <3>2, <3>3, NextIsAsked
    <3> QED
      BY <2>1, <3>3, <3>4, ReadThenAsked
  <2>5. CASE ~(seqNo < n)
    <3>1. WillPost(r, "starting") /\ UNCHANGED open /\ "starting" \in States
      BY <2>1, <2>5 DEF States
    <3> QED
      BY <2>1, <3>1, ReadThenBusy
  <2> QED
    BY <2>4, <2>5
<1>4. CASE ReadUploadNext(r)
  <2>1. PICK e \in Mes : Reads(r, Message("next", e, TRUE)) /\ db' = PutMe(e)
    BY <1>4 DEF ReadUploadNext
  <2>2. FlowInv /\ ItemInv(Message("next", e, TRUE)) /\ open = {}
    BY <2>1, ReadsFlow
  <2>3. e = seqNo /\ noOfCmds = Cmds /\ \A f \in Stored : f < seqNo => f \in db
    BY <2>2 DEF ItemInv, Message
  <2>4. \A f \in Stored : f < seqNo + 1 => f \in db'
    <3> SUFFICES ASSUME NEW f \in Stored, f < seqNo + 1 PROVE f \in db'
      OBVIOUS
    <3>1. f < seqNo \/ f = seqNo
      BY MibAssumption DEF Stored, Mes, TypeOK, ChanType
    <3> QED
      BY <2>1, <2>3, <3>1 DEF PutMe, Stored
  <2>5. CASE seqNo < noOfCmds
    <3>1. SendMibUploadNext /\ UNCHANGED reader /\ noOfCmds' = Cmds
      BY <1>4, <2>3, <2>5 DEF ReadUploadNext
    <3>2. \E q \in Requests : open' = {q} /\ ItemInv(q)'
      BY <2>2, <2>3, <2>4, <2>5, <3>1, NextIsAsked
    <3> QED
      BY <2>1, <3>1, <3>2, ReadThenAsked
  <2>6. CASE ~(seqNo < noOfCmds)
    <3>1. WillPost(r, "persist") /\ UNCHANGED open
      BY <1>4, <2>6 DEF ReadUploadNext
    <3>2. \A f \in Stored : f < seqNo + 1
      BY <2>3, <2>6, MibAssumption DEF Stored, Mes, TypeOK, ChanType
    <3>3. db' = Stored
      BY <2>4, <3>2 DEF TypeOK, DataType
    <3> QED
      BY <2>1, <3>1, <3>3, ReadThenBusy
  <2> QED
    BY <2>5, <2>6
<1>5. CASE ReadLoaded(r)
  <2>1. PICK ok \in BOOLEAN :
          /\ Reads(r, Message("loaded", 0, ok))
          /\ WillPost(r, IF ok THEN "inSync" ELSE "uploading")
    BY <1>5 DEF ReadLoaded
  <2>2. ItemInv(Message("loaded", 0, ok))
    BY <2>1, ReadsFlow
  <2>3. ok => Whole
    BY <2>2 DEF ItemInv, Message
  <2>4. ok => Whole'
    BY <1>5, <2>1, <2>3 DEF ReadLoaded, Reads, Whole
  <2>5. UNCHANGED open /\ {"inSync", "uploading"} \subseteq States
    BY <1>5 DEF ReadLoaded, States
  <2>6. CASE ok
    <3>1. WillPost(r, "inSync")
      BY <2>1, <2>6
    <3> QED
      BY <2>1, <2>4, <2>5, <2>6, <3>1, ReadThenBusy
  <2>7. CASE ~ok
    <3>1. WillPost(r, "uploading")
      BY <2>1, <2>7
    <3> QED
      BY <2>1, <2>5, <3>1, ReadThenBusy
  <2> QED
    BY <2>6, <2>7
<1> QED
  BY <1>1, <1>2, <1>3, <1>4, <1>5

LEMMA PersistFlow == ASSUME TypeOK, OneThing, NEW r \in Readers, PersistTemplate(r) PROVE OneThing'
<1> SUFFICES ASSUME ~mixed' PROVE FlowInv'
  BY DEF OneThing
<1> USE DEF PersistTemplate, WillPost
<1>1. FlowInv
  BY DEF OneThing
<1>2. reader'[r] = "inSync" /\ \A s \in Readers \ {r} : reader'[s] = reader[s]
  BY DEF TypeOK, ReaderType
<1>3. ~Free(r) /\ r # callback
  BY <1>1 DEF Free, FlowInv, CallbackInv
<1>4. WireInv' /\ RestInv'
  BY <1>1, <1>3 DEF FlowInv, WireInv, RestInv, Clear, wireVars, fsmVars
<1>5. AloneInv'
  BY <1>1, <1>2, <1>3 DEF FlowInv, AloneInv, Clear, Free, wireVars, fsmVars
<1>6. CallbackInv'
  <2>1. callback # 0 => state \in Gets
    BY <1>1, <1>3 DEF FlowInv, CallbackInv
  <2> QED
    BY <1>1, <1>2, <1>3, <2>1 DEF FlowInv, CallbackInv, fsmVars
<1>7. db = Stored /\ Whole'
  BY <1>1, MibAssumption DEF FlowInv, DataInv, Whole
<1>8. template' \in {{}, Stored}
  BY <1>1, <1>7 DEF FlowInv, DataInv
<1>9. \A s \in Readers : reader'[s] = "tell" => fsmMsg' = fsmMsg /\ reader[s] = "tell"
  BY <1>2
<1>10. DataInv'
  BY <1>1, <1>2, <1>7, <1>8, <1>9 DEF FlowInv, DataInv, fsmVars
<1>11. ItemsInv'
  BY <1>1 DEF FlowInv, ItemsInv, ItemInv, Whole, wireVars, chanVars, fsmVars
<1> QED
  BY <1>4, <1>5, <1>6, <1>10, <1>11 DEF FlowInv

-----------------------------------------------------------------------------
\* A reader that may post an event is the only thing under way.
LEMMA PostsFlow ==
  ASSUME TypeOK, FlowInv, NEW r \in Readers, callback = 0, reader[r] \notin {"off", "read"}
  PROVE  /\ Clear /\ \A s \in Readers \ {r} : Free(s)
         /\ state \notin {"starting", "inSync"}
<1>1. ~Free(r) /\ r # callback
  BY DEF Free, Readers
<1>2. Clear
  BY <1>1 DEF FlowInv, AloneInv
<1>3. \A s \in Readers \ {r} : Free(s)
  BY <1>1 DEF FlowInv, AloneInv, Readers
<1>4. state \notin {"starting", "inSync"}
  BY <1>1 DEF FlowInv, RestInv
<1> QED
  BY <1>2, <1>3, <1>4

\* Then all readers are free.
LEMMA PostsThenFree ==
  ASSUME TypeOK, NEW r \in Readers, \A s \in Readers \ {r} : Free(s), GoesOn(r)
  PROVE  \A s \in Readers : Free(s)'
  BY DEF GoesOn, Free, TypeOK, ReaderType

LEMMA PostFlow ==
  ASSUME TypeOK, TypeOK', OneThing, NEW r \in Readers,
         \/ PostRefused(r) \/ PostUpload(r) \/ PostSuccess(r) \/ PostStop(r) \/ PostTimeout(r)
  PROVE  OneThing'
<1> SUFFICES ASSUME ~mixed' PROVE FlowInv'
  BY DEF OneThing
<1>1. /\ callback = 0 /\ reader[r] \in States /\ callback' = 0
      /\ mixed' = mixed /\ template' = template
  BY DEF PostRefused, PostUpload, PostSuccess, PostStop, PostTimeout, Posts, States, restVars,
         dataVars, fsmVars
<1>2. FlowInv
  BY <1>1 DEF OneThing
<1>3. reader[r] \notin {"off", "read"}
  BY <1>1 DEF States, Gets
<1>4. /\ Clear /\ \A s \in Readers \ {r} : Free(s)
      /\ state \notin {"starting", "inSync"}
  BY <1>1, <1>2, <1>3, PostsFlow
<1>5. template' \in {{}, Stored}
  BY <1>1, <1>2 DEF FlowInv, DataInv
<1>6. CASE PostRefused(r)
  <2>1. Clear' /\ state' = state /\ \A s \in Readers : Free(s)'
    BY <1>4, <1>6, PostsThenFree DEF PostRefused, Clear, wireVars, fsmVars
  <2> QED
    BY <1>1, <1>4, <1>5, <2>1, QuietFlow
<1>7. CASE PostUpload(r)
  <2>1. open' = {Request("upload", Cmds)} /\ commChan' = << >> /\ seqNo' = 0
    BY <1>4, <1>7 DEF PostUpload, Posts, Clear
  <2>2. state' = "uploading" /\ \A s \in Readers : Free(s)'
    BY <1>4, <1>7, PostsThenFree DEF PostUpload, Posts
  <2>3. WireInv'
    BY <2>1 DEF WireInv, Requests
  <2>4. ItemsInv'
    BY <2>1 DEF ItemsInv, ItemInv, Request, Message, Gets
  <2> QED
    BY <1>1, <1>5, <2>2, <2>3, <2>4, AskedFlow
<1>8. CASE PostSuccess(r)
  <2>1. Clear' /\ \A s \in Readers : Free(s)'
    BY <1>4, <1>8, PostsThenFree DEF PostSuccess, Posts, Clear
  <2>2. Whole'
    BY <1>2, <1>8 DEF PostSuccess, Posts, FlowInv, DataInv, Whole, restVars
  <2> QED
    BY <1>1, <1>5, <2>1, <2>2, QuietFlow
<1>9. CASE PostStop(r)
  <2>1. Clear' /\ \A s \in Readers : Free(s)'
    BY <1>4, <1>9, PostsThenFree DEF PostStop, Posts, Clear
  <2>2. state' # "inSync"
    BY <1>9 DEF PostStop, Posts
  <2> QED
    BY <1>1, <1>5, <2>1, <2>2, QuietFlow
<1>10. CASE PostTimeout(r)
  <2>1. Clear' /\ state' # "inSync"
    BY <1>4, <1>10 DEF PostTimeout, Posts, Clear
  <2>2. \A s \in Readers : Free(s)'
    BY <1>4, <1>10 DEF PostTimeout, Free, TypeOK, ReaderType
  <2> QED
    BY <1>1, <1>5, <2>1, <2>2, QuietFlow
<1> QED
  BY <1>6, <1>7, <1>8, <1>9, <1>10

\* The entry callbacks.
LEMMA CallbackFlow ==
  ASSUME TypeOK, TypeOK', OneThing, NEW r \in Readers, PostGet(r) \/ PostTemplate(r)
  PROVE  OneThing'
<1> SUFFICES ASSUME ~mixed' PROVE FlowInv'
  BY DEF OneThing
<1>1. /\ callback = 0 /\ reader[r] \in States /\ callback' = r
      /\ mixed' = mixed /\ template' = template /\ commChan' = commChan
      /\ reader' = [reader EXCEPT ![r] = "callback"]
  BY DEF PostGet, PostTemplate, Posts, States, restVars
<1>2. FlowInv
  BY <1>1 DEF OneThing
<1>3. reader[r] \notin {"off", "read"}
  BY <1>1 DEF States, Gets
<1>4. Clear /\ \A s \in Readers \ {r} : Free(s)
  BY <1>1, <1>2, <1>3, PostsFlow
<1>5. template' \in {{}, Stored}
  BY <1>1, <1>2 DEF FlowInv, DataInv
<1>6. reader'[r] = "callback" /\ \A s \in Readers \ {r} : reader'[s] \in {"off", "read"}
  BY <1>1, <1>4 DEF Free, TypeOK, ReaderType
<1>7. AloneInv'
  BY <1>1, <1>6 DEF AloneInv, Free
<1>8. r # 0
  BY DEF Readers
<1>9. CASE PostGet(r)
  <2>1. PICK g \in Gets : Posts(r, g) /\ open' = open \cup {Request(g, 0)}
    BY <1>9 DEF PostGet
  <2>2. open' = {Request(g, 0)} /\ commChan' = << >> /\ state' = g
    BY <1>1, <1>4, <2>1 DEF Posts, Clear
  <2>3. WireInv'
    BY <2>2 DEF WireInv, Requests
  <2>4. state' \in Gets /\ state' \notin {"starting", "inSync"}
    BY <2>2 DEF Gets
  <2>5. CallbackInv' /\ RestInv'
    BY <1>1, <1>6, <2>4 DEF CallbackInv, RestInv
  <2>6. DataInv'
    BY <1>5, <1>6, <2>4 DEF DataInv
  <2>7. ItemsInv'
    BY <1>1, <1>8, <2>2 DEF ItemsInv, ItemInv, Request, Message, Gets
  <2> QED
    BY <1>7, <2>3, <2>5, <2>6, <2>7 DEF FlowInv
<1>10. CASE PostTemplate(r)
  <2>1. Clear' /\ state' = "gettingMibTemplate"
    BY <1>4, <1>10 DEF PostTemplate, Posts, Clear
  <2>2. WireInv' /\ RestInv'
    BY <2>1 DEF WireInv, RestInv
  <2>3. CallbackInv'
    BY <1>1, <1>6, <2>1 DEF CallbackInv, Free
  <2>4. DataInv'
    BY <1>5, <1>6, <2>1 DEF DataInv
  <2>5. ItemsInv'
    BY <2>1 DEF ItemsInv, Clear
  <2> QED
    BY <1>7, <2>2, <2>3, <2>4, <2>5 DEF FlowInv
<1> QED
  BY <1>9, <1>10

LEMMA RecordFlow ==
  ASSUME TypeOK, OneThing, NEW r \in Readers, RecordGet(r)
  PROVE  OneThing'
<1> SUFFICES ASSUME ~mixed' PROVE FlowInv'
  BY DEF OneThing
<1> USE DEF RecordGet, GoesOn
<1>1. FlowInv
  BY DEF OneThing, restVars
<1>2. reader'[r] = "read" /\ \A s \in Readers \ {r} : reader'[s] = reader[s]
  BY DEF TypeOK, ReaderType
<1>3. WireInv'
  BY <1>1 DEF FlowInv, WireInv, Clear, wireVars
<1>4. AloneInv'
  BY <1>1, <1>2 DEF FlowInv, AloneInv, Clear, Free, wireVars
<1>5. \A s \in Readers : reader'[s] \notin {"callback", "tell"}
  BY <1>1, <1>2 DEF FlowInv, CallbackInv
<1>6. CallbackInv'
  BY <1>5 DEF CallbackInv, Readers
<1>7. state' \in Gets /\ state' \notin {"starting", "inSync"}
  BY DEF Gets
<1>8. RestInv'
  BY <1>7 DEF RestInv
<1>9. DataInv'
  BY <1>1, <1>2, <1>5, <1>7 DEF FlowInv, DataInv, Whole, dataVars, restVars
<1>10. lastTx' # None
  BY DEF Gets, None
<1>11. ItemsInv'
  BY <1>1, <1>10 DEF FlowInv, ItemsInv, ItemInv, Whole, wireVars, dataVars, restVars
<1> QED
  BY <1>3, <1>4, <1>6, <1>8, <1>9, <1>11 DEF FlowInv

\* The search for a template is all that is under way.
LEMMA TemplateFlow ==
  ASSUME TypeOK, TypeOK', OneThing, NEW r \in Readers, LoadTemplate(r) \/ TellLoaded(r)
  PROVE  OneThing'
<1> SUFFICES ASSUME ~mixed' PROVE FlowInv'
  BY DEF OneThing
<1>1. FlowInv
  BY DEF LoadTemplate, TellLoaded, OneThing, restVars
<1>2. reader[r] \in {"callback", "tell"} /\ r # 0
  BY DEF LoadTemplate, TellLoaded, Readers
<1>3. callback = r /\ state = "gettingMibTemplate"
  BY <1>1, <1>2 DEF FlowInv, CallbackInv, LoadTemplate, TellLoaded
<1>4. Clear /\ \A s \in Readers \ {r} : Free(s)
  BY <1>1, <1>2, <1>3 DEF FlowInv, CallbackInv, Gets
<1>5. state' = state /\ template' = template /\ template \in {{}, Stored}
  BY <1>1 DEF LoadTemplate, TellLoaded, FlowInv, DataInv, fsmVars, dataVars
<1>6. CASE LoadTemplate(r)
  <2>1. reader'[r] = "tell" /\ \A s \in Readers \ {r} : reader'[s] \in {"off", "read"}
    BY <1>4, <1>6 DEF LoadTemplate, Free, TypeOK, ReaderType
  <2>2. Clear' /\ callback' = r
    BY <1>3, <1>4, <1>6 DEF LoadTemplate, Clear, wireVars, fsmVars
  <2>3. WireInv' /\ RestInv'
    BY <1>3, <1>5, <2>2 DEF WireInv, RestInv
  <2>4. AloneInv'
    BY <2>1, <2>2 DEF AloneInv, Free
  <2>5. CallbackInv'
    BY <1>3, <1>5, <2>1, <2>2 DEF CallbackInv, Free
  <2>6. fsmMsg' => Supported \subseteq db'
    <3>1. PICK found \in {FromTemplate, {}} :
            db' = db \cup found /\ fsmMsg' = (found # {})
      BY <1>6 DEF LoadTemplate
    <3>2. found # {} => found = template \cap Supported /\ template = Stored
      BY <1>5, <3>1 DEF FromTemplate
    <3> QED
      BY <3>1, <3>2, MibAssumption
  <2>7. DataInv'
    BY <1>3, <1>5, <2>1, <2>6 DEF DataInv, Whole
  <2>8. ItemsInv'
    BY <2>2 DEF ItemsInv, Clear
  <2> QED
    BY <2>3, <2>4, <2>5, <2>7, <2>8 DEF FlowInv
<1>7. CASE TellLoaded(r)
  <2>1. open' = {} /\ commChan' = <<Message("loaded", 0, fsmMsg)>> /\ callback' = 0
    BY <1>4, <1>7 DEF TellLoaded, Clear
  <2>2. \A s \in Readers : Free(s)'
    BY <1>4, <1>7, PostsThenFree DEF TellLoaded
  <2>3. WireInv'
    BY <2>1 DEF WireInv, TypeOK, DataType, Responses
  <2>4. fsmMsg => Whole'
    BY <1>1, <1>7 DEF TellLoaded, FlowInv, DataInv, Whole, dataVars, restVars
  <2>5. PICK m : m = Message("loaded", 0, fsmMsg)
    OBVIOUS
  <2>6. ItemInv(m)'
    BY <2>4, <2>5 DEF ItemInv, Message, Gets
  <2>7. ItemsInv'
    BY <2>1, <2>5, <2>6 DEF ItemsInv
  <2> QED
    BY <1>3, <1>5, <2>1, <2>2, <2>3, <2>7, AskedFlow
<1> QED
  BY <1>6, <1>7

-----------------------------------------------------------------------------
LEMMA InitFlow == Init => OneThing
<1> SUFFICES ASSUME Init PROVE FlowInv
  BY DEF OneThing
<1> USE DEF Init
<1>1. WireInv /\ AloneInv /\ RestInv
  BY DEF WireInv, AloneInv, RestInv, Clear, Free
<1>2. CallbackInv
  BY DEF CallbackInv, Readers
<1>3. DataInv /\ ItemsInv
  BY DEF DataInv, ItemsInv
<1> QED
  BY <1>1, <1>2, <1>3 DEF FlowInv

LEMMA NextFlow == TypeOK /\ TypeOK' /\ OneThing /\ [Next]_vars => OneThing'
<1> SUFFICES ASSUME TypeOK, TypeOK', OneThing, [Next]_vars PROVE OneThing'
  OBVIOUS
<1>1. CASE \E u \in Ups : UpReplacesChannel(u) \/ UpGoesOn(u)
  BY <1>1, IndicationFlow
<1>2. CASE DownStops \/ OtherOnuLoads
  BY <1>2, StopFlow, OthersFlow
<1>3. CASE \E q \in open : Answer(q)
  BY <1>3, AnswerFlow
<1>4. CASE \E r \in Readers : Handles(r)
  <2>1. PICK r \in Readers : Handles(r)
    BY <1>4
  <2> QED
    BY <2>1, ReadFlow, PersistFlow, PostFlow, CallbackFlow, RecordFlow, TemplateFlow DEF Handles
<1>5. CASE UNCHANGED vars
  BY <1>5, SameFlow DEF vars, OneThing, restVars
<1> QED
  BY <1>1, <1>2, <1>3, <1>4, <1>5 DEF Next

(* enterInSyncState and createAndPersistMibTemplate: however indications,  *)
(* responses, readers and faults interleave, an ONU in sync has what is    *)
(* taken from its database, and the template is a whole MIB, unless runs   *)
(* are mixed or another ONU is loaded in between.                          *)
THEOREM CompleteData == Spec => []DataIsComplete
<1>1. Init => TypeOK /\ OneThing
  BY InitType, InitFlow
<1>2. TypeOK /\ OneThing /\ [Next]_vars => (TypeOK /\ OneThing)'
  BY NextType, NextFlow
<1>3. OneThing => DataIsComplete
  BY DEF OneThing, FlowInv, DataInv, Whole, DataIsComplete
<1> QED
  BY <1>1, <1>2, <1>3, PTL DEF Spec

\* Readers never end.
LEMMA ReadersStay ==
  ASSUME TypeOK, [Next]_vars, NEW r \in Readers, reader[r] # "off"
  PROVE  reader'[r] # "off"
<1>1. ASSUME NEW u \in Ups, UpReplacesChannel(u) \/ UpGoesOn(u) PROVE reader'[r] # "off"
  <2>1. CASE UpStarts(u)
    <3>1. PICK n \in Readers : reader' = [reader EXCEPT ![n] = "read"]
      BY <2>1 DEF UpStarts
    <3> QED
      BY <3>1 DEF TypeOK, ReaderType
  <2>2. CASE UpReplacesChannel(u) \/ UpIsRefused(u) \/ UpResetsMib(u)
    BY <2>2 DEF UpReplacesChannel, UpIsRefused, UpResetsMib
  <2> QED
    BY <1>1, <2>1, <2>2 DEF UpGoesOn
<1>2. CASE DownStops \/ OtherOnuLoads \/ \E q \in open : Answer(q)
  BY <1>2 DEF DownStops, OtherOnuLoads, Answer
<1>3. ASSUME NEW s \in Readers, Handles(s) PROVE reader'[r] # "off"
  <2>1. CASE PostTimeout(s)
    <3>1. PICK n \in Readers : reader' = [reader EXCEPT ![s] = "read", ![n] = "read"]
      BY <2>1 DEF PostTimeout
    <3> QED
      BY <3>1 DEF TypeOK, ReaderType
  <2>2. CASE ~PostTimeout(s)
    <3>1. \/ reader' = reader
          \/ \E to \in States \cup {"read", "persist", "callback", "tell"} :
               reader' = [reader EXCEPT ![s] = to]
      <4>1. CASE ReadReset(s)
        BY <4>1 DEF ReadReset, WillPost, States, Gets
      <4>2. CASE ReadGet(s)
        BY <4>2, NextGetIsState DEF ReadGet, WillPost, States
      <4>3. CASE ReadUpload(s) \/ ReadUploadNext(s) \/ ReadLoaded(s) \/ PersistTemplate(s)
        BY <4>3 DEF ReadUpload, ReadUploadNext, ReadLoaded, PersistTemplate, WillPost, States
      <4>4. CASE PostRefused(s) \/ RecordGet(s) \/ LoadTemplate(s) \/ TellLoaded(s)
        BY <4>4 DEF PostRefused, RecordGet, LoadTemplate, TellLoaded, GoesOn
      <4>5. CASE PostGet(s) \/ PostTemplate(s) \/ PostUpload(s) \/ PostSuccess(s) \/ PostStop(s)
        BY <4>5 DEF PostGet, PostTemplate, PostUpload, PostSuccess, PostStop, GoesOn
      <4> QED
        BY <1>3, <2>2, <4>1, <4>2, <4>3, <4>4, <4>5 DEF Handles
    <3>2. "off" \notin States \cup {"read", "persist", "callback", "tell"}
      BY DEF States, Gets
    <3> QED
      BY <3>1, <3>2 DEF TypeOK, ReaderType
  <2> QED
    BY <2>1, <2>2
<1>4. CASE UNCHANGED vars
  BY <1>4 DEF vars
<1> QED
  BY <1>1, <1>2, <1>3, <1>4 DEF Next

\* What leads to the panic.
LEMMA PanicIsRead ==
  ASSUME [Next]_vars, panicked' # panicked
  PROVE  \E r \in Readers : ReadGet(r) /\ lastTx = None /\ panicked' = TRUE /\ mixed' = mixed
<1>1. ~UNCHANGED vars /\ ~DownStops /\ ~OtherOnuLoads /\ ~\E q \in open : Answer(q)
  BY DEF vars, restVars, DownStops, OtherOnuLoads, Answer
<1>2. ~\E u \in Ups : UpReplacesChannel(u) \/ UpGoesOn(u)
  BY DEF UpGoesOn, UpReplacesChannel, UpStarts, UpIsRefused, UpResetsMib, restVars
<1>3. PICK r \in Readers : Handles(r)
  BY <1>1, <1>2 DEF Next
<1>4. ReadGet(r)
  BY <1>3
     DEF Handles, ReadReset, ReadUpload, ReadUploadNext, ReadLoaded, PersistTemplate,
         PostRefused, PostGet, RecordGet, PostTemplate, LoadTemplate, TellLoaded, PostUpload,
         PostSuccess, PostStop, PostTimeout, Posts, restVars
<1> QED
  BY <1>4 DEF ReadGet, Reads

(* handleOmciGetResponseMessage: with one reader and without an earlier    *)
(* run, a response to a get always finds the last request recorded.        *)
THEOREM PanicFromRestart == Spec => []PanicNeedsRestart
<1>1. Init => TypeOK /\ OneThing /\ PanicNeedsRestart
  BY InitType, InitFlow DEF Init, PanicNeedsRestart
<1>2. TypeOK /\ OneThing /\ PanicNeedsRestart /\ [Next]_vars => PanicNeedsRestart'
  <2> SUFFICES ASSUME TypeOK, OneThing, PanicNeedsRestart, [Next]_vars, panicked', ~mixed'
               PROVE  \E r, s \in Readers : r # s /\ "off" \notin {reader'[r], reader'[s]}
    BY DEF PanicNeedsRestart
  <2>1. CASE panicked
    <3>1. ~mixed
      <4>1. [Next]_vars /\ panicked => UNCHANGED vars
        BY DEF Next, UpGoesOn, Handles, Alive, UpReplacesChannel, UpStarts, UpIsRefused,
               UpResetsMib, DownStops, OtherOnuLoads, Answer, ReadReset, ReadGet, ReadUpload,
               ReadUploadNext, ReadLoaded, Reads, PersistTemplate, PostRefused, PostGet,
               RecordGet, PostTemplate, LoadTemplate, TellLoaded, PostUpload, PostSuccess,
               PostStop, PostTimeout, Posts
      <4> QED
        BY <2>1, <4>1 DEF vars, restVars
    <3>2. PICK r, s \in Readers : r # s /\ "off" \notin {reader[r], reader[s]}
      BY <2>1, <3>1 DEF PanicNeedsRestart
    <3>3. reader'[r] # "off" /\ reader'[s] # "off"
      BY <3>2, ReadersStay
    <3> QED
      BY <3>2, <3>3
  <2>2. CASE ~panicked
    <3>1. panicked' # panicked
      BY <2>2
    <3>2. PICK r \in Readers : ReadGet(r) /\ lastTx = None /\ mixed' = mixed
      BY <3>1, PanicIsRead
    <3>3. PICK g \in Gets, ok \in BOOLEAN : Reads(r, Message(g, 0, ok))
      BY <3>2 DEF ReadGet
    <3>4. FlowInv /\ ItemInv(Message(g, 0, ok)) /\ r # callback
      BY <3>3, ReadsFlow
    <3>5. callback # 0
      BY <3>2, <3>4 DEF ItemInv, Message
    <3>6. callback \in Readers /\ reader[callback] \in {"callback", "tell"}
      BY <3>4, <3>5 DEF TypeOK, FsmType, FlowInv, CallbackInv
    <3>7. reader[r] = "read"
      BY <3>3 DEF Reads
    <3>8. reader'[r] # "off" /\ reader'[callback] # "off"
      BY <3>6, <3>7, ReadersStay
    <3> QED
      BY <3>4, <3>6, <3>8
  <2> QED
    BY <2>1, <2>2
<1>3. TypeOK /\ OneThing /\ [Next]_vars => (TypeOK /\ OneThing)'
  BY NextType, NextFlow
<1> QED
  BY <1>1, <1>2, <1>3, PTL DEF Spec

-----------------------------------------------------------------------------
(***************************************************************************)
(* A run does not get stuck.  Unless runs are mixed or the adapter is      *)
(* gone, what is under way belongs to the state of the machine, unless     *)
(* that has been stopped: an event that is refused is refused by a stopped *)
(* machine only.                                                           *)
(***************************************************************************)
\* The state whose request or response is of this kind.
StateOf(kind) ==
    CASE kind = "reset" -> "resettingMib"
      [] kind \in {"upload", "next"} -> "uploading"
      [] kind = "loaded" -> "gettingMibTemplate"
      [] OTHER -> kind

Fits(m) == state \in {"disabled", StateOf(m.kind)}
Knows(to) == state \in Sources(to) \cup {"disabled"}

WireFits ==
    /\ \A q \in open : Fits(q)
    /\ \A i \in DOMAIN commChan : Fits(commChan[i])

ReadersFit ==
    \A r \in Readers :
        /\ reader[r] \in States => Knows(reader[r])
        /\ reader[r] = "persist" => state \in {"uploading", "disabled"}

\* The request of an entry callback, or what has become of it.
CallbackGoesOn ==
    callback # 0 /\ state \in Gets =>
        ~Clear \/ \E s \in Readers : s # callback /\ ~Free(s)

StateGoesOn == state \notin {"disabled", "starting", "inSync"} => open # {} \/ Busy

GoInv == WireFits /\ ReadersFit /\ CallbackGoesOn /\ StateGoesOn
Going == ~mixed /\ ~panicked => GoInv

\* The machine is at rest.
LEMMA QuietGoes ==
  ASSUME Clear', \A r \in Readers : Free(r)', callback' = 0,
         state' \in {"disabled", "starting", "inSync"}
  PROVE  GoInv'
<1>1. \A r \in Readers : reader'[r] \in {"off", "read"}
  BY DEF Free
<1>2. ReadersFit'
  BY <1>1 DEF ReadersFit, States, Gets
<1> QED
  BY <1>2 DEF GoInv, WireFits, CallbackGoesOn, StateGoesOn, Clear

\* A request or response is under way.
LEMMA AskedGoes ==
  ASSUME WireFits', ~Clear', \A r \in Readers : reader'[r] \in {"off", "read", "callback", "tell"}
  PROVE  GoInv'
<1>1. ReadersFit'
  BY DEF ReadersFit, States, Gets
<1> QED
  BY <1>1 DEF GoInv, CallbackGoesOn, StateGoesOn, Clear, Busy

LEMMA SameGoes ==
  ASSUME GoInv, UNCHANGED <<fsmVars, reader, wireVars>>
  PROVE  GoInv'
<1> USE DEF fsmVars, wireVars
<1>1. WireFits' /\ ReadersFit'
  BY DEF GoInv, WireFits, ReadersFit, Fits, Knows
<1>2. CallbackGoesOn' /\ StateGoesOn'
  BY DEF GoInv, CallbackGoesOn, StateGoesOn, Clear, Free, Busy
<1> QED
  BY <1>1, <1>2 DEF GoInv

LEMMA IndicationGoes ==
  ASSUME TypeOK, OneThing, Going, NEW u \in Ups, UpReplacesChannel(u) \/ UpGoesOn(u)
  PROVE  Going'
<1> SUFFICES ASSUME ~mixed', ~panicked' PROVE GoInv'
  BY DEF Going
<1>1. ~mixed /\ ~panicked
  BY DEF UpReplacesChannel, UpGoesOn, UpStarts, UpIsRefused, UpResetsMib, restVars, TypeOK,
         RestType
<1>2. FlowInv /\ GoInv
  BY <1>1 DEF OneThing, Going
<1>3. CASE UpReplacesChannel(u)
  <2>1. state' = "disabled" /\ commChan = << >> /\ \A r \in Readers : Free(r)
    BY <1>3 DEF UpReplacesChannel, Busy, Free, fsmVars
  <2>2. callback' = 0
    BY <1>2, <1>3, <2>1, FreeIsIdle DEF UpReplacesChannel, FlowInv, fsmVars
  <2>3. Clear' /\ \A r \in Readers : Free(r)'
    BY <1>3, <2>1 DEF UpReplacesChannel, Clear, Free
  <2> QED
    BY <2>1, <2>2, <2>3, QuietGoes
<1>4. CASE UpStarts(u)
  <2>1. state' = "starting" /\ Clear /\ \A r \in Readers : Free(r)
    BY <1>4 DEF UpStarts, Busy, Free, Clear
  <2>2. callback' = 0
    BY <1>2, <1>4, <2>1, FreeIsIdle DEF UpStarts, FlowInv
  <2>3. Clear'
    BY <1>4, <2>1 DEF UpStarts, Clear, wireVars
  <2>4. \A r \in Readers : Free(r)'
    BY <1>4, <2>1 DEF UpStarts, Free, TypeOK, ReaderType
  <2> QED
    BY <2>1, <2>2, <2>3, <2>4, QuietGoes
<1>5. CASE UpIsRefused(u)
  BY <1>2, <1>5, SameGoes DEF UpIsRefused
<1>6. CASE UpResetsMib(u)
  <2>1. CASE state \notin Sources("resettingMib")
    BY <1>2, <1>6, <2>1, SameGoes DEF UpResetsMib, fsmVars, wireVars
  <2>2. CASE state \in Sources("resettingMib")
    <3>1. state = "starting" /\ state' = "resettingMib"
      BY <1>6, <2>2 DEF UpResetsMib, Sources, NextGet, Gets
    <3>2. Clear /\ \A r \in Readers : Free(r)
      BY <1>2, <3>1 DEF FlowInv, RestInv
    <3>3. open' = {Request("reset", 0)} /\ commChan' = << >>
      BY <1>6, <2>2, <3>2 DEF UpResetsMib, Clear
    <3>4. WireFits'
      BY <3>1, <3>3 DEF WireFits, Fits, StateOf, Request, Message
    <3>5. \A r \in Readers : reader'[r] \in {"off", "read"}
      BY <1>6, <3>2 DEF UpResetsMib, Free
    <3> QED
      BY <3>3, <3>4, <3>5, AskedGoes DEF Clear
  <2> QED
    BY <2>1, <2>2
<1> QED
  BY <1>3, <1>4, <1>5, <1>6 DEF UpGoesOn

LEMMA StopGoes == ASSUME Going, DownStops PROVE Going'
<1> SUFFICES ASSUME ~mixed', ~panicked' PROVE GoInv'
  BY DEF Going
<1>1. state' = "disabled" /\ callback' = 0
  BY DEF DownStops
<1>2. WireFits' /\ ReadersFit'
  BY <1>1 DEF WireFits, ReadersFit, Fits, Knows
<1>3. CallbackGoesOn' /\ StateGoesOn'
  BY <1>1 DEF CallbackGoesOn, StateGoesOn
<1> QED
  BY <1>2, <1>3 DEF GoInv

LEMMA AnswerGoes ==
  ASSUME TypeOK, OneThing, Going, NEW q \in open, Answer(q) PROVE Going'
<1> SUFFICES ASSUME ~mixed', ~panicked' PROVE GoInv'
  BY DEF Going
<1>1. FlowInv /\ GoInv
  BY DEF OneThing, Going, Answer
<1>2. commChan = << >> /\ open = {q}
  BY <1>1 DEF FlowInv, WireInv, Clear
<1>3. PICK m \in {q, Message(q.kind, q.arg, FALSE), Request(q.kind, 0)} :
        commChan' = Append(commChan, m)
  BY DEF Answer
<1>4. commChan' = <<m>> /\ open' = {}
  BY <1>2, <1>3 DEF Answer
<1>5. m.kind = q.kind
  BY <1>3 DEF Request, Message
<1>6. UNCHANGED <<state, callback, reader>>
  BY DEF Answer, fsmVars
<1>7. Fits(q)
  BY <1>1 DEF GoInv, WireFits
<1>8. Fits(m)'
  BY <1>5, <1>6, <1>7 DEF Fits
<1>9. WireFits'
  BY <1>4, <1>8 DEF WireFits
<1>10. ReadersFit'
  BY <1>1, <1>6 DEF GoInv, ReadersFit, Knows
<1>11. ~Clear' /\ Busy'
  BY <1>4 DEF Clear, Busy
<1> QED
  BY <1>9, <1>10, <1>11 DEF GoInv, CallbackGoesOn, StateGoesOn

-----------------------------------------------------------------------------
\* What a reader finds, and what it may make of it.
LEMMA ReadsGoes ==
  ASSUME TypeOK, OneThing, Going, NEW r \in Readers, NEW m, Reads(r, m), ~mixed'
  PROVE  /\ GoInv /\ Fits(m) /\ open = {} /\ commChan' = << >> /\ r # callback
         /\ state # "starting" /\ UNCHANGED <<state, callback>> /\ reader[r] = "read"
<1>1. /\ FlowInv /\ open = {} /\ commChan' = << >> /\ r # callback
      /\ state \notin {"starting", "inSync"}
  BY ReadsFlow
<1>2. GoInv
  BY DEF Going, Reads, Alive
<1>3. commChan # << >> /\ m = Head(commChan)
  BY DEF Reads
<1>4. 1 \in DOMAIN commChan /\ m = commChan[1]
  BY <1>3 DEF TypeOK, WireType
<1>5. Fits(m)
  BY <1>2, <1>4 DEF GoInv, WireFits
<1> QED
  BY <1>1, <1>2, <1>5 DEF Reads, fsmVars

LEMMA ReadThenPosts ==
  ASSUME TypeOK, OneThing, Going, NEW r \in Readers, NEW m, Reads(r, m), ~mixed',
         NEW to \in States \cup {"persist"}, WillPost(r, to), UNCHANGED open,
         to \in States => Knows(to), to = "persist" => state \in {"uploading", "disabled"}
  PROVE  GoInv'
<1>1. /\ GoInv /\ open = {} /\ commChan' = << >> /\ r # callback
      /\ UNCHANGED <<state, callback>>
  BY ReadsGoes
<1>2. reader'[r] = to /\ \A s \in Readers \ {r} : reader'[s] = reader[s]
  BY DEF WillPost, TypeOK, ReaderType
<1>3. to \notin {"off", "read"}
  BY DEF States, Gets
<1>4. WireFits'
  BY <1>1 DEF WireFits
<1>5. ReadersFit'
  BY <1>1, <1>2 DEF GoInv, ReadersFit, Knows
<1>6. CallbackGoesOn' /\ StateGoesOn'
  BY <1>1, <1>2, <1>3 DEF CallbackGoesOn, StateGoesOn, Free, Busy
<1> QED
  BY <1>4, <1>5, <1>6 DEF GoInv

LEMMA ReadThenNext ==
  ASSUME TypeOK, OneThing, Going, NEW r \in Readers, NEW m, Reads(r, m), ~mixed',
         m.kind \in {"upload", "next"}, SendMibUploadNext, UNCHANGED reader
  PROVE  GoInv'
<1>1. /\ GoInv /\ Fits(m) /\ open = {} /\ commChan' = << >>
      /\ UNCHANGED <<state, callback>>
  BY ReadsGoes
<1>2. open' = {Request("next", seqNo + 1)}
  BY <1>1 DEF SendMibUploadNext
<1>3. state \in {"disabled", "uploading"}
  BY <1>1 DEF Fits, StateOf
<1>4. WireFits'
  BY <1>1, <1>2, <1>3 DEF WireFits, Fits, StateOf, Request, Message
<1>5. ReadersFit'
  BY <1>1 DEF GoInv, ReadersFit, Knows
<1>6. CallbackGoesOn' /\ StateGoesOn'
  BY <1>2 DEF CallbackGoesOn, StateGoesOn, Clear
<1> QED
  BY <1>4, <1>5, <1>6 DEF GoInv

\* The events that every state on the way knows.
LEMMA AlwaysKnown == ASSUME TypeOK, state # "starting" PROVE Knows("disabled") /\ Knows("starting")
  BY DEF TypeOK, FsmType, Knows, Sources, NextGet, Gets

LEMMA ReadGoes ==
  ASSUME TypeOK, OneThing, Going, NEW r \in Readers,
         ReadReset(r) \/ ReadGet(r) \/ ReadUpload(r) \/ ReadUploadNext(r) \/ ReadLoaded(r)
  PROVE  Going'
<1> SUFFICES ASSUME ~mixed', ~panicked' PROVE GoInv'
  BY DEF Going
<1>1. CASE ReadReset(r)
  <2>1. PICK ok \in BOOLEAN :
          /\ Reads(r, Message("reset", 0, ok))
          /\ WillPost(r, IF ok /\ state = "resettingMib" THEN "gettingVendorAndSerial"
                                                         ELSE "disabled")
    BY <1>1 DEF ReadReset
  <2>2. state # "starting"
    BY <2>1, ReadsGoes
  <2>3. state = "resettingMib" => Knows("gettingVendorAndSerial")
    BY DEF Knows, Sources, NextGet, Gets
  <2>4. UNCHANGED open
    BY <1>1 DEF ReadReset
  <2>5. CASE ok /\ state = "resettingMib"
    <3>1. WillPost(r, "gettingVendorAndSerial")
      BY <2>1, <2>5
    <3>2. "gettingVendorAndSerial" \in States
      BY DEF States, Gets
    <3> QED
      BY <2>1, <2>3, <2>4, <2>5, <3>1, <3>2, ReadThenPosts
  <2>6. CASE ~(ok /\ state = "resettingMib")
    <3>1. WillPost(r, "disabled")
      BY <2>1, <2>6
    <3>2. "disabled" \in States
      BY DEF States
    <3> QED
      BY <2>1, <2>2, <2>4, <3>1, <3>2, AlwaysKnown, ReadThenPosts
  <2> QED
    BY <2>5, <2>6
<1>2. CASE ReadGet(r)
  <2>1. PICK g \in Gets, ok \in BOOLEAN :
          /\ Reads(r, Message(g, 0, ok))
          /\ WillPost(r, IF ok /\ lastTx = g THEN NextGet(g) ELSE "disabled")
    BY <1>2 DEF ReadGet
  <2>2. state # "starting" /\ Fits(Message(g, 0, ok))
    BY <2>1, ReadsGoes
  <2>3. state \in {"disabled", g}
    BY <2>2 DEF Fits, StateOf, Message, Gets
  <2>4. Knows(NextGet(g))
    BY <2>3 DEF Knows, Sources, NextGet, Gets
  <2>5. UNCHANGED open
    BY <1>2 DEF ReadGet
  <2>6. CASE ok /\ lastTx = g
    <3>1. WillPost(r, NextGet(g)) /\ NextGet(g) \in States
      BY <2>1, <2>6, NextGetIsState
    <3> QED
      BY <2>1, <2>4, <2>5, <3>1, ReadThenPosts DEF States, Gets
  <2>7. CASE ~(ok /\ lastTx = g)
    <3>1. WillPost(r, "disabled")
      BY <2>1, <2>7
    <3>2. "disabled" \in States
      BY DEF States
    <3> QED
      BY <2>1, <2>2, <2>5, <3>1, <3>2, AlwaysKnown, ReadThenPosts
  <2> QED
    BY <2>6, <2>7
<1>3. CASE ReadUpload(r)
  <2>1. PICK n \in Mes \cup {0} :
          /\ Reads(r, Request("upload", n))
          /\ IF seqNo < n THEN SendMibUploadNext /\ UNCHANGED reader
             ELSE WillPost(r, "starting") /\ UNCHANGED <<seqNo, open>>
    BY <1>3 DEF ReadUpload, Request
  <2>2. state # "starting"
    BY <2>1, ReadsGoes
  <2>3. CASE seqNo < n
    <3>1. Request("upload", n).kind \in {"upload", "next"}
      BY DEF Request, Message
    <3> QED
      BY <2>1, <2>3, <3>1, ReadThenNext
  <2>4. CASE ~(seqNo < n)
    <3>1. "starting" \in States
      BY DEF States
    <3> QED
      BY <2>1, <2>2, <2>4, <3>1, AlwaysKnown, ReadThenPosts
  <2> QED
    BY <2>3, <2>4
<1>4. CASE ReadUploadNext(r)
  <2>1. PICK e \in Mes : Reads(r, Request("next", e))
    BY <1>4 DEF ReadUploadNext, Request
  <2>2. Request("next", e).kind = "next"
    BY DEF Request, Message
  <2>3. Fits(Request("next", e))
    BY <2>1, ReadsGoes
  <2>4. state \in {"disabled", "uploading"}
    BY <2>2, <2>3 DEF Fits, StateOf
  <2>5. CASE seqNo < noOfCmds
    BY <1>4, <2>1, <2>2, <2>5, ReadThenNext DEF ReadUploadNext
  <2>6. CASE ~(seqNo < noOfCmds)
    <3>1. WillPost(r, "persist") /\ UNCHANGED open /\ "persist" \notin States
      BY <1>4, <2>6 DEF ReadUploadNext, States, Gets
    <3> QED
      BY <2>1, <2>4, <3>1, ReadThenPosts
  <2> QED
    BY <2>5, <2>6
<1>5. CASE ReadLoaded(r)
  <2>1. PICK ok \in BOOLEAN :
          /\ Reads(r, Message("loaded", 0, ok))
          /\ WillPost(r, IF ok THEN "inSync" ELSE "uploading")
    BY <1>5 DEF ReadLoaded
  <2>2. Fits(Message("loaded", 0, ok))
    BY <2>1, ReadsGoes
  <2>3. state \in {"disabled", "gettingMibTemplate"}
    BY <2>2 DEF Fits, StateOf, Message
  <2>4. Knows("inSync") /\ Knows("uploading")
    BY <2>3 DEF Knows, Sources, NextGet, Gets
  <2>5. UNCHANGED open /\ "inSync" \in States /\ "uploading" \in States
    BY <1>5 DEF ReadLoaded, States
  <2>6. CASE ok
    <3>1. WillPost(r, "inSync")
      BY <2>1, <2>6
    <3> QED
      BY <2>1, <2>4, <2>5, <3>1, ReadThenPosts
  <2>7. CASE ~ok
    <3>1. WillPost(r, "uploading")
      BY <2>1, <2>7
    <3> QED
      BY <2>1, <2>4, <2>5, <3>1, ReadThenPosts
  <2> QED
    BY <2>6, <2>7
<1> QED
  BY <1>1, <1>2, <1>3, <1>4, <1>5

LEMMA PersistGoes ==
  ASSUME TypeOK, Going, NEW r \in Readers, PersistTemplate(r) PROVE Going'
<1> SUFFICES ASSUME ~mixed', ~panicked' PROVE GoInv'
  BY DEF Going
<1> USE DEF PersistTemplate, fsmVars, wireVars
<1>1. GoInv /\ UNCHANGED <<state, callback, open, commChan>>
  BY DEF Going
<1>2. state \in {"uploading", "disabled"}
  BY <1>1 DEF GoInv, ReadersFit
<1>3. Knows("inSync")'
  BY <1>1, <1>2 DEF Knows, Sources, NextGet, Gets
<1>4. reader'[r] = "inSync" /\ \A s \in Readers \ {r} : reader'[s] = reader[s]
  BY DEF WillPost, TypeOK, ReaderType
<1>5. ReadersFit'
  BY <1>1, <1>3, <1>4 DEF GoInv, ReadersFit, Knows
<1>6. WireFits'
  BY <1>1 DEF GoInv, WireFits, Fits
<1>7. CallbackGoesOn' /\ StateGoesOn'
  BY <1>1, <1>2, <1>4 DEF CallbackGoesOn, StateGoesOn, Busy, Gets
<1> QED
  BY <1>5, <1>6, <1>7 DEF GoInv

LEMMA PostGoes ==
  ASSUME TypeOK, OneThing, Going, NEW r \in Readers,
         \/ PostRefused(r) \/ PostUpload(r) \/ PostSuccess(r) \/ PostStop(r) \/ PostTimeout(r)
  PROVE  Going'
<1> SUFFICES ASSUME ~mixed', ~panicked' PROVE GoInv'
  BY DEF Going
<1>1. /\ callback = 0 /\ callback' = 0 /\ reader[r] \in States
      /\ mixed' = mixed /\ panicked' = panicked
  BY DEF PostRefused, PostUpload, PostSuccess, PostStop, PostTimeout, Posts, States, restVars,
         fsmVars
<1>2. FlowInv /\ GoInv
  BY <1>1 DEF OneThing, Going
<1>3. reader[r] \notin {"off", "read"}
  BY <1>1 DEF States, Gets
<1>4. /\ Clear /\ \A s \in Readers \ {r} : Free(s)
      /\ state \notin {"starting", "inSync"}
  BY <1>1, <1>2, <1>3, PostsFlow
<1>5. CASE PostRefused(r)
  <2>1. Clear' /\ state' = state /\ \A s \in Readers : Free(s)'
    BY <1>4, <1>5, PostsThenFree DEF PostRefused, Clear, wireVars, fsmVars
  <2>2. state = "disabled"
    BY <1>1, <1>2, <1>5 DEF PostRefused, GoInv, ReadersFit, Knows
  <2> QED
    BY <1>1, <2>1, <2>2, QuietGoes
<1>6. CASE PostUpload(r)
  <2>1. open' = {Request("upload", Cmds)} /\ commChan' = << >> /\ state' = "uploading"
    BY <1>4, <1>6 DEF PostUpload, Posts, Clear
  <2>2. \A s \in Readers : reader'[s] \in {"off", "read"}
    BY <1>4, <1>6, PostsThenFree DEF PostUpload, Free
  <2>3. WireFits'
    BY <2>1 DEF WireFits, Fits, StateOf, Request, Message
  <2> QED
    BY <2>1, <2>2, <2>3, AskedGoes DEF Clear
<1>7. CASE PostSuccess(r) \/ PostStop(r)
  <2>1. Clear' /\ \A s \in Readers : Free(s)'
    BY <1>4, <1>7, PostsThenFree DEF PostSuccess, PostStop, Posts, Clear
  <2>2. state' \in {"disabled", "inSync"}
    BY <1>7 DEF PostSuccess, PostStop, Posts
  <2> QED
    BY <1>1, <2>1, <2>2, QuietGoes
<1>8. CASE PostTimeout(r)
  <2>1. Clear' /\ state' = "starting"
    BY <1>4, <1>8 DEF PostTimeout, Posts, Clear
  <2>2. \A s \in Readers : Free(s)'
    BY <1>4, <1>8 DEF PostTimeout, Free, TypeOK, ReaderType
  <2> QED
    BY <1>1, <2>1, <2>2, QuietGoes
<1> QED
  BY <1>5, <1>6, <1>7, <1>8

LEMMA CallbackGoes ==
  ASSUME TypeOK, OneThing, Going, NEW r \in Readers, PostGet(r) \/ PostTemplate(r)
  PROVE  Going'
<1> SUFFICES ASSUME ~mixed', ~panicked' PROVE GoInv'
  BY DEF Going
<1>1. /\ callback = 0 /\ reader[r] \in States /\ callback' = r
      /\ mixed' = mixed /\ commChan' = commChan
      /\ reader' = [reader EXCEPT ![r] = "callback"]
  BY DEF PostGet, PostTemplate, Posts, States, restVars
<1>2. FlowInv
  BY <1>1 DEF OneThing
<1>3. reader[r] \notin {"off", "read"}
  BY <1>1 DEF States, Gets
<1>4. Clear /\ \A s \in Readers \ {r} : Free(s)
  BY <1>1, <1>2, <1>3, PostsFlow
<1>5. reader'[r] = "callback" /\ \A s \in Readers \ {r} : reader'[s] \in {"off", "read"}
  BY <1>1, <1>4 DEF Free, TypeOK, ReaderType
<1>6. CASE PostGet(r)
  <2>1. PICK g \in Gets : Posts(r, g) /\ open' = open \cup {Request(g, 0)}
    BY <1>6 DEF PostGet
  <2>2. open' = {Request(g, 0)} /\ commChan' = << >> /\ state' = g
    BY <1>1, <1>4, <2>1 DEF Posts, Clear
  <2>3. WireFits'
    BY <2>2 DEF WireFits, Fits, StateOf, Request, Message, Gets
  <2> QED
    BY <1>5, <2>2, <2>3, AskedGoes DEF Clear
<1>7. CASE PostTemplate(r)
  <2>1. Clear' /\ state' = "gettingMibTemplate"
    BY <1>4, <1>7 DEF PostTemplate, Posts, Clear
  <2>2. WireFits'
    BY <2>1 DEF WireFits, Clear
  <2>3. ReadersFit'
    BY <1>5 DEF ReadersFit, States, Gets
  <2>4. CallbackGoesOn' /\ StateGoesOn'
    BY <1>5, <2>1 DEF CallbackGoesOn, StateGoesOn, Busy, Gets
  <2> QED
    BY <2>2, <2>3, <2>4 DEF GoInv
<1> QED
  BY <1>6, <1>7

LEMMA RecordGoes ==
  ASSUME TypeOK, Going, NEW r \in Readers, RecordGet(r) PROVE Going'
<1> SUFFICES ASSUME ~mixed', ~panicked' PROVE GoInv'
  BY DEF Going
<1> USE DEF RecordGet, GoesOn, wireVars
<1>1. GoInv
  BY DEF Going, restVars
<1>2. reader'[r] = "read" /\ \A s \in Readers \ {r} : reader'[s] = reader[s]
  BY DEF TypeOK, ReaderType
<1>3. ~Clear \/ \E s \in Readers : s # r /\ ~Free(s)
  BY <1>1 DEF GoInv, CallbackGoesOn, Readers
<1>4. open' # {} \/ Busy'
  BY <1>2, <1>3 DEF Clear, Free, Busy
<1>5. WireFits'
  BY <1>1 DEF GoInv, WireFits, Fits
<1>6. ReadersFit'
  BY <1>1, <1>2 DEF GoInv, ReadersFit, Knows, States, Gets
<1> QED
  BY <1>4, <1>5, <1>6 DEF GoInv, CallbackGoesOn, StateGoesOn

LEMMA TemplateGoes ==
  ASSUME TypeOK, OneThing, Going, NEW r \in Readers, LoadTemplate(r) \/ TellLoaded(r)
  PROVE  Going'
<1> SUFFICES ASSUME ~mixed', ~panicked' PROVE GoInv'
  BY DEF Going
<1>1. FlowInv
  BY DEF LoadTemplate, TellLoaded, OneThing, restVars
<1>2. reader[r] \in {"callback", "tell"} /\ r # 0
  BY DEF LoadTemplate, TellLoaded, Readers
<1>3. callback = r /\ state = "gettingMibTemplate"
  BY <1>1, <1>2 DEF FlowInv, CallbackInv, LoadTemplate, TellLoaded
<1>4. Clear /\ \A s \in Readers \ {r} : Free(s)
  BY <1>1, <1>2, <1>3 DEF FlowInv, CallbackInv, Gets
<1>5. state' = "gettingMibTemplate"
  BY <1>3 DEF LoadTemplate, TellLoaded, fsmVars
<1>6. CASE LoadTemplate(r)
  <2>1. reader'[r] = "tell" /\ \A s \in Readers \ {r} : reader'[s] \in {"off", "read"}
    BY <1>4, <1>6 DEF LoadTemplate, Free, TypeOK, ReaderType
  <2>2. WireFits'
    BY <1>4, <1>6 DEF LoadTemplate, Clear, wireVars, WireFits
  <2>3. ReadersFit'
    BY <2>1 DEF ReadersFit, States, Gets
  <2>4. CallbackGoesOn' /\ StateGoesOn'
    BY <1>5, <2>1 DEF CallbackGoesOn, StateGoesOn, Busy, Gets
  <2> QED
    BY <2>2, <2>3, <2>4 DEF GoInv
<1>7. CASE TellLoaded(r)
  <2>1. open' = {} /\ commChan' = <<Message("loaded", 0, fsmMsg)>>
    BY <1>4, <1>7 DEF TellLoaded, Clear
  <2>2. \A s \in Readers : reader'[s] \in {"off", "read"}
    BY <1>4, <1>7, PostsThenFree DEF TellLoaded, Free
  <2>3. WireFits'
    BY <1>5, <2>1 DEF WireFits, Fits, StateOf, Message
  <2> QED
    BY <2>1, <2>2, <2>3, AskedGoes DEF Clear
<1> QED
  BY <1>6, <1>7

LEMMA NextGoes == TypeOK /\ OneThing /\ Going /\ [Next]_vars => Going'
<1> SUFFICES ASSUME TypeOK, OneThing, Going, [Next]_vars PROVE Going'
  OBVIOUS
<1>1. CASE \E u \in Ups : UpReplacesChannel(u) \/ UpGoesOn(u)
  BY <1>1, IndicationGoes
<1>2. CASE DownStops
  BY <1>2, StopGoes
<1>3. CASE OtherOnuLoads
  BY <1>3, SameGoes DEF OtherOnuLoads, Going
<1>4. CASE \E q \in open : Answer(q)
  BY <1>4, AnswerGoes
<1>5. CASE \E r \in Readers : Handles(r)
  <2>1. PICK r \in Readers : Handles(r)
    BY <1>5
  <2> QED
    BY <2>1, ReadGoes, PersistGoes, PostGoes, CallbackGoes, RecordGoes, TemplateGoes DEF Handles
<1>6. CASE UNCHANGED vars
  BY <1>6, SameGoes DEF vars, Going, restVars
<1> QED
  BY <1>1, <1>2, <1>3, <1>4, <1>5, <1>6 DEF Next

(* mib_sync.go has no timer: the upload goes on by its responses and        *)
(* events alone.  Unless runs are mixed or the adapter is gone, a run on   *)
(* its way never waits for nothing, for every MIB and any number of        *)
(* indications, faults and other ONUs.                                     *)
THEOREM RunsGoOn == Spec => []RunGoesOn
<1>1. Init => TypeOK /\ OneThing /\ Going
  <2>1. Init => Going
    <3> SUFFICES ASSUME Init PROVE GoInv
      BY DEF Going
    <3>1. WireFits /\ ReadersFit
      BY DEF Init, WireFits, ReadersFit, States, Gets
    <3>2. CallbackGoesOn /\ StateGoesOn
      BY DEF Init, CallbackGoesOn, StateGoesOn
    <3> QED
      BY <3>1, <3>2 DEF GoInv
  <2> QED
    BY <2>1, InitType, InitFlow
<1>2. TypeOK /\ OneThing /\ Going /\ [Next]_vars => (TypeOK /\ OneThing /\ Going)'
  BY NextType, NextFlow, NextGoes
<1>3. Going => RunGoesOn
  BY DEF Going, GoInv, StateGoesOn, RunGoesOn
<1> QED
  BY <1>1, <1>2, <1>3, PTL DEF Spec
=============================================================================
