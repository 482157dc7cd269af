-------------------------------- MODULE MibSync --------------------------------
(***************************************************************************)
(* The MIB upload of an ONU (mib_sync.go, the table of its state machine   *)
(* in onu_device_entry.go, its requests in omci_cc.go).                    *)
(*                                                                         *)
(* An up indication replaces the OMCI channel, starts the machine with an  *)
(* empty database and a new goroutine that reads the responses, and resets *)
(* the MIB.  The rest is driven by the responses: five gets identify the   *)
(* ONU, a template of its type is looked for in the KV store, and without  *)
(* one the ONU is asked for its MIB, entity by entity, from which the      *)
(* template is made.                                                       *)
(*                                                                         *)
(* A stop only changes the state.  Readers never end, so from the second   *)
(* start on there are several; and what a response does depends on its     *)
(* kind and on the channel object of the moment, not on the state of the   *)
(* machine.  The mutex of the machine is held from the entry into a state  *)
(* until its callback returns.                                             *)
(*                                                                         *)
(* Requests of a replaced channel are never answered (OmciCC); a response  *)
(* reaches the channel of the machine as soon as it is received.           *)
(***************************************************************************)
EXTENDS Naturals, Sequences, FiniteSets

CONSTANTS
    Cmds,         \* entities the ONU reports, in order 1 .. Cmds
    OnuData,      \* those of class OnuData, which are not stored
    Supported,    \* those of the classes taken from a template
    MaxUps,       \* bound: up indications
    MaxDowns,     \* bound: down indications
    MaxOthers,    \* bound: other ONUs that look for a template meanwhile
    MaxFaults     \* bound: errors reported by the ONU, failed KV calls

Mes == 1 .. Cmds
Stored == Mes \ OnuData

ASSUME MibAssumption ==
    /\ Cmds \in Nat \ {0}
    /\ OnuData \subseteq Mes
    /\ Supported \subseteq Stored /\ Supported # {}
    /\ MaxUps \in Nat /\ MaxDowns \in Nat /\ MaxOthers \in Nat /\ MaxFaults \in Nat

Ups == 1 .. MaxUps

(* The machine is started once per up indication, and is back in its first *)
(* state at most once per upload.                                          *)
Readers == 1 .. 2 * MaxUps

VARIABLES
    state,      \* of the state machine
    callback,   \* reader that executes an entry callback, 0 if none
    up,         \* createInterface for each up indication
    downs,      \* down indications that stopped the machine
    reader,     \* processMibSyncMessages: where it is, or the event it posts
    commChan,   \* responses to the machine
    open,       \* requests on the current channel not yet answered
    seqNo,      \* uploadSequNo of the current channel
    noOfCmds,   \* uploadNoOfCmds
    lastTx,     \* pLastTxMeInstance
    db,         \* entities in pOnuDB
    template,   \* entities in the template of the KV store, {} without one
    fsmMsg,     \* of all ONUs: the last search for a template found one
    others,     \* searches of other ONUs so far
    faults,     \* errors and failed calls so far
    panicked,   \* the adapter has dereferenced nil
    mixed       \* history: a run has begun with something of another

fsmVars == <<state, callback>>
taskVars == <<up, downs>>
chanVars == <<seqNo, noOfCmds, lastTx>>
wireVars == <<commChan, open>>
dataVars == <<db, template, fsmMsg>>
restVars == <<others, faults, panicked, mixed>>
vars == <<fsmVars, taskVars, reader, chanVars, wireVars, dataVars, restVars>>

\* The gets in their order, named like the states that send them.
Gets == {"gettingVendorAndSerial", "gettingEquipmentID", "gettingFirstSwVersion",
         "gettingSecondSwVersion", "gettingMacAddress"}
States == Gets \cup {"disabled", "starting", "resettingMib", "gettingMibTemplate",
                     "uploading", "inSync"}
None == "none"

\* The state that is asked for when get g has its response.
NextGet(g) ==
    CASE g = "gettingVendorAndSerial" -> "gettingEquipmentID"
      [] g = "gettingEquipmentID" -> "gettingFirstSwVersion"
      [] g = "gettingFirstSwVersion" -> "gettingSecondSwVersion"
      [] g = "gettingSecondSwVersion" -> "gettingMacAddress"
      [] g = "gettingMacAddress" -> "gettingMibTemplate"

\* A plausible bug, used by no specification: a success is known in every
\* state.
SourcesOfAnySuccess(to) ==
    CASE to = "resettingMib" -> {"starting"}
      [] to = "gettingVendorAndSerial" -> {"resettingMib"}
      [] to \in {NextGet(g) : g \in Gets} -> {g \in Gets : NextGet(g) = to}
      [] to = "uploading" -> {"gettingMibTemplate"}
      [] to = "inSync" -> States \ {"disabled", "inSync"}
      [] to = "starting" -> States \ {"disabled", "starting"}
      [] to = "disabled" -> States \ {"disabled"}

(* The transition table: the states from which the event that leads to a   *)
(* state is known.  The states of an audit are never entered.              *)
Sources(to) ==
    CASE to = "resettingMib" -> {"starting"}
      [] to = "gettingVendorAndSerial" -> {"resettingMib"}
      [] to \in {NextGet(g) : g \in Gets} -> {g \in Gets : NextGet(g) = to}
      [] to = "uploading" -> {"gettingMibTemplate"}
      [] to = "inSync" -> {"gettingMibTemplate", "uploading"}
      [] to = "starting" -> States \ {"disabled", "starting"}
      [] to = "disabled" -> States \ {"disabled"}

\* A request, or with arg and ok the response to it.
Message(kind, arg, ok) == [kind |-> kind, arg |-> arg, ok |-> ok]
Request(kind, arg) == Message(kind, arg, TRUE)

Init ==
    /\ state = "disabled" /\ callback = 0
    /\ up = [u \in Ups |-> "none"] /\ downs = 0
    /\ reader = [r \in Readers |-> "off"]
    /\ commChan = << >> /\ open = {}
    /\ seqNo = 0 /\ noOfCmds = 0 /\ lastTx = None
    /\ db = {} /\ template \in {{}, Stored} /\ fsmMsg = FALSE
    /\ others = 0 /\ faults = 0 /\ panicked = FALSE /\ mixed = FALSE

-----------------------------------------------------------------------------
Alive == ~panicked
Fault == faults < MaxFaults /\ faults' = faults + 1

\* Something of a run is under way: a response, or a reader that has one.
Busy == commChan # << >> \/ \E r \in Readers : reader[r] \notin {"off", "read"}

\* The reader that the next entry into the first state starts.
NewReader(n) == reader[n] = "off" /\ \A k \in 1 .. n - 1 : reader[k] # "off"

\* The next response.
Reads(r, m) ==
    /\ Alive
    /\ reader[r] = "read"
    /\ commChan # << >>
    /\ m = Head(commChan)
    /\ commChan' = Tail(commChan)
    /\ UNCHANGED <<fsmVars, taskVars, template, fsmMsg, others, faults, mixed>>

\* The event that leads to a state is about to be posted.
WillPost(r, to) == reader' = [reader EXCEPT ![r] = to]

GoesOn(r) == reader' = [reader EXCEPT ![r] = "read"]

\* The database with one more entity.
PutMe(e) == db \cup ({e} \ OnuData)

\* What is taken from a template.
FromTemplate == template \cap Supported

\* sendMibUploadNext, for the entity after the first seqNo.
SendMibUploadNext ==
    /\ open' = open \cup {Request("next", seqNo + 1)}
    /\ seqNo' = seqNo + 1

-----------------------------------------------------------------------------
(* Plausible bugs.  Each operator is the definition below whose name it    *)
(* starts with, changed in the way its comment says; no specification uses *)
(* one.                                                                    *)

\* The number of the last command is taken for the number of commands.
ReadUploadNextEndsEarly(r) ==
    /\ \E e \in Mes :
         /\ Reads(r, Message("next", e, TRUE))
         /\ db' = PutMe(e)
    /\ IF seqNo + 1 < noOfCmds THEN SendMibUploadNext /\ UNCHANGED reader
       ELSE WillPost(r, "persist") /\ UNCHANGED <<seqNo, open>>
    /\ UNCHANGED <<noOfCmds, lastTx, panicked>>

\* ... and the other way round.
ReadUploadNextEndsLate(r) ==
    /\ \E e \in Mes :
         /\ Reads(r, Message("next", e, TRUE))
         /\ db' = PutMe(e)
    /\ IF seqNo <= noOfCmds THEN SendMibUploadNext /\ UNCHANGED reader
       ELSE WillPost(r, "persist") /\ UNCHANGED <<seqNo, open>>
    /\ UNCHANGED <<noOfCmds, lastTx, panicked>>

\* The request is not recorded.
RecordGetForgotten(r) ==
    /\ Alive
    /\ callback = r /\ state \in Gets
    /\ callback' = 0
    /\ GoesOn(r)
    /\ UNCHANGED <<state, taskVars, chanVars, wireVars, dataVars, restVars>>

\* The machine is only told of a template that was found.
TellLoadedIfFound(r) ==
    /\ Alive
    /\ reader[r] = "tell"
    /\ callback' = 0
    /\ commChan' = IF fsmMsg THEN Append(commChan, Message("loaded", 0, TRUE)) ELSE commChan
    /\ GoesOn(r)
    /\ UNCHANGED <<state, taskVars, chanVars, open, dataVars, restVars>>

-----------------------------------------------------------------------------
(* Indications.                                                            *)

\* OnuDeviceEntry.start: a new channel object.
UpReplacesChannel(u) ==
    /\ Alive
    /\ up[u] = "none"
    /\ up' = [up EXCEPT ![u] = "start"]
    /\ seqNo' = 0 /\ noOfCmds' = 0 /\ lastTx' = None
    /\ open' = {}
    /\ mixed' = (mixed \/ state # "disabled" \/ Busy)
    /\ UNCHANGED <<fsmVars, downs, reader, commChan, dataVars, others, faults, panicked>>

\* createInterface starts the machine (enterStartingState) ...
UpStarts(u) ==
    /\ Alive
    /\ up[u] = "start"
    /\ state = "disabled"
    /\ state' = "starting"
    /\ up' = [up EXCEPT ![u] = "reset"]
    /\ db' = {}
    /\ \E n \in Readers : NewReader(n) /\ reader' = [reader EXCEPT ![n] = "read"]
    /\ mixed' = (mixed \/ open # {} \/ Busy)
    /\ UNCHANGED <<callback, downs, chanVars, wireVars, template, fsmMsg, others, faults,
                   panicked>>

\* ... unless it is in a wrong state ...
UpIsRefused(u) ==
    /\ Alive
    /\ up[u] = "start"
    /\ state # "disabled"
    /\ up' = [up EXCEPT ![u] = "done"]
    /\ UNCHANGED <<fsmVars, downs, reader, chanVars, wireVars, dataVars, restVars>>

\* ... and resets the MIB, the first request.
UpResetsMib(u) ==
    /\ Alive
    /\ up[u] = "reset"
    /\ callback = 0
    /\ up' = [up EXCEPT ![u] = "done"]
    /\ IF state \in Sources("resettingMib")
          THEN state' = "resettingMib" /\ open' = open \cup {Request("reset", 0)}
          ELSE UNCHANGED <<state, open>>
    /\ UNCHANGED <<callback, downs, reader, chanVars, commChan, dataVars, restVars>>

\* updateInterface stops the machine.
DownStops ==
    /\ Alive
    /\ downs < MaxDowns
    /\ callback = 0
    /\ state \in Sources("disabled")
    /\ downs' = downs + 1
    /\ state' = "disabled"
    /\ UNCHANGED <<callback, up, reader, chanVars, wireVars, dataVars, restVars>>

-----------------------------------------------------------------------------
(* The ONU.                                                                *)

\* It answers; an error or a MIB without entities is a fault of its own.
Answer(q) ==
    /\ Alive
    /\ q \in open
    /\ open' = open \ {q}
    /\ \E m \in {q, Message(q.kind, q.arg, FALSE), Request(q.kind, 0)} :
         /\ m.ok \/ q.kind \in Gets \cup {"reset"}
         /\ m.arg = q.arg \/ q.kind = "upload"
         /\ commChan' = Append(commChan, m)
         /\ IF m = q THEN UNCHANGED faults ELSE Fault
    /\ UNCHANGED <<fsmVars, taskVars, reader, chanVars, dataVars, others, panicked, mixed>>

-----------------------------------------------------------------------------
(* The readers: one response at a time.                                    *)

\* handleOmciMibResetResponseMessage.
ReadReset(r) ==
    /\ \E ok \in BOOLEAN :
         /\ Reads(r, Message("reset", 0, ok))
         /\ WillPost(r, IF ok /\ state = "resettingMib" THEN "gettingVendorAndSerial"
                                                        ELSE "disabled")
    /\ UNCHANGED <<chanVars, open, db, panicked>>

\* handleOmciGetResponseMessage: compared with the last request, if any.
ReadGet(r) ==
    /\ \E g \in Gets, ok \in BOOLEAN :
         /\ Reads(r, Message(g, 0, ok))
         /\ IF ok /\ lastTx = None
               THEN panicked' = TRUE /\ UNCHANGED reader
               ELSE /\ WillPost(r, IF ok /\ lastTx = g THEN NextGet(g) ELSE "disabled")
                    /\ UNCHANGED panicked
    /\ UNCHANGED <<chanVars, open, db>>

\* handleOmciMibUploadResponseMessage, whatever the state.
ReadUpload(r) ==
    /\ \E n \in Mes \cup {0} :
         /\ Reads(r, Message("upload", n, TRUE))
         /\ noOfCmds' = n
         /\ IF seqNo < n THEN SendMibUploadNext /\ UNCHANGED reader
            ELSE WillPost(r, "starting") /\ UNCHANGED <<seqNo, open>>
    /\ UNCHANGED <<lastTx, db, panicked>>

\* handleOmciMibUploadNextResponseMessage, whatever the state.
ReadUploadNext(r) ==
    /\ \E e \in Mes :
         /\ Reads(r, Message("next", e, TRUE))
         /\ db' = PutMe(e)
    /\ IF seqNo < noOfCmds THEN SendMibUploadNext /\ UNCHANGED reader
       ELSE WillPost(r, "persist") /\ UNCHANGED <<seqNo, open>>
    /\ UNCHANGED <<noOfCmds, lastTx, panicked>>

\* handleTestMsg: the template has been loaded, or has not.
ReadLoaded(r) ==
    /\ \E ok \in BOOLEAN :
         /\ Reads(r, Message("loaded", 0, ok))
         /\ WillPost(r, IF ok THEN "inSync" ELSE "uploading")
    /\ UNCHANGED <<chanVars, open, db, panicked>>

\* createAndPersistMibTemplate, from the database of the moment.
PersistTemplate(r) ==
    /\ Alive
    /\ reader[r] = "persist"
    /\ \/ template' = db /\ UNCHANGED faults
       \/ Fault /\ UNCHANGED template
    /\ WillPost(r, "inSync")
    /\ UNCHANGED <<fsmVars, taskVars, chanVars, wireVars, db, fsmMsg, others, panicked, mixed>>

-----------------------------------------------------------------------------
(* The events of the readers, and the entry callbacks.                     *)

\* r posts the event that leads to a state, which the state knows.
Posts(r, to) ==
    /\ Alive
    /\ reader[r] = to
    /\ callback = 0
    /\ state \in Sources(to)
    /\ state' = to
    /\ UNCHANGED <<taskVars, template, fsmMsg, restVars, commChan, lastTx>>

PostRefused(r) ==
    /\ Alive
    /\ reader[r] \in States
    /\ callback = 0
    /\ state \notin Sources(reader[r])
    /\ GoesOn(r)
    /\ UNCHANGED <<fsmVars, taskVars, chanVars, wireVars, dataVars, restVars>>

\* enterGettingVendorAndSerialState and the like send their request ...
PostGet(r) ==
    /\ \E g \in Gets : Posts(r, g) /\ open' = open \cup {Request(g, 0)}
    /\ callback' = r
    /\ reader' = [reader EXCEPT ![r] = "callback"]
    /\ UNCHANGED <<seqNo, noOfCmds, db>>

\* ... and record it as the last one.
RecordGet(r) ==
    /\ Alive
    /\ callback = r /\ state \in Gets
    /\ callback' = 0
    /\ lastTx' = state
    /\ GoesOn(r)
    /\ UNCHANGED <<state, taskVars, seqNo, noOfCmds, wireVars, dataVars, restVars>>

PostTemplate(r) ==
    /\ Posts(r, "gettingMibTemplate")
    /\ callback' = r
    /\ reader' = [reader EXCEPT ![r] = "callback"]
    /\ UNCHANGED <<open, seqNo, noOfCmds, db>>

\* enterGettingMibTemplate: what is found goes to the database ...
LoadTemplate(r) ==
    /\ Alive
    /\ reader[r] = "callback" /\ state = "gettingMibTemplate"
    /\ \E found \in {FromTemplate, {}} :
         /\ IF found = FromTemplate THEN UNCHANGED faults ELSE Fault
         /\ db' = db \cup found
         /\ fsmMsg' = (found # {})
    /\ reader' = [reader EXCEPT ![r] = "tell"]
    /\ UNCHANGED <<fsmVars, taskVars, chanVars, wireVars, template, others, panicked, mixed>>

\* ... and the result, kept in a variable of the package, to the machine.
TellLoaded(r) ==
    /\ Alive
    /\ reader[r] = "tell"
    /\ callback' = 0
    /\ commChan' = Append(commChan, Message("loaded", 0, fsmMsg))
    /\ GoesOn(r)
    /\ UNCHANGED <<state, taskVars, chanVars, open, dataVars, restVars>>

\* Another ONU looks for its template, and may have stored that of its type.
OtherOnuLoads ==
    /\ Alive
    /\ others < MaxOthers
    /\ others' = others + 1
    /\ fsmMsg' \in BOOLEAN
    /\ template' \in {template, Stored}
    /\ UNCHANGED <<fsmVars, taskVars, reader, chanVars, wireVars, db, faults, panicked, mixed>>

\* enterUploadingState, sendMibUpload.
PostUpload(r) ==
    /\ Posts(r, "uploading")
    /\ seqNo' = 0 /\ noOfCmds' = 0
    /\ open' = open \cup {Request("upload", Cmds)}
    /\ GoesOn(r)
    /\ UNCHANGED <<callback, db>>

PostSuccess(r) ==
    /\ Posts(r, "inSync")
    /\ GoesOn(r)
    /\ UNCHANGED <<callback, open, seqNo, noOfCmds, db>>

PostStop(r) ==
    /\ Posts(r, "disabled")
    /\ GoesOn(r)
    /\ UNCHANGED <<callback, open, seqNo, noOfCmds, db>>

\* Back to the first state: a new database and one more reader.
PostTimeout(r) ==
    /\ Posts(r, "starting")
    /\ db' = {}
    /\ \E n \in Readers :
         NewReader(n) /\ reader' = [reader EXCEPT ![r] = "read", ![n] = "read"]
    /\ UNCHANGED <<callback, open, seqNo, noOfCmds>>

-----------------------------------------------------------------------------
UpGoesOn(u) == UpStarts(u) \/ UpIsRefused(u) \/ UpResetsMib(u)

Handles(r) ==
    \/ ReadReset(r) \/ ReadGet(r) \/ ReadUpload(r) \/ ReadUploadNext(r) \/ ReadLoaded(r)
    \/ PersistTemplate(r)
    \/ PostRefused(r) \/ PostGet(r) \/ RecordGet(r) \/ PostTemplate(r)
    \/ LoadTemplate(r) \/ TellLoaded(r)
    \/ PostUpload(r) \/ PostSuccess(r) \/ PostStop(r) \/ PostTimeout(r)

Next ==
    \/ \E u \in Ups : UpReplacesChannel(u) \/ UpGoesOn(u)
    \/ DownStops \/ OtherOnuLoads
    \/ \E q \in open : Answer(q)
    \/ \E r \in Readers : Handles(r)

Spec == Init /\ [][Next]_vars

(* Goroutines are scheduled.  Nothing is assumed of the ONU and of         *)
(* indications.                                                            *)
FairSpec ==
    /\ Spec
    /\ \A u \in Ups : WF_vars(UpGoesOn(u))
    /\ \A r \in Readers : WF_vars(Handles(r))

-----------------------------------------------------------------------------
(* Properties.                                                             *)

Requests ==
    {Request("reset", 0), Request("upload", Cmds)}
        \cup {Request(g, 0) : g \in Gets} \cup {Request("next", e) : e \in Mes}
Responses ==
    Requests \cup {Message(k, 0, FALSE) : k \in Gets \cup {"reset"}}
        \cup {Request("upload", 0)} \cup {Message("loaded", 0, ok) : ok \in BOOLEAN}

FsmType == state \in States /\ callback \in Readers \cup {0}
TaskType == up \in [Ups -> {"none", "start", "reset", "done"}] /\ downs \in Nat
ReaderType == reader \in [Readers -> States \cup {"off", "read", "persist", "callback", "tell"}]
ChanType == seqNo \in 0 .. Cmds /\ noOfCmds \in 0 .. Cmds /\ lastTx \in Gets \cup {None}
WireType == commChan \in Seq(Responses) /\ open \subseteq Requests
DataType == db \subseteq Stored /\ template \subseteq Stored /\ fsmMsg \in BOOLEAN
RestType == others \in Nat /\ faults \in Nat /\ panicked \in BOOLEAN /\ mixed \in BOOLEAN

\* The values the fields, channels and goroutines range over.
TypeOK ==
    FsmType /\ TaskType /\ ReaderType /\ ChanType /\ WireType /\ DataType /\ RestType

(* enterInSyncState: the UNI ports and the T-CONTs are taken from the      *)
(* database; createAndPersistMibTemplate: other ONUs of the type start     *)
(* from the template.  Unless runs are mixed, the template is a whole MIB, *)
(* and the database has all that is taken from it, as long as no other ONU *)
(* is loaded.                                                              *)
DataIsComplete ==
    ~mixed => /\ template \in {{}, Stored}
              /\ state = "inSync" /\ others = 0 => Supported \subseteq db

(* "no valid MEs stored from template - perform MIB-upload!"               *)
(* (enterGettingMibTemplate): the same whatever other ONUs do.             *)
LoadedOrUploaded == state = "inSync" /\ ~mixed => Supported \subseteq db

(* The machine has no timer: a run goes on as long as a request is not     *)
(* answered, a response not read or an event not posted.  It never waits   *)
(* for nothing on its way, unless runs are mixed or the adapter is gone.   *)
RunGoesOn ==
    ~mixed /\ ~panicked /\ state \notin {"disabled", "starting", "inSync"}
        => open # {} \/ Busy

(* handleOmciGetResponseMessage does not look whether there is a last      *)
(* request: it may find none only with a reader of an earlier run, or of   *)
(* an earlier run's response.                                              *)
PanicNeedsRestart ==
    panicked => mixed \/ \E r, s \in Readers : r # s /\ "off" \notin {reader[r], reader[s]}

(* When the ONU answers without errors, an upload ends, unless runs are    *)
(* mixed or a second reader takes a response before its request is         *)
(* recorded, which stops the machine or the adapter.                       *)
UploadEnds ==
    (\A q \in Requests : WF_vars(q \in open /\ Answer(q)))
        => (state = "starting" ~>
               state \in {"inSync", "disabled"} \/ mixed \/ panicked \/ faults > 0)

Machine == INSTANCE UploadMachine WITH
    phase <- IF state \in Gets \cup {"starting", "resettingMib"} THEN "getting"
             ELSE IF state = "gettingMibTemplate" THEN "template" ELSE state

(* The machine keeps its promises to the device handler.                   *)
ImplementsMachine == Machine!Spec

=============================================================================
