---------------------------- MODULE InitialConfig ----------------------------
(***************************************************************************)
(* The configuration an ONU gets once its MIB is known: the UNI ports      *)
(* (device_handler.go, onu_uni_port.go), the MIB download that builds a    *)
(* bridge for each of them (mib_download.go), and the unlock of the ONU    *)
(* and its UNIs (uniportadmin.go), which the completed download starts.    *)
(*                                                                         *)
(* Both machines have the same parts: a goroutine that reads the responses *)
(* (the message loop), and one that sends a request for each UNI and waits *)
(* 30 s at most for each response, which the message loop hands over an    *)
(* unbuffered channel.  The requests for the ONU itself are sent by the    *)
(* entry callbacks, and nobody waits for their responses with a time-out.  *)
(* A response counts if it is about the entity of the request that was     *)
(* recorded last, in a variable all machines of the ONU share.             *)
(*                                                                         *)
(* Each machine runs once: devState lets each stage event pass only once   *)
(* (DeviceHandler), and the lock machine is switched off with disable and  *)
(* re-enable.  The ONU takes the requests in the order they are sent.      *)
(***************************************************************************)
EXTENDS Naturals, Sequences, FiniteSets

CONSTANTS
    Mibs,       \* MIBs an ONU may have: the instances of UniG and of VEIP
    OnuId,      \* of the ONU on its PON
    UniBits,    \* bitsForUniID
    MaxDowns,   \* bound: down indications
    MaxOthers,  \* bound: requests other machines of the ONU record
    MaxFaults   \* bound: lost or negative responses

ASSUME InitialConfigAssumption ==
    /\ \A m \in Mibs : /\ m.pptp \subseteq Nat /\ IsFiniteSet(m.pptp)
                       /\ m.veip \subseteq Nat /\ IsFiniteSet(m.veip)
    /\ OnuId \in Nat /\ UniBits \in Nat
    /\ MaxDowns \in Nat /\ MaxOthers \in Nat /\ MaxFaults \in Nat

VARIABLES
    mib,       \* what the MIB upload has stored in the ONU DB
    ports,     \* uniEntityMap
    active,    \* numbers of the ports the core was told to be ACTIVE
    reason,    \* deviceReason
    task,      \* goroutines of the device handler
    state,     \* of the machines
    callback,  \* entity an entry callback has sent for and not yet recorded
    posts,     \* goroutines that are about to post an event
    work,      \* the goroutine that goes through the UNIs
    loop,      \* the message loop
    commChan,  \* responses for the message loop
    lastTx,    \* pLastTxMeInstance
    line,      \* requests on their way to the ONU
    sent,      \* history: all requests sent
    acked,     \* history: requests the ONU has answered
    downs, others, faults, \* bounded events so far
    missed,    \* history: a response was not about the entity recorded last
    late       \* history: a wait has timed out before its response came

handlerVars == <<mib, ports, active, reason, task>>
machineVars == <<state, callback, posts>>
routineVars == <<work, loop, commChan, lastTx>>
onuVars == <<line, sent, acked>>
boundVars == <<downs, others, faults, missed, late>>
vars == <<handlerVars, machineVars, routineVars, onuVars, boundVars>>

-----------------------------------------------------------------------------
(* The UNI ports.                                                          *)

\* 1 << n.
Bit[n \in Nat] == IF n = 0 THEN 1 ELSE 2 * Bit[n - 1]

\* a | b.
Or[a \in Nat] ==
    [b \in Nat |->
        IF a = 0 \/ b = 0 THEN a + b
        ELSE 2 * Or[a \div 2][b \div 2] + (IF a % 2 = 1 \/ b % 2 = 1 THEN 1 ELSE 0)]

MaxUnisPerOnu == Bit[UniBits]

\* mkUniPortNum, for one PON.  An id that is too large is only logged.
PortNum(id) == Or[OnuId * MaxUnisPerOnu][id]

\* The elements of a set of instance numbers in ascending order.
SortedInstKeys(S) ==
    CHOOSE f \in [1 .. Cardinality(S) -> S] : \A i, j \in DOMAIN f : i < j => f[i] < f[j]

Port(type, inst, id) == [type |-> type, inst |-> inst, uniID |-> id]

\* A plausible bug: the VEIPs are numbered from 0 again.
PortsOfRestartsNumbers(m) ==
    LET p == SortedInstKeys(m.pptp)
        v == SortedInstKeys(m.veip)
    IN [i \in 1 .. Len(p) + Len(v) |->
           IF i <= Len(p) THEN Port("pptp", p[i], i - 1)
                          ELSE Port("veip", v[i - Len(p)], i - Len(p) - 1)]

\* The ports in the order they are added: the UniGs, then the VEIPs.
PortsOf(m) ==
    LET p == SortedInstKeys(m.pptp)
        v == SortedInstKeys(m.veip)
    IN [i \in 1 .. Len(p) + Len(v) |->
           IF i <= Len(p) THEN Port("pptp", p[i], i - 1)
                          ELSE Port("veip", v[i - Len(p)], i - 1)]

\* addUniPort for each: a port whose number is taken is left out.
AddUniPorts(seq) ==
    [n \in {PortNum(seq[i].uniID) : i \in DOMAIN seq} |->
        LET same == {i \in DOMAIN seq : PortNum(seq[i].uniID) = n}
        IN seq[CHOOSE i \in same : \A j \in same : i <= j]]

-----------------------------------------------------------------------------
(* The machines and their requests.                                        *)

Machines == {"download", "unlock"}

\* The states of the machines in their order; in bridge and unis each UNI
\* has its turn.  The time-out events are posted by nobody.
Table ==
    [m \in Machines |->
        IF m = "download" THEN <<"starting", "gal", "onu2g", "bridge", "done">>
                          ELSE <<"starting", "onug", "unis", "done">>]

Follow(m, s) == Table[m][1 + CHOOSE i \in DOMAIN Table[m] : Table[m][i] = s]

Simple == {"gal", "onu2g", "onug"}
Multi == {"bridge", "unis"}
Running == Simple \cup Multi \cup {"starting", "done"}
BridgeClasses == <<"mbsp", "mbpcd", "evtocd">>

\* A managed entity.  The constants the adapter adds to the instance
\* numbers of some classes are left out.
Entity(class, inst) == [class |-> class, inst |-> inst]
None == Entity("none", 0)
Foreign == Entity("other", 0)   \* of some other machine of the ONU

\* A request of machine m; no entity is used by both machines.
Request(m, e) == [from |-> m, entity |-> e]
Abort == Request("none", None)

Orders(S) == {o \in [1 .. Cardinality(S) -> S] : \A x \in S : \E i \in DOMAIN o : o[i] = x}

\* The bridge of a port: the service profile and the VLAN tagging are
\* numbered by the UNI's id, the bridge port by the UNI's instance.
BridgeEntity(p, class) == Entity(class, IF class = "mbpcd" THEN p.inst ELSE p.uniID)

\* A plausible bug: the last entity of the last port is left out.
BridgeSetupStopsEarly(order) ==
    [i \in 1 .. 3 * Len(order) - 1 |->
        BridgeEntity(ports[order[((i - 1) \div 3) + 1]], BridgeClasses[((i - 1) % 3) + 1])]

\* What the goroutine of state s has to ask for, the ports taken in order.
BridgeSetup(order) ==
    [i \in 1 .. 3 * Len(order) |->
        BridgeEntity(ports[order[((i - 1) \div 3) + 1]], BridgeClasses[((i - 1) % 3) + 1])]

AdminSet(order) ==
    [i \in DOMAIN order |->
        Entity(IF ports[order[i]].type = "pptp" THEN "uniG" ELSE "veip", ports[order[i]].inst)]

ToDo(m, order) == IF m = "download" THEN BridgeSetup(order) ELSE AdminSet(order)

Goroutine(at, todo) == [at |-> at, todo |-> todo]
Off == Goroutine("off", << >>)
Moved(m, at) == [work EXCEPT ![m] = Goroutine(at, @.todo)]
Post(start, reset, restart) == [start |-> start, reset |-> reset, restart |-> restart]

Init ==
    /\ mib \in Mibs
    /\ ports = << >> /\ active = {}
    /\ reason = "starting-openomci"
    /\ task = [sync |-> "ready", downloaded |-> "none", enable |-> "none"]
    /\ state = [m \in Machines |-> "disabled"]
    /\ callback = [m \in Machines |-> None]
    /\ posts = [m \in Machines |-> Post(0, 0, 0)]
    /\ work = [m \in Machines |-> Off]
    /\ loop = [m \in Machines |-> "off"]
    /\ commChan = [m \in Machines |-> << >>]
    /\ lastTx = Foreign
    /\ line = << >> /\ sent = {} /\ acked = {}
    /\ downs = 0 /\ others = 0 /\ faults = 0 /\ missed = FALSE /\ late = FALSE

-----------------------------------------------------------------------------
(* More plausible bugs.  Each operator is the definition below whose name  *)
(* it starts with, changed in the way its comment says; no specification   *)
(* uses one.                                                               *)

\* The message loop is not told to end.
ResetWithoutAbort(m, p) ==
    /\ callback[m] = None
    /\ IF state[m] \in Running
          THEN /\ state' = [state EXCEPT ![m] = "resetting"]
               /\ posts' = [posts EXCEPT ![m] = [p EXCEPT !.restart = @ + 1]]
          ELSE posts' = [posts EXCEPT ![m] = p] /\ UNCHANGED state
    /\ UNCHANGED <<callback, commChan>>

\* A restart is executed that nobody has posted.
PostedRestartUncounted(m) ==
    /\ callback[m] = None
    /\ posts' = [posts EXCEPT ![m].restart = @ - 1]
    /\ state' = [state EXCEPT ![m] = IF @ = "resetting" THEN "disabled" ELSE @]
    /\ UNCHANGED <<handlerVars, callback, routineVars, onuVars, boundVars>>

-----------------------------------------------------------------------------
(* Events.                                                                 *)

\* The event that ends state s of machine m; an event the state does not
\* know changes nothing.  The request of a state with one entity is sent.
Advance(m, s) ==
    /\ callback[m] = None
    /\ IF state[m] = s
          THEN LET to == Follow(m, s)
                   q == Request(m, Entity(to, 0))
               IN /\ state' = [state EXCEPT ![m] = to]
                  /\ callback' = [callback EXCEPT ![m] = IF to \in Simple THEN q.entity ELSE None]
                  /\ line' = IF to \in Simple THEN Append(line, q) ELSE line
                  /\ sent' = IF to \in Simple THEN sent \cup {q} ELSE sent
          ELSE UNCHANGED <<state, callback, line, sent>>

\* dlEvReset, uniEvReset: the message loop is told to end and a restart is
\* posted; p are the other posts of m, the caller's own step taken.
Reset(m, p) ==
    /\ callback[m] = None
    /\ IF state[m] \in Running
          THEN /\ state' = [state EXCEPT ![m] = "resetting"]
               /\ commChan' = [commChan EXCEPT ![m] = Append(@, Abort)]
               /\ posts' = [posts EXCEPT ![m] = [p EXCEPT !.restart = @ + 1]]
          ELSE posts' = [posts EXCEPT ![m] = p] /\ UNCHANGED <<state, commChan>>
    /\ UNCHANGED callback

-----------------------------------------------------------------------------
(* The device handler.                                                     *)

Goes(t, from, to) == task[t] = from /\ task' = [task EXCEPT ![t] = to]

\* processMibDatabaseSyncEvent, once the core knows the reason.
NameMibSync ==
    /\ Goes("sync", "ready", "named")
    /\ reason' = "discovery-mibsync-complete"
    /\ UNCHANGED <<mib, ports, active, machineVars, routineVars, onuVars, boundVars>>

\* The ports are added and the download is started: enterDLStartingState.
StartDownload ==
    /\ Goes("sync", "named", "gal")
    /\ ports' = AddUniPorts(PortsOf(mib))
    /\ state' = [state EXCEPT !["download"] = "starting"]
    /\ loop' = [loop EXCEPT !["download"] = "read"]
    /\ UNCHANGED <<mib, active, reason, callback, posts, work, commChan, lastTx, onuVars,
                   boundVars>>

CreateGal ==
    /\ Goes("sync", "gal", "done")
    /\ Advance("download", "starting")
    /\ UNCHANGED <<mib, ports, active, reason, posts, routineVars, acked, boundVars>>

\* processMibDownloadDoneEvent, once the core knows state and reason.
NameDownloaded ==
    /\ Goes("downloaded", "spawned", "named")
    /\ reason' = "initial-mib-downloaded"
    /\ UNCHANGED <<mib, ports, active, machineVars, routineVars, onuVars, boundVars>>

\* createUniLockFsm and runUniLockFsm: enterAdminStartingState.
StartUnlock ==
    /\ Goes("downloaded", "named", "done")
    /\ state' = [state EXCEPT !["unlock"] = "starting"]
    /\ loop' = [loop EXCEPT !["unlock"] = "read"]
    /\ posts' = [posts EXCEPT !["unlock"].start = 1]
    /\ UNCHANGED <<mib, ports, active, reason, callback, work, commChan, lastTx, onuVars,
                   boundVars>>

PostedStart ==
    /\ posts["unlock"].start > 0
    /\ posts' = [posts EXCEPT !["unlock"].start = @ - 1]
    /\ Advance("unlock", "starting")
    /\ UNCHANGED <<handlerVars, routineVars, acked, boundVars>>

\* enableUniPortStateUpdate: activeUniPortStateUpdateMask lets pass the
\* first UNI only.
EnablePorts ==
    /\ Goes("enable", "spawned", "done")
    /\ active' = {n \in DOMAIN ports : ports[n].uniID = 0}
    /\ UNCHANGED <<mib, ports, reason, machineVars, routineVars, onuVars, boundVars>>

\* updateInterface: the machine that may be running, by the reason.
Down ==
    /\ downs < MaxDowns
    /\ reason # "stopping-openomci"
    /\ downs' = downs + 1
    /\ IF reason = "discovery-mibsync-complete" THEN Reset("download", posts["download"])
       ELSE IF reason = "initial-mib-downloaded" THEN Reset("unlock", posts["unlock"])
       ELSE UNCHANGED <<machineVars, commChan>>
    /\ active' = {}
    /\ UNCHANGED <<mib, ports, reason, task, work, loop, lastTx, onuVars, others, faults,
                   missed, late>>

\* Its end, once the core knows the reason.
NameStopped ==
    /\ downs > 0
    /\ reason # "stopping-openomci"
    /\ reason' = "stopping-openomci"
    /\ UNCHANGED <<mib, ports, active, task, machineVars, routineVars, onuVars, boundVars>>

-----------------------------------------------------------------------------
(* The entry callbacks, the ONU and other machines.                        *)

\* The callback records its request and returns.
Recorded(m) ==
    /\ callback[m] # None
    /\ lastTx' = callback[m]
    /\ callback' = [callback EXCEPT ![m] = None]
    /\ loop' = [loop EXCEPT ![m] = IF @ = "callback" THEN "read" ELSE @]
    /\ UNCHANGED <<handlerVars, state, posts, work, commChan, onuVars, boundVars>>

\* The ONU takes the next request and answers it; it refuses to create what
\* it already has, and a refusal is dropped by the message loop.
Answer ==
    /\ line # << >>
    /\ line' = Tail(line)
    /\ acked' = acked \cup {Head(line)}
    /\ commChan' = IF Head(line) \in acked THEN commChan
                   ELSE [commChan EXCEPT ![Head(line).from] = Append(@, Head(line))]
    /\ UNCHANGED <<handlerVars, machineVars, work, loop, lastTx, sent, boundVars>>

\* The answer is negative, or lost.
Fail ==
    /\ faults < MaxFaults
    /\ faults' = faults + 1
    /\ line # << >>
    /\ line' = Tail(line)
    /\ UNCHANGED <<handlerVars, machineVars, routineVars, sent, acked, downs, others, missed,
                   late>>

\* Another machine, as that of the ANI configuration, records a request.
OtherRecords ==
    /\ others < MaxOthers
    /\ others' = others + 1
    /\ lastTx' = Foreign
    /\ UNCHANGED <<handlerVars, machineVars, work, loop, commChan, onuVars, downs, faults,
                   missed, late>>

-----------------------------------------------------------------------------
(* The message loop of machine m: processMibDownloadMessages and           *)
(* processOmciLockMessages.                                                *)

Reads(m, q) ==
    /\ loop[m] = "read"
    /\ commChan[m] # << >>
    /\ q = Head(commChan[m])
    /\ commChan' = [commChan EXCEPT ![m] = Tail(@)]
    /\ UNCHANGED <<handlerVars, machineVars, lastTx, onuVars, downs, others, faults,
                   late>>

ReadAbort(m) ==
    /\ Reads(m, Abort)
    /\ loop' = [loop EXCEPT ![m] = "gone"]
    /\ UNCHANGED <<work, missed>>

\* A plausible bug: it does not know the last entity of a bridge.
KnownButEvtocd(q) == q.entity.class \notin {"veip", "evtocd"}

\* The machine knows what to do with the response.  That of a VEIP it takes
\* for something else: it compares "VEIP" with the name of the entity,
\* "VirtualEthernetInterfacePoint".
Known(q) == q.entity.class # "veip"

\* Not for the entity recorded last, or unknown: dropped.
ReadUnexpected(m) ==
    /\ \E q \in acked :
         /\ Reads(m, q)
         /\ lastTx # q.entity \/ ~Known(q)
         /\ missed' = (missed \/ lastTx # q.entity)
    /\ UNCHANGED <<work, loop>>

\* The event of a state with one entity is about to be posted.
ReadSimple(m) ==
    /\ \E q \in acked :
         /\ Reads(m, q) /\ lastTx = q.entity
         /\ q.entity.class \in Simple
         /\ loop' = [loop EXCEPT ![m] = q.entity.class]
    /\ UNCHANGED <<work, missed>>

\* The goroutine of m has its response, and goes on or ends its state.
Released(w) ==
    Goroutine(IF Len(w.todo) = 1 THEN "next" ELSE "send", Tail(w.todo))

\* Handed over at once if the goroutine waits; else the loop blocks.
ReadMulti(m) ==
    /\ \E q \in acked :
         /\ Reads(m, q) /\ lastTx = q.entity /\ Known(q)
         /\ q.entity.class \notin Simple
    /\ IF work[m].at = "wait"
          THEN work' = [work EXCEPT ![m] = Released(@)] /\ UNCHANGED loop
          ELSE loop' = [loop EXCEPT ![m] = "hand"] /\ UNCHANGED work
    /\ UNCHANGED missed

PostEvent(m) ==
    /\ loop[m] \in Simple
    /\ Advance(m, loop[m])
    /\ loop' = [loop EXCEPT ![m] = IF callback'[m] = None THEN "read" ELSE "callback"]
    /\ work' = IF state'[m] \in Multi /\ state[m] \notin Multi
                  THEN Moved(m, "begin") ELSE work
    /\ UNCHANGED <<handlerVars, posts, commChan, lastTx, acked, boundVars>>

-----------------------------------------------------------------------------
(* performInitialBridgeSetup and performUniPortAdminSet.                   *)

\* The ports come in the order of a Go map, which is any.
Begin(m) ==
    /\ work[m].at = "begin"
    /\ \E order \in Orders(DOMAIN ports) :
         LET todo == ToDo(m, order)
         IN work' = [work EXCEPT ![m] = Goroutine(IF todo = << >> THEN "next" ELSE "send", todo)]
    /\ UNCHANGED <<handlerVars, machineVars, loop, commChan, lastTx, onuVars, boundVars>>

Send(m) ==
    /\ work[m].at = "send"
    /\ work' = Moved(m, "record")
    /\ line' = Append(line, Request(m, Head(work[m].todo)))
    /\ sent' = sent \cup {Request(m, Head(work[m].todo))}
    /\ UNCHANGED <<handlerVars, machineVars, loop, commChan, lastTx, acked, boundVars>>

\* The request is recorded and its response waited for; a blocked message
\* loop hands over what it has.
RecordAndWait(m) ==
    /\ work[m].at = "record"
    /\ lastTx' = Head(work[m].todo)
    /\ IF loop[m] = "hand"
          THEN /\ loop' = [loop EXCEPT ![m] = "read"]
               /\ work' = [work EXCEPT ![m] = Released(@)]
          ELSE /\ work' = Moved(m, "wait")
               /\ UNCHANGED loop
    /\ UNCHANGED <<handlerVars, machineVars, commChan, onuVars, boundVars>>

\* The request of the goroutine may still be answered in time.
Pending(m) ==
    LET q == Request(m, Head(work[m].todo))
    IN q \in {line[i] : i \in DOMAIN line} \cup {commChan[m][i] : i \in DOMAIN commChan[m]}

\* waitforOmciResponse gives up.
TimeOut(m) ==
    /\ work[m].at = "wait"
    /\ work' = Moved(m, "reset")
    /\ late' = (late \/ Pending(m))
    /\ UNCHANGED <<handlerVars, machineVars, loop, commChan, lastTx, onuVars, downs, others,
                   faults, missed>>

AbortRun(m) ==
    /\ work[m].at = "reset"
    /\ work' = Moved(m, "gone")
    /\ Reset(m, posts[m])
    /\ UNCHANGED <<handlerVars, loop, lastTx, onuVars, boundVars>>

\* A plausible bug: the goroutine tells the handler, whatever became of its
\* event.
EndWorkAlwaysTells(m) ==
    /\ work[m].at = "next"
    /\ work' = Moved(m, "gone")
    /\ Advance(m, IF m = "download" THEN "bridge" ELSE "unis")
    /\ posts' = [posts EXCEPT ![m].reset = @ + 1]
    /\ task' = IF m = "download" THEN [task EXCEPT !.downloaded = "spawned"]
                                 ELSE [task EXCEPT !.enable = "spawned"]
    /\ UNCHANGED <<mib, ports, active, reason, loop, commChan, lastTx, acked, boundVars>>

\* All UNIs have had their turn.  A completed machine tells the handler:
\* transferSystemEvent, or deviceProcStatusUpdate.
EndWork(m) ==
    /\ work[m].at = "next"
    /\ work' = Moved(m, "gone")
    /\ Advance(m, IF m = "download" THEN "bridge" ELSE "unis")
    /\ IF state'[m] = "done" /\ state[m] # "done"
          THEN /\ posts' = [posts EXCEPT ![m].reset = @ + 1]
               /\ task' = IF m = "download" THEN [task EXCEPT !.downloaded = "spawned"]
                                            ELSE [task EXCEPT !.enable = "spawned"]
          ELSE UNCHANGED <<posts, task>>
    /\ UNCHANGED <<mib, ports, active, reason, loop, commChan, lastTx, acked, boundVars>>

-----------------------------------------------------------------------------
(* The end of a machine.                                                   *)

PostedReset(m) ==
    /\ posts[m].reset > 0
    /\ Reset(m, [posts[m] EXCEPT !.reset = @ - 1])
    /\ UNCHANGED <<handlerVars, work, loop, lastTx, onuVars, boundVars>>

PostedRestart(m) ==
    /\ posts[m].restart > 0
    /\ callback[m] = None
    /\ posts' = [posts EXCEPT ![m].restart = @ - 1]
    /\ state' = [state EXCEPT ![m] = IF @ = "resetting" THEN "disabled" ELSE @]
    /\ UNCHANGED <<handlerVars, callback, routineVars, onuVars, boundVars>>

-----------------------------------------------------------------------------
MessageLoop(m) ==
    \/ ReadAbort(m) \/ ReadUnexpected(m) \/ ReadSimple(m) \/ ReadMulti(m) \/ PostEvent(m)

Worker(m) == Begin(m) \/ Send(m) \/ RecordAndWait(m) \/ AbortRun(m) \/ EndWork(m)

MachineSteps(m) == Recorded(m) \/ PostedReset(m) \/ PostedRestart(m)

HandlerSteps ==
    \/ NameMibSync \/ StartDownload \/ CreateGal
    \/ NameDownloaded \/ StartUnlock \/ PostedStart \/ EnablePorts

Goroutines ==
    \/ HandlerSteps
    \/ \E m \in Machines : MessageLoop(m) \/ Worker(m) \/ TimeOut(m) \/ MachineSteps(m)

Next ==
    \/ Goroutines
    \/ Down \/ NameStopped
    \/ Answer \/ Fail \/ OtherRecords

Spec == Init /\ [][Next]_vars

(* As long as some goroutine can go on, or its timer expires, one does.    *)
(* Nothing is assumed of the ONU and of the indications.                   *)
FairSpec == Spec /\ WF_vars(Goroutines)

-----------------------------------------------------------------------------
(* Properties.                                                             *)

Classes == {"gal", "onu2g", "onug", "mbsp", "mbpcd", "evtocd", "uniG", "veip"}
Entities == [class : Classes, inst : Nat]
Requests == [from : Machines, entity : Entities]

HandlerType ==
    /\ mib \in Mibs
    /\ \A n \in DOMAIN ports :
         ports[n] \in [type : {"pptp", "veip"}, inst : Nat, uniID : Nat]
    /\ active \subseteq DOMAIN ports
    /\ reason \in {"starting-openomci", "discovery-mibsync-complete",
                   "initial-mib-downloaded", "stopping-openomci"}
    /\ task \in [sync : {"ready", "named", "gal", "done"},
                 downloaded : {"none", "spawned", "named", "done"},
                 enable : {"none", "spawned", "done"}]
MachineType ==
    /\ state \in [Machines -> Running \cup {"disabled", "resetting"}]
    /\ callback \in [Machines -> Entities \cup {None}]
    /\ posts \in [Machines -> [start : Nat, reset : Nat, restart : Nat]]
RoutineType ==
    /\ work \in [Machines -> [at : {"off", "begin", "send", "record", "wait", "reset",
                                   "next", "gone"},
                              todo : Seq(Entities)]]
    /\ loop \in [Machines -> {"off", "read", "hand", "callback", "gone"} \cup Simple]
    /\ commChan \in [Machines -> Seq(Requests \cup {Abort})]
    /\ lastTx \in Entities \cup {Foreign}
OnuType ==
    /\ line \in Seq(Requests)
    /\ sent \subseteq Requests /\ acked \subseteq Requests
BoundType ==
    /\ downs \in Nat /\ others \in Nat /\ faults \in Nat
    /\ missed \in BOOLEAN /\ late \in BOOLEAN

\* The values the fields, channels and goroutines range over.
TypeOK == HandlerType /\ MachineType /\ RoutineType /\ OnuType /\ BoundType

\* The UNIs of the MIB, without regard to their order.
Instances == ({"pptp"} \X mib.pptp) \cup ({"veip"} \X mib.veip)
Before(u, v) == (u[1] = "pptp" /\ v[1] = "veip") \/ (u[1] = v[1] /\ u[2] < v[2])
Uni(n) == <<ports[n].type, ports[n].inst>>

(* getSortedInstKeys, mkUniPortNum and addUniPort: an ONU with as many     *)
(* UNIs as the port number has room for gets one port for each, whose      *)
(* numbers order PPTPs before VEIPs and each by their instances.           *)
PortsFollowMib ==
    ports # << >> /\ Cardinality(Instances) <= MaxUnisPerOnu
        => /\ Instances = {Uni(n) : n \in DOMAIN ports}
           /\ \A n, k \in DOMAIN ports : n < k <=> Before(Uni(n), Uni(k))

BridgeOf(n) ==
    {Request("download", BridgeEntity(ports[n], BridgeClasses[i])) : i \in 1 .. 3}

UnlockOf(n) ==
    Request("unlock", Entity(IF ports[n].type = "pptp" THEN "uniG" ELSE "veip", ports[n].inst))

(* processMibDownloadDoneEvent, enableUniPortStateUpdate: a UNI is asked to *)
(* unlock only when the ONU has confirmed the bridge entities of all its   *)
(* UNIs, and a port the core sees as ACTIVE belongs to an ONU all UNIs of  *)
(* which are unlocked, whatever response is lost, late or taken for        *)
(* another.                                                                *)
StageByStage ==
    /\ \A n, k \in DOMAIN ports : UnlockOf(n) \in sent => BridgeOf(k) \subseteq acked
    /\ active # {} => \A n \in DOMAIN ports : UnlockOf(n) \in acked

HasVeip == mib.veip # {}
Undisturbed == downs = 0 /\ faults = 0 /\ ~missed /\ ~late

(* When the ONU answers in time and no response overtakes the record of    *)
(* its request, or comes after that of another machine, the configuration  *)
(* of an ONU without VEIPs comes to its end: its ports are enabled.        *)
AnsweredConfigEnds ==
    WF_vars(Answer) => (task.sync = "ready" ~> (task.enable = "done" \/ ~Undisturbed \/ HasVeip))

(* runUniLockFsm: "should run via 'adminDone' state and generate the       *)
(* argument requested event", also for an ONU with VEIPs.                  *)
UnlockRunsViaDone ==
    WF_vars(Answer) => (state["unlock"] = "starting" ~> (task.enable # "none" \/ ~Undisturbed))

(* What that means for the user of an ONU that has a VEIP among its ports:  *)
(* none of its ports ever becomes ACTIVE, whatever the ONU answers.        *)
VeipNeverActive ==
    (\E n \in DOMAIN ports : ports[n].type = "veip") => active = {} /\ task.enable = "none"

(* waitforOmciResponse, enterResettingState: the states bridge and unis    *)
(* are left for good, at the latest after a time-out, whatever the ONU     *)
(* answers; and once a machine is at rest its message loop has ended,      *)
(* unless a response came too late and blocks the loop for good.           *)
RoutinesEnd ==
    <>[](\A m \in Machines :
            /\ state[m] \notin Multi
            /\ state[m] \notin Running
               => loop[m] \in {"off", "gone"} \/ (loop[m] = "hand" /\ late))

Phase(m) == IF state[m] \in Running \ {"done"} THEN "running" ELSE state[m]

Download == INSTANCE StageMachine WITH
    phase <- Phase("download"), told <- task.downloaded # "none"
Unlock == INSTANCE StageMachine WITH
    phase <- Phase("unlock"), told <- task.enable # "none"

(* To the device handler the two are machines that tell it once, and only  *)
(* of a run that has come to its end.                                      *)
ImplementsStages == Download!Spec /\ Unlock!Spec

=============================================================================
