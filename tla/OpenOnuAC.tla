------------------------------- MODULE OpenOnuAC -------------------------------
(***************************************************************************)
(* The adapter (openonu.go): the map of the device handlers, and the       *)
(* requests that find, create and use them.                                *)
(*                                                                         *)
(* Each request of the core and each message of the OLT runs on its own    *)
(* goroutine (kp.handleMessage of voltha-lib-go).  The map is locked for   *)
(* each access, but not between the look-up and the addition.  A new       *)
(* handler is initialised by one more goroutine (adoptOrReconcileDevice);  *)
(* messages that come before it has its device entry wait for that, 60 s   *)
(* at most.  Handlers are never removed; a restart of the adapter loses    *)
(* them all, and the core then reconciles its devices from what is stored. *)
(***************************************************************************)
EXTENDS Naturals, FiniteSets

CONSTANTS
    Devices,
    Adopts, Reconciles, Deletes,  \* requests of the core
    Messages,     \* up indications and OMCI messages of the OLT
    Indications,  \* the up indications
    DeviceOf,     \* the device a request is about
    None,         \* no handler
    MaxRestarts,  \* bound: restarts of the adapter
    MaxFaults     \* bound: KV calls that fail

Creators == Adopts \cup Reconciles
Requests == Creators \cup Deletes \cup Messages

ASSUME OpenOnuACAssumption ==
    /\ DeviceOf \in [Requests -> Devices]
    /\ None \notin Requests
    /\ Indications \subseteq Messages
    /\ Adopts \cap (Reconciles \cup Deletes \cup Messages) = {}
    /\ Reconciles \cap (Deletes \cup Messages) = {}
    /\ Deletes \cap Messages = {}
    /\ MaxRestarts \in Nat /\ MaxFaults \in Nat

VARIABLES
    deviceHandlers,  \* the map: a handler is named after its creator
    at,           \* progress of the requests
    target,       \* the handler a request has found
    state,        \* initialisation of the handlers
    token,        \* handlers whose deviceEntrySet holds its value
    reconciling,  \* handlers that are reconciled
    started,      \* handlers whose device entry was started by an indication
    stored,       \* devices with data in the KV store
    restarts, faults,  \* bounded events so far
    overlapped,   \* history: devices two creators have looked up at a time
    crowded,      \* history: handlers two messages have waited for at a time
    late,         \* history: messages that did not wait long enough
    deleted       \* history: devices whose data was deleted, or not read

requestVars == <<at, target>>
handlerVars == <<state, token, reconciling, started>>
boundVars == <<restarts, faults>>
historyVars == <<overlapped, crowded, late, deleted>>
vars == <<deviceHandlers, requestVars, handlerVars, stored, boundVars, historyVars>>

Init ==
    /\ deviceHandlers = [d \in Devices |-> None]
    /\ at = [r \in Requests |-> "idle"]
    /\ target = [r \in Requests |-> None]
    /\ state = [c \in Creators |-> "none"]
    /\ token = {} /\ reconciling = {} /\ started = {}
    /\ stored \in SUBSET Devices
    /\ restarts = 0 /\ faults = 0
    /\ overlapped = {} /\ crowded = {} /\ late = {} /\ deleted = {}

Goes(r, from, to) == at[r] = from /\ at' = [at EXCEPT ![r] = to]
Becomes(c, from, to) == state[c] = from /\ state' = [state EXCEPT ![c] = to]
HasEntry(c) == state[c] \in {"entry", "restore", "ready"}

\* Requests that have found no handler of d and not yet added theirs.
Creating(d) == {c \in Creators : at[c] = "create" /\ DeviceOf[c] = d}
WaitingFor(c) == {m \in Messages : at[m] = "waiting" /\ target[m] = c}

-----------------------------------------------------------------------------
(* Plausible bugs.  Each operator is the definition below whose name it    *)
(* starts with, changed in the way its comment says; no specification uses *)
(* one.                                                                    *)

\* The map is not asked.
FindsHandlerNever(c) == FALSE

\* A reconciled handler is initialised before it is marked.
AddToMapAndGo(c) ==
    /\ Goes(c, "create", IF c \in Adopts THEN "done" ELSE "mark")
    /\ deviceHandlers' =
           [deviceHandlers EXCEPT ![DeviceOf[c]] = IF @ = None THEN c ELSE @]
    /\ state' = [state EXCEPT ![c] = "spawned"]
    /\ UNCHANGED <<target, token, reconciling, started, stored, boundVars, historyVars>>

\* Nobody who waits is told.
FireEntryReadySilently(c) ==
    /\ Becomes(c, "entry", IF c \in reconciling THEN "restore" ELSE "ready")
    /\ UNCHANGED <<deviceHandlers, requestVars, token, reconciling, started, stored, boundVars,
                   historyVars>>

-----------------------------------------------------------------------------
(* Adopt_device and Reconcile_device.                                      *)

FindsHandler(c) == deviceHandlers[DeviceOf[c]] # None

\* getDeviceHandler: the device is known.
FindKnown(c) ==
    /\ FindsHandler(c)
    /\ Goes(c, "idle", IF c \in Adopts THEN "done" ELSE "failed")
    /\ UNCHANGED <<deviceHandlers, target, handlerVars, stored, boundVars, historyVars>>

\* newDeviceHandler.
FindUnknown(c) ==
    /\ ~FindsHandler(c)
    /\ Goes(c, "idle", "create")
    /\ overlapped' = IF Creating(DeviceOf[c]) = {} THEN overlapped
                                                   ELSE overlapped \cup {DeviceOf[c]}
    /\ UNCHANGED <<deviceHandlers, target, handlerVars, stored, boundVars, crowded, late,
                   deleted>>

\* addDeviceHandlerToMap, which keeps what it has; the handler is started
\* all the same, after a reconciled one has been marked.
AddToMap(c) ==
    /\ Goes(c, "create", IF c \in Adopts THEN "done" ELSE "mark")
    /\ deviceHandlers' =
           [deviceHandlers EXCEPT ![DeviceOf[c]] = IF @ = None THEN c ELSE @]
    /\ state' = [state EXCEPT ![c] = IF c \in Adopts THEN "spawned" ELSE "null"]
    /\ UNCHANGED <<target, token, reconciling, started, stored, boundVars, historyVars>>

\* adoptOrReconcileDevice does nothing once it has been done.
MarkReconciling(c) ==
    /\ Goes(c, "mark", "done")
    /\ reconciling' = reconciling \cup {c}
    /\ state' = [state EXCEPT ![c] = IF @ = "null" THEN "spawned" ELSE @]
    /\ UNCHANGED <<deviceHandlers, target, token, started, stored, boundVars, historyVars>>

-----------------------------------------------------------------------------
(* adoptOrReconcileDevice.                                                 *)

\* doStateInit, with its calls to the core.
DoStateInit(c) ==
    /\ Becomes(c, "spawned", "init")
    /\ UNCHANGED <<deviceHandlers, requestVars, token, reconciling, started, stored, boundVars,
                   historyVars>>

SetOnuDeviceEntry(c) ==
    /\ Becomes(c, "init", "entry")
    /\ UNCHANGED <<deviceHandlers, requestVars, token, reconciling, started, stored, boundVars,
                   historyVars>>

\* deviceEntrySet holds one value; postInit goes on with the restore.
FireEntryReady(c) ==
    /\ Becomes(c, "entry", IF c \in reconciling THEN "restore" ELSE "ready")
    /\ token' = token \cup {c}
    /\ UNCHANGED <<deviceHandlers, requestVars, reconciling, started, stored, boundVars,
                   historyVars>>

\* reconcileDeviceOnuInd: what is stored makes up an indication.
Restore(c) ==
    /\ Becomes(c, "restore", "ready")
    /\ DeviceOf[c] \in stored
    /\ started' = started \cup {c}
    /\ UNCHANGED <<deviceHandlers, requestVars, token, reconciling, stored, boundVars,
                   historyVars>>

\* Nothing is stored, or it cannot be read.
RestoreFails(c) ==
    /\ Becomes(c, "restore", "ready")
    /\ reconciling' = reconciling \ {c}
    /\ IF DeviceOf[c] \in stored
          THEN /\ faults < MaxFaults /\ faults' = faults + 1
               /\ deleted' = deleted \cup {DeviceOf[c]}
          ELSE UNCHANGED <<faults, deleted>>
    /\ UNCHANGED <<deviceHandlers, requestVars, token, started, stored, restarts, overlapped,
                   crowded, late>>

-----------------------------------------------------------------------------
(* Process_inter_adapter_message and Delete_device.                        *)

FindTarget(r) ==
    /\ Goes(r, "idle", IF FindsHandler(r) THEN "found" ELSE "failed")
    /\ target' = [target EXCEPT ![r] = deviceHandlers[DeviceOf[r]]]
    /\ UNCHANGED <<deviceHandlers, handlerVars, stored, boundVars, historyVars>>

\* An up indication starts the entry; OMCI messages are for its OMCI channel,
\* which is created then (PDevOmciCC).
Hears(m) ==
    IF m \in Indications
       THEN started' = started \cup {target[m]}
       ELSE target[m] \in started /\ UNCHANGED started

\* getOnuDeviceEntry: the entry is there.
HandleMessage(m) ==
    /\ Goes(m, "found", "done")
    /\ HasEntry(target[m])
    /\ Hears(m)
    /\ UNCHANGED <<deviceHandlers, target, state, token, reconciling, stored, boundVars,
                   historyVars>>

WaitForEntry(m) ==
    /\ Goes(m, "found", "waiting")
    /\ ~HasEntry(target[m])
    /\ crowded' = IF WaitingFor(target[m]) = {} THEN crowded ELSE crowded \cup {target[m]}
    /\ UNCHANGED <<deviceHandlers, target, handlerVars, stored, boundVars, overlapped, late,
                   deleted>>

TakeToken(m) ==
    /\ Goes(m, "waiting", "done")
    /\ target[m] \in token
    /\ token' = token \ {target[m]}
    /\ Hears(m)
    /\ UNCHANGED <<deviceHandlers, target, state, reconciling, stored, boundVars, historyVars>>

\* 60 s have passed.
GiveUp(m) ==
    /\ Goes(m, "waiting", "failed")
    /\ target[m] \notin token
    /\ late' = IF state[target[m]] \in {"restore", "ready"} THEN late ELSE late \cup {m}
    /\ UNCHANGED <<deviceHandlers, target, handlerVars, stored, boundVars, overlapped, crowded,
                   deleted>>

\* storePersistentData, for a tech profile request (TechProf).
Store(d) ==
    /\ deviceHandlers[d] \in started
    /\ stored' = stored \cup {d}
    /\ UNCHANGED <<deviceHandlers, requestVars, handlerVars, boundVars, historyVars>>

\* deleteDevice: the stored data go, the handler stays.
DeleteStored(x) ==
    /\ Goes(x, "found", "done")
    /\ HasEntry(target[x])
    /\ stored' = stored \ {DeviceOf[x]}
    /\ deleted' = deleted \cup {DeviceOf[x]}
    /\ UNCHANGED <<deviceHandlers, target, handlerVars, boundVars, overlapped, crowded, late>>

DeleteFails(x) ==
    /\ Goes(x, "found", "failed")
    /\ HasEntry(target[x])
    /\ faults < MaxFaults /\ faults' = faults + 1
    /\ UNCHANGED <<deviceHandlers, target, handlerVars, stored, restarts, historyVars>>

-----------------------------------------------------------------------------
\* The process is gone with all its goroutines, and starts again.
Restarts ==
    /\ restarts' = restarts + 1
    /\ deviceHandlers' = [d \in Devices |-> None]
    /\ at' = [r \in Requests |-> IF at[r] = "idle" THEN "idle" ELSE "failed"]
    /\ target' = [r \in Requests |-> None]
    /\ state' = [c \in Creators |-> "none"]
    /\ token' = {} /\ reconciling' = {} /\ started' = {}
    /\ overlapped' = {} /\ crowded' = {} /\ late' = {} /\ deleted' = {}
    /\ UNCHANGED <<stored, faults>>

\* It ends by itself if the core refuses a port (logger.Fatalf).
Restart == restarts < MaxRestarts /\ Restarts

\* deleteDevice follows pOnuTP, which is not set before the entry is.
DeletePanics(x) ==
    /\ at[x] = "found"
    /\ ~HasEntry(target[x])
    /\ Restarts

\* An OMCI message meets an entry that has not been started: receiveMessage
\* follows PDevOmciCC, which is nil.
MessagePanics(m) ==
    /\ m \notin Indications
    /\ \/ at[m] = "found" /\ HasEntry(target[m])
       \/ at[m] = "waiting" /\ target[m] \in token
    /\ target[m] \notin started
    /\ Restarts

-----------------------------------------------------------------------------
Creation(c) == FindKnown(c) \/ FindUnknown(c) \/ AddToMap(c) \/ MarkReconciling(c)

Initialisation(c) ==
    \/ DoStateInit(c) \/ SetOnuDeviceEntry(c) \/ FireEntryReady(c)
    \/ Restore(c) \/ RestoreFails(c)

Handling(m) ==
    \/ FindTarget(m) \/ HandleMessage(m) \/ WaitForEntry(m) \/ TakeToken(m) \/ GiveUp(m)
    \/ MessagePanics(m)

Deletion(x) == FindTarget(x) \/ DeleteStored(x) \/ DeleteFails(x) \/ DeletePanics(x)

Next ==
    \/ \E c \in Creators : Creation(c) \/ Initialisation(c)
    \/ \E m \in Messages : Handling(m)
    \/ \E x \in Deletes : Deletion(x)
    \/ \E d \in Devices : Store(d)
    \/ Restart

Spec == Init /\ [][Next]_vars

(* A request that has begun, and the initialisation it has spawned, go on; *)
(* whoever waits has a timer.  Nothing is assumed of the core and the OLT. *)
FairSpec ==
    /\ Spec
    /\ \A c \in Creators : WF_vars(AddToMap(c) \/ MarkReconciling(c) \/ Initialisation(c))
    /\ \A m \in Messages : WF_vars(TakeToken(m) \/ GiveUp(m) \/ MessagePanics(m))

-----------------------------------------------------------------------------
(* Properties.                                                             *)

\* The values of the map, the goroutines and the handlers.
TypeOK ==
    /\ deviceHandlers \in [Devices -> Creators \cup {None}]
    /\ at \in [Requests -> {"idle", "create", "mark", "found", "waiting", "done", "failed"}]
    /\ target \in [Requests -> Creators \cup {None}]
    /\ state \in [Creators -> {"none", "null", "spawned", "init", "entry", "restore", "ready"}]
    /\ token \subseteq Creators /\ reconciling \subseteq Creators
    /\ started \subseteq Creators
    /\ stored \subseteq Devices
    /\ restarts \in Nat /\ faults \in Nat
    /\ overlapped \subseteq Devices /\ crowded \subseteq Creators
    /\ late \subseteq Messages /\ deleted \subseteq Devices

HandlersOf(d) == {c \in Creators : DeviceOf[c] = d /\ state[c] # "none"}

(* Adopt_device: "creates a new device handler if not present already".    *)
(* Unless two requests have looked the device up before either has added   *)
(* its handler, all handlers that talk to the core and to the ONU of a     *)
(* device are the one its messages find.                                   *)
OrphanNeedsOverlap ==
    \A d \in Devices : d \notin overlapped => HandlersOf(d) \subseteq {deviceHandlers[d]}

(* getOnuDeviceEntry: a message goes unheard in a handler that has its     *)
(* entry only if it waited with another one for the only value of          *)
(* deviceEntrySet, or if the entry came later than its 60 s.               *)
UnheardNeedsAnother ==
    \A m \in Messages :
        at[m] = "failed" /\ target[m] # None => m \in late \/ target[m] \in crowded

(* Reconcile_device: the handler is initialised as one to be reconciled,   *)
(* although it is in the map before it is marked, so an ONU whose data are *)
(* stored is started again, unless they are lost first or the adapter      *)
(* restarts.                                                               *)
ReconciledIsRestored ==
    \A c \in Reconciles :
        at[c] = "mark" /\ DeviceOf[c] \in stored
            ~> c \in started \/ DeviceOf[c] \in deleted \/ state[c] = "none"

=============================================================================
