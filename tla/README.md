# A formal model of the OpenONU adapter

This directory holds TLA+ specifications of `voltha-openonu-adapter-go`, the
VOLTHA adapter that manages ONUs over OMCI, with the configurations that
model-check them (TLC) and the theorems proved about them (TLAPS).  All paths
below are relative to `src/internal/pkg/onuadaptercore/` unless they start with
`src/`.

## 1. The system

One adapter process serves many ONUs.  It talks to the VOLTHA core and to the
OLT adapter over Kafka, and keeps a little configuration in an etcd KV store.
It never talks to the ONU directly: OMCI frames are tunnelled through the OLT
adapter, in inter-adapter messages.

| component | source | state | operations |
|---|---|---|---|
| process frame | `src/cmd/epononu-adapter/main.go`, `config.go` | clients, readiness flags | start, stop, readiness loops |
| adapter | `openonu.go`, `openonuimpl.go` | map device id -> device handler | Adopt, Reconcile, Delete, Reboot, inter-adapter dispatch |
| device handler | `device_handler.go` | device reason, device state machine, references to everything below | ONU indications up and down, tech profile messages, reactions to the events of the ONU's state machines, flow updates |
| device entry | `onu_device_entry.go` | OMCI channel, ONU DB, MIB upload and download machines, `devState` | start, stop, reboot, transferSystemEvent |
| OMCI channel | `omci_cc.go` | TID counters, transmit queue, `rxSchedulerMap` | send, sendNextRequest, receiveMessage |
| MIB upload | `mib_sync.go` | state machine, last request | reset, get, template lookup, upload, upload-next |
| ONU DB | `onu_device_db.go` | attributes by class and instance | PutMe, GetMe |
| MIB download | `mib_download.go` | state machine, last request | GAL profile, ONU2-G, bridge setup per UNI |
| UNI lock/unlock | `uniportadmin.go` | state machine, last request | ONU-G and UNI administrative state |
| tech profile | `onu_uni_tp.go` | path per UNI (also in the KV store), ANI configuration per UNI, `tpProcMutex` | download message, T-CONT and GEM delete, restore |
| ANI configuration | `omci_ani_config.go` | state machine, last request | mapper, bridge port, T-CONT, GEM ports, queues |
| VLAN configuration | `omci_vlan_config.go` | state machine per UNI | tagging filter and extended tagging entries |
| UNI port | `onu_uni_port.go`, `platform.go` | port numbers, operational state | creation at the core, state changes |
| OMCI test | `omci_test_request.go` | one response channel | one-second connectivity check |
| list access, status, messages | `onu_list_access.go`, `status.go`, `olt_onu_msg.go`, `messageTypes.go` | - | no caller, or pure data |

State machines are `looplab/fsm` objects (`src/vendor/github.com/looplab/fsm`).
`Event` holds one mutex for the whole transition, enter callback included; an
event that the current state does not know is an error and changes nothing.  A
machine that takes OMCI responses has a channel of its own and a goroutine that
reads it (`processXxxMessages`).

How the parts meet:

* The core calls the adapter; the adapter starts goroutines on the device
  handler.  Every request of the core and every inter-adapter message is handled
  on a goroutine of its own (`go kp.handleMessage` of `voltha-lib-go`), so an
  OMCI response, an ONU indication and a tech profile message of the same ONU
  may run at the same time.
* An OMCI request leaves through `omciCC.send`; its response comes back through
  `receiveMessage`, which looks up the TID and starts a goroutine that writes to
  the channel of the asking machine.
* Machines report to the device handler with `deviceProcStatusUpdate`, which
  starts the next machine: MIB upload -> MIB download -> UNI unlock -> ANI
  configuration -> VLAN configuration.  The device reason reported to the core
  follows these stages.
* A tech profile message takes `tpProcMutex`, starts two goroutines (KV store,
  ANI configuration), and waits for both.  The goroutines of one request wait
  for their own sub-steps on two shared unbuffered channels.

What is hard in it: callbacks that run under the mutex of their machine and
post events to it from new goroutines; timeouts that release a lock while the
work goes on; responses matched against whatever was sent last; the restart of
an ONU while the machines of its previous life still run; objects captured by a
machine and replaced by a restart.

What makes each component correct:

* OMCI channel: TIDs differ among open requests; an answer goes to its request,
  once; queued frames leave in order and are not lost.
* Tech profile: one request is finished before the next is accepted; a download
  that is answered with success has been configured on the ANI side (which the code
  keeps only in part, section 4); the KV store ends up with the path in memory.
* ANI, VLAN, lock and MIB machines: completion is reported only when every step
  was answered; no message of an earlier run moves a later one; no callback
  blocks for ever.
* Device handler and entry: stages are entered in order; after down and up
  the ONU reaches its stage again; the reason told to the core is the stage
  reached.
* Adapter: one handler per device id, and it is the one that is adopted.

## 2. The modules

| module | models | uses |
|---|---|---|
| `OmciCC` | the OMCI channel, one action per critical section of `send`, `sendNextRequest`, `receiveMessage`, `receiveOmciResponse`, and `start` of the device entry | |
| `OmciExchange` | what the channel promises to the machines: one answer per request, to a request that waits | implemented by `OmciCC` |
| `TechProf` | tech profile requests, the goroutines they start, the step channels, the KV store, and the ANI configuration machine seen from outside | |
| `DeviceHandler` | the life of an ONU: adoption or reconciliation, up and down indications, stage events, reboot, with the upload, download and unlock machines seen from outside | `UploadMachine`, `StageMachine` |
| `AniConfigFsm` | the ANI configuration machine: message loops, the goroutines of the states with several entities, time-outs, resets, restarts | |
| `AniMachine` | what the ANI machine is to the tech profile processing | implemented by `AniConfigFsm`, relied on by `TechProf` |
| `MibSync` | the MIB upload machine: reset, gets, template, upload, stop and restart | |
| `UploadMachine` | what the MIB upload is to the device handler | implemented by `MibSync`, relied on by `DeviceHandler` |
| `InitialConfig` | what follows the upload: the UNI ports, the MIB download, the unlock of the ONU and its UNIs | |
| `StageMachine` | what the MIB download and the unlock are to the device handler | implemented by `InitialConfig` twice, relied on by `DeviceHandler` twice |
| `OpenOnuAC` | the adapter: the map of device handlers, adopt, reconcile, delete, messages, a restart of the process | |
| `MCOmciCC`, `MCTechProf`, `MCDeviceHandler`, `MCAniConfigFsm`, `MCMibSync`, `MCInitialConfig`, `MCOpenOnuAC` | the instances TLC checks | the module of their name |
| `NumberFacts` | induction over the natural numbers and finite sets of them, written without operator parameters; ascending enumerations | used by `InitialConfigProofs` |
| `OmciCCProofs`, `TechProfProofs`, `DeviceHandlerProofs`, `AniConfigFsmProofs`, `MibSyncProofs`, `InitialConfigProofs`, `OpenOnuACProofs` | theorems | the module of their name |

Common conventions: a goroutine is a program counter in a function over its
spawner (request, indication, stage); an action is what runs between two points
where another goroutine can interfere (lock, channel operation, call to the core
or the KV store).  A variable marked *history* is read by properties and
fairness only, never by a guard, and a constant or variable marked *bound* only limits
how often something happens.  Each module has a section of *plausible bugs*,
operators that no specification uses: they are variants of a definition a slip
in the code could produce, each of which some property of the runs detects.

### OmciCC

* `tid`, `allocated`: `getNextTid` with its two ranges; the width of the counter
  is `TidSpace`, the start of the high range `FirstHp` (0x10000 and 0x8000 in the
  code).  The wrap of the 16-bit counter is modelled, not abstracted.
* `rxSchedulerMap`, `posting`, `posted`: registration, the lookup of a response
  with the deletion of the entry, and the goroutine that writes to the channel
  of the machine.
* `txQueue`, `txLocked`, `spawned`: the queue, its mutex and the goroutines of
  `sendNextRequest`.  A failed transmission leaves the frame at the head.
* `start`: each start of the device entry makes a new channel object with new
  counters; the old object keeps its queue but is not given responses any more.

The ONU may answer a transmitted request any number of times, at any time, also
after a restart.

### TechProf

A request goes through `pc` (idle, accepted, waiting, unlocked, done); `owner`
is `tpProcMutex`.  `cfg`, `reader`, `setter` are `configureUniTp` and its two
steps, `kv` and `store` are `updateOnuTpPathKvStore` and `storePersistentData`.
`cfgChan` and `kvChan` are the unbuffered step channels as queues of blocked
senders.  `ani` is the configuration machine: state, the UNI and profile it was
created for, and counters of the goroutines that will post events to it.  That
this view of the machine is `AniMachine` is the property `UsesMachine`.
`Expire` is the deadline of the context; it may pass whenever a request waits.  A
reader whose context has expired fails by itself (`ReadMissing`).

A write to the KV store is three steps: it is sent (`Put`; the client refuses an
expired context), the store applies it (`WriteLands`, from `writes`), and the
client returns (`PutReturns`).  A client that gives up returns an error while the
write may still be applied, also after that of a later request.

A download has two ways to a success: it is `Unchanged`, or it waits for its
goroutines and then returns `procResult`, which it reads when it has already
released the mutex (`Unlock`, `Return`).  `cfgFailed` and `overtaken` are history:
the requests whose `configureUniTp` has found an error, and those which had
released the mutex and not yet returned when another request began.

### DeviceHandler

`up`, `down`, `reboot`, `stage`, `enable` are the goroutines; the values of a
counter are the places where each blocks.  `ul`, `dl`, `un` are the machines:
their state as far as others can see it, and the channel object their open
request was sent on, because only the current object gets answers (that is what
`OmciCC` shows: `OldChannelIsDeaf`).  `entry`, `token` are `pOnuOmciDevice` and
the one value in `deviceEntrySet`.  `told` is the last stage reported to the
core.  An indication is *orderly* if it arrives when no goroutine of the handler
is under way (`Quiet`) and, for an up indication, if the ONU is not up.

Two steps of the code are one in the model: the report of a reason to the core
and its assignment (`device_handler.go:1184-1192` and the like).  Every order of
assignments is kept; a difference between the core and the handler while the
call is under way is not visible.  The UNIs are PPTPs: the answer of a VEIP is
not recognised by `uniportadmin.go:308`, so such an ONU never gets past its
unlock (`InitialConfig` has both).  The views of the upload, download and unlock
machines are `UploadMachine` and `StageMachine` (`UsesMachines`).

### AniConfigFsm

A run of the machine is a number.  Each has a collector of the GEM ports
(`prep`), a message loop (`readers`) and a goroutine for each state with several
entities (`work`).  `waiting` and `handing` are the goroutines blocked in
`waitforOmciResponse` and in the send to the unbuffered
`omciMIdsResponseReceived`, as queues in the order of arrival, like the
channels of Go; whichever comes first, of any run, is served first.  `callback`
is the mutex of the machine, held by an entry callback until it has recorded its
request in `lastTx`.  `resets` and `restarts` count the goroutines that will
post those events; `ResetFromOutside` is the reset by an expired tech profile
request or by an ONU going down.

Left out: the report on the step channel (it is in `TechProf`), the values of
the entities, more than one queue per GEM port.  A response with an error is
dropped by the code, as if there were none, and the ONU need not answer.

### MibSync

`up` is `createInterface` from the new channel object to the MIB reset; `reader`
is `processMibSyncMessages`, one more for every entry into the first state, for
none ever ends.  `seqNo`, `noOfCmds`, `lastTx` are fields of the channel object
of the moment, `db` is the ME database and `template` the entry of the KV store,
both as sets of entities.  The ONU reports `Cmds` entities; those of the class
OnuData are not stored (`PutMe`), and only the `Supported` ones are taken from a
template.  `callback` is the mutex of the machine while an entry callback runs.
`fsmMsg` is a variable of the *package*: `OtherOnuLoads` is the callback of
another ONU writing it.  `mixed` is history: a run has begun while a machine was
still running, or with a request, response or busy reader of an earlier run.

Merged steps: a response enters the channel of the machine as soon as it is
received (`OmciCC` has the goroutine in between), and the reaction to an
upload-next, up to the next request, is one step, so that two readers do not
write to the database at the same instant.  Requests of a replaced channel are
forgotten, which is what `OldChannelIsDeaf` of `OmciCC` says.

`DeviceHandler` assumes that an upload ends with the whole database; by
`DataIsComplete` that is so for runs that are not mixed, as long as no other ONU
looks for its template meanwhile.

### InitialConfig

* `mib`, `ports`, `active`: the UniG and VEIP instances of the ONU DB,
  `uniEntityMap` as a function of the port number, and the ports the core was
  told to be active.  `SortedInstKeys`, `PortNum`, `PortsOf` and `AddUniPorts` are
  `getSortedInstKeys`, `mkUniPortNum`, the loops of `processMibDatabaseSyncEvent` and
  `addUniPort`; a port
  whose number is taken is left out, as in the code.  The port number is the
  bitwise or of two numbers (`Or`), which the code writes for a sum; that it is one
  is proved.
* `task`: the goroutines of the device handler for `MibDatabaseSync`,
  `MibDownloadDone` and the enabling of the ports, `reason` the device reason a
  down indication decides by.
* `state`, `callback`, `posts`: the two machines, their mutex while an entry
  callback has sent and not yet recorded a request, and goroutines that will post
  an event.  `Table` and `Follow` are the transition tables.
* `loop`, `work`: the message loop (`processMibDownloadMessages`,
  `processOmciLockMessages`), and `performInitialBridgeSetup` or
  `performUniPortAdminSet`, which goes through the UNIs in the order of a Go map,
  that is, in any.  Each waits for its response on an unbuffered channel: `hand`
  and `wait`.  `TimeOut` is its 30 seconds.
* `lastTx`: `pLastTxMeInstance` of the OMCI channel, *one* for all machines of the
  ONU; `OtherRecords` is another machine that writes it.
* `line`, `sent`, `acked`: requests under way, which the ONU answers in order;
  `Fail` is a response that is lost or has an error.

One stage event starts each machine once, so one run of each is modelled.  Left
out: the constants added to the instance numbers of some classes.  A
response reaches the message loop as soon as it is received.

### OpenOnuAC

`deviceHandlers` is the map; a handler is named after the request that created
it.  `at` is the place of each request (`Adopt_device`, `Reconcile_device`,
`Delete_device`, `Process_inter_adapter_message`), `state` the initialisation of
each handler (`adoptOrReconcileDevice` with its callbacks), `token` the one value
in `deviceEntrySet`.  The map is locked for each access only, so the look-up and
the addition are two steps (`FindUnknown`, `AddToMap`).  `overlapped`, `crowded`
and `late` are history: the coincidences that the properties name.

`Restarts` is the end of the process with all its goroutines, and its new start
with what the KV store holds (`stored`).  A deletion that finds a handler without
an entry ends the adapter (`DeletePanics`: `deleteDevice` follows a nil pointer),
and so does an OMCI message that finds an entry no indication has started
(`MessagePanics`): the OMCI channel is created by that start.  Of the messages of
the OLT, only up `Indications` and OMCI messages are modelled here.

## 3. The runs

| run | instance | shows |
|---|---|---|
| `omcicc` | 3 high priority requests, 2 TIDs for them, two starts, one failed transmission, fair goroutines | correlation of responses, also across a restart (`AnswersItsRequest`), TID reuse only after a whole cycle, frames neither lost nor overtaken (`FramesKeepTheirOrder`); every queued frame is sent unless a transmission fails; `OmciCC` implements `OmciExchange` |
| `techprof` | two downloads of the path that was restored, a T-CONT delete and a reconcile, all of one UNI; one deadline, one fault | requests do not overlap, a download is answered with success without a configured ONU only for a path left in place or a result reset by another request, the KV store follows the memory, leftovers only after a disturbance, the ANI machine is used as `AniMachine` says |
| `techprof_live` | reconcile of a profile without a p-bit, T-CONT delete, GEM delete, a deadline for each, one ONU down, fair goroutines | `tpProcMutex` is released, except in the deadlock the next run exhibits |
| `techprof_jam` | one download, one deadline | violated: see the findings |
| `aniconfig` | two runs, one GEM port, a reset of either from outside, one time-out or one profile without a p-bit; fair goroutines | every message loop is ended, an undisturbed run asks for one thing at a time and is complete only when all is answered, the loop blocks only after a time-out, runs end; `AniConfigFsm` implements `AniMachine` |
| `mibsync` | two ups and a down, an ONU of four entities, one error or failed KV call, one search by another ONU; with or without a template; fair goroutines | the database of an ONU in sync and the template are complete unless runs are mixed, no nil dereference without a second reader, uploads end; `MibSync` implements `UploadMachine` |
| `mibsync_others` | one up, one search by another ONU | violated: see the findings |
| `devicehandler` | two ups, a down, a reboot, a fault; adopted or reconciled; fair goroutines | stages start once and are told in order, an orderly down stops everything, an undisturbed ONU comes up, the machines are used as `UploadMachine` and `StageMachine` say |
| `devicehandler_again` | up, down, up | violated: see the findings |
| `initialconfig` | six MIBs with up to three UNIs, one bit for the UNI in the port number, one down, one lost response, one request of another machine; fair goroutines | ports follow the MIB, no UNI is unlocked before all bridges are confirmed and no port is active before all UNIs are unlocked, an undisturbed configuration ends, goroutines end; both machines implement `StageMachine` |
| `initialconfig_veip` | an ONU with one VEIP that answers in time | violated: see the findings |
| `adapter` | two adoptions, a reconciliation, a deletion, an up indication and an OMCI message of one device, one restart, one failed KV call; fair goroutines | a second handler of a device needs two overlapping creations, a message unheard by a handler with an entry needs another that waits with it or its own 60 s, a reconciled ONU is started again |

Why these bounds are enough for the questions asked:

* `omcicc`: with two high priority TIDs and three requests the counter wraps, the
  16-bit overflow happens at `TidSpace`, and a request meets one that holds its
  TID.  Two channel objects are enough to have an old and a current one with
  equal TIDs; a third repeats the relation between neighbours.  The safety
  properties were also checked once with a normal request besides (4.4 million
  states).  What is true for every number of requests and TIDs is proved
  (section 5).
* `techprof`: every shared object (mutex, step channels, machine, path map,
  `procResult`) is contended by four requests, the deadline can pass at any step of
  each, and one fault can strike any of them.  All are about one path, so that a
  download can repeat another one that succeeded or failed, meet the restored path,
  or have it removed by the delete in between; the two downloads are symmetric.  A
  GEM delete and a profile without a p-bit are in the liveness run.
  `SuccessIsConfigured` is violated in this instance as soon as one of its
  exceptions is taken away: a restored path, one left by a failed request, or
  another request that began before the return.
* `devicehandler`: a second up indication overlaps the first, the stages, the
  down and the reboot in every order.  The invariants were also checked once
  with three ups, two downs and a fault (24 million states), and are proved for
  every number.
* `aniconfig`: with two runs the goroutines of the first meet the second in every
  shared object (the unbuffered channel, the message channel, `lastTx`).  One GEM
  port keeps the entities of a state from multiplying the states of the rest; two
  GEM ports were checked once, with a time-out for safety (2.8 million states) and
  without for liveness and refinement.
* `mibsync`: two ups give a current and an earlier run, with up to two readers and
  two channel objects.  Four entities give an OnuData one, which is not stored, a
  first, a middle and a last upload-next, and one no template is read for.  Three
  ups and two downs with three entities were checked once (1.6 million states).
  Without the provisos (`mixed`, a second reader) the invariants are violated:
  the code does not keep the runs of a machine apart.
* `initialconfig`: the MIBs have no UNI, one, two PPTPs, a VEIP whose instance is
  below that of the PPTP or the same, and three PPTPs, of which the third gets a
  port number that is taken (`MaxUnisPerOnu` is 2).  One lost response suffices for
  a time-out, and a late response after it; the other bounded events can come at
  every step of either machine.
* `adapter`: the three creators of one device overlap in every order, two
  messages, of which one is an indication, compete for the one value of
  `deviceEntrySet`, and the restart can come
  at every step.  Devices share nothing in this module, so one is enough.

`CHECK_DEADLOCK FALSE` is set in every configuration: the requests and
indications of an instance run out, and then the system rests.

### Fairness

* `OmciCC`: only the goroutines of `sendNextRequest` are fair.  The Go scheduler
  runs them, a mutex is granted, and the transmission call returns.
* `TechProf`: goroutines, the KV client and the clock (deadlines).  Nothing is
  assumed of the ONU: `SetMapper`, `CompleteAni` and `GiveUpAni` are not fair, so
  the release of the mutex rests on the deadline alone.
* `DeviceHandler`: goroutines, calls to the core, and `WF(MachinesGo)`, which
  says that an ONU that can answer does.  `BringUp` is about an undisturbed ONU,
  so a lost answer is a fault and excludes itself.  Only the indication that
  `reconcileDeviceOnuInd` simulates is assumed to be processed; up and down
  indications, reboots and tech profiles may never come.
* `AniConfigFsm`, `MibSync`, `InitialConfig`: goroutines and timers only.  The ONU
  answers only as the hypothesis of `AnsweredRunCompletes`, `UploadEnds`,
  `AnsweredConfigEnds` and `UnlockRunsViaDone`; the reset from outside
  only as that of `EveryRunEnds`, where it stands for the deadline of the tech
  profile request that started the run.  There is no such deadline for an upload.
  `RoutinesEnd` assumes nothing of the ONU, for the waits of the two
  machines of `InitialConfig` have their own timers.
* `OpenOnuAC`: the creation and initialisation of each handler, and each message
  that waits, which has a timer.  Requests and restarts may never come.

## 4. Findings

Each is a run that TLC finds violated by the behaviour of the code.

* `techprof_jam` / `DeadlineReleasesLock`: the deadline passes just before the
  ANI machine completes.  The callback holds the mutex of the machine and waits
  for a receiver (`omci_ani_config.go:487`); the receiver waits for that mutex
  (`onu_uni_tp.go:275`).  `tpProcMutex` is held for ever: that only the end of the
  process helps is `JamsStay`, which is proved.
* `mibsync_others` / `LoadedOrUploaded`: the result of the search for a template
  is a variable of the package.  Another ONU's search in between makes an ONU go
  in sync with an empty database.
* `devicehandler_again` / `UpAgainGetsGoing`: after up, down and up the upload
  machine is still in sync, the start is refused, and the ONU stays in
  `starting-openomci`.  `NoSecondBringUp`, which is proved, is the other half:
  if the start were not refused, a stage that is done would not be entered again,
  and the ports that are down would stay down.
* `initialconfig_veip` / `UnlockRunsViaDone`: the message loop of the unlock
  machine looks for an entity called `VEIP` (`uniportadmin.go:308`), a name the
  OMCI library does not use.  The unlock of a VEIP always times out, the machine
  never gets to `adminDone` as `device_handler.go:1548` says, and no port of such
  an ONU becomes active (`VeipNeverActive`, which is proved).

Other behaviour met while modelling, at which a property stops (its proviso
names it: it says how far the behaviour reaches, not that it is harmless) or which
the code itself names as open:

* A download whose configuration fails leaves its path in the map
  (`onu_uni_tp.go:162-199`).  When it is repeated, nothing has to be changed, and it
  is answered with nil at once although the ONU was never configured
  (`device_handler.go:265-289`); a path restored from the KV store that was not
  reconciled has the same effect.  This is `LeftOver` in `SuccessIsConfigured`.
* `procResult` is read after `tpProcMutex` has been released
  (`onu_uni_tp.go:205-206`).  A request that begins in between has reset it, so a
  failed download may return nil where its caller is to "collect their result"
  (`device_handler.go:286`).  This is `overtaken` in `SuccessIsConfigured`.
* The step channels belong to no request: a value that an aborted request sends
  late is taken by the next one as its own (`onu_uni_tp.go:601`), which then starts
  step 2 early or takes the failure of another for its own.  The proviso of
  `SuccessIsConfigured` and `LeftoversNeedADisturbance` is that no deadline passes.
* A write to the KV store that outlives its deadline may be applied after that of the
  next request, which leaves the older paths in the store (`onu_uni_tp.go:377`): the
  proviso of `KvFollowsPaths`.
* An OMCI message that reaches a device entry which no up indication has started
  follows a nil pointer and ends the adapter (`device_handler.go:211`).  The ONU's
  answer to a request from before a restart of the adapter may be such a message.
* The ANI machine keeps the UNI and profile of the first request
  (`onu_uni_tp.go:586`): a request for another UNI is answered with success and
  configures the first one again.  The runs of `TechProf` have one UNI.
* A response that comes when its wait has just timed out blocks the message loop
  on a channel without a buffer; the code that is to empty that channel looks at
  its length, which is always 0 (`omci_ani_config.go:283-285`).  `BlockedNeedsTimeOut`
  and `RoutinesEnd` have the time-out as their proviso.
* A down indication during the verification of an up indication stops nothing
  (`device_handler.go:1106`), and the upload then starts on the stopped device.
  `OrderlyStopStopsAll` is about indications that do not overlap.
* Two adoptions that both find no handler initialise two, of which one is in the
  map (`openonu.go:157-166`): the proviso of `OrphanNeedsOverlap`.

## 5. What is proved

All theorems hold for every value of the constants that satisfies the named
assumptions.  `OmciAssumption`: the high priority range starts above 1 and below
the size of the TID space.  `TechProfAssumption`: UNI 0 is a UNI, requests have a
UNI and downloads a path, and a download is no request of another kind.  `DeviceHandlerAssumption`: there is room for the
simulated indication.  `AniAssumption`: a finite set of GEM ports.
`MibAssumption`: the ONU reports at least one entity, and at least one of those
stored is supported by a template.  `InitialConfigAssumption`: a MIB has finitely
many UniG and VEIP instances, which are natural numbers.  `OpenOnuACAssumption`:
the kinds of requests are disjoint, each is about a device, and indications are
messages.  In all of them the
bounds are natural numbers.

`OmciCCProofs`:

* `TypeCorrect` from `TypeInv`, which adds that the counters of a channel stay
  in the range of their class and that a caller past its start holds a channel.
* `TidReuse`: two requests with the same TID on one object are a whole cycle
  apart.  `TidReuseTakesACycle` is not inductive: `TidWindow` says that the TID
  of a request is where the counter was as many steps ago as requests of the
  class have been allocated since, within one cycle.  The arithmetic of the wrap
  is in `BehindNext` and `BehindDiffers`.
* `AtMostOneAnswer`, `AnswerCorrelation` from `RxInv`: an entry in the map is the
  one its requester registered (`MapIsCorrect`), a goroutine about to post is the
  first for its request (`PostingIsFirst`), and nothing is posted after an answer
  (`PostedIsLast`).
* `DeafChannels`: an action property, from the guard of `ReceiveResponse` and
  the monotony of `start`.
* `FramesInOrder`: a queue holds only frames of its own channel object, each
  once, whose callers have queued them, and behind the head nothing that was
  transmitted.  The head may have been: its transmission is an attempt that can
  fail, and it leaves the queue in a step of its own.
* `StrandedFrames`, from `Attended`: each frame in a queue has a goroutine that
  will send or is sending, but for one frame per failed transmission.  It is what
  `QueuedIsTransmitted` rests on, and what remains true when transmissions fail.
* `ImplementsOmciExchange`: every step of the channel is a step of `OmciExchange`
  or a stutter.  `RxInv` is needed once more: only the first answer to a request
  is a step of the exchange.

`TechProfProofs`:

* `TypeCorrect`: the type invariant is inductive, part by part; its parts follow
  the tuples of variables the actions leave alone.
* `OneRequest`, from `LockInv == TypeOK /\ WaitingOwns /\ OneRequestAtWork`:
  `OneRequestAtWork` alone does not survive `Begin`, which needs to know that a
  free mutex means that no handler waits (`WaitingOwns`).  Steps that start
  nothing and leave the mutex alone are handled once, by the predicate `Calm`; a
  panic of the adapter ends everything.
* `StoreKeepsUp`, from `KvInv`: unless a deadline passes, only a goroutine that
  is waited for is behind and there is one report at most (`StoreOrder`), so the
  report taken is that of the write; unless a write fails either, what is
  marshalled or sent is what is in memory, and no write is left that nobody waits
  for (`StoreFollows`), as the paths change only when the mutex is taken.
* `RunsToCompletion`, from `ChainInv`.  As long as nothing disturbs the requests,
  only what `configureUniTp` waits for runs: the reader or its report (`Reads`),
  then the setter, then the machine with one event under way, then its report
  (`Sets`); otherwise all of them rest (`AtRest`).  Undisturbed states come from
  undisturbed ones only (`Disturbed`), for which a request not yet begun must have
  no path (`Contexts`).
* `SuccessConfigures`, an action property, from `AnswerInv`.  `AppliedInv` follows
  the path of the holder of the mutex through that chain: read, taken by the
  machine, applied by the ONU.  `Begun` says how far a request has come, disturbed or
  not.  In undisturbed states `InPlace` names all the ways by which a path can be in
  the map: restored, left by a request in `cfgFailed`, applied, or being configured;
  in the last case it is the path of the job (`JobFollows`).  That answers for the
  downloads that find nothing to change.  For the others `Answers` says that an
  unlocked download that is not in `overtaken` and finds `procResult` good has been
  applied.  It is stated for ONUs with one UNI, the ones the property holds for.
* `JamsAreForever`, an action property, from `LockInv` and `BusyAtRest`: while the
  callback waits, the machine is in its disabled state and no event moves it.  Only
  a request that still reads the step channel could take the report, but the
  owner of `tpProcMutex` is the only request at work and waits for the machine.
* `UsesAniMachine`: every step takes the ANI machine along a transition of
  `AniMachine` or leaves it.  It needs the type invariant and `Fresh`: a machine
  that has not been created has completed nothing.

`DeviceHandlerProofs`, all from `IInv == TypeOK /\ StageInv /\ AdoptFirst /\ OrderInv`:

* `TypeCorrect`: the type invariant is inductive, part by part.
* `StagesOnce` and `StagesInOrder`: `StageInv` ties `devState`, the goroutines of
  the stages, the machines and the counters together.  For example a running
  download implies that the goroutine of `MibDatabaseSync` is done, so the
  completion of the download finds `devState` at its predecessor; `told >= s`
  implies that stage `s` has been named, so a goroutine about to tell `s` tells
  something new and larger.
* `OrderlyStop`: `OrderInv` says, for orderly histories, that indications do not
  overlap (`OneIndication`) and that the device reason mirrors what is under way
  (`ReasonFits`): an upload runs only under `starting-openomci`, a download only
  under `discovery-mibsync-complete`, and so on.  That is what `StopMachines`
  relies on when it decides by the reason what to stop.  Steps that start nothing
  are handled once, by the predicate `Calmer`.
* `SecondBringUp`, an action property, from `StageInv`: a stage that is done leaves
  `devState` at least there, and `devState` is never set back.
* `SomeoneIsWoken`, from `TokenInv`: only an indication that starts the entry takes
  the value of `deviceEntrySet`.
* `HandlerUsesMachines`: what the handler does with the upload, the download and
  the unlock, and what it expects of them, are transitions of `UploadMachine` and
  `StageMachine`.  `StageInv` is needed here too: a machine that completes has not
  completed before.

`AniConfigFsmProofs`:

* `TypeCorrect`, from `TypeInv`.  The type invariant needs that a goroutine which
  sends or waits has an entity left (`TodoFits`), that the queue of the waiting
  holds goroutines that wait, each once (`WaitFits`: a response or a time-out takes
  one out), and that a goroutine is started once in a run, when its state is
  entered (`BeginFits`).
* `LoopsAreEnded`, from `TypeInv` and `LoopInv`: `EveryLoopIsEnded` counts loops
  and abort messages, so the proof is about cardinalities.  `AbortSent` and
  `AbortTaken` say how the number of abort messages changes when a message enters
  or leaves the channel, `LoopsToCome` that a new run starts a loop that was not
  at work, and `HandFits` that a hand-over wakes a loop that is blocked, not one
  that has ended.
* `BlockedLoops`, from `TypeInv` and `OwingInv`, which counts as well: as long as no
  wait has timed out, the requests of the states with several entities that are on
  their way, their responses in the channel and the loops that have one in their
  hands are together not more than the goroutines that owe (`EachHasItsOwn`); all
  who wait are in the queue (`Queued`), and nobody waits while a loop is blocked
  (`OneSideWaits`).  So a blocked loop has a goroutine that is about to record its
  request and then takes the value.
* `AnswersBeforeDone`, from `TypeInv` and `OrderlyInv`: in an undisturbed machine
  the goroutines, loops and requests at work are those of the current state
  (`TidyInv`), and what it waits for is either a request that is on its way, a
  response in the channel, or in the hands of one loop (`SimpleInv`, `PendingInv`);
  of a state with several entities, each port has been answered or is still in
  `todo` (`TodoInv`), which is all of `slice` at the beginning (`SliceInv`).
  `FollowBefore` ties the transition table to the order of the states, so what has
  been answered grows by the requests of the state that is left (`AdvanceOrder`).
  Old message loops may read a response or an abort message of a later run; it
  makes no difference to that order.
* `ImplementsAniMachine`: every step, seen through the refinement mapping, is a
  step of `AniMachine` or a stutter.  It rests on the transition table (`Follow`)
  alone, as `AdvanceMoves` shows; the loops and waits do not matter for it.

`MibSyncProofs`:

* `TypeCorrect`: the type invariant is inductive, part by part.
* `ImplementsUploadMachine`: `TransitionIsStep` shows that each row of the
  transition table is a step of `UploadMachine`, and every action either takes
  such a row or leaves the state.
* `CompleteData`, from `TypeOK` and `FlowInv`.  Unless runs are mixed, one thing
  at most is under way (`OneThing`): a request, its response, or a reader that has
  taken the response.  Only while an entry callback has sent a request and not yet
  recorded it may a second one exist, which is then the response to that request.
  `DataInv` says what the database holds in each state of the machine and
  `ItemInv` what the thing under way says of it: an upload-next response with
  number n is on its way only when the n entities before it have been put.
* `RunsGoOn`, from `GoInv`: `StateGoesOn` alone, that a state in the middle of a run
  has something under way, does not survive a reader that takes a response of
  another state or an event that is refused.  `WireFits` and `ReadersFit` say that
  neither occurs: what is under way fits the state, or the machine has been
  stopped; `CallbackGoesOn` does for the request that is not yet recorded.
* `PanicFromRestart`, from the same invariant and the facts that a reader does not
  end (`ReadersStay`) and that `lastTx` is recorded whenever no callback runs.

`InitialConfigProofs`:

* `TypeCorrect`, from `TypeInv`.  The ports are numbered in the order of
  `SortedInstKeys`, a `CHOOSE` of an ascending enumeration, so the proof begins
  with the fact that there is one for every finite set of numbers
  (`RankIsBijection` of `NumberFacts`, `SortedKeys`): the rank of an element, the number of those
  below it, is a bijection.
* `PortNumbers` and `PortsFollow`.  The bitwise or is a recursive function of
  functions.  `BitValue` and `OrValue` give its equations (`RecursionExists`),
  `OrAdds` shows by induction over the bits that the or of a multiple of `2^n` and
  a number below `2^n` is their sum.  Hence the ports have different numbers, in
  the order of the ids; `PortList` and `PortsComplete` say which ids the loops of
  `processMibDatabaseSyncEvent` give to which instances.
* `VeipsStayInactive`, from `TypeInv`, `StageInv` and `VeipInv`: the goroutine of the
  unlock has the VEIP still before it, for the message loop hands over no
  response for it.
* `StagesConfirmed`, from `TypeInv` and `StageInv`.  `OrderInv` says which request
  can have been sent, and what must have been confirmed, in each state of each
  machine; `AskInv` follows the goroutine that goes through the UNIs: what it has
  done with is confirmed, and what the message loop hands over is the
  confirmation of what it asked for last, even when responses are lost or late or
  another machine has recorded a request of its own.  The heart is that at most
  one request of a goroutine is on its way (`OutInv`).
* `StagesImplemented`: a step of either machine is a step of its `StageMachine`
  or a stutter; a machine tells the handler only as it completes, and never again.

`OpenOnuACProofs`:

* `TypeCorrect`: the type invariant, with the fact that a request past its look-up
  has found a handler.
* `NoOrphans`: all requests of a device that have found no handler and not added
  theirs are one, unless it is in `overlapped`; a handler of a device is in the
  map or about to be.
* `UnheardMessages`: the value of `deviceEntrySet` is put there once, as the
  initialisation gets past `entry`.  It is gone only if a message took it, which
  then was the only one that waited, unless the handler is in `crowded`.

So the composition is proved on both sides: `MibSync` keeps the promises of
`UploadMachine` and `InitialConfig` those of `StageMachine`, for each of its
machines, and `DeviceHandler` relies on no others; `AniConfigFsm` keeps those of
`AniMachine`, `TechProf` relies on no others.

`NumberFacts` has what the arithmetic needs.  The library states induction over
an operator, which the installed provers cannot instantiate; `SetInduction` and
`StrongInduction` state it for a set of numbers and are proved from the well-order
of the naturals (`LeastNumber`), and that from the finiteness of the numbers below
another.

`JamsStay`, `NoSecondBringUp`, `VeipNeverActive`, `RunGoesOn`, `StrandedByFailures` and
`WaitingIsWoken` are not among the properties of the runs.  The first three say how
far a finding of section 4 goes, the last three are what liveness properties of the
runs rest on.  Each was checked on the instance of its module before it was proved.

Every safety property and every refinement the passing runs check is proved.
Only model-checked is liveness (`QueuedIsTransmitted`, `ReleasedUnlessJammed`, `BringUp`,
`AnsweredRunCompletes`, `EveryRunEnds`, `UploadEnds`, `AnsweredConfigEnds`,
`RoutinesEnd`, `ReconciledIsRestored`): a proof of it needs `ENABLED`, which is out of
the reach of the installed prover.  No `RECURSIVE` operator is used.

## 6. What is not modelled

* The VLAN configuration (`omci_vlan_config.go`): its only caller is the flow
  update, which `openonu.go:324` switches off at this commit, so no state of it can
  be reached.
* Disable and re-enable and with them the lock machine (`openonu.go:248` sends a
  message to the OLT adapter instead); the lock machine has the table of the
  unlock machine that `InitialConfig` models, with another value.
* The list access (`onu_list_access.go`) and `status.go`, which nothing calls; the
  OMCI request of a reboot (`OnuDeviceEntry.reboot` has no caller); autonomous
  messages of the ONU (`omci_cc.go:218` lets none through).
* The process frame (`main.go`): sequential start-up and shut-down around library
  clients.  `OpenOnuAC` has its restart.
* The values of OMCI attributes and the encoding of messages; the contents of the
  objects sent to the core; logging, metrics, events.
* Data races on plain maps (`uniEntityMap`), where the Go runtime may stop the
  process; vendored libraries, except the mutual exclusion of `looplab/fsm` where
  it matters.

The components in `PROJECT.json` say for each what is left out.

## 7. Plan

What exists is marked.

1. `OmciCC`, `OmciExchange`, `OmciCCProofs` - done.
2. `TechProf`, `TechProfProofs` - done.
3. `DeviceHandler`, `DeviceHandlerProofs` - done.
4. `AniConfigFsm`, `AniMachine`, `AniConfigFsmProofs` - done.
5. `MibSync`, `UploadMachine`, `MibSyncProofs` - done.
6. `InitialConfig`, `StageMachine`, `InitialConfigProofs` (MIB download, unlock,
   UNI ports and the sorted keys of the ONU DB) - done.
7. `OpenOnuAC`, `OpenOnuACProofs` - done.
8. `VlanConfigFsm`, for the day flows are switched on.

Of the plan only the liveness properties, which section 5 lists as out of the
prover's reach, have no theorem.

## 8. Running the checks

    tlc -workers 2 -config MCOmciCC.cfg MCOmciCC     # one run of section 3
    tlapm OmciCCProofs.tla                           # about 1450 obligations
    tlapm TechProfProofs.tla                         # about 2890 obligations
    tlapm DeviceHandlerProofs.tla                    # about 1180 obligations
    tlapm AniConfigFsmProofs.tla                     # about 3400 obligations
    tlapm MibSyncProofs.tla                          # about 2110 obligations
    tlapm InitialConfigProofs.tla                    # about 3390 obligations
    tlapm OpenOnuACProofs.tla                        # about 420 obligations
    tlapm NumberFacts.tla                            # about 260 obligations
