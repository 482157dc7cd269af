---------------------------- MODULE OpenOnuACProofs ----------------------------
(***************************************************************************)
(* Theorems about OpenOnuAC, for any devices, requests, restarts and       *)
(* failed KV calls.                                                        *)
(***************************************************************************)
EXTENDS OpenOnuAC, TLAPS

(***************************************************************************)
(* Types.  A request that goes on with a handler has found one.            *)
(***************************************************************************)
HasFound == \A r \in Requests : at[r] \in {"found", "waiting"} => target[r] \in Creators

TypeInv == TypeOK /\ HasFound

LEMMA InitTypes == Init => TypeInv
  BY OpenOnuACAssumption DEF Init, TypeInv, TypeOK, HasFound, Creators, Requests

\* The look-ups of a creator and what it does with its handler.
LEMMA CreationTypes ==
    ASSUME TypeInv, NEW c \in Creators, Creation(c)
    PROVE  TypeInv'
  <1>1. c \in Requests /\ DeviceOf[c] \in Devices
    BY OpenOnuACAssumption DEF Requests, Creators
  <1>2. CASE FindKnown(c)
    BY <1>1, <1>2 DEF TypeInv, TypeOK, HasFound, FindKnown, Goes, handlerVars, boundVars,
                      historyVars
  <1>3. CASE FindUnknown(c)
    BY <1>1, <1>3 DEF TypeInv, TypeOK, HasFound, FindUnknown, Goes, handlerVars, boundVars
  <1>4. CASE AddToMap(c)
    BY <1>1, <1>4 DEF TypeInv, TypeOK, HasFound, AddToMap, Goes, boundVars, historyVars
  <1>5. CASE MarkReconciling(c)
    BY <1>1, <1>5 DEF TypeInv, TypeOK, HasFound, MarkReconciling, Goes, boundVars, historyVars
  <1>6. QED
    BY <1>2, <1>3, <1>4, <1>5 DEF Creation

\* The goroutine that initialises a handler.
LEMMA InitialisationTypes ==
    ASSUME TypeInv, NEW c \in Creators, Initialisation(c)
    PROVE  TypeInv'
  <1>1. c \in Requests /\ DeviceOf[c] \in Devices
    BY OpenOnuACAssumption DEF Requests, Creators
  <1>2. CASE DoStateInit(c)
    BY <1>2 DEF TypeInv, TypeOK, HasFound, DoStateInit, Becomes, requestVars, boundVars,
                historyVars
  <1>3. CASE SetOnuDeviceEntry(c)
    BY <1>3 DEF TypeInv, TypeOK, HasFound, SetOnuDeviceEntry, Becomes, requestVars, boundVars,
                historyVars
  <1>4. CASE FireEntryReady(c)
    BY <1>4 DEF TypeInv, TypeOK, HasFound, FireEntryReady, Becomes, requestVars, boundVars,
                historyVars
  <1>5. CASE Restore(c)
    BY <1>5 DEF TypeInv, TypeOK, HasFound, Restore, Becomes, requestVars, boundVars,
                historyVars
  <1>6. CASE RestoreFails(c)
    BY <1>1, <1>6 DEF TypeInv, TypeOK, HasFound, RestoreFails, Becomes, requestVars
  <1>7. QED
    BY <1>2, <1>3, <1>4, <1>5, <1>6 DEF Initialisation

\* A new process.
LEMMA RestartTypes ==
    ASSUME TypeInv, Restarts
    PROVE  TypeInv'
  BY OpenOnuACAssumption DEF TypeInv, TypeOK, HasFound, Restarts

\* Messages and deletions.
Serving(r) == (r \in Messages /\ Handling(r)) \/ (r \in Deletes /\ Deletion(r))

LEMMA HandlingTypes ==
    ASSUME TypeInv, NEW r \in Messages \cup Deletes, Serving(r)
    PROVE  TypeInv'
  <1>1. r \in Requests /\ DeviceOf[r] \in Devices /\ r # None
    BY OpenOnuACAssumption DEF Requests
  <1>2. CASE FindTarget(r)
    BY <1>1, <1>2 DEF TypeInv, TypeOK, HasFound, FindTarget, FindsHandler, Goes, handlerVars,
                      boundVars, historyVars
  <1>3. CASE HandleMessage(r)
    BY <1>1, <1>3 DEF TypeInv, TypeOK, HasFound, HandleMessage, Hears, Goes, boundVars,
                      historyVars
  <1>4. CASE r \in Messages /\ WaitForEntry(r)
    BY <1>1, <1>4 DEF TypeInv, TypeOK, HasFound, WaitForEntry, Goes, handlerVars, boundVars
  <1>5. CASE TakeToken(r)
    BY <1>1, <1>5 DEF TypeInv, TypeOK, HasFound, TakeToken, Hears, Goes, boundVars,
                      historyVars
  <1>6. CASE r \in Messages /\ GiveUp(r)
    BY <1>1, <1>6 DEF TypeInv, TypeOK, HasFound, GiveUp, Goes, handlerVars, boundVars
  <1>7. CASE DeleteStored(r)
    BY <1>1, <1>7 DEF TypeInv, TypeOK, HasFound, DeleteStored, Goes, handlerVars, boundVars
  <1>8. CASE DeleteFails(r)
    BY <1>1, <1>8 DEF TypeInv, TypeOK, HasFound, DeleteFails, Goes, handlerVars, historyVars
  <1>9. CASE DeletePanics(r)
    BY <1>9, RestartTypes DEF DeletePanics
  <1>10. CASE r \in Messages /\ MessagePanics(r)
    BY <1>10, RestartTypes DEF MessagePanics
  <1>11. QED
    BY <1>2, <1>3, <1>4, <1>5, <1>6, <1>7, <1>8, <1>9, <1>10 DEF Serving, Handling, Deletion

LEMMA StoreTypes ==
    ASSUME TypeInv, NEW d \in Devices, Store(d)
    PROVE  TypeInv'
  BY DEF TypeInv, TypeOK, HasFound, Store, requestVars, handlerVars, boundVars, historyVars

LEMMA NextTypes == TypeInv /\ [Next]_vars => TypeInv'
  <1> SUFFICES ASSUME TypeInv, [Next]_vars
               PROVE  TypeInv'
    OBVIOUS
  <1>1. CASE UNCHANGED vars
    BY <1>1 DEF TypeInv, TypeOK, HasFound, vars, requestVars, handlerVars, boundVars,
                historyVars
  <1>2. CASE \E c \in Creators : Creation(c)
    BY <1>2, CreationTypes
  <1>3. CASE \E c \in Creators : Initialisation(c)
    BY <1>3, InitialisationTypes
  <1>4. CASE \E m \in Messages : Handling(m)
    <2>1. PICK m \in Messages : Handling(m)
      BY <1>4
    <2>2. m \in Messages \cup Deletes /\ Serving(m)
      BY <2>1 DEF Serving
    <2>3. QED
      BY <2>2, HandlingTypes
  <1>5. CASE \E x \in Deletes : Deletion(x)
    <2>1. PICK x \in Deletes : Deletion(x)
      BY <1>5
    <2>2. x \in Messages \cup Deletes /\ Serving(x)
      BY <2>1 DEF Serving
    <2>3. QED
      BY <2>2, HandlingTypes
  <1>6. CASE \E d \in Devices : Store(d)
    BY <1>6, StoreTypes
  <1>7. CASE Restart
    BY <1>7, RestartTypes DEF Restart
  <1>8. QED
    BY <1>1, <1>2, <1>3, <1>4, <1>5, <1>6, <1>7 DEF Next

(* The map, the goroutines and the handlers keep their types, and whoever  *)
(* uses a handler has found one.                                           *)
THEOREM TypeCorrect == Spec => []TypeOK
  <1>1. TypeInv => TypeOK
    BY DEF TypeInv
  <1>2. QED
    BY <1>1, InitTypes, NextTypes, PTL DEF Spec

-----------------------------------------------------------------------------
(***************************************************************************)
(* Orphans.  Unless a device is overlapped, at most one request is between *)
(* its look-up and its addition, and as long as one is, the device has no  *)
(* handler at all.                                                         *)
(***************************************************************************)
OneCreates(d) ==
    /\ \A c, e \in Creating(d) : c = e
    /\ Creating(d) # {} => HandlersOf(d) = {} /\ deviceHandlers[d] = None
    /\ HandlersOf(d) \subseteq {deviceHandlers[d]}

OrphanInv == \A d \in Devices : d \notin overlapped => OneCreates(d)

\* Nothing happens to the handlers of d.
Untouched(d) ==
    /\ Creating(d)' = Creating(d) /\ HandlersOf(d)' = HandlersOf(d)
    /\ deviceHandlers'[d] = deviceHandlers[d]
    /\ d \in overlapped <=> d \in overlapped'

LEMMA UntouchedStays ==
    ASSUME NEW d \in Devices, d \notin overlapped => OneCreates(d), Untouched(d)
    PROVE  d \notin overlapped' => OneCreates(d)'
  BY DEF Untouched, OneCreates

LEMMA CreationOrphans ==
    ASSUME TypeInv, OrphanInv, NEW c \in Creators, Creation(c)
    PROVE  OrphanInv'
  <1> SUFFICES ASSUME NEW d \in Devices, d \notin overlapped'
               PROVE  OneCreates(d)'
    BY DEF OrphanInv
  <1>1. c \in Requests /\ DeviceOf[c] \in Devices
    BY OpenOnuACAssumption DEF Requests, Creators
  <1>2. CASE FindKnown(c)
    <2>1. Untouched(d)
      BY <1>1, <1>2 DEF TypeInv, TypeOK, FindKnown, Goes, Untouched, Creating, HandlersOf,
                        handlerVars, historyVars
    <2>2. QED
      BY <2>1, UntouchedStays DEF OrphanInv
  <1>3. CASE FindUnknown(c)
    <2>1. d \notin overlapped
      BY <1>3 DEF FindUnknown
    <2>2. OneCreates(d)
      BY <2>1 DEF OrphanInv
    <2>3. HandlersOf(d)' = HandlersOf(d) /\ deviceHandlers' = deviceHandlers
      BY <1>3 DEF FindUnknown, HandlersOf, handlerVars
    <2>4. CASE d = DeviceOf[c]
      <3>1. Creating(d) = {} /\ deviceHandlers[d] = None
        BY <1>3, <2>4 DEF FindUnknown, FindsHandler
      <3>2. Creating(d)' = {c}
        BY <1>1, <1>3, <2>4, <3>1 DEF TypeInv, TypeOK, FindUnknown, Goes, Creating, Requests
      <3>3. HandlersOf(d) = {}
        BY <2>2, <3>1, OpenOnuACAssumption DEF OneCreates, HandlersOf, Requests
      <3>4. QED
        BY <2>3, <3>1, <3>2, <3>3 DEF OneCreates
    <2>5. CASE d # DeviceOf[c]
      <3>1. Creating(d)' = Creating(d)
        BY <1>1, <1>3, <2>5 DEF TypeInv, TypeOK, FindUnknown, Goes, Creating, Requests
      <3>2. QED
        BY <2>2, <2>3, <3>1 DEF OneCreates
    <2>6. QED
      BY <2>4, <2>5
  <1>4. CASE AddToMap(c)
    <2>1. d \notin overlapped /\ OneCreates(d)
      BY <1>4 DEF AddToMap, historyVars, OrphanInv
    <2>2. CASE d = DeviceOf[c]
      <3>1. Creating(d) = {c} /\ HandlersOf(d) = {} /\ deviceHandlers[d] = None
        <4>1. c \in Creating(d)
          BY <1>4, <2>2 DEF AddToMap, Goes, Creating
        <4>2. QED
          BY <2>1, <4>1 DEF OneCreates
      <3>2. deviceHandlers'[d] = c
        BY <1>4, <2>2, <3>1 DEF AddToMap, TypeInv, TypeOK
      <3>3. Creating(d)' = {}
        BY <1>1, <1>4, <2>2, <3>1 DEF TypeInv, TypeOK, AddToMap, Goes, Creating, Requests
      <3>4. HandlersOf(d)' \subseteq {c}
        BY <1>4, <3>1 DEF TypeInv, TypeOK, AddToMap, HandlersOf
      <3>5. QED
        BY <3>2, <3>3, <3>4 DEF OneCreates
    <2>3. CASE d # DeviceOf[c]
      <3>1. Untouched(d)
        BY <1>1, <1>4, <2>3 DEF TypeInv, TypeOK, AddToMap, Goes, Untouched, Creating,
                                HandlersOf, historyVars, Requests
      <3>2. QED
        BY <2>1, <3>1, UntouchedStays
    <2>4. QED
      BY <2>2, <2>3
  <1>5. CASE MarkReconciling(c)
    <2>1. d \notin overlapped /\ OneCreates(d)
      BY <1>5 DEF MarkReconciling, historyVars, OrphanInv
    <2>2. Untouched(d)
      BY <1>1, <1>5 DEF TypeInv, TypeOK, MarkReconciling, Goes, Untouched, Creating,
                        HandlersOf, historyVars, Requests
    <2>3. QED
      BY <2>1, <2>2, UntouchedStays
  <1>6. QED
    BY <1>2, <1>3, <1>4, <1>5 DEF Creation

LEMMA InitialisationOrphans ==
    ASSUME TypeInv, OrphanInv, NEW c \in Creators, Initialisation(c)
    PROVE  OrphanInv'
  <1>1. /\ state[c] # "none" /\ \E to \in {"init", "entry", "restore", "ready"} :
              state' = [state EXCEPT ![c] = to]
        /\ UNCHANGED <<deviceHandlers, at, overlapped>>
    BY DEF Initialisation, DoStateInit, SetOnuDeviceEntry, FireEntryReady, Restore,
           RestoreFails, Becomes, requestVars, historyVars
  <1>2. ASSUME NEW d \in Devices
        PROVE  Untouched(d)
    BY <1>1 DEF TypeInv, TypeOK, Untouched, Creating, HandlersOf
  <1>3. QED
    BY <1>2, UntouchedStays DEF OrphanInv

LEMMA RestartOrphans ==
    ASSUME Restarts, TypeInv
    PROVE  OrphanInv'
  BY DEF Restarts, OrphanInv, OneCreates, Creating, HandlersOf, TypeInv, TypeOK, Requests,
         Creators

LEMMA HandlingOrphans ==
    ASSUME TypeInv, OrphanInv, NEW r \in Messages \cup Deletes, Serving(r)
    PROVE  OrphanInv'
  <1>1. CASE Restarts
    BY <1>1, RestartOrphans
  <1>2. CASE ~Restarts
    <2>1. /\ UNCHANGED <<deviceHandlers, state, overlapped>>
          /\ \E to \in {"found", "waiting", "done", "failed"} : at' = [at EXCEPT ![r] = to]
      BY <1>2 DEF Serving, Handling, Deletion, FindTarget, HandleMessage, WaitForEntry, TakeToken,
                  GiveUp, DeleteStored, DeleteFails, DeletePanics, MessagePanics, Goes,
                  handlerVars, historyVars
    <2>2. r \notin Creators
      BY OpenOnuACAssumption DEF Creators
    <2>3. ASSUME NEW d \in Devices
          PROVE  Untouched(d)
      BY <2>1, <2>2 DEF TypeInv, TypeOK, Untouched, Creating, HandlersOf
    <2>4. QED
      BY <2>3, UntouchedStays DEF OrphanInv
  <1>3. QED
    BY <1>1, <1>2

LEMMA NextOrphans == TypeInv /\ OrphanInv /\ [Next]_vars => OrphanInv'
  <1> SUFFICES ASSUME TypeInv, OrphanInv, [Next]_vars
               PROVE  OrphanInv'
    OBVIOUS
  <1>1. CASE UNCHANGED <<deviceHandlers, at, state, overlapped>>
    BY <1>1 DEF OrphanInv, OneCreates, Creating, HandlersOf
  <1>2. CASE \E c \in Creators : Creation(c)
    BY <1>2, CreationOrphans
  <1>3. CASE \E c \in Creators : Initialisation(c)
    BY <1>3, InitialisationOrphans
  <1>4. CASE \E m \in Messages : Handling(m)
    <2>1. PICK m \in Messages : Handling(m)
      BY <1>4
    <2>2. m \in Messages \cup Deletes /\ Serving(m)
      BY <2>1 DEF Serving
    <2>3. QED
      BY <2>2, HandlingOrphans
  <1>5. CASE \E x \in Deletes : Deletion(x)
    <2>1. PICK x \in Deletes : Deletion(x)
      BY <1>5
    <2>2. x \in Messages \cup Deletes /\ Serving(x)
      BY <2>1 DEF Serving
    <2>3. QED
      BY <2>2, HandlingOrphans
  <1>6. CASE \E d \in Devices : Store(d)
    BY <1>1, <1>6 DEF Store, requestVars, handlerVars, historyVars
  <1>7. CASE Restart
    BY <1>7, RestartOrphans DEF Restart
  <1>8. CASE UNCHANGED vars
    BY <1>1, <1>8 DEF vars, requestVars, handlerVars, historyVars
  <1>9. QED
    BY <1>2, <1>3, <1>4, <1>5, <1>6, <1>7, <1>8 DEF Next

(* A device that no two requests have looked up at a time has no handler   *)
(* but the one its messages find, for any number of requests and restarts. *)
THEOREM NoOrphans == Spec => []OrphanNeedsOverlap
  <1>1. Init => TypeInv /\ OrphanInv
    BY InitTypes DEF Init, OrphanInv, OneCreates, Creating, HandlersOf, Requests, Creators
  <1>2. OrphanInv => OrphanNeedsOverlap
    BY DEF OrphanInv, OneCreates, OrphanNeedsOverlap
  <1>3. QED
    BY <1>1, <1>2, NextTypes, NextOrphans, PTL DEF Spec

-----------------------------------------------------------------------------
(***************************************************************************)
(* Unheard messages.  The value that deviceEntrySet has held and holds no  *)
(* longer was taken by a message, so one that still waits has not been     *)
(* alone.                                                                  *)
(***************************************************************************)
Fired(c) == state[c] \in {"restore", "ready"}

TwoAreACrowd ==
    \A m, n \in Messages :
        at[m] = "waiting" /\ at[n] = "waiting" /\ m # n /\ target[m] = target[n]
            => target[m] \in crowded

TokenIsTaken ==
    \A m \in Messages :
        at[m] = "waiting" /\ Fired(target[m]) /\ target[m] \notin token
            => target[m] \in crowded

WaitInv == TwoAreACrowd /\ TokenIsTaken /\ UnheardNeedsAnother

LEMMA CreationWaits ==
    ASSUME TypeInv, WaitInv, NEW c \in Creators, Creation(c)
    PROVE  WaitInv'
  <1>1. c \in Requests \ Messages
    BY OpenOnuACAssumption DEF Requests, Creators
  <1>2. /\ \A m \in Messages : at'[m] = at[m] /\ target'[m] = target[m]
        /\ UNCHANGED <<token, crowded, late>>
        /\ \A e \in Creators : Fired(e)' => Fired(e)
    <2>1. CASE FindKnown(c)
      BY <1>1, <2>1 DEF TypeInv, TypeOK, FindKnown, Goes, handlerVars, historyVars, Requests,
                        Fired
    <2>2. CASE FindUnknown(c)
      BY <1>1, <2>2 DEF TypeInv, TypeOK, FindUnknown, Goes, handlerVars, Requests, Fired
    <2>3. CASE AddToMap(c)
      BY <1>1, <2>3 DEF TypeInv, TypeOK, AddToMap, Goes, historyVars, Requests, Fired
    <2>4. CASE MarkReconciling(c)
      BY <1>1, <2>4 DEF TypeInv, TypeOK, MarkReconciling, Goes, historyVars, Requests, Fired
    <2>5. QED
      BY <2>1, <2>2, <2>3, <2>4 DEF Creation
  <1>3. \A m \in Messages : at[m] = "waiting" => target[m] \in Creators
    BY DEF TypeInv, HasFound, Requests
  <1>4. QED
    BY <1>2, <1>3 DEF WaitInv, TwoAreACrowd, TokenIsTaken, UnheardNeedsAnother

LEMMA InitialisationWaits ==
    ASSUME TypeInv, WaitInv, NEW c \in Creators, Initialisation(c)
    PROVE  WaitInv'
  <1>1. UNCHANGED <<at, target, crowded, late>> /\ token \subseteq token'
    BY DEF Initialisation, DoStateInit, SetOnuDeviceEntry, FireEntryReady, Restore,
           RestoreFails, requestVars, historyVars
  <1>2. \A e \in Creators : Fired(e)' => Fired(e) \/ e \in token'
    <2>1. CASE FireEntryReady(c)
      BY <2>1 DEF TypeInv, TypeOK, FireEntryReady, Becomes, Fired
    <2>2. CASE DoStateInit(c) \/ SetOnuDeviceEntry(c)
      BY <2>2 DEF TypeInv, TypeOK, DoStateInit, SetOnuDeviceEntry, Becomes, Fired
    <2>3. CASE Restore(c) \/ RestoreFails(c)
      BY <2>3 DEF TypeInv, TypeOK, Restore, RestoreFails, Becomes, Fired
    <2>4. QED
      BY <2>1, <2>2, <2>3 DEF Initialisation
  <1>3. \A m \in Messages : at[m] = "waiting" => target[m] \in Creators
    BY DEF TypeInv, HasFound, Requests
  <1>4. QED
    BY <1>1, <1>2, <1>3 DEF WaitInv, TwoAreACrowd, TokenIsTaken, UnheardNeedsAnother

LEMMA RestartWaits ==
    ASSUME Restarts, TypeInv
    PROVE  WaitInv'
  BY DEF Restarts, WaitInv, TwoAreACrowd, TokenIsTaken, UnheardNeedsAnother, Requests,
         TypeInv, TypeOK

\* Deletions are no messages.
LEMMA DeletionWaits ==
    ASSUME TypeInv, WaitInv, NEW x \in Deletes, Deletion(x)
    PROVE  WaitInv'
  <1>1. CASE Restarts
    BY <1>1, RestartWaits
  <1>2. CASE ~Restarts
    <2>1. x \in Requests \ Messages
      BY OpenOnuACAssumption DEF Requests
    <2>2. /\ \A m \in Messages : at'[m] = at[m] /\ target'[m] = target[m]
          /\ UNCHANGED <<token, crowded, late, state>>
      BY <1>2, <2>1 DEF Deletion, FindTarget, DeleteStored, DeleteFails, DeletePanics, Goes,
                        TypeInv, TypeOK, handlerVars, historyVars, Requests
    <2>3. QED
      BY <2>2 DEF WaitInv, TwoAreACrowd, TokenIsTaken, UnheardNeedsAnother, Fired
  <1>3. QED
    BY <1>1, <1>2

LEMMA HandlingWaits ==
    ASSUME TypeInv, WaitInv, NEW m \in Messages, Handling(m)
    PROVE  WaitInv'
  <1>1. m \in Requests
    BY DEF Requests
  <1>2. CASE FindTarget(m)
    BY <1>1, <1>2 DEF TypeInv, TypeOK, FindTarget, FindsHandler, Goes, handlerVars,
                      historyVars, Requests, WaitInv, TwoAreACrowd, TokenIsTaken,
                      UnheardNeedsAnother, Fired
  <1>3. CASE HandleMessage(m)
    BY <1>1, <1>3 DEF TypeInv, TypeOK, HandleMessage, Goes, historyVars, Requests, WaitInv,
                      TwoAreACrowd, TokenIsTaken, UnheardNeedsAnother, Fired
  <1>4. CASE WaitForEntry(m)
    <2>1. /\ at' = [at EXCEPT ![m] = "waiting"] /\ ~Fired(target[m])
          /\ UNCHANGED <<target, state, token, late>>
          /\ crowded \subseteq crowded'
          /\ WaitingFor(target[m]) # {} => target[m] \in crowded'
      BY <1>4 DEF WaitForEntry, Goes, handlerVars, Fired, HasEntry
    <2>2. TwoAreACrowd'
      BY <1>1, <2>1 DEF WaitInv, TwoAreACrowd, WaitingFor, TypeInv, TypeOK, Requests
    <2>3. TokenIsTaken' /\ UnheardNeedsAnother'
      BY <1>1, <2>1 DEF WaitInv, TokenIsTaken, UnheardNeedsAnother, Fired, TypeInv, TypeOK,
                        Requests
    <2>4. QED
      BY <2>2, <2>3 DEF WaitInv
  <1>5. CASE TakeToken(m)
    <2>1. /\ at[m] = "waiting" /\ at' = [at EXCEPT ![m] = "done"]
          /\ token' = token \ {target[m]}
          /\ UNCHANGED <<target, state, crowded, late>>
      BY <1>5 DEF TakeToken, Goes, historyVars
    <2>2. TwoAreACrowd' /\ UnheardNeedsAnother'
      BY <1>1, <2>1 DEF WaitInv, TwoAreACrowd, UnheardNeedsAnother, TypeInv, TypeOK, Requests
    <2>3. TokenIsTaken'
      BY <1>1, <2>1 DEF WaitInv, TwoAreACrowd, TokenIsTaken, Fired, TypeInv, TypeOK, Requests
    <2>4. QED
      BY <2>2, <2>3 DEF WaitInv
  <1>6. CASE GiveUp(m)
    <2>1. /\ at[m] = "waiting" /\ at' = [at EXCEPT ![m] = "failed"]
          /\ target[m] \notin token /\ late \subseteq late'
          /\ Fired(target[m]) \/ m \in late'
          /\ UNCHANGED <<target, state, token, crowded>>
      BY <1>6 DEF GiveUp, Goes, handlerVars, Fired
    <2>2. UnheardNeedsAnother'
      BY <1>1, <2>1 DEF WaitInv, TokenIsTaken, UnheardNeedsAnother, TypeInv, TypeOK, Requests
    <2>3. TwoAreACrowd' /\ TokenIsTaken'
      BY <1>1, <2>1 DEF WaitInv, TwoAreACrowd, TokenIsTaken, Fired, TypeInv, TypeOK, Requests
    <2>4. QED
      BY <2>2, <2>3 DEF WaitInv
  <1>7. CASE MessagePanics(m)
    BY <1>7, RestartWaits DEF MessagePanics
  <1>8. QED
    BY <1>2, <1>3, <1>4, <1>5, <1>6, <1>7 DEF Handling

LEMMA NextWaits == TypeInv /\ WaitInv /\ [Next]_vars => WaitInv'
  <1> SUFFICES ASSUME TypeInv, WaitInv, [Next]_vars
               PROVE  WaitInv'
    OBVIOUS
  <1>1. CASE UNCHANGED <<at, target, state, token, crowded, late>>
    BY <1>1 DEF WaitInv, TwoAreACrowd, TokenIsTaken, UnheardNeedsAnother, Fired
  <1>2. CASE Next
    <2>1. CASE \E d \in Devices : Store(d)
      BY <1>1, <2>1 DEF Store, requestVars, handlerVars, historyVars
    <2>2. QED
      BY <1>2, <2>1, CreationWaits, InitialisationWaits, HandlingWaits, DeletionWaits,
         RestartWaits DEF Next, Restart
  <1>3. QED
    BY <1>1, <1>2 DEF vars, requestVars, handlerVars, historyVars

(* In a handler that has its entry in time, a message goes unheard only if *)
(* another one has waited beside it, for any number of messages.           *)
THEOREM UnheardMessages == Spec => []UnheardNeedsAnother
  <1>1. Init => TypeInv /\ WaitInv
    BY InitTypes DEF Init, WaitInv, TwoAreACrowd, TokenIsTaken, UnheardNeedsAnother, Requests
  <1>2. WaitInv => UnheardNeedsAnother
    BY DEF WaitInv
  <1>3. QED
    BY <1>1, <1>2, NextTypes, NextWaits, PTL DEF Spec

================================================================================
