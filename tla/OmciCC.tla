------------------------------- MODULE OmciCC -------------------------------
(***************************************************************************)
(* The OMCI communication channel of one ONU (omci_cc.go): transaction     *)
(* identifiers, the transmit queue towards the OLT adapter, and the map    *)
(* that correlates an OMCI response with the state machine that asked for  *)
(* it.                                                                     *)
(*                                                                         *)
(* A request is one call of a sendXxx method.  Its caller is a goroutine   *)
(* of some ONU state machine and takes three steps: it allocates a TID,    *)
(* registers the response callback, and enqueues the frame, which spawns a *)
(* goroutine that drains the queue.  OnuDeviceEntry.start replaces the     *)
(* whole channel object by a fresh one, so every field is indexed by the   *)
(* number of the start that created it; a state machine created before the *)
(* last start still holds the object it was created with.                  *)
(*                                                                         *)
(* The frames travel to the OLT adapter over Kafka and the responses come  *)
(* back the same way.  A response to a transmitted request may arrive at   *)
(* any later time, never, or more than once (the sender itself transmits a *)
(* frame again when the first attempt reported a failure).                 *)
(***************************************************************************)
EXTENDS Integers, Sequences, FiniteSets

CONSTANTS
    Requests,    \* calls of the sendXxx methods, each made at most once
    HighPrio,    \* those of them that ask for a high priority TID
    NoRequest,   \* the absent entry of the scheduler map
    FirstHp,     \* 0x8000: lowest TID of the high priority range
    TidSpace,    \* 0x10000: number of values of a uint16 TID
    MaxStarts,   \* bound: starts of the device entry
    MaxFailures  \* bound: failed transmissions

ASSUME OmciAssumption ==
    /\ HighPrio \subseteq Requests
    /\ NoRequest \notin Requests
    /\ FirstHp \in Nat /\ TidSpace \in Nat
    /\ 1 < FirstHp /\ FirstHp < TidSpace
    /\ MaxStarts \in Nat
    /\ MaxFailures \in Nat

Tids == 0 .. TidSpace - 1
Starts == 1 .. MaxStarts

\* TRUE for the high priority class, as the parameter highPriority.
Prio(r) == r \in HighPrio

\* The range of TIDs of a class; TID 0 belongs to autonomous ONU messages.
FirstTid(hp) == IF hp THEN FirstHp ELSE 1
LastTid(hp) == IF hp THEN TidSpace - 1 ELSE FirstHp - 1
Cycle(hp) == LastTid(hp) - FirstTid(hp) + 1

VARIABLES
    start,          \* number of starts so far; 0 while PDevOmciCC is nil
    tid,            \* fields tid (class FALSE) and hpTid (class TRUE)
    rxSchedulerMap, \* TID |-> request whose callback is registered
    txQueue,        \* requests whose frame is queued
    txLocked,       \* mutexTxQueue is held by a sendNextRequest
    spawned,        \* sendNextRequest goroutines that have not run yet
    pc,             \* progress of the caller of each request
    chan,           \* start whose channel object the caller uses
    tidOf,          \* TID allocated to the request
    ordinal,        \* history: position among the requests of its class
    allocated,      \* history: TIDs allocated per class
    transmitted,    \* requests handed to the OLT adapter at least once
    failures,       \* failed transmissions so far
    posting,        \* callback goroutines: <<request, request answered>>
    posted          \* responses written to the response channel

callerVars == <<pc, chan, tidOf, ordinal>>
tidVars == <<tid, allocated>>
txVars == <<txQueue, txLocked, spawned>>
wireVars == <<transmitted, failures>>
rxVars == <<posting, posted>>
vars == <<start, tidVars, rxSchedulerMap, txVars, callerVars, wireVars, rxVars>>

-----------------------------------------------------------------------------
\* uint16 increment.
Increment(t) == IF t = TidSpace - 1 THEN 0 ELSE t + 1

-----------------------------------------------------------------------------
(* Plausible bugs.  Each operator is the definition below whose name it    *)
(* starts with, changed in the way its comment says; no specification uses *)
(* one.                                                                    *)

\* The counter wraps one TID too early.
NextTidWrapsEarly(t, hp) ==
    IF hp THEN IF Increment(t) \notin FirstHp .. TidSpace - 2 THEN FirstHp
                                                              ELSE Increment(t)
          ELSE IF Increment(t) >= FirstHp - 1 THEN 1 ELSE Increment(t)

\* The callback is registered under the current counter, not the own TID.
RegisterCallbackRereadsTid(r) ==
    /\ pc[r] = "numbered"
    /\ pc' = [pc EXCEPT ![r] = "registered"]
    /\ rxSchedulerMap' = [rxSchedulerMap EXCEPT ![chan[r]][tid[chan[r]][Prio(r)]] = r]
    /\ UNCHANGED <<start, tidVars, txVars, chan, tidOf, ordinal, wireVars, rxVars>>

\* No goroutine is spawned while another one holds frames.
EnqueueSpawnsOnlyFirst(r) ==
    /\ pc[r] = "registered"
    /\ ~txLocked[chan[r]]
    /\ pc' = [pc EXCEPT ![r] = "queued"]
    /\ txQueue' = [txQueue EXCEPT ![chan[r]] = Append(@, r)]
    /\ spawned' = [spawned EXCEPT ![chan[r]] =
                       IF ordinal[r] = 0 THEN @ + 1 ELSE @]
    /\ UNCHANGED <<start, tidVars, rxSchedulerMap, txLocked, chan, tidOf, ordinal,
                   wireVars, rxVars>>

\* The loop runs again without a goroutine of its own.
LockTxQueueUnspawned(g) ==
    /\ ~txLocked[g]
    /\ spawned' = [spawned EXCEPT ![g] = @ - 1]
    /\ txLocked' = [txLocked EXCEPT ![g] = TRUE]
    /\ UNCHANGED <<start, tidVars, rxSchedulerMap, txQueue, callerVars, wireVars, rxVars>>

\* The frame is dequeued before it is known to be sent.
TransmitFailsDequeues(g) ==
    /\ txLocked[g]
    /\ txQueue[g] # << >>
    /\ failures < MaxFailures
    /\ failures' = failures + 1
    /\ txLocked' = [txLocked EXCEPT ![g] = FALSE]
    /\ txQueue' = [txQueue EXCEPT ![g] = Tail(@)]
    /\ UNCHANGED <<start, tidVars, rxSchedulerMap, spawned, callerVars, transmitted, rxVars>>

\* The entry stays in the map.
ReceiveResponseKeepsEntry(o) ==
    /\ o \in transmitted
    /\ start > 0
    /\ rxSchedulerMap[start][tidOf[o]] # NoRequest
    /\ posting' = posting \cup {<<rxSchedulerMap[start][tidOf[o]], o>>}
    /\ UNCHANGED <<start, tidVars, rxSchedulerMap, txVars, callerVars, wireVars, posted>>

-----------------------------------------------------------------------------
\* The counter after an allocation, as getNextTid leaves it.
NextTid(t, hp) ==
    IF hp THEN IF Increment(t) < FirstHp THEN FirstHp ELSE Increment(t)
          ELSE IF Increment(t) >= FirstHp THEN 1 ELSE Increment(t)

Init ==
    /\ start = 0
    /\ tid = [g \in Starts |-> [hp \in BOOLEAN |-> FirstTid(hp)]]
    /\ rxSchedulerMap = [g \in Starts |-> [t \in Tids |-> NoRequest]]
    /\ txQueue = [g \in Starts |-> << >>]
    /\ txLocked = [g \in Starts |-> FALSE]
    /\ spawned = [g \in Starts |-> 0]
    /\ pc = [r \in Requests |-> "idle"]
    /\ chan = [r \in Requests |-> 0]
    /\ tidOf = [r \in Requests |-> 0]
    /\ ordinal = [r \in Requests |-> 0]
    /\ allocated = [g \in Starts |-> [hp \in BOOLEAN |-> 0]]
    /\ transmitted = {}
    /\ failures = 0
    /\ posting = {}
    /\ posted = [r \in Requests |-> << >>]

-----------------------------------------------------------------------------
(* OnuDeviceEntry.start: a new channel object replaces the previous one,   *)
(* whose queue and goroutines live on.                                     *)
Start ==
    /\ start < MaxStarts
    /\ start' = start + 1
    /\ UNCHANGED <<tidVars, rxSchedulerMap, txVars, callerVars, wireVars, rxVars>>

\* getNextTid, called on the current channel object or on one captured
\* by a state machine before a later start.
GetNextTid(r, g) ==
    /\ pc[r] = "idle"
    /\ g <= start
    /\ pc' = [pc EXCEPT ![r] = "numbered"]
    /\ chan' = [chan EXCEPT ![r] = g]
    /\ tidOf' = [tidOf EXCEPT ![r] = tid[g][Prio(r)]]
    /\ ordinal' = [ordinal EXCEPT ![r] = allocated[g][Prio(r)]]
    /\ tid' = [tid EXCEPT ![g][Prio(r)] = NextTid(@, Prio(r))]
    /\ allocated' = [allocated EXCEPT ![g][Prio(r)] = @ + 1]
    /\ UNCHANGED <<start, rxSchedulerMap, txVars, wireVars, rxVars>>

\* The frame cannot be built: the method returns, its TID is spent.
EncodeFails(r) ==
    /\ pc[r] = "numbered"
    /\ pc' = [pc EXCEPT ![r] = "failed"]
    /\ UNCHANGED <<start, tidVars, rxSchedulerMap, txVars, chan, tidOf, ordinal,
                   wireVars, rxVars>>

\* send, first critical section: register the response callback.
RegisterCallback(r) ==
    /\ pc[r] = "numbered"
    /\ pc' = [pc EXCEPT ![r] = "registered"]
    /\ rxSchedulerMap' = [rxSchedulerMap EXCEPT ![chan[r]][tidOf[r]] = r]
    /\ UNCHANGED <<start, tidVars, txVars, chan, tidOf, ordinal, wireVars, rxVars>>

\* send, second critical section: queue the frame; then spawn a drainer.
Enqueue(r) ==
    /\ pc[r] = "registered"
    /\ ~txLocked[chan[r]]
    /\ pc' = [pc EXCEPT ![r] = "queued"]
    /\ txQueue' = [txQueue EXCEPT ![chan[r]] = Append(@, r)]
    /\ spawned' = [spawned EXCEPT ![chan[r]] = @ + 1]
    /\ UNCHANGED <<start, tidVars, rxSchedulerMap, txLocked, chan, tidOf, ordinal,
                   wireVars, rxVars>>

-----------------------------------------------------------------------------
(* sendNextRequest holds mutexTxQueue until the queue is empty or a        *)
(* transmission fails.                                                     *)
LockTxQueue(g) ==
    /\ spawned[g] > 0
    /\ ~txLocked[g]
    /\ spawned' = [spawned EXCEPT ![g] = @ - 1]
    /\ txLocked' = [txLocked EXCEPT ![g] = TRUE]
    /\ UNCHANGED <<start, tidVars, rxSchedulerMap, txQueue, callerVars, wireVars, rxVars>>

\* One turn of the loop: the head is sent, then removed.
Transmit(g) ==
    /\ txLocked[g]
    /\ txQueue[g] # << >>
    /\ transmitted' = transmitted \cup {Head(txQueue[g])}
    /\ txQueue' = [txQueue EXCEPT ![g] = Tail(@)]
    /\ UNCHANGED <<start, tidVars, rxSchedulerMap, txLocked, spawned, callerVars,
                   failures, rxVars>>

\* GetDevice or SendInterAdapterMessage reports an error, whether or not
\* the frame went out: the goroutine returns and the head stays queued.
TransmitFails(g) ==
    /\ txLocked[g]
    /\ txQueue[g] # << >>
    /\ failures < MaxFailures
    /\ failures' = failures + 1
    /\ txLocked' = [txLocked EXCEPT ![g] = FALSE]
    /\ \/ transmitted' = transmitted \cup {Head(txQueue[g])}
       \/ UNCHANGED transmitted
    /\ UNCHANGED <<start, tidVars, rxSchedulerMap, txQueue, spawned, callerVars, rxVars>>

UnlockTxQueue(g) ==
    /\ txLocked[g]
    /\ txQueue[g] = << >>
    /\ txLocked' = [txLocked EXCEPT ![g] = FALSE]
    /\ UNCHANGED <<start, tidVars, rxSchedulerMap, txQueue, spawned, callerVars,
                   wireVars, rxVars>>

-----------------------------------------------------------------------------
(* receiveMessage on the current channel object: a response to the         *)
(* transmitted request o arrives.  If its TID is registered, a goroutine   *)
(* is started with the registered callback and the entry is deleted under  *)
(* mutexRxSchedMap; otherwise the message is refused and nothing changes.  *)
ReceiveResponse(o) ==
    /\ o \in transmitted
    /\ start > 0
    /\ LET t == tidOf[o]
           r == rxSchedulerMap[start][t]
       IN /\ r # NoRequest
          /\ posting' = posting \cup {<<r, o>>}
          /\ rxSchedulerMap' = [rxSchedulerMap EXCEPT ![start][t] = NoRequest]
    /\ UNCHANGED <<start, tidVars, txVars, callerVars, wireVars, posted>>

\* receiveOmciResponse: the callback goroutine writes to the channel of
\* the state machine that made request d[1].
ReceiveOmciResponse(d) ==
    /\ d \in posting
    /\ posting' = posting \ {d}
    /\ posted' = [posted EXCEPT ![d[1]] = Append(@, d[2])]
    /\ UNCHANGED <<start, tidVars, rxSchedulerMap, txVars, callerVars, wireVars>>

-----------------------------------------------------------------------------
Drain(g) == LockTxQueue(g) \/ Transmit(g) \/ TransmitFails(g) \/ UnlockTxQueue(g)

Next ==
    \/ Start
    \/ \E r \in Requests, g \in Starts : GetNextTid(r, g)
    \/ \E r \in Requests : EncodeFails(r) \/ RegisterCallback(r) \/ Enqueue(r)
    \/ \E g \in Starts : Drain(g)
    \/ \E o \in Requests : ReceiveResponse(o)
    \/ \E d \in posting : ReceiveOmciResponse(d)

Spec == Init /\ [][Next]_vars

(* The Go scheduler eventually runs a spawned goroutine, mutexes are       *)
(* eventually granted and the blocking calls of sendNextRequest return.    *)
(* Nothing is assumed of callers, of starts or of the ONU.                 *)
FairSpec == Spec /\ \A g \in Starts : WF_vars(Drain(g))

-----------------------------------------------------------------------------
(* Properties.                                                             *)

Progress == {"idle", "numbered", "failed", "registered", "queued"}

\* The values the fields of omciCC and its callers range over.
TypeOK ==
    /\ start \in 0 .. MaxStarts
    /\ tid \in [Starts -> [BOOLEAN -> Tids]]
    /\ rxSchedulerMap \in [Starts -> [Tids -> Requests \cup {NoRequest}]]
    /\ txQueue \in [Starts -> Seq(Requests)]
    /\ txLocked \in [Starts -> BOOLEAN]
    /\ spawned \in [Starts -> Nat]
    /\ pc \in [Requests -> Progress]
    /\ chan \in [Requests -> 0 .. MaxStarts]
    /\ tidOf \in [Requests -> Tids]
    /\ ordinal \in [Requests -> Nat]
    /\ allocated \in [Starts -> [BOOLEAN -> Nat]]
    /\ transmitted \subseteq Requests
    /\ failures \in Nat
    /\ posting \subseteq Requests \X Requests
    /\ posted \in [Requests -> Seq(Requests)]

\* Two requests carry the same TID on the same channel object.
Collide(p, q) == chan[p] = chan[q] /\ tidOf[p] = tidOf[q]

\* q has been given its TID a whole cycle of its class before or after p.
CycleApart(p, q) ==
    /\ Prio(p) = Prio(q)
    /\ \/ ordinal[p] - ordinal[q] >= Cycle(Prio(p))
       \/ ordinal[q] - ordinal[p] >= Cycle(Prio(p))

(* getNextTid: the requests of one channel object that carry the same TID  *)
(* are of the same class and a whole TID cycle apart, whatever goroutines  *)
(* allocate concurrently.                                                  *)
TidReuseTakesACycle ==
    \A p, q \in Requests :
        /\ p # q
        /\ pc[p] # "idle" /\ pc[q] # "idle"
        /\ Collide(p, q)
        => CycleApart(p, q)

(* receiveMessage with receiveOmciResponse: what a state machine reads for *)
(* its request r is the response to r, unless the response is so late that *)
(* the TID has been used again: after a restart of the device entry, which *)
(* resets the counters, or after a whole TID cycle.                        *)
AnswersItsRequest ==
    \A r \in Requests : \A i \in DOMAIN posted[r] :
        LET o == posted[r][i] IN
        \/ o = r
        \/ tidOf[o] = tidOf[r] /\ chan[o] < chan[r]
        \/ Collide(o, r) /\ CycleApart(o, r)

(* receiveMessage deletes the entry it used ("having posted the response   *)
(* the request is regarded as done"): however often the OLT adapter        *)
(* delivers a response, a request is answered at most once.                *)
AnsweredAtMostOnce == \A r \in Requests : Len(posted[r]) <= 1

\* The callback of r is registered on its channel object.
Registered(r) == rxSchedulerMap[chan[r]][tidOf[r]] = r

(* sendNextRequest stops at the first failure and keeps the head, and      *)
(* removes a frame only after it has been sent: no frame whose send has    *)
(* returned is lost, and none overtakes another that was queued before it  *)
(* on the same channel object, even across failed attempts.                *)
FramesKeepTheirOrder ==
    /\ \A r \in Requests :
         pc[r] = "queued" =>
             \/ r \in transmitted
             \/ \E i \in DOMAIN txQueue[chan[r]] : txQueue[chan[r]][i] = r
    /\ \A g \in Starts : \A i \in 2 .. Len(txQueue[g]) : txQueue[g][i] \notin transmitted

(* A state machine that holds the channel object of an earlier start gets  *)
(* no answer any more: receiveMessage looks only at the current object.    *)
OldChannelIsDeaf == [][\A d \in posting' \ posting : chan[d[1]] = start]_vars

(* sendNextRequest returns at a failure and nobody tries again until the   *)
(* next request is sent: a failure leaves at most one more frame behind    *)
(* that no goroutine is going to send.                                     *)
StrandedByFailures ==
    \A g \in Starts :
        spawned[g] = 0 /\ ~txLocked[g] => Len(txQueue[g]) <= failures

(* As long as no transmission fails, every queued frame is sent.           *)
QueuedIsTransmitted ==
    \A r \in Requests : pc[r] = "queued" ~> (r \in transmitted \/ failures > 0)

(* The abstract exchange that the channel implements.                      *)
Exchange == INSTANCE OmciExchange WITH
    waiting <- {r \in Requests : pc[r] \in {"registered", "queued"} /\ Registered(r)},
    asked <- {r \in Requests : pc[r] \in {"registered", "queued"}},
    answers <- posting \cup {d \in Requests \X Requests :
                   \E i \in DOMAIN posted[d[1]] : posted[d[1]][i] = d[2]}

(* The channel implements the abstract exchange.                           *)
ImplementsExchange == Exchange!Spec

=============================================================================
