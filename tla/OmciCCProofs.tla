---------------------------- MODULE OmciCCProofs ----------------------------
(***************************************************************************)
(* Proofs about the OMCI channel for any set of requests, any TID ranges   *)
(* and any number of restarts and failures.                                *)
(***************************************************************************)
EXTENDS OmciCC, TLAPS

-----------------------------------------------------------------------------
(* Type correctness.                                                       *)

\* The counter stays in the range of its class (getNextTid).
LEMMA NextTidInRange ==
    ASSUME NEW hp \in BOOLEAN, NEW t \in FirstTid(hp) .. LastTid(hp)
    PROVE  NextTid(t, hp) \in FirstTid(hp) .. LastTid(hp)
BY OmciAssumption DEF NextTid, Increment, FirstTid, LastTid

\* The counter wraps from the last TID of its class to the first.
LEMMA NextTidWraps ==
    ASSUME NEW hp \in BOOLEAN, NEW t \in FirstTid(hp) .. LastTid(hp)
    PROVE  NextTid(t, hp) = IF t = LastTid(hp) THEN FirstTid(hp) ELSE t + 1
BY OmciAssumption DEF NextTid, Increment, FirstTid, LastTid

LEMMA TidRanges ==
    ASSUME NEW hp \in BOOLEAN
    PROVE  /\ FirstTid(hp) \in Nat /\ LastTid(hp) \in Nat
           /\ FirstTid(hp) <= LastTid(hp)
           /\ FirstTid(hp) .. LastTid(hp) \subseteq Tids
           /\ Cycle(hp) \in Nat /\ Cycle(hp) >= 1
BY OmciAssumption DEF FirstTid, LastTid, Tids, Cycle

\* The counters stay in the TID range of their class.
CountersInRange ==
    \A g \in Starts, hp \in BOOLEAN : tid[g][hp] \in FirstTid(hp) .. LastTid(hp)

\* A caller that has a TID got it from a channel object that exists.
CallersHoldAChannel ==
    \A r \in Requests : pc[r] # "idle" => chan[r] \in 1 .. start

TypeInv == TypeOK /\ CountersInRange /\ CallersHoldAChannel

LEMMA PrioType == \A r : Prio(r) \in BOOLEAN
BY DEF Prio

LEMMA InitType == Init => TypeInv
BY OmciAssumption, TidRanges
   DEF Init, TypeInv, TypeOK, CountersInRange, CallersHoldAChannel, Starts, Tids, Progress, FirstTid, LastTid

LEMMA NextType == TypeInv /\ [Next]_vars => TypeInv'
<1> SUFFICES ASSUME TypeInv, [Next]_vars PROVE TypeInv'
  OBVIOUS
<1> USE DEF TypeInv, TypeOK, CountersInRange, CallersHoldAChannel, callerVars, tidVars, txVars,
            wireVars, rxVars
<1>1. CASE Start
  BY <1>1, OmciAssumption DEF Start
<1>2. ASSUME NEW r \in Requests, NEW g \in Starts, GetNextTid(r, g)
      PROVE  TypeInv'
  <2> DEFINE hp == Prio(r)
  <2>1. hp \in BOOLEAN
    BY PrioType
  <2>2. g \in 0 .. MaxStarts
    BY OmciAssumption DEF Starts
  <2>3. NextTid(tid[g][hp], hp) \in FirstTid(hp) .. LastTid(hp)
    BY <2>1, NextTidInRange
  <2>4. NextTid(tid[g][hp], hp) \in Tids
    BY <2>1, <2>3, TidRanges
  <2>5. tid' \in [Starts -> [BOOLEAN -> Tids]]
    BY <1>2, <2>1, <2>4 DEF GetNextTid
  <2>6. CountersInRange'
    BY <1>2, <2>1, <2>3 DEF GetNextTid
  <2>7. pc' \in [Requests -> Progress] /\ chan' \in [Requests -> 0 .. MaxStarts]
    BY <1>2, <2>2 DEF GetNextTid, Progress
  <2>8. tidOf' \in [Requests -> Tids] /\ ordinal' \in [Requests -> Nat]
    BY <1>2, <2>1 DEF GetNextTid
  <2>9. allocated' \in [Starts -> [BOOLEAN -> Nat]]
    BY <1>2, <2>1 DEF GetNextTid
  <2>10. CallersHoldAChannel'
    BY <1>2, OmciAssumption DEF GetNextTid, Starts
  <2> QED
    BY <1>2, <2>5, <2>6, <2>7, <2>8, <2>9, <2>10 DEF GetNextTid
<1>3. ASSUME NEW r \in Requests, EncodeFails(r) PROVE TypeInv'
  BY <1>3 DEF EncodeFails, Progress
<1>4. ASSUME NEW r \in Requests, RegisterCallback(r) PROVE TypeInv'
  <2>1. chan[r] \in Starts
    BY <1>4, OmciAssumption DEF RegisterCallback, Starts
  <2> QED
    BY <1>4, <2>1 DEF RegisterCallback, Progress
<1>5. ASSUME NEW r \in Requests, Enqueue(r) PROVE TypeInv'
  <2>1. chan[r] \in Starts
    BY <1>5, OmciAssumption DEF Enqueue, Starts
  <2>2. Append(txQueue[chan[r]], r) \in Seq(Requests)
    BY <2>1
  <2>3. txQueue' \in [Starts -> Seq(Requests)]
    BY <1>5, <2>2 DEF Enqueue
  <2>4. spawned' \in [Starts -> Nat]
    BY <1>5, <2>1 DEF Enqueue
  <2> QED
    BY <1>5, <2>3, <2>4 DEF Enqueue, Progress
<1>6. ASSUME NEW g \in Starts, LockTxQueue(g) PROVE TypeInv'
  <2>1. spawned[g] \in Nat /\ spawned[g] > 0
    BY <1>6 DEF LockTxQueue
  <2>2. spawned[g] - 1 \in Nat
    BY <2>1
  <2>3. spawned' \in [Starts -> Nat]
    BY <1>6, <2>2 DEF LockTxQueue
  <2>4. txLocked' \in [Starts -> BOOLEAN]
    BY <1>6 DEF LockTxQueue
  <2>5. CountersInRange' /\ CallersHoldAChannel'
    BY <1>6 DEF LockTxQueue
  <2>6. UNCHANGED <<start, tid, rxSchedulerMap, txQueue, pc, chan, tidOf, ordinal, allocated,
                    transmitted, failures, posting, posted>>
    BY <1>6 DEF LockTxQueue
  <2> QED
    BY <2>3, <2>4, <2>5, <2>6
<1>7. ASSUME NEW g \in Starts, Transmit(g) PROVE TypeInv'
  <2>1. Head(txQueue[g]) \in Requests /\ Tail(txQueue[g]) \in Seq(Requests)
    BY <1>7 DEF Transmit
  <2> QED
    BY <1>7, <2>1 DEF Transmit
<1>8. ASSUME NEW g \in Starts, TransmitFails(g) PROVE TypeInv'
  <2>1. txQueue[g] \in Seq(Requests) /\ txQueue[g] # << >>
    BY <1>8 DEF TransmitFails
  <2>2. Head(txQueue[g]) \in Requests
    BY <2>1
  <2>3. transmitted' \subseteq Requests
    BY <1>8, <2>2 DEF TransmitFails
  <2>4. failures' \in Nat
    BY <1>8 DEF TransmitFails
  <2>5. txLocked' \in [Starts -> BOOLEAN]
    BY <1>8 DEF TransmitFails
  <2>6. CountersInRange' /\ CallersHoldAChannel'
    BY <1>8 DEF TransmitFails
  <2>7. UNCHANGED <<start, tid, rxSchedulerMap, txQueue, spawned, pc, chan, tidOf, ordinal,
                    allocated, posting, posted>>
    BY <1>8 DEF TransmitFails
  <2> QED
    BY <2>3, <2>4, <2>5, <2>6, <2>7
<1>9. ASSUME NEW g \in Starts, UnlockTxQueue(g) PROVE TypeInv'
  BY <1>9 DEF UnlockTxQueue
<1>10. ASSUME NEW o \in Requests, ReceiveResponse(o) PROVE TypeInv'
  <2> DEFINE t == tidOf[o]
             r == rxSchedulerMap[start][t]
  <2>1. start \in Starts /\ t \in Tids
    BY <1>10 DEF ReceiveResponse, Starts
  <2>2. r \in Requests
    BY <1>10, <2>1 DEF ReceiveResponse
  <2>3. posting' \subseteq Requests \X Requests
    BY <1>10, <2>2 DEF ReceiveResponse
  <2>4. rxSchedulerMap' \in [Starts -> [Tids -> Requests \cup {NoRequest}]]
    BY <1>10, <2>1 DEF ReceiveResponse
  <2> QED
    BY <1>10, <2>3, <2>4 DEF ReceiveResponse
<1>11. ASSUME NEW d \in posting, ReceiveOmciResponse(d) PROVE TypeInv'
  BY <1>11 DEF ReceiveOmciResponse
<1>12. CASE UNCHANGED vars
  BY <1>12 DEF vars
<1> QED
  BY <1>1, <1>2, <1>3, <1>4, <1>5, <1>6, <1>7, <1>8, <1>9, <1>10, <1>11, <1>12
     DEF Next, Drain

(* TypeOK holds in every reachable state: the maps, queues and counters of *)
(* omciCC keep the shape the methods assume.                               *)
THEOREM TypeCorrect == Spec => []TypeOK
<1>1. TypeInv => TypeOK
  BY DEF TypeInv
<1> QED
  BY <1>1, InitType, NextType, PTL DEF Spec

-----------------------------------------------------------------------------
(* TID reuse.  The induction needs to know how the TID of a request lies   *)
(* relative to the counter for as long as the request is younger than one  *)
(* cycle; this is linear arithmetic, where "ordinal modulo cycle" is not.  *)

\* Allocations of its class since (and including) the one of r.
Age(r) == allocated[chan[r]][Prio(r)] - ordinal[r]

\* The TID that lies n allocations behind the counter.
Behind(t, hp, n) == IF t - n >= FirstTid(hp) THEN t - n ELSE t - n + Cycle(hp)

TidWindow ==
    \A r \in Requests : pc[r] # "idle" =>
        /\ Age(r) >= 1
        /\ tidOf[r] \in FirstTid(Prio(r)) .. LastTid(Prio(r))
        /\ Age(r) <= Cycle(Prio(r)) =>
              tidOf[r] = Behind(tid[chan[r]][Prio(r)], Prio(r), Age(r))

TidInv == TypeInv /\ TidWindow /\ TidReuseTakesACycle

\* One more allocation moves the counter and every age by one.
LEMMA BehindNext ==
    ASSUME NEW hp \in BOOLEAN, NEW t \in FirstTid(hp) .. LastTid(hp), NEW n \in Nat,
           n < Cycle(hp)
    PROVE  Behind(NextTid(t, hp), hp, n + 1) = Behind(t, hp, n)
BY NextTidWraps, TidRanges DEF Behind, Cycle

\* Within a cycle no earlier allocation has the counter's value.
LEMMA BehindDiffers ==
    ASSUME NEW hp \in BOOLEAN, NEW t \in FirstTid(hp) .. LastTid(hp), NEW n \in Nat,
           1 <= n, n < Cycle(hp)
    PROVE  Behind(t, hp, n) # t
BY TidRanges DEF Behind, Cycle

\* The TID ranges of the two classes are disjoint.
LEMMA TidClassesDisjoint ==
    ASSUME NEW a \in BOOLEAN, NEW b \in BOOLEAN,
           NEW t \in FirstTid(a) .. LastTid(a), t \in FirstTid(b) .. LastTid(b)
    PROVE  a = b
BY OmciAssumption DEF FirstTid, LastTid

\* What a step other than GetNextTid leaves alone.
NoAllocation ==
    /\ UNCHANGED <<tid, allocated, chan, tidOf, ordinal>>
    /\ \A r \in Requests : pc'[r] = "idle" <=> pc[r] = "idle"

LEMMA StepAllocates ==
    ASSUME TypeInv, [Next]_vars
    PROVE  NoAllocation \/ \E r \in Requests, g \in Starts : GetNextTid(r, g)
<1> USE DEF TypeInv, TypeOK, NoAllocation, callerVars, tidVars
<1>1. CASE Start
  BY <1>1 DEF Start
<1>2. ASSUME NEW r \in Requests, EncodeFails(r) \/ RegisterCallback(r) \/ Enqueue(r)
      PROVE  NoAllocation
  BY <1>2 DEF EncodeFails, RegisterCallback, Enqueue
<1>3. ASSUME NEW g \in Starts, Drain(g) PROVE NoAllocation
  BY <1>3 DEF Drain, LockTxQueue, Transmit, TransmitFails, UnlockTxQueue
<1>4. ASSUME NEW o \in Requests, ReceiveResponse(o) PROVE NoAllocation
  BY <1>4 DEF ReceiveResponse
<1>5. ASSUME NEW d \in posting, ReceiveOmciResponse(d) PROVE NoAllocation
  BY <1>5 DEF ReceiveOmciResponse
<1>6. CASE UNCHANGED vars
  BY <1>6 DEF vars
<1> QED
  BY <1>1, <1>2, <1>3, <1>4, <1>5, <1>6 DEF Next

LEMMA NextTidInv == TidInv /\ [Next]_vars => TidInv'
<1> SUFFICES ASSUME TidInv, [Next]_vars PROVE TidInv'
  OBVIOUS
<1>1. TypeInv'
  BY NextType DEF TidInv
<1>2. CASE NoAllocation
  <2>1. TidWindow'
    BY <1>2 DEF TidInv, NoAllocation, TidWindow, Age
  <2>2. TidReuseTakesACycle'
    BY <1>2 DEF TidInv, NoAllocation, TidReuseTakesACycle, Collide, CycleApart
  <2> QED
    BY <1>1, <2>1, <2>2 DEF TidInv
<1>3. ASSUME NEW r \in Requests, NEW g \in Starts, GetNextTid(r, g)
      PROVE  TidInv'
  <2> DEFINE hp == Prio(r)
             t == tid[g][hp]
             n == allocated[g][hp]
  <2>0. hp \in BOOLEAN /\ t \in FirstTid(hp) .. LastTid(hp) /\ n \in Nat
    BY PrioType DEF TidInv, TypeInv, TypeOK, CountersInRange
  <2>1. /\ pc[r] = "idle" /\ pc'[r] # "idle"
        /\ chan'[r] = g /\ tidOf'[r] = t /\ ordinal'[r] = n
        /\ \A q \in Requests \ {r} : /\ pc'[q] = pc[q] /\ chan'[q] = chan[q]
                                     /\ tidOf'[q] = tidOf[q]
                                     /\ ordinal'[q] = ordinal[q]
    BY <1>3, <2>0 DEF GetNextTid, TidInv, TypeInv, TypeOK
  <2>2. /\ tid'[g][hp] = NextTid(t, hp) /\ allocated'[g][hp] = n + 1
        /\ \A h \in Starts, b \in BOOLEAN : h # g \/ b # hp =>
               tid'[h][b] = tid[h][b] /\ allocated'[h][b] = allocated[h][b]
    BY <1>3, <2>0 DEF GetNextTid, TidInv, TypeInv, TypeOK
  <2>3. ASSUME NEW q \in Requests \ {r}, pc[q] # "idle"
        PROVE  /\ chan[q] \in Starts /\ Prio(q) \in BOOLEAN
               /\ Age(q) \in Nat /\ Age(q) >= 1
               /\ tidOf[q] \in FirstTid(Prio(q)) .. LastTid(Prio(q))
               /\ Age(q) <= Cycle(Prio(q)) =>
                     tidOf[q] = Behind(tid[chan[q]][Prio(q)], Prio(q), Age(q))
    <3>1. start \in 0 .. MaxStarts /\ chan[q] \in 1 .. start
      BY <2>3 DEF TidInv, TypeInv, TypeOK, CallersHoldAChannel
    <3>2. chan[q] \in Starts
      BY <3>1, OmciAssumption DEF Starts
    <3>3. Prio(q) \in BOOLEAN
      BY PrioType
    <3>4. ordinal[q] \in Nat /\ allocated[chan[q]][Prio(q)] \in Nat
      BY <3>2, <3>3 DEF TidInv, TypeInv, TypeOK
    <3>5. Age(q) \in Int
      BY <3>4 DEF Age
    <3>6. /\ Age(q) >= 1
          /\ tidOf[q] \in FirstTid(Prio(q)) .. LastTid(Prio(q))
          /\ Age(q) <= Cycle(Prio(q)) =>
                tidOf[q] = Behind(tid[chan[q]][Prio(q)], Prio(q), Age(q))
      BY <2>3 DEF TidInv, TidWindow
    <3> QED
      BY <3>2, <3>3, <3>5, <3>6
  <2>4. TidWindow'
    <3> SUFFICES ASSUME NEW q \in Requests, pc'[q] # "idle"
                 PROVE  /\ Age(q)' >= 1
                        /\ tidOf'[q] \in FirstTid(Prio(q)) .. LastTid(Prio(q))
                        /\ Age(q)' <= Cycle(Prio(q)) =>
                              tidOf'[q] = Behind(tid'[chan'[q]][Prio(q)], Prio(q), Age(q)')
      BY DEF TidWindow, Prio
    <3>0. Age(q)' = allocated'[chan'[q]][Prio(q)] - ordinal'[q]
      BY DEF Age, Prio
    <3>1. CASE q = r
      <4>1. Age(q)' = 1
        BY <3>0, <3>1, <2>0, <2>1, <2>2
      <4>2. Behind(NextTid(t, hp), hp, 1) = t
        BY <2>0, NextTidWraps, TidRanges DEF Behind, Cycle
      <4> QED
        BY <3>1, <4>1, <4>2, <2>0, <2>1, <2>2
    <3>2. CASE q # r /\ chan[q] = g /\ Prio(q) = hp
      <4>1. pc[q] # "idle"
        BY <3>2, <2>1
      <4>2. Age(q)' = Age(q) + 1
        <5>1. ordinal[q] \in Nat
          BY DEF TidInv, TypeInv, TypeOK
        <5>2. Age(q) = n - ordinal[q]
          BY <3>2 DEF Age
        <5>3. Age(q)' = n + 1 - ordinal[q]
          BY <3>0, <3>2, <5>1, <2>0, <2>1, <2>2
        <5> QED
          BY <5>1, <5>2, <5>3, <2>0
      <4>3. CASE Age(q) < Cycle(hp)
        <5>1. Behind(NextTid(t, hp), hp, Age(q) + 1) = Behind(t, hp, Age(q))
          BY <4>3, <4>1, <3>2, <2>0, <2>3, BehindNext
        <5>2. tidOf[q] = Behind(t, hp, Age(q))
          BY <4>1, <4>3, <3>2, <2>0, <2>3, TidRanges
        <5> QED
          BY <3>2, <4>1, <4>2, <5>1, <5>2, <2>1, <2>2, <2>3
      <4>4. CASE ~(Age(q) < Cycle(hp))
        BY <3>2, <4>1, <4>2, <4>4, <2>0, <2>1, <2>3, TidRanges
      <4> QED
        BY <4>3, <4>4
    <3>3. CASE q # r /\ (chan[q] # g \/ Prio(q) # hp)
      <4>1. pc[q] # "idle"
        BY <3>3, <2>1
      <4>2. /\ tid'[chan'[q]][Prio(q)] = tid[chan[q]][Prio(q)]
            /\ Age(q)' = Age(q)
        BY <3>0, <3>3, <4>1, <2>1, <2>2, <2>3 DEF Age
      <4> QED
        BY <3>3, <4>1, <4>2, <2>1, <2>3
    <3> QED
      BY <3>1, <3>2, <3>3
  <2>5. ASSUME NEW q \in Requests \ {r}, pc[q] # "idle", chan[q] = g, tidOf[q] = t
        PROVE  Prio(q) = hp /\ n - ordinal[q] >= Cycle(hp)
    <3>1. Prio(q) = hp
      BY <2>0, <2>3, <2>5, TidClassesDisjoint
    <3>2. Age(q) = n - ordinal[q]
      BY <3>1, <2>5 DEF Age
    <3>3. ASSUME Age(q) < Cycle(hp) PROVE FALSE
      <4>1. tidOf[q] = Behind(t, hp, Age(q))
        BY <3>1, <3>3, <2>0, <2>3, <2>5, TidRanges
      <4>2. Behind(t, hp, Age(q)) # t
        BY <3>3, <2>0, <2>3, <2>5, BehindDiffers
      <4> QED
        BY <4>1, <4>2, <2>5
    <3> QED
      BY <3>1, <3>2, <3>3, <2>0, <2>3, <2>5, TidRanges
  <2>6. TidReuseTakesACycle'
    <3> SUFFICES ASSUME NEW p \in Requests, NEW q \in Requests, p # q,
                        pc'[p] # "idle", pc'[q] # "idle", Collide(p, q)'
                 PROVE  CycleApart(p, q)'
      BY DEF TidReuseTakesACycle
    <3>0. chan'[p] = chan'[q] /\ tidOf'[p] = tidOf'[q]
      BY DEF Collide
    <3>1. CASE p = r
      <4>1. Prio(q) = hp /\ n - ordinal[q] >= Cycle(hp)
        BY <3>0, <3>1, <2>1, <2>5
      <4> QED
        BY <3>1, <4>1, <2>1 DEF CycleApart, Prio
    <3>2. CASE q = r
      <4>1. Prio(p) = hp /\ n - ordinal[p] >= Cycle(hp)
        BY <3>0, <3>2, <2>1, <2>5
      <4> QED
        BY <3>2, <4>1, <2>1 DEF CycleApart, Prio
    <3>3. CASE p # r /\ q # r
      <4>1. Collide(p, q)
        BY <3>0, <3>3, <2>1 DEF Collide
      <4>2. CycleApart(p, q)
        BY <3>3, <4>1, <2>1 DEF TidInv, TidReuseTakesACycle
      <4> QED
        BY <3>3, <4>2, <2>1 DEF CycleApart, Prio
    <3> QED
      BY <3>1, <3>2, <3>3
  <2> QED
    BY <1>1, <2>4, <2>6 DEF TidInv
<1> QED
  BY <1>2, <1>3, StepAllocates DEF TidInv

(* getNextTid never gives the same TID to two requests of one channel      *)
(* object that are less than a whole cycle of their class apart.           *)
THEOREM TidReuse == Spec => []TidReuseTakesACycle
<1>1. Init => TidInv
  BY InitType DEF Init, TidInv, TidWindow, TidReuseTakesACycle
<1>2. TidInv => TidReuseTakesACycle
  BY DEF TidInv
<1> QED
  BY <1>1, <1>2, NextTidInv, PTL DEF Spec

-----------------------------------------------------------------------------
(* Correlation of responses with requests.                                 *)

Asked(r) == pc[r] \in {"registered", "queued"}

\* o's response is rightly taken for r, or o is older than the TID's reuse.
Matches(r, o) ==
    /\ tidOf[o] = tidOf[r]
    /\ o = r \/ chan[o] < chan[r] \/ (chan[o] = chan[r] /\ CycleApart(o, r))

\* An entry of the scheduler map belongs to a request that carries its TID.
MapIsCorrect ==
    \A g \in Starts, t \in Tids : LET r == rxSchedulerMap[g][t] IN
        r # NoRequest => Asked(r) /\ chan[r] = g /\ tidOf[r] = t

\* Only frames whose request has been queued travel.
TransmittedAreQueued ==
    /\ \A r \in transmitted : pc[r] = "queued"
    /\ \A g \in Starts : \A i \in 1 .. Len(txQueue[g]) : pc[txQueue[g][i]] = "queued"

\* A callback goroutine runs for a request that is no longer registered
\* and has not been answered before.
PostingIsFirst ==
    \A d \in posting :
        /\ Asked(d[1]) /\ Asked(d[2]) /\ Matches(d[1], d[2])
        /\ ~Registered(d[1])
        /\ posted[d[1]] = << >>
        /\ \A e \in posting : e[1] = d[1] => e = d

PostedIsLast ==
    \A r \in Requests : posted[r] # << >> =>
        /\ Len(posted[r]) = 1
        /\ Asked(r) /\ Asked(posted[r][1]) /\ Matches(r, posted[r][1])
        /\ ~Registered(r)

RxInv ==
    /\ TidInv
    /\ MapIsCorrect
    /\ TransmittedAreQueued
    /\ PostingIsFirst
    /\ PostedIsLast

\* A request keeps the TID and the channel object it was given.
Keeps(r) ==
    /\ pc[r] # "idle" =>
          chan'[r] = chan[r] /\ tidOf'[r] = tidOf[r] /\ ordinal'[r] = ordinal[r]
    /\ Asked(r) => Asked(r)'
    /\ pc[r] = "queued" => pc'[r] = "queued"

LEMMA RequestsKeep ==
    ASSUME TypeInv, [Next]_vars, NEW r \in Requests
    PROVE  Keeps(r)
<1> USE DEF TypeInv, TypeOK, Keeps, Asked, callerVars
<1>1. CASE Start
  BY <1>1 DEF Start
<1>2. ASSUME NEW q \in Requests, NEW g \in Starts, GetNextTid(q, g) PROVE Keeps(r)
  BY <1>2 DEF GetNextTid
<1>3. ASSUME NEW q \in Requests, EncodeFails(q) \/ RegisterCallback(q) \/ Enqueue(q)
      PROVE  Keeps(r)
  BY <1>3 DEF EncodeFails, RegisterCallback, Enqueue
<1>4. ASSUME NEW g \in Starts, Drain(g) PROVE Keeps(r)
  BY <1>4 DEF Drain, LockTxQueue, Transmit, TransmitFails, UnlockTxQueue
<1>5. ASSUME NEW o \in Requests, ReceiveResponse(o) PROVE Keeps(r)
  BY <1>5 DEF ReceiveResponse
<1>6. ASSUME NEW d \in posting, ReceiveOmciResponse(d) PROVE Keeps(r)
  BY <1>6 DEF ReceiveOmciResponse
<1>7. CASE UNCHANGED vars
  BY <1>7 DEF vars
<1> QED
  BY <1>1, <1>2, <1>3, <1>4, <1>5, <1>6, <1>7 DEF Next

\* Hence what was a match stays one.
LEMMA MatchesKeeps ==
    ASSUME TypeInv, [Next]_vars, NEW r \in Requests, NEW o \in Requests,
           Asked(r), Asked(o), Matches(r, o)
    PROVE  Asked(r)' /\ Asked(o)' /\ Matches(r, o)'
<1>1. pc[r] # "idle" /\ pc[o] # "idle"
  BY DEF Asked
<1> QED
  BY <1>1, RequestsKeep DEF Keeps, Matches, CycleApart, Prio

LEMMA NextTransmitted ==
    ASSUME TypeInv, TransmittedAreQueued, [Next]_vars
    PROVE  TransmittedAreQueued'
<1> USE DEF TypeInv, TypeOK, TransmittedAreQueued, callerVars, txVars, wireVars
<1>0. \A r \in Requests : pc[r] = "queued" => pc'[r] = "queued"
  BY RequestsKeep DEF Keeps
<1>q. \A g \in Starts : \A i \in 1 .. Len(txQueue[g]) : pc'[txQueue[g][i]] = "queued"
  <2>1. \A g \in Starts : \A i \in 1 .. Len(txQueue[g]) : txQueue[g][i] \in Requests
    OBVIOUS
  <2> QED
    BY <1>0, <2>1
<1>1. ASSUME UNCHANGED <<transmitted, txQueue>> PROVE TransmittedAreQueued'
  BY <1>0, <1>q, <1>1
<1>2. ASSUME NEW r \in Requests, Enqueue(r) PROVE TransmittedAreQueued'
  <2>1. pc'[r] = "queued" /\ chan[r] \in Starts /\ UNCHANGED transmitted
    BY <1>2, OmciAssumption DEF Enqueue, CallersHoldAChannel, Starts
  <2>2. ASSUME NEW g \in Starts, NEW i \in 1 .. Len(txQueue'[g])
        PROVE  pc'[txQueue'[g][i]] = "queued"
    <3>1. CASE g = chan[r]
      <4>1. txQueue'[g] = Append(txQueue[g], r)
        BY <1>2, <3>1 DEF Enqueue
      <4>2. txQueue'[g][i] = r \/ (i \in 1 .. Len(txQueue[g])
                                   /\ txQueue'[g][i] = txQueue[g][i])
        BY <4>1
      <4> QED
        BY <4>2, <2>1, <1>q
    <3>2. CASE g # chan[r]
      <4>1. txQueue'[g] = txQueue[g]
        BY <1>2, <3>2 DEF Enqueue
      <4> QED
        BY <4>1, <1>q
    <3> QED
      BY <3>1, <3>2
  <2> QED
    BY <2>1, <2>2, <1>0
<1>3. ASSUME NEW g \in Starts, Transmit(g) PROVE TransmittedAreQueued'
  <2>1. /\ Head(txQueue[g]) = txQueue[g][1]
        /\ 1 \in 1 .. Len(txQueue[g])
        /\ txQueue' = [txQueue EXCEPT ![g] = Tail(@)]
        /\ transmitted' = transmitted \cup {Head(txQueue[g])}
    BY <1>3 DEF Transmit
  <2>2. \A i \in 1 .. Len(Tail(txQueue[g])) :
           i + 1 \in 1 .. Len(txQueue[g]) /\ Tail(txQueue[g])[i] = txQueue[g][i + 1]
    BY <1>3 DEF Transmit
  <2>3. \A r \in transmitted' : pc'[r] = "queued"
    BY <2>1, <1>0
  <2>4. ASSUME NEW h \in Starts, NEW i \in 1 .. Len(txQueue'[h])
        PROVE  pc'[txQueue'[h][i]] = "queued"
    <3>1. CASE h = g
      <4>1. txQueue'[h] = Tail(txQueue[g])
        BY <3>1, <2>1
      <4>2. txQueue'[h][i] = txQueue[g][i + 1] /\ i + 1 \in 1 .. Len(txQueue[g])
        BY <4>1, <2>2
      <4> QED
        BY <4>2, <1>q
    <3>2. CASE h # g
      BY <3>2, <2>1, <1>q
    <3> QED
      BY <3>1, <3>2
  <2> QED
    BY <2>3, <2>4
<1>4. ASSUME NEW g \in Starts, TransmitFails(g) PROVE TransmittedAreQueued'
  <2>1. /\ Head(txQueue[g]) = txQueue[g][1]
        /\ 1 \in 1 .. Len(txQueue[g])
    BY <1>4 DEF TransmitFails
  <2>2. pc[Head(txQueue[g])] = "queued" /\ Head(txQueue[g]) \in Requests
    BY <2>1
  <2> QED
    BY <1>4, <2>2, <1>0 DEF TransmitFails
<1> QED
  BY <1>1, <1>2, <1>3, <1>4
     DEF Next, Drain, Start, GetNextTid, EncodeFails, RegisterCallback, LockTxQueue,
         UnlockTxQueue, ReceiveResponse, ReceiveOmciResponse, vars

\* A step that touches neither the map nor the responses.
LEMMA QuietStep ==
    ASSUME RxInv, [Next]_vars, UNCHANGED <<rxSchedulerMap, posting, posted>>
    PROVE  MapIsCorrect' /\ PostingIsFirst' /\ PostedIsLast'
<1> USE DEF RxInv, TidInv, TypeInv, TypeOK
<1>0. \A r \in Requests : Asked(r) =>
         /\ Asked(r)' /\ chan'[r] = chan[r] /\ tidOf'[r] = tidOf[r]
         /\ Registered(r)' = Registered(r)
  BY RequestsKeep DEF Keeps, Asked, Registered
<1>1. MapIsCorrect'
  BY <1>0 DEF MapIsCorrect
<1>2. PostingIsFirst'
  BY <1>0, MatchesKeeps DEF PostingIsFirst
<1>3. PostedIsLast'
  <2>1. \A r \in Requests : posted[r] # << >> => posted[r][1] \in Requests
    OBVIOUS
  <2> QED
    BY <1>0, <2>1, MatchesKeeps DEF PostedIsLast
<1> QED
  BY <1>1, <1>2, <1>3

LEMMA RegisterStep ==
    ASSUME RxInv, [Next]_vars, NEW r \in Requests, RegisterCallback(r)
    PROVE  MapIsCorrect' /\ PostingIsFirst' /\ PostedIsLast'
<1> USE DEF RxInv, TidInv, TypeInv, TypeOK
<1>1. /\ pc[r] = "numbered" /\ pc'[r] = "registered"
      /\ chan[r] \in Starts /\ tidOf[r] \in Tids
      /\ UNCHANGED <<chan, tidOf, ordinal, posting, posted>>
      /\ rxSchedulerMap' = [rxSchedulerMap EXCEPT ![chan[r]][tidOf[r]] = r]
  BY OmciAssumption DEF RegisterCallback, CallersHoldAChannel, Starts, rxVars
<1>2. ~Asked(r)
  BY <1>1 DEF Asked
<1>3. \A q \in Requests : Asked(q) => Asked(q)'
  BY RequestsKeep DEF Keeps
<1>4. \A g \in Starts, t \in Tids :
         rxSchedulerMap'[g][t] = IF g = chan[r] /\ t = tidOf[r] THEN r
                                 ELSE rxSchedulerMap[g][t]
  BY <1>1
<1>5. \A q \in Requests : Asked(q) /\ ~Registered(q) => ~Registered(q)'
  <2> SUFFICES ASSUME NEW q \in Requests, Asked(q), ~Registered(q)
               PROVE  ~Registered(q)'
    OBVIOUS
  <2>1. q # r /\ chan[q] \in Starts /\ tidOf[q] \in Tids
    BY <1>2, OmciAssumption DEF Asked, CallersHoldAChannel, Starts
  <2> QED
    BY <2>1, <1>1, <1>4 DEF Registered
<1>6. MapIsCorrect'
  <2> SUFFICES ASSUME NEW g \in Starts, NEW t \in Tids,
                      rxSchedulerMap'[g][t] # NoRequest
               PROVE  /\ Asked(rxSchedulerMap[g][t])'
                      /\ chan'[rxSchedulerMap'[g][t]] = g
                      /\ tidOf'[rxSchedulerMap'[g][t]] = t
    BY DEF MapIsCorrect
  <2>1. CASE g = chan[r] /\ t = tidOf[r]
    BY <2>1, <1>1, <1>4 DEF Asked
  <2>2. CASE ~(g = chan[r] /\ t = tidOf[r])
    <3>1. rxSchedulerMap'[g][t] = rxSchedulerMap[g][t]
      BY <2>2, <1>4
    <3>2. rxSchedulerMap[g][t] \in Requests
      BY <3>1
    <3> QED
      BY <3>1, <3>2, <1>1, <1>3 DEF MapIsCorrect, Asked
  <2> QED
    BY <2>1, <2>2
<1>7. PostingIsFirst'
  BY <1>1, <1>5, MatchesKeeps DEF PostingIsFirst
<1>8. PostedIsLast'
  <2>1. \A q \in Requests : posted[q] # << >> => posted[q][1] \in Requests
    OBVIOUS
  <2> QED
    BY <1>1, <1>5, <2>1, MatchesKeeps DEF PostedIsLast
<1> QED
  BY <1>6, <1>7, <1>8

LEMMA ReceiveStep ==
    ASSUME RxInv, [Next]_vars, NEW o \in Requests, ReceiveResponse(o)
    PROVE  MapIsCorrect' /\ PostingIsFirst' /\ PostedIsLast'
<1> USE DEF RxInv, TidInv, TypeInv, TypeOK
<1>1. PICK t \in Tids, r \in Requests :
      /\ start \in Starts /\ t = tidOf[o] /\ r = rxSchedulerMap[start][t]
      /\ o \in transmitted
      /\ posting' = posting \cup {<<r, o>>}
      /\ rxSchedulerMap' = [rxSchedulerMap EXCEPT ![start][t] = NoRequest]
      /\ UNCHANGED <<posted, pc, chan, tidOf, ordinal>>
  <2>1. start \in Starts /\ tidOf[o] \in Tids
    BY OmciAssumption DEF ReceiveResponse, Starts
  <2>2. rxSchedulerMap[start][tidOf[o]] \in Requests
    BY <2>1 DEF ReceiveResponse
  <2> QED
    BY <2>1, <2>2 DEF ReceiveResponse, callerVars
<1>2. Asked(r) /\ chan[r] = start /\ tidOf[r] = t
  BY <1>1, OmciAssumption DEF MapIsCorrect
<1>3. Asked(o) /\ chan[o] \in 1 .. start
  BY <1>1 DEF TransmittedAreQueued, Asked, CallersHoldAChannel
<1>4. Matches(r, o)
  <2>1. CASE chan[o] = start
    <3>1. Collide(o, r) /\ pc[o] # "idle" /\ pc[r] # "idle"
      BY <1>1, <1>2, <1>3, <2>1 DEF Collide, Asked
    <3>2. r = o \/ CycleApart(o, r)
      BY <3>1, <1>1 DEF TidReuseTakesACycle
    <3> QED
      BY <3>1, <3>2 DEF Matches, Collide
  <2>2. CASE chan[o] # start
    <3>1. chan[o] < chan[r]
      BY <2>2, <1>2, <1>3, OmciAssumption
    <3> QED
      BY <3>1, <1>1, <1>2 DEF Matches
  <2> QED
    BY <2>1, <2>2
<1>5. Registered(r) /\ ~Registered(r)'
  <2>1. rxSchedulerMap'[start][t] = NoRequest
    BY <1>1
  <2> QED
    BY <2>1, <1>1, <1>2, OmciAssumption DEF Registered
<1>6. \A q \in Requests : Asked(q) => Asked(q)' /\ (~Registered(q) => ~Registered(q)')
  <2> SUFFICES ASSUME NEW q \in Requests, Asked(q)
               PROVE  Asked(q)' /\ (~Registered(q) => ~Registered(q)')
    OBVIOUS
  <2>1. chan[q] \in Starts /\ tidOf[q] \in Tids
    BY OmciAssumption DEF Asked, CallersHoldAChannel, Starts
  <2>2. \/ rxSchedulerMap'[chan[q]][tidOf[q]] = rxSchedulerMap[chan[q]][tidOf[q]]
        \/ rxSchedulerMap'[chan[q]][tidOf[q]] = NoRequest
    BY <1>1, <2>1
  <2> QED
    BY <2>2, <1>1, OmciAssumption DEF Registered, Asked
<1>7. MapIsCorrect'
  <2> SUFFICES ASSUME NEW g \in Starts, NEW u \in Tids,
                      rxSchedulerMap'[g][u] # NoRequest
               PROVE  /\ Asked(rxSchedulerMap[g][u])'
                      /\ chan'[rxSchedulerMap'[g][u]] = g
                      /\ tidOf'[rxSchedulerMap'[g][u]] = u
    BY DEF MapIsCorrect
  <2>1. rxSchedulerMap'[g][u] = rxSchedulerMap[g][u]
    BY <1>1
  <2>2. rxSchedulerMap[g][u] \in Requests
    BY <2>1
  <2> QED
    BY <2>1, <2>2, <1>1 DEF MapIsCorrect, Asked
<1>8. PostingIsFirst'
  <2>1. \A d \in posting : d[1] # r
    BY <1>5 DEF PostingIsFirst
  <2>2. posted[r] = << >>
    BY <1>1, <1>5 DEF PostedIsLast
  <2>3. Asked(r)' /\ Asked(o)' /\ Matches(r, o)'
    BY <1>1, <1>2, <1>3, <1>4, MatchesKeeps
  <2>4. ASSUME NEW d \in posting
        PROVE  /\ Asked(d[1])' /\ Asked(d[2])' /\ Matches(d[1], d[2])'
               /\ ~Registered(d[1])'
               /\ posted'[d[1]] = << >>
               /\ \A e \in posting' : e[1] = d[1] => e = d
    <3>1. d[1] \in Requests /\ d[2] \in Requests
      OBVIOUS
    <3>2. Asked(d[1])' /\ Asked(d[2])' /\ Matches(d[1], d[2])'
      BY <3>1, MatchesKeeps DEF PostingIsFirst
    <3>3. ~Registered(d[1])' /\ posted'[d[1]] = << >>
      BY <3>1, <1>1, <1>6 DEF PostingIsFirst
    <3>4. \A e \in posting' : e[1] = d[1] => e = d
      BY <2>1, <1>1 DEF PostingIsFirst
    <3> QED
      BY <3>2, <3>3, <3>4
  <2>5. ASSUME NEW d \in posting', d \notin posting
        PROVE  /\ Asked(d[1])' /\ Asked(d[2])' /\ Matches(d[1], d[2])'
               /\ ~Registered(d[1])'
               /\ posted'[d[1]] = << >>
               /\ \A e \in posting' : e[1] = d[1] => e = d
    <3>1. d = <<r, o>> /\ d[1] = r /\ d[2] = o
      BY <2>5, <1>1
    <3>2. \A e \in posting' : e[1] = d[1] => e = d
      BY <3>1, <2>1, <1>1
    <3> QED
      BY <3>1, <3>2, <2>2, <2>3, <1>1, <1>5
  <2> QED
    BY <2>4, <2>5 DEF PostingIsFirst
<1>9. PostedIsLast'
  <2>1. \A q \in Requests : posted[q] # << >> => posted[q][1] \in Requests
    OBVIOUS
  <2> QED
    BY <1>1, <1>6, <2>1, MatchesKeeps DEF PostedIsLast
<1> QED
  BY <1>7, <1>8, <1>9

LEMMA PostStep ==
    ASSUME RxInv, [Next]_vars, NEW d \in posting, ReceiveOmciResponse(d)
    PROVE  MapIsCorrect' /\ PostingIsFirst' /\ PostedIsLast'
<1> USE DEF RxInv, TidInv, TypeInv, TypeOK
<1>1. /\ d[1] \in Requests /\ d[2] \in Requests
      /\ posting' = posting \ {d}
      /\ posted' = [posted EXCEPT ![d[1]] = Append(@, d[2])]
      /\ UNCHANGED <<rxSchedulerMap, pc, chan, tidOf, ordinal>>
  <2>1. d \in Requests \X Requests
    OBVIOUS
  <2>2. d[1] \in Requests /\ d[2] \in Requests
    BY <2>1
  <2> QED
    BY <2>2 DEF ReceiveOmciResponse, callerVars
<1>2. posted'[d[1]] = <<d[2]>>
  <2>1. posted[d[1]] = << >>
    BY DEF PostingIsFirst
  <2>2. posted'[d[1]] = Append(posted[d[1]], d[2])
    BY <1>1
  <2> QED
    BY <2>1, <2>2
<1>3. MapIsCorrect'
  BY <1>1 DEF MapIsCorrect, Asked
<1>4. PostingIsFirst'
  <2>1. \A e \in posting' : e \in posting /\ e[1] # d[1] /\ e[1] \in Requests /\ e[2] \in Requests
    BY <1>1 DEF PostingIsFirst
  <2>2. \A e \in posting' : posted'[e[1]] = posted[e[1]]
    BY <2>1, <1>1
  <2>3. \A e \in posting' : Registered(e[1])' = Registered(e[1])
    BY <1>1 DEF Registered
  <2> QED
    BY <2>1, <2>2, <2>3, MatchesKeeps DEF PostingIsFirst
<1>5. PostedIsLast'
  <2> SUFFICES ASSUME NEW q \in Requests, posted'[q] # << >>
               PROVE  /\ Len(posted'[q]) = 1
                      /\ Asked(q)' /\ Asked(posted[q][1])' /\ Matches(q, posted[q][1])'
                      /\ ~Registered(q)'
    BY DEF PostedIsLast
  <2>1. CASE q = d[1]
    <3>1. /\ Asked(q)' /\ Asked(d[2])' /\ Matches(q, d[2])'
      BY <2>1, <1>1, MatchesKeeps DEF PostingIsFirst
    <3>2. ~Registered(q)'
      BY <2>1, <1>1 DEF PostingIsFirst, Registered
    <3> QED
      BY <3>1, <3>2, <2>1, <1>2
  <2>2. CASE q # d[1]
    <3>1. posted'[q] = posted[q] /\ posted[q][1] \in Requests
      BY <2>2, <1>1
    <3>2. Asked(q)' /\ Asked(posted[q][1])' /\ Matches(q, posted[q][1])'
      BY <3>1, MatchesKeeps DEF PostedIsLast
    <3> QED
      BY <3>1, <3>2, <1>1 DEF PostedIsLast, Registered
  <2> QED
    BY <2>1, <2>2
<1> QED
  BY <1>3, <1>4, <1>5

LEMMA NextRxInv == RxInv /\ [Next]_vars => RxInv'
<1> SUFFICES ASSUME RxInv, [Next]_vars PROVE RxInv'
  OBVIOUS
<1>1. TidInv' /\ TransmittedAreQueued'
  BY NextTidInv, NextTransmitted DEF RxInv, TidInv
<1>2. MapIsCorrect' /\ PostingIsFirst' /\ PostedIsLast'
  <2>1. ASSUME NEW r \in Requests, RegisterCallback(r)
        PROVE  MapIsCorrect' /\ PostingIsFirst' /\ PostedIsLast'
    BY <2>1, RegisterStep
  <2>2. ASSUME NEW o \in Requests, ReceiveResponse(o)
        PROVE  MapIsCorrect' /\ PostingIsFirst' /\ PostedIsLast'
    BY <2>2, ReceiveStep
  <2>3. ASSUME NEW d \in posting, ReceiveOmciResponse(d)
        PROVE  MapIsCorrect' /\ PostingIsFirst' /\ PostedIsLast'
    BY <2>3, PostStep
  <2>4. CASE UNCHANGED <<rxSchedulerMap, posting, posted>>
    BY <2>4, QuietStep
  <2> QED
    BY <2>1, <2>2, <2>3, <2>4
       DEF Next, Drain, Start, GetNextTid, EncodeFails, Enqueue, LockTxQueue,
           Transmit, TransmitFails, UnlockTxQueue, vars, rxVars
<1> QED
  BY <1>1, <1>2 DEF RxInv

LEMMA InitRxInv == Init => RxInv
<1> SUFFICES ASSUME Init PROVE RxInv
  OBVIOUS
<1>1. TidInv
  BY InitType DEF Init, TidInv, TidWindow, TidReuseTakesACycle
<1>2. MapIsCorrect /\ PostingIsFirst /\ PostedIsLast
  BY DEF Init, MapIsCorrect, PostingIsFirst, PostedIsLast
<1>3. TransmittedAreQueued
  BY DEF Init, TransmittedAreQueued
<1> QED
  BY <1>1, <1>2, <1>3 DEF RxInv

(* However often a response is delivered, receiveMessage accepts at most   *)
(* one response per request.                                               *)
THEOREM AtMostOneAnswer == Spec => []AnsweredAtMostOnce
<1>1. RxInv => AnsweredAtMostOnce
  <2> SUFFICES ASSUME RxInv, NEW r \in Requests PROVE Len(posted[r]) <= 1
    BY DEF AnsweredAtMostOnce
  <2>1. CASE posted[r] = << >>
    BY <2>1
  <2>2. CASE posted[r] # << >>
    <3>1. Len(posted[r]) = 1
      BY <2>2, Zenon DEF RxInv, PostedIsLast
    <3> QED
      BY <3>1
  <2> QED
    BY <2>1, <2>2
<1> QED
  BY <1>1, InitRxInv, NextRxInv, PTL DEF Spec

(* A state machine is never handed the response to another request, except *)
(* one that is older than a restart or than a whole TID cycle.             *)
THEOREM AnswerCorrelation == Spec => []AnswersItsRequest
<1>1. RxInv => AnswersItsRequest
  <2> SUFFICES ASSUME RxInv, NEW r \in Requests, NEW i \in DOMAIN posted[r]
               PROVE  \/ posted[r][i] = r
                      \/ tidOf[posted[r][i]] = tidOf[r] /\ chan[posted[r][i]] < chan[r]
                      \/ Collide(posted[r][i], r) /\ CycleApart(posted[r][i], r)
    BY DEF AnswersItsRequest
  <2>1. posted[r] \in Seq(Requests)
    BY DEF RxInv, TidInv, TypeInv, TypeOK
  <2>2. posted[r] # << >> /\ i \in 1 .. Len(posted[r])
    BY <2>1
  <2>3. i = 1
    BY <2>2 DEF RxInv, PostedIsLast
  <2> QED
    BY <2>2, <2>3 DEF RxInv, PostedIsLast, Matches, Collide
<1> QED
  BY <1>1, InitRxInv, NextRxInv, PTL DEF Spec

(* Only requests made on the current channel object are answered.          *)
THEOREM DeafChannels == Spec => OldChannelIsDeaf
<1>1. RxInv /\ [Next]_vars => [\A d \in posting' \ posting : chan[d[1]] = start]_vars
  <2> SUFFICES ASSUME RxInv, [Next]_vars, NEW d \in posting', d \notin posting
               PROVE  chan[d[1]] = start
    OBVIOUS
  <2>1. PICK o \in Requests : ReceiveResponse(o)
    <3>1. posting' # posting /\ ~(posting' \subseteq posting)
      OBVIOUS
    <3>2. ASSUME NEW e \in posting, ReceiveOmciResponse(e) PROVE posting' \subseteq posting
      BY <3>2 DEF ReceiveOmciResponse
    <3> QED
      BY <3>1, <3>2
         DEF Next, Drain, Start, GetNextTid, EncodeFails, RegisterCallback, Enqueue,
             LockTxQueue, Transmit, TransmitFails, UnlockTxQueue, vars, rxVars
  <2>2. d = <<rxSchedulerMap[start][tidOf[o]], o>>
    BY <2>1 DEF ReceiveResponse
  <2>3. start \in Starts /\ tidOf[o] \in Tids
    BY <2>1, OmciAssumption DEF ReceiveResponse, Starts, RxInv, TidInv, TypeInv, TypeOK
  <2>4. rxSchedulerMap[start][tidOf[o]] # NoRequest
    BY <2>1 DEF ReceiveResponse
  <2> QED
    BY <2>2, <2>3, <2>4 DEF RxInv, MapIsCorrect
<1> QED
  BY <1>1, InitRxInv, NextRxInv, PTL DEF Spec, OldChannelIsDeaf

-----------------------------------------------------------------------------
(* The transmit queue.                                                     *)

\* A queued frame belongs to a request of its channel object, and is queued
\* once.
QueueIsSound ==
    \A g \in Starts : \A i \in 1 .. Len(txQueue[g]) :
        /\ chan[txQueue[g][i]] = g
        /\ \A j \in 1 .. Len(txQueue[g]) : txQueue[g][i] = txQueue[g][j] => i = j

QueueInv == TypeInv /\ TransmittedAreQueued /\ QueueIsSound /\ FramesKeepTheirOrder

\* A step that leaves queue and frames alone, and queues no request.
LEMMA QueueUntouched ==
    ASSUME QueueInv, [Next]_vars, UNCHANGED <<txQueue, transmitted>>,
           \A r \in Requests : pc'[r] = "queued" => pc[r] = "queued"
    PROVE  QueueIsSound' /\ FramesKeepTheirOrder'
<1> USE DEF QueueInv, TypeInv, TypeOK
<1>1. \A r \in Requests : pc[r] = "queued" => chan'[r] = chan[r]
  BY RequestsKeep DEF Keeps
<1>2. \A g \in Starts : \A i \in 1 .. Len(txQueue[g]) :
         txQueue[g][i] \in Requests /\ pc[txQueue[g][i]] = "queued"
  BY DEF TransmittedAreQueued
<1>3. QueueIsSound'
  BY <1>1, <1>2 DEF QueueIsSound
<1>4. FramesKeepTheirOrder'
  BY <1>1 DEF FramesKeepTheirOrder
<1> QED
  BY <1>3, <1>4

LEMMA EnqueueOrder ==
    ASSUME QueueInv, NEW r \in Requests, Enqueue(r)
    PROVE  QueueIsSound' /\ FramesKeepTheirOrder'
<1> DEFINE c == chan[r]
           q == txQueue[c]
<1>1. /\ c \in Starts /\ q \in Seq(Requests) /\ pc[r] = "registered"
      /\ txQueue' = [txQueue EXCEPT ![c] = Append(q, r)]
      /\ pc' = [pc EXCEPT ![r] = "queued"]
      /\ UNCHANGED <<chan, transmitted>>
  BY OmciAssumption
     DEF Enqueue, QueueInv, TypeInv, TypeOK, CallersHoldAChannel, Starts, wireVars
<1>2. /\ txQueue \in [Starts -> Seq(Requests)]
      /\ pc \in [Requests -> Progress] /\ chan \in [Requests -> 0 .. MaxStarts]
      /\ txQueue'[c] = Append(q, r)
      /\ \A g \in Starts : g # c => txQueue'[g] = txQueue[g]
  BY <1>1 DEF QueueInv, TypeInv, TypeOK
<1>3. /\ Len(Append(q, r)) = Len(q) + 1 /\ Append(q, r)[Len(q) + 1] = r
      /\ \A i \in 1 .. Len(q) : Append(q, r)[i] = q[i]
      /\ Len(q) \in Nat
  BY <1>1
<1>4. /\ r \notin transmitted
      /\ \A i \in 1 .. Len(q) : q[i] # r
  BY <1>1 DEF QueueInv, TransmittedAreQueued
<1>5. QueueIsSound'
  <2>0. chan' = chan
    BY <1>1
  <2> SUFFICES ASSUME NEW g \in Starts, NEW i \in 1 .. Len(txQueue'[g])
               PROVE  /\ chan[txQueue'[g][i]] = g
                      /\ \A j \in 1 .. Len(txQueue'[g]) :
                            txQueue'[g][i] = txQueue'[g][j] => i = j
    BY <2>0 DEF QueueIsSound
  <2>1. CASE g = c
    <3>1. \A j \in 1 .. Len(txQueue'[g]) :
             \/ j \in 1 .. Len(q) /\ txQueue'[g][j] = q[j]
             \/ j = Len(q) + 1 /\ txQueue'[g][j] = r
      BY <2>1, <1>2, <1>3
    <3>2. \A j, k \in 1 .. Len(q) : chan[q[j]] = c /\ (q[j] = q[k] => j = k)
      BY <1>1 DEF QueueInv, QueueIsSound
    <3> HIDE DEF q
    <3> QED
      BY <2>1, <3>1, <3>2, <1>3, <1>4
  <2>2. CASE g # c
    BY <2>2, <1>2 DEF QueueInv, QueueIsSound
  <2> QED
    BY <2>1, <2>2
<1>6. ASSUME NEW s \in Requests, pc'[s] = "queued"
      PROVE  \/ s \in transmitted
             \/ \E i \in DOMAIN txQueue'[chan[s]] : txQueue'[chan[s]][i] = s
  <2>1. CASE s = r
    BY <2>1, <1>2, <1>3
  <2>2. CASE s # r
    <3>1. pc[s] = "queued"
      BY <2>2, <1>6, <1>1, <1>2
    <3>2. CASE s \in transmitted
      BY <3>2
    <3>3. ASSUME NEW i \in DOMAIN txQueue[chan[s]], txQueue[chan[s]][i] = s
          PROVE  \E k \in DOMAIN txQueue'[chan[s]] : txQueue'[chan[s]][k] = s
      <4>1. CASE chan[s] = c
        <5>1. i \in 1 .. Len(q)
          BY <3>3, <4>1, <1>1
        <5>2. i \in DOMAIN Append(q, r) /\ Append(q, r)[i] = s
          BY <5>1, <3>3, <4>1, <1>3, <1>1
        <5> QED
          BY <5>2, <4>1, <1>2
      <4>2. CASE chan[s] # c
        <5>1. chan[s] \in Starts
          BY <3>1, OmciAssumption
             DEF QueueInv, TypeInv, TypeOK, CallersHoldAChannel, Starts
        <5> QED
          BY <5>1, <4>2, <3>3, <1>2
      <4> QED
        BY <4>1, <4>2
    <3> QED
      BY <3>1, <3>2, <3>3 DEF QueueInv, FramesKeepTheirOrder
  <2> QED
    BY <2>1, <2>2
<1>7. ASSUME NEW g \in Starts, NEW i \in 2 .. Len(txQueue'[g])
      PROVE  txQueue'[g][i] \notin transmitted
  <2>1. CASE g = c
    <3>1. \/ i \in 2 .. Len(q) /\ txQueue'[g][i] = q[i]
          \/ txQueue'[g][i] = r
      <4>1. /\ txQueue'[g] = Append(q, r)
            /\ i \in 2 .. Len(q) \/ i = Len(q) + 1
        BY <2>1, <1>2, <1>3, <1>7
      <4>2. i \in 2 .. Len(q) => i \in 1 .. Len(q)
        OBVIOUS
      <4> HIDE DEF q
      <4> QED
        BY <4>1, <4>2, <1>3
    <3> QED
      BY <2>1, <3>1, <1>4 DEF QueueInv, FramesKeepTheirOrder
  <2>2. CASE g # c
    BY <2>2, <1>2, <1>7 DEF QueueInv, FramesKeepTheirOrder
  <2> QED
    BY <2>1, <2>2
<1> QED
  BY <1>1, <1>5, <1>6, <1>7 DEF FramesKeepTheirOrder

LEMMA TransmitOrder ==
    ASSUME QueueInv, NEW g \in Starts, Transmit(g)
    PROVE  QueueIsSound' /\ FramesKeepTheirOrder'
<1> DEFINE q == txQueue[g]
<1>1. /\ q \in Seq(Requests) /\ q # << >>
      /\ txQueue' = [txQueue EXCEPT ![g] = Tail(q)]
      /\ transmitted' = transmitted \cup {q[1]}
      /\ UNCHANGED <<chan, pc>>
      /\ txQueue \in [Starts -> Seq(Requests)]
  BY DEF Transmit, QueueInv, TypeInv, TypeOK, callerVars
<1>2. /\ txQueue'[g] = Tail(q)
      /\ \A h \in Starts : h # g => txQueue'[h] = txQueue[h]
  BY <1>1
<1>3. /\ Len(q) \in Nat /\ Len(q) >= 1 /\ Len(Tail(q)) = Len(q) - 1
      /\ \A i \in 1 .. Len(Tail(q)) : Tail(q)[i] = q[i + 1]
  BY <1>1
<1>4. \A i, j \in 1 .. Len(q) : chan[q[i]] = g /\ (q[i] = q[j] => i = j)
  BY DEF QueueInv, QueueIsSound
<1>5. QueueIsSound'
  <2>0. chan' = chan
    BY <1>1
  <2> SUFFICES ASSUME NEW h \in Starts, NEW i \in 1 .. Len(txQueue'[h])
               PROVE  /\ chan[txQueue'[h][i]] = h
                      /\ \A j \in 1 .. Len(txQueue'[h]) :
                            txQueue'[h][i] = txQueue'[h][j] => i = j
    BY <2>0 DEF QueueIsSound
  <2>1. CASE h = g
    <3>1. \A j \in 1 .. Len(txQueue'[h]) :
             j + 1 \in 1 .. Len(q) /\ txQueue'[h][j] = q[j + 1]
      BY <2>1, <1>2, <1>3
    <3> HIDE DEF q
    <3> QED
      BY <2>1, <3>1, <1>4, <1>3
  <2>2. CASE h # g
    BY <2>2, <1>2 DEF QueueInv, QueueIsSound
  <2> QED
    BY <2>1, <2>2
<1>6. ASSUME NEW s \in Requests, pc'[s] = "queued"
      PROVE  \/ s \in transmitted'
             \/ \E i \in DOMAIN txQueue'[chan[s]] : txQueue'[chan[s]][i] = s
  <2>1. pc[s] = "queued"
    BY <1>6, <1>1
  <2>2. CASE s \in transmitted
    BY <2>2, <1>1
  <2>3. ASSUME NEW i \in DOMAIN txQueue[chan[s]], txQueue[chan[s]][i] = s,
               s # q[1]
        PROVE  \E k \in DOMAIN txQueue'[chan[s]] : txQueue'[chan[s]][k] = s
    <3>1. CASE chan[s] = g
      <4>1. i \in 1 .. Len(q) /\ i # 1
        BY <2>3, <3>1, <1>1
      <4>2. i - 1 \in 1 .. Len(Tail(q)) /\ (i - 1) + 1 = i
        BY <4>1, <1>3
      <4>3. i - 1 \in DOMAIN Tail(q) /\ Tail(q)[i - 1] = s
        BY <4>2, <2>3, <3>1, <1>3, <1>1
      <4> QED
        BY <4>3, <3>1, <1>2
    <3>2. CASE chan[s] # g
      <4>1. chan[s] \in Starts
        BY <2>1, OmciAssumption
           DEF QueueInv, TypeInv, TypeOK, CallersHoldAChannel, Starts
      <4> QED
        BY <4>1, <3>2, <2>3, <1>2
    <3> QED
      BY <3>1, <3>2
  <2> QED
    BY <2>1, <2>2, <2>3, <1>1 DEF QueueInv, FramesKeepTheirOrder
<1>7. ASSUME NEW h \in Starts, NEW i \in 2 .. Len(txQueue'[h])
      PROVE  txQueue'[h][i] \notin transmitted'
  <2>1. CASE h = g
    <3>1. /\ i + 1 \in 2 .. Len(q) /\ i + 1 # 1 /\ 1 \in 1 .. Len(q)
          /\ txQueue'[h][i] = q[i + 1]
      BY <2>1, <1>2, <1>3, <1>7
    <3>2. q[i + 1] \notin transmitted /\ q[i + 1] # q[1]
      BY <3>1, <1>4 DEF QueueInv, FramesKeepTheirOrder
    <3> QED
      BY <3>1, <3>2, <1>1
  <2>2. CASE h # g
    <3>1. txQueue'[h] = txQueue[h] /\ i \in 1 .. Len(txQueue[h])
      BY <2>2, <1>2, <1>7
    <3>2. txQueue[h][i] # q[1]
      BY <2>2, <3>1, <1>3, <1>4 DEF QueueInv, QueueIsSound
    <3> QED
      BY <1>1, <1>7, <3>1, <3>2 DEF QueueInv, FramesKeepTheirOrder
  <2> QED
    BY <2>1, <2>2
<1> QED
  BY <1>1, <1>5, <1>6, <1>7 DEF FramesKeepTheirOrder

LEMMA TransmitFailsOrder ==
    ASSUME QueueInv, NEW g \in Starts, TransmitFails(g)
    PROVE  QueueIsSound' /\ FramesKeepTheirOrder'
<1>1. /\ txQueue[g] \in Seq(Requests) /\ txQueue[g] # << >>
      /\ transmitted' \in {transmitted, transmitted \cup {txQueue[g][1]}}
      /\ UNCHANGED <<txQueue, chan, pc>>
  BY DEF TransmitFails, QueueInv, TypeInv, TypeOK, callerVars
<1>2. ASSUME NEW h \in Starts, NEW i \in 2 .. Len(txQueue[h])
      PROVE  txQueue[h][i] # txQueue[g][1]
  <2>1. 1 \in 1 .. Len(txQueue[g]) /\ i \in 1 .. Len(txQueue[h]) /\ i # 1
    BY <1>1
  <2> QED
    BY <2>1 DEF QueueInv, QueueIsSound
<1> QED
  BY <1>1, <1>2 DEF QueueInv, QueueIsSound, FramesKeepTheirOrder

LEMMA NextQueueInv == QueueInv /\ [Next]_vars => QueueInv'
<1> SUFFICES ASSUME QueueInv, [Next]_vars PROVE QueueIsSound' /\ FramesKeepTheirOrder'
  BY NextType, NextTransmitted DEF QueueInv
<1>1. ASSUME NEW r \in Requests, Enqueue(r) PROVE QueueIsSound' /\ FramesKeepTheirOrder'
  BY <1>1, EnqueueOrder
<1>2. ASSUME NEW g \in Starts, Transmit(g) \/ TransmitFails(g)
      PROVE  QueueIsSound' /\ FramesKeepTheirOrder'
  BY <1>2, TransmitOrder, TransmitFailsOrder
<1>3. ASSUME UNCHANGED <<txQueue, transmitted>>,
             \A r \in Requests : pc'[r] = "queued" => pc[r] = "queued"
      PROVE  QueueIsSound' /\ FramesKeepTheirOrder'
  BY <1>3, QueueUntouched
<1>4. pc \in [Requests -> Progress]
  BY DEF QueueInv, TypeInv, TypeOK
<1>5. ASSUME NEW r \in Requests, NEW g \in Starts, GetNextTid(r, g)
      PROVE  QueueIsSound' /\ FramesKeepTheirOrder'
  BY <1>3, <1>4, <1>5 DEF GetNextTid, txVars, wireVars
<1>6. ASSUME NEW r \in Requests, EncodeFails(r) \/ RegisterCallback(r)
      PROVE  QueueIsSound' /\ FramesKeepTheirOrder'
  BY <1>3, <1>4, <1>6 DEF EncodeFails, RegisterCallback, txVars, wireVars
<1>7. CASE \/ Start \/ \E g \in Starts : LockTxQueue(g) \/ UnlockTxQueue(g)
           \/ \E o \in Requests : ReceiveResponse(o)
           \/ \E d \in posting : ReceiveOmciResponse(d)
           \/ UNCHANGED vars
  <2>1. UNCHANGED <<txQueue, transmitted, pc>>
    BY <1>7 DEF Start, LockTxQueue, UnlockTxQueue, ReceiveResponse, ReceiveOmciResponse,
                vars, txVars, wireVars, callerVars
  <2> QED
    BY <1>3, <2>1
<1> QED
  BY <1>1, <1>2, <1>5, <1>6, <1>7 DEF Next, Drain

(* sendNextRequest: whatever transmissions fail and however its goroutines *)
(* take turns, no queued frame is lost and none overtakes another.         *)
THEOREM FramesInOrder == Spec => []FramesKeepTheirOrder
<1>1. Init => QueueInv
  BY InitType
     DEF Init, QueueInv, QueueIsSound, TransmittedAreQueued, FramesKeepTheirOrder
<1>2. QueueInv => FramesKeepTheirOrder
  BY DEF QueueInv
<1> QED
  BY <1>1, <1>2, NextQueueInv, PTL DEF Spec

-----------------------------------------------------------------------------
(* Frames that nobody is going to send.                                    *)

\* The goroutines of sendNextRequest for object g: not begun, or at work.
Workers(g) == spawned[g] + (IF txLocked[g] THEN 1 ELSE 0)

\* Each queued frame has a goroutine, but for those that failed.
Attended == \A g \in Starts : Len(txQueue[g]) <= Workers(g) + failures

\* Queue, goroutines and failures of an object after a step.
AttendedAt(g) == Len(txQueue'[g]) <= Workers(g)' + failures'

LEMMA SameAttended ==
    ASSUME TypeOK, Attended, NEW g \in Starts, failures' \in Nat, failures' >= failures,
           txQueue'[g] = txQueue[g], spawned'[g] = spawned[g], txLocked'[g] = txLocked[g]
    PROVE  AttendedAt(g)
<1>1. Len(txQueue[g]) \in Nat /\ Workers(g) \in Nat /\ failures \in Nat
  BY DEF TypeOK, Workers
<1>2. Workers(g)' = Workers(g)
  BY DEF Workers
<1> QED
  BY <1>1, <1>2 DEF Attended, AttendedAt

LEMMA NextAttended == TypeInv /\ TypeInv' /\ Attended /\ [Next]_vars => Attended'
<1> SUFFICES ASSUME TypeInv, TypeInv', Attended, [Next]_vars, NEW g \in Starts
             PROVE  AttendedAt(g)
  BY DEF Attended, AttendedAt
<1>1. /\ txQueue \in [Starts -> Seq(Requests)] /\ txLocked \in [Starts -> BOOLEAN]
      /\ spawned \in [Starts -> Nat] /\ failures \in Nat /\ failures' \in Nat
  BY DEF TypeInv, TypeOK
<1>2. Len(txQueue[g]) <= spawned[g] + (IF txLocked[g] THEN 1 ELSE 0) + failures
  BY DEF Attended, Workers
<1>3. TypeOK
  BY DEF TypeInv
<1>4. ASSUME UNCHANGED <<txVars, failures>> PROVE AttendedAt(g)
  BY <1>1, <1>3, <1>4, SameAttended DEF txVars
<1>5. ASSUME NEW r \in Requests, Enqueue(r) PROVE AttendedAt(g)
  <2>1. failures' = failures /\ txLocked' = txLocked
    BY <1>5 DEF Enqueue, wireVars
  <2>2. CASE g = chan[r]
    <3>1. txQueue'[g] = Append(txQueue[g], r) /\ spawned'[g] = spawned[g] + 1
      BY <1>1, <1>5, <2>2 DEF Enqueue
    <3>2. Len(txQueue'[g]) = Len(txQueue[g]) + 1
      BY <1>1, <3>1
    <3>3. Len(txQueue[g]) \in Nat /\ spawned[g] \in Nat
      BY <1>1
    <3> QED
      BY <1>1, <1>2, <2>1, <3>1, <3>2, <3>3 DEF AttendedAt, Workers
  <2>3. CASE g # chan[r]
    <3>1. txQueue'[g] = txQueue[g] /\ spawned'[g] = spawned[g]
      BY <1>1, <1>5, <2>3 DEF Enqueue
    <3> QED
      BY <1>1, <1>3, <2>1, <3>1, SameAttended
  <2> QED
    BY <2>2, <2>3
<1>6. ASSUME NEW h \in Starts, Drain(h) PROVE AttendedAt(g)
  <2>1. CASE g # h
    <3>1. /\ txQueue'[g] = txQueue[g] /\ spawned'[g] = spawned[g]
          /\ txLocked'[g] = txLocked[g] /\ failures' >= failures
      BY <1>1, <1>6, <2>1
         DEF Drain, LockTxQueue, Transmit, TransmitFails, UnlockTxQueue, wireVars
    <3> QED
      BY <1>1, <1>3, <3>1, SameAttended
  <2>2. CASE g = h
    <3>0. Len(txQueue[g]) \in Nat /\ spawned[g] \in Nat
      BY <1>1
    <3>1. CASE LockTxQueue(h)
      <4>1. /\ txQueue' = txQueue /\ failures' = failures
            /\ ~txLocked[g] /\ txLocked'[g] = TRUE /\ spawned'[g] = spawned[g] - 1
        BY <1>1, <2>2, <3>1 DEF LockTxQueue, wireVars
      <4> QED
        BY <1>1, <1>2, <3>0, <4>1 DEF AttendedAt, Workers
    <3>2. CASE Transmit(h)
      <4>1. /\ txQueue[g] # << >> /\ txQueue'[g] = Tail(txQueue[g])
            /\ UNCHANGED <<failures, txLocked, spawned>>
        BY <1>1, <2>2, <3>2 DEF Transmit
      <4>2. Len(txQueue'[g]) = Len(txQueue[g]) - 1
        BY <1>1, <4>1
      <4>3. Workers(g)' = Workers(g) /\ Workers(g) \in Nat
        BY <1>1, <4>1 DEF Workers
      <4> QED
        BY <1>1, <3>0, <4>1, <4>2, <4>3 DEF AttendedAt, Attended
    <3>3. CASE TransmitFails(h)
      <4>1. /\ txQueue' = txQueue /\ spawned' = spawned /\ failures' = failures + 1
            /\ txLocked[g] /\ txLocked'[g] = FALSE
        BY <1>1, <2>2, <3>3 DEF TransmitFails
      <4> QED
        BY <1>1, <1>2, <3>0, <4>1 DEF AttendedAt, Workers
    <3>4. CASE UnlockTxQueue(h)
      <4>1. /\ txQueue'[g] = << >> /\ spawned' = spawned /\ txLocked'[g] = FALSE
            /\ failures' = failures
        BY <1>1, <2>2, <3>4 DEF UnlockTxQueue, wireVars
      <4> QED
        BY <1>1, <3>0, <4>1 DEF AttendedAt, Workers
    <3> QED
      BY <1>6, <3>1, <3>2, <3>3, <3>4 DEF Drain
  <2> QED
    BY <2>1, <2>2
<1>7. CASE Start
  BY <1>4, <1>7 DEF Start, wireVars
<1>8. CASE \E r \in Requests, h \in Starts : GetNextTid(r, h)
  BY <1>4, <1>8 DEF GetNextTid, wireVars
<1>9. CASE \E r \in Requests : EncodeFails(r) \/ RegisterCallback(r)
  BY <1>4, <1>9 DEF EncodeFails, RegisterCallback, wireVars
<1>10. CASE \/ \E o \in Requests : ReceiveResponse(o)
            \/ \E d \in posting : ReceiveOmciResponse(d)
  BY <1>4, <1>10 DEF ReceiveResponse, ReceiveOmciResponse, wireVars
<1>11. CASE UNCHANGED vars
  BY <1>4, <1>11 DEF vars, wireVars
<1> QED
  BY <1>5, <1>6, <1>7, <1>8, <1>9, <1>10, <1>11 DEF Next

(* sendNextRequest, which gives up at the first failure: however requests   *)
(* and goroutines interleave, a failed transmission leaves at most one     *)
(* frame behind, and without a failure no frame waits for nobody.          *)
THEOREM StrandedFrames == Spec => []StrandedByFailures
<1>1. Init => TypeInv /\ Attended
  <2>1. Init => Attended
    BY DEF Init, Attended, Workers
  <2> QED
    BY <2>1, InitType
<1>2. TypeInv /\ Attended /\ [Next]_vars => (TypeInv /\ Attended)'
  BY NextType, NextAttended
<1>3. TypeInv /\ Attended => StrandedByFailures
  <2> SUFFICES ASSUME TypeInv, Attended, NEW g \in Starts, spawned[g] = 0, ~txLocked[g]
               PROVE  Len(txQueue[g]) <= failures
    BY DEF StrandedByFailures
  <2>1. failures \in Nat
    BY DEF TypeInv, TypeOK
  <2> QED
    BY <2>1 DEF Attended, Workers
<1> QED
  BY <1>1, <1>2, <1>3, PTL DEF Spec

-----------------------------------------------------------------------------
(* The abstract exchange.                                                  *)

AskedSet == {r \in Requests : pc[r] \in {"registered", "queued"}}
WaitingSet == {r \in Requests : pc[r] \in {"registered", "queued"} /\ Registered(r)}
AnswerSet ==
    posting \cup {d \in Requests \X Requests :
                      \E i \in DOMAIN posted[d[1]] : posted[d[1]][i] = d[2]}

\* A step that changes neither the responses nor who is registered.
LEMMA ExchangeStutter ==
    ASSUME RxInv, [Next]_vars, UNCHANGED <<rxSchedulerMap, posting, posted>>,
           \A r \in Requests : Asked(r)' => Asked(r)
    PROVE  UNCHANGED <<AskedSet, WaitingSet, AnswerSet>>
<1>1. \A r \in Requests : /\ Asked(r)' = Asked(r)
                          /\ Asked(r) => chan'[r] = chan[r] /\ tidOf'[r] = tidOf[r]
  BY RequestsKeep DEF Keeps, Asked, RxInv, TidInv
<1>2. AskedSet' = AskedSet
  BY <1>1 DEF AskedSet, Asked
<1>3. WaitingSet' = WaitingSet
  BY <1>1 DEF WaitingSet, Asked, Registered
<1>4. AnswerSet' = AnswerSet
  BY DEF AnswerSet
<1> QED
  BY <1>2, <1>3, <1>4

LEMMA RegisterAsks ==
    ASSUME RxInv, [Next]_vars, NEW r \in Requests, RegisterCallback(r)
    PROVE  /\ r \notin AskedSet /\ AskedSet' = AskedSet \cup {r}
           /\ \/ WaitingSet' = WaitingSet \cup {r}
              \/ \E q \in WaitingSet : WaitingSet' = (WaitingSet \ {q}) \cup {r}
           /\ AnswerSet' = AnswerSet
<1> DEFINE g == chan[r]
           t == tidOf[r]
           p == rxSchedulerMap[g][t]
<1>1. /\ pc[r] = "numbered" /\ pc' = [pc EXCEPT ![r] = "registered"]
      /\ g \in Starts /\ t \in Tids
      /\ UNCHANGED <<chan, tidOf, posting, posted>>
      /\ rxSchedulerMap' = [rxSchedulerMap EXCEPT ![g][t] = r]
      /\ pc \in [Requests -> Progress]
      /\ rxSchedulerMap \in [Starts -> [Tids -> Requests \cup {NoRequest}]]
  <2>1. TypeOK /\ CallersHoldAChannel
    BY DEF RxInv, TidInv, TypeInv
  <2>2. pc[r] = "numbered" /\ pc[r] # "idle"
    BY DEF RegisterCallback
  <2>3. chan[r] \in Starts /\ tidOf[r] \in Tids
    BY <2>1, <2>2, OmciAssumption DEF TypeOK, CallersHoldAChannel, Starts
  <2> QED
    BY <2>1, <2>3 DEF RegisterCallback, rxVars, TypeOK
<1>2. \A h \in Starts, u \in Tids :
         rxSchedulerMap'[h][u] = IF h = g /\ u = t THEN r ELSE rxSchedulerMap[h][u]
  BY <1>1
<1>3. \A q \in Requests : pc'[q] \in {"registered", "queued"}
                          <=> q = r \/ pc[q] \in {"registered", "queued"}
  BY <1>1
<1>4. r \notin AskedSet /\ AskedSet' = AskedSet \cup {r}
  BY <1>1, <1>3 DEF AskedSet
<1>5. \A q \in AskedSet : chan[q] \in Starts /\ tidOf[q] \in Tids
  BY OmciAssumption
     DEF AskedSet, RxInv, TidInv, TypeInv, TypeOK, CallersHoldAChannel, Starts
<1>6. \A q \in AskedSet : Registered(q)' <=> Registered(q) /\ q # p
  <2> SUFFICES ASSUME NEW q \in AskedSet
               PROVE  Registered(q)' <=> Registered(q) /\ q # p
    OBVIOUS
  <2>1. q # r
    BY <1>4
  <2>2. rxSchedulerMap'[chan[q]][tidOf[q]]
           = IF chan[q] = g /\ tidOf[q] = t THEN r ELSE rxSchedulerMap[chan[q]][tidOf[q]]
    BY <1>2, <1>5
  <2>3. CASE chan[q] = g /\ tidOf[q] = t
    BY <1>1, <2>1, <2>2, <2>3 DEF Registered
  <2>4. CASE ~(chan[q] = g /\ tidOf[q] = t)
    <3>1. Registered(q)' <=> Registered(q)
      BY <1>1, <2>2, <2>4 DEF Registered
    <3>2. q # p
      BY <1>1, <1>4, <2>4, OmciAssumption DEF AskedSet, RxInv, MapIsCorrect
    <3> QED
      BY <3>1, <3>2
  <2> QED
    BY <2>3, <2>4
<1>7. Registered(r)'
  BY <1>1, <1>2 DEF Registered
<1>8. WaitingSet' = (WaitingSet \ {p}) \cup {r}
  <2>1. \A q \in Requests : q \in WaitingSet <=> q \in AskedSet /\ Registered(q)
    BY DEF WaitingSet, AskedSet
  <2>2. \A q \in Requests : q \in WaitingSet' <=> q \in AskedSet' /\ Registered(q)'
    BY DEF WaitingSet, AskedSet
  <2>3. WaitingSet \subseteq Requests /\ WaitingSet' \subseteq Requests
    BY DEF WaitingSet
  <2> QED
    BY <2>1, <2>2, <2>3, <1>4, <1>6, <1>7
<1>9. AnswerSet' = AnswerSet
  BY <1>1 DEF AnswerSet
<1> QED
  BY <1>4, <1>8, <1>9

LEMMA ReceiveAnswers ==
    ASSUME RxInv, [Next]_vars, NEW o \in Requests, ReceiveResponse(o)
    PROVE  \E r \in WaitingSet :
               /\ o \in AskedSet
               /\ WaitingSet' = WaitingSet \ {r}
               /\ AnswerSet' = AnswerSet \cup {<<r, o>>}
               /\ AskedSet' = AskedSet
<1> DEFINE t == tidOf[o]
           r == rxSchedulerMap[start][t]
<1>1. /\ start \in Starts /\ t \in Tids /\ r \in Requests /\ r # NoRequest
      /\ o \in transmitted
      /\ posting' = posting \cup {<<r, o>>}
      /\ rxSchedulerMap' = [rxSchedulerMap EXCEPT ![start][t] = NoRequest]
      /\ UNCHANGED <<posted, pc, chan, tidOf>>
      /\ rxSchedulerMap \in [Starts -> [Tids -> Requests \cup {NoRequest}]]
  <2>1. start \in Starts /\ tidOf[o] \in Tids
    BY OmciAssumption DEF ReceiveResponse, Starts, RxInv, TidInv, TypeInv, TypeOK
  <2>2. rxSchedulerMap \in [Starts -> [Tids -> Requests \cup {NoRequest}]]
    BY DEF RxInv, TidInv, TypeInv, TypeOK
  <2> QED
    BY <2>1, <2>2 DEF ReceiveResponse, callerVars
<1>2. o \in AskedSet
  BY <1>1 DEF AskedSet, RxInv, TransmittedAreQueued
<1>3. pc[r] \in {"registered", "queued"} /\ chan[r] = start /\ tidOf[r] = t
  BY <1>1 DEF RxInv, MapIsCorrect, Asked
<1>4. r \in WaitingSet
  BY <1>1, <1>3 DEF WaitingSet, Registered
<1>5. AskedSet' = AskedSet
  BY <1>1 DEF AskedSet
<1>6. \A q \in AskedSet : Registered(q)' <=> Registered(q) /\ q # r
  <2> SUFFICES ASSUME NEW q \in AskedSet
               PROVE  Registered(q)' <=> Registered(q) /\ q # r
    OBVIOUS
  <2>1. q \in Requests /\ q # NoRequest /\ chan[q] \in Starts /\ tidOf[q] \in Tids
    BY OmciAssumption
       DEF AskedSet, RxInv, TidInv, TypeInv, TypeOK, CallersHoldAChannel, Starts
  <2>2. rxSchedulerMap'[chan[q]][tidOf[q]]
           = IF chan[q] = start /\ tidOf[q] = t THEN NoRequest
                                                ELSE rxSchedulerMap[chan[q]][tidOf[q]]
    BY <1>1, <2>1
  <2>3. CASE chan[q] = start /\ tidOf[q] = t
    BY <1>1, <2>1, <2>2, <2>3 DEF Registered
  <2>4. CASE ~(chan[q] = start /\ tidOf[q] = t)
    BY <1>1, <1>3, <2>2, <2>4 DEF Registered
  <2> QED
    BY <2>3, <2>4
<1>7. WaitingSet' = WaitingSet \ {r}
  <2>1. \A q \in Requests : q \in WaitingSet <=> q \in AskedSet /\ Registered(q)
    BY DEF WaitingSet, AskedSet
  <2>2. \A q \in Requests : q \in WaitingSet' <=> q \in AskedSet' /\ Registered(q)'
    BY DEF WaitingSet, AskedSet
  <2>3. WaitingSet \subseteq Requests /\ WaitingSet' \subseteq Requests
    BY DEF WaitingSet
  <2> HIDE DEF r
  <2> QED
    BY <2>1, <2>2, <2>3, <1>5, <1>6
<1>8. AnswerSet' = AnswerSet \cup {<<r, o>>}
  BY <1>1 DEF AnswerSet
<1> QED
  BY <1>2, <1>4, <1>5, <1>7, <1>8

LEMMA PostKeepsAnswers ==
    ASSUME RxInv, [Next]_vars, NEW d \in posting, ReceiveOmciResponse(d)
    PROVE  UNCHANGED <<AskedSet, WaitingSet, AnswerSet>>
<1>1. /\ posting \subseteq Requests \X Requests
      /\ posting' = posting \ {d}
      /\ posted' = [posted EXCEPT ![d[1]] = Append(@, d[2])]
      /\ UNCHANGED <<pc, chan, tidOf, rxSchedulerMap>>
      /\ posted \in [Requests -> Seq(Requests)]
  BY DEF ReceiveOmciResponse, RxInv, TidInv, TypeInv, TypeOK, callerVars
<1>2. d[1] \in Requests /\ d[2] \in Requests /\ d = <<d[1], d[2]>>
  BY <1>1
<1>3. posted[d[1]] = << >>
  BY DEF RxInv, PostingIsFirst
<1>4. posted' = [posted EXCEPT ![d[1]] = <<d[2]>>]
  BY <1>1, <1>2, <1>3
<1>5. UNCHANGED <<AskedSet, WaitingSet>>
  BY <1>1 DEF AskedSet, WaitingSet, Registered
<1>6. ASSUME NEW e \in Requests \X Requests PROVE e \in AnswerSet' <=> e \in AnswerSet
  <2>1. CASE e[1] = d[1]
    <3>1. posted'[e[1]] = <<d[2]>> /\ posted[e[1]] = << >>
      BY <1>1, <1>2, <1>3, <1>4, <2>1
    <3>2. (\E i \in DOMAIN posted'[e[1]] : posted'[e[1]][i] = e[2]) <=> e[2] = d[2]
      <4>1. DOMAIN posted'[e[1]] = {1} /\ posted'[e[1]][1] = d[2]
        BY <3>1
      <4> QED
        BY <4>1
    <3>3. ~ \E i \in DOMAIN posted[e[1]] : posted[e[1]][i] = e[2]
      BY <3>1
    <3>4. e[2] = d[2] <=> e = d
      BY <1>2, <2>1, <1>6
    <3>5. e \in posting => e = d
      BY <2>1 DEF RxInv, PostingIsFirst
    <3> QED
      BY <1>1, <3>2, <3>3, <3>4, <3>5 DEF AnswerSet
  <2>2. CASE e[1] # d[1]
    <3>1. posted'[e[1]] = posted[e[1]] /\ e # d
      BY <1>4, <2>2, <1>6, <1>1
    <3> QED
      BY <1>1, <3>1 DEF AnswerSet
  <2> QED
    BY <2>1, <2>2
<1>7. AnswerSet \subseteq Requests \X Requests /\ AnswerSet' \subseteq Requests \X Requests
  BY <1>1 DEF AnswerSet
<1> QED
  BY <1>5, <1>6, <1>7

LEMMA ExchangeStep ==
    ASSUME RxInv, [Next]_vars
    PROVE  [Exchange!Next]_<<AskedSet, WaitingSet, AnswerSet>>
<1> DEFINE Same == UNCHANGED <<AskedSet, WaitingSet, AnswerSet>>
<1>t. pc \in [Requests -> Progress]
  BY DEF RxInv, TidInv, TypeInv, TypeOK
<1>1. ASSUME UNCHANGED <<rxSchedulerMap, posting, posted>>,
             \A r \in Requests : Asked(r)' => Asked(r)
      PROVE  Same
  BY <1>1, ExchangeStutter
<1>2. ASSUME NEW r \in Requests, NEW g \in Starts, GetNextTid(r, g) PROVE Same
  BY <1>1, <1>2, <1>t DEF GetNextTid, rxVars, Asked
<1>3. ASSUME NEW r \in Requests, EncodeFails(r) \/ Enqueue(r) PROVE Same
  BY <1>1, <1>3, <1>t DEF EncodeFails, Enqueue, rxVars, Asked
<1>4. CASE Start \/ (\E g \in Starts : Drain(g)) \/ UNCHANGED vars
  BY <1>1, <1>4
     DEF Start, Drain, LockTxQueue, Transmit, TransmitFails, UnlockTxQueue, vars,
         callerVars, rxVars, Asked
<1>5. ASSUME NEW r \in Requests, RegisterCallback(r) PROVE Exchange!Next
  <2>1. /\ r \notin AskedSet /\ AskedSet' = AskedSet \cup {r}
        /\ \/ WaitingSet' = WaitingSet \cup {r}
           \/ \E q \in WaitingSet : WaitingSet' = (WaitingSet \ {q}) \cup {r}
        /\ AnswerSet' = AnswerSet
    BY <1>5, RegisterAsks
  <2>2. Exchange!Ask(r)
    BY <2>1 DEF Exchange!Ask, AskedSet, WaitingSet, AnswerSet
  <2> QED
    BY <2>2 DEF Exchange!Next
<1>6. ASSUME NEW o \in Requests, ReceiveResponse(o) PROVE Exchange!Next
  <2>1. PICK r \in WaitingSet : /\ o \in AskedSet
                                /\ WaitingSet' = WaitingSet \ {r}
                                /\ AnswerSet' = AnswerSet \cup {<<r, o>>}
                                /\ AskedSet' = AskedSet
    BY <1>6, ReceiveAnswers
  <2>2. Exchange!Answer(r, o)
    BY <2>1 DEF Exchange!Answer, AskedSet, WaitingSet, AnswerSet
  <2>3. r \in Requests
    BY DEF WaitingSet
  <2> QED
    BY <2>1, <2>2, <2>3 DEF Exchange!Next, AskedSet
<1>7. ASSUME NEW d \in posting, ReceiveOmciResponse(d) PROVE Same
  BY <1>7, PostKeepsAnswers
<1> QED
  BY <1>2, <1>3, <1>4, <1>5, <1>6, <1>7 DEF Next

(* receiveMessage and send: what a state machine sees of the channel is    *)
(* the exchange of OmciExchange, whatever restarts, failed transmissions   *)
(* and late or repeated responses there are.                               *)
THEOREM ImplementsOmciExchange == Spec => ImplementsExchange
<1>1. Init => Exchange!Init
  BY DEF Init, Exchange!Init
<1>2. RxInv /\ [Next]_vars => [Exchange!Next]_<<AskedSet, WaitingSet, AnswerSet>>
  BY ExchangeStep
<1> QED
  BY <1>1, <1>2, InitRxInv, NextRxInv, PTL
     DEF Spec, ImplementsExchange, Exchange!Spec, Exchange!vars, AskedSet, WaitingSet,
         AnswerSet

=============================================================================
