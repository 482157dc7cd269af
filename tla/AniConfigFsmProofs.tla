-------------------------- MODULE AniConfigFsmProofs --------------------------
(***************************************************************************)
(* What is proved of the ANI configuration machine, for any GEM ports and  *)
(* any number of runs and faults: its type invariant, that every message   *)
(* loop is ended, that a loop blocks only after a wait has timed out, that *)
(* an undisturbed run is complete when all its requests are answered, and  *)
(* that it is the machine the tech profile processing relies on.           *)
(***************************************************************************)
EXTENDS AniConfigFsm, TLAPS, FiniteSetTheorems, SequenceTheorems

-----------------------------------------------------------------------------
(* Type correctness.                                                       *)

\* A goroutine that sends, records or waits has an entity to do so for.
TodoFits ==
    \A w \in Workers : work[w].at \in {"send", "record", "wait"} => work[w].todo # << >>

\* Those in the queue of the waiting wait, and are there once.
WaitFits ==
    /\ \A i \in DOMAIN waiting : work[waiting[i]].at = "wait"
    /\ \A i, j \in DOMAIN waiting : waiting[i] = waiting[j] => i = j

\* The machine has not moved before its first run.
RunFits == state # "disabled" => run >= 1

\* The states with several entities the run has entered.
Begun ==
    IF state \in {"starting", "creatingDot1PMapper", "creatingMBPCD", "settingTconts"} THEN {}
    ELSE IF state = "creatingGemNCTPs" THEN {"creatingGemNCTPs"}
    ELSE IF state = "creatingGemIWs" THEN {"creatingGemNCTPs", "creatingGemIWs"}
    ELSE Multi

\* Their goroutines only have been started: none is started twice.
BeginFits ==
    \A w \in Workers :
        work[w].at # "off" => w[1] < run \/ (w[1] = run /\ w[2] \in Begun)

TypeInv == TypeOK /\ TodoFits /\ WaitFits /\ RunFits /\ BeginFits

LEMMA InitType == Init => TypeInv
<1> SUFFICES ASSUME Init PROVE TypeInv
  OBVIOUS
<1> USE DEF Init
<1>1. FsmType
  <2>1. MaxRuns \in Nat
    BY AniAssumption
  <2>2. run \in 0 .. MaxRuns
    BY <2>1
  <2>3. slice \in Seq(Gems)
    OBVIOUS
  <2>4. prep \in [Runs -> {"off", "fill", "event", "gone"}]
    OBVIOUS
  <2>5. completed \in BOOLEAN /\ state \in Running \cup {"disabled", "resetting"} /\ unusable \subseteq Runs
    OBVIOUS
  <2>6. callback \in Simple \cup {None}
    OBVIOUS
  <2> QED
    BY <2>2, <2>3, <2>4, <2>5, <2>6 DEF FsmType
<1>2. WorkType
  BY DEF WorkType, Idle
<1>3. LoopType
  BY DEF LoopType
<1>4. ChannelType
  BY DEF ChannelType
<1>5. CountType
  BY DEF CountType
<1>6. TodoFits /\ WaitFits /\ RunFits /\ BeginFits
  BY DEF TodoFits, WaitFits, RunFits, BeginFits, Idle
<1> QED
  BY <1>1, <1>2, <1>3, <1>4, <1>5, <1>6 DEF TypeInv, TypeOK

\* What steps leave alone.
WorkInv == WorkType /\ TodoFits /\ WaitFits
FsmInv == FsmType /\ RunFits

LEMMA SameType ==
    /\ FsmInv /\ UNCHANGED fsmVars => FsmInv'
    /\ WorkInv /\ UNCHANGED <<work, waiting>> => WorkInv'
    /\ LoopType /\ UNCHANGED <<readers, handing>> => LoopType'
    /\ ChannelType /\ UNCHANGED <<commChan, lastTx, open, acked>> => ChannelType'
    /\ CountType /\ UNCHANGED <<resets, restarts, boundVars>> => CountType'
<1>1. FsmInv /\ UNCHANGED fsmVars => FsmInv'
  BY DEF FsmInv, FsmType, RunFits, fsmVars
<1>2. WorkInv /\ UNCHANGED <<work, waiting>> => WorkInv'
  BY DEF WorkInv, WorkType, TodoFits, WaitFits
<1>3. LoopType /\ UNCHANGED <<readers, handing>> => LoopType'
  BY DEF LoopType
<1>4. ChannelType /\ UNCHANGED <<commChan, lastTx, open, acked>> => ChannelType'
  BY DEF ChannelType
<1>5. CountType /\ UNCHANGED <<resets, restarts, boundVars>> => CountType'
  BY DEF CountType, boundVars
<1> QED
  BY <1>1, <1>2, <1>3, <1>4, <1>5

LEMMA NoneBegins ==
  ASSUME BeginFits, run' = run, state' = state \/ state' \in {"resetting", "disabled"},
         \A w \in Workers : work'[w].at # "off" => work[w].at # "off"
  PROVE  BeginFits'
<1>1. \A w \in Workers : w[2] \in Multi
  BY DEF Workers
<1>2. Begun \subseteq Multi
  BY DEF Begun, Multi
<1>3. \A s \in Multi : s \in Begun => s \in Begun'
  BY <1>2 DEF Begun
<1> QED
  BY <1>1, <1>3 DEF BeginFits

LEMMA EntityType ==
  ASSUME NEW s \in Steps, NEW g \in Gems \cup {NoGem}
  PROVE  Entity(s, g) \in (Steps \cup {None}) \X (Gems \cup {NoGem})
  BY DEF Entity, Steps, Simple

LEMMA RequestType ==
  ASSUME NEW r \in Runs, NEW s \in Steps, NEW g \in Gems \cup {NoGem}
  PROVE  Request(r, s, g) \in RequestSet
  BY DEF Request, RequestSet

LEMMA AbortIsNoRequest == Abort \notin RequestSet
  BY DEF Abort, Request, RequestSet, Steps, Simple, Multi

\* Moving one goroutine to another place.
LEMMA MoveOne ==
  ASSUME WorkInv, NEW w \in Workers,
         NEW p \in {"off", "begin", "send", "record", "reset", "next", "gone"},
         work[w].at # "wait",
         p \in {"send", "record"} => work[w].todo # << >>,
         work' = Moved(work, w, p), waiting' = waiting
  PROVE  WorkInv'
<1>1. WorkType'
  BY DEF WorkInv, WorkType, Moved
<1>2. TodoFits'
  BY DEF WorkInv, WorkType, TodoFits, Moved
<1>3. WaitFits'
  BY DEF WorkInv, WorkType, WaitFits, Moved
<1> QED
  BY <1>1, <1>2, <1>3 DEF WorkInv

\* Where a goroutine goes on.
LEMMA ReleasedType ==
  ASSUME WorkType, TodoFits, NEW w \in Workers, work[w].todo # << >>
  PROVE  /\ Released(w) \in [Workers -> [at : {"off", "begin", "send", "record", "wait",
                                               "reset", "next", "gone"},
                                         todo : Seq(Gems)]]
         /\ Released(w)[w].at # "wait"
         /\ \A v \in Workers :
              Released(w)[v].at \in {"send", "record", "wait"} => Released(w)[v].todo # << >>
         /\ \A v \in Workers : v # w => Released(w)[v] = work[v]
<1> DEFINE todo == Tail(work[w].todo)
           at == IF todo = << >> THEN "next" ELSE "send"
<1>1. work[w].todo \in Seq(Gems)
  BY DEF WorkType
<1>2. todo \in Seq(Gems)
  BY <1>1
<1>3. at \in {"next", "send"} /\ (at = "send" => todo # << >>)
  OBVIOUS
<1> HIDE DEF todo, at
<1>4. Released(w) = [work EXCEPT ![w] = [at |-> at, todo |-> todo]]
  BY DEF Released, todo, at, WorkType
<1> QED
  BY <1>2, <1>3, <1>4 DEF WorkType, TodoFits

\* Its response comes from the head of the queue.
LEMMA WaitingReleased ==
  ASSUME WorkInv, waiting # << >>,
         waiting' = Tail(waiting), work' = Released(Head(waiting))
  PROVE  WorkInv'
<1> DEFINE w == Head(waiting)
<1>0. waiting \in Seq(Workers)
  BY DEF WorkInv, WorkType
<1>1. /\ Len(waiting) \in Nat \ {0} /\ DOMAIN waiting = 1 .. Len(waiting)
      /\ w = waiting[1] /\ w \in Workers
      /\ \A i \in DOMAIN waiting : waiting[i] \in Workers
  BY <1>0
<1>2. /\ waiting' \in Seq(Workers)
      /\ \A i \in DOMAIN waiting' : i + 1 \in DOMAIN waiting /\ waiting'[i] = waiting[i + 1]
  BY <1>0, <1>1
<1>3. work[w].at = "wait" /\ work[w].todo # << >>
  BY <1>1 DEF WorkInv, WaitFits, TodoFits
<1>4. WorkType' /\ TodoFits'
  BY <1>1, <1>2, <1>3, ReleasedType DEF WorkInv, WorkType, TodoFits
<1>5. ASSUME NEW i \in DOMAIN waiting' PROVE work'[waiting'[i]].at = "wait"
  <2>1. i \in Nat \ {0}
    BY <1>2
  <2>2. i + 1 # 1 /\ i + 1 \in DOMAIN waiting
    BY <1>2, <2>1
  <2>3. waiting[i + 1] # w
    BY <1>1, <2>2 DEF WorkInv, WaitFits
  <2> QED
    BY <1>1, <1>2, <1>3, <2>2, <2>3, ReleasedType DEF WorkInv, WaitFits
<1>6. ASSUME NEW i \in DOMAIN waiting', NEW j \in DOMAIN waiting', waiting'[i] = waiting'[j]
      PROVE  i = j
  <2>1. i \in Nat /\ j \in Nat
    BY <1>2
  <2>2. i + 1 = j + 1
    BY <1>2, <1>6 DEF WorkInv, WaitFits
  <2> QED
    BY <2>1, <2>2
<1> QED
  BY <1>4, <1>5, <1>6 DEF WorkInv, WaitFits

\* It joins the queue.
LEMMA WaitingJoined ==
  ASSUME WorkInv, NEW w \in Workers, work[w].at = "record",
         waiting' = Append(waiting, w), work' = Moved(work, w, "wait")
  PROVE  WorkInv'
<1>0. waiting \in Seq(Workers)
  BY DEF WorkInv, WorkType
<1>1. /\ Len(waiting) \in Nat /\ DOMAIN waiting = 1 .. Len(waiting)
      /\ waiting' \in Seq(Workers)
      /\ DOMAIN waiting' = 1 .. Len(waiting) + 1
      /\ waiting'[Len(waiting) + 1] = w
      /\ \A i \in DOMAIN waiting : waiting'[i] = waiting[i] /\ waiting[i] \in Workers
  BY <1>0
<1>2. WorkType' /\ TodoFits'
  BY <1>1 DEF WorkInv, WorkType, TodoFits, Moved
<1>3. \A i \in DOMAIN waiting : waiting[i] # w
  BY DEF WorkInv, WaitFits
<1>4. work'[w].at = "wait" /\ \A v \in Workers : v # w => work'[v] = work[v]
  BY DEF WorkInv, WorkType, Moved
<1>5. \A i \in DOMAIN waiting' : i \in DOMAIN waiting \/ i = Len(waiting) + 1
  BY <1>1
<1>6. \A i \in DOMAIN waiting' : work'[waiting'[i]].at = "wait"
  BY <1>1, <1>3, <1>4, <1>5 DEF WorkInv, WaitFits
<1>7. \A i, j \in DOMAIN waiting' : waiting'[i] = waiting'[j] => i = j
  BY <1>1, <1>3, <1>5 DEF WorkInv, WaitFits
<1> QED
  BY <1>2, <1>6, <1>7 DEF WorkInv, WaitFits

\* It has waited long enough.
LEMMA WaitingGivenUp ==
  ASSUME WorkInv, NEW k \in DOMAIN waiting,
         waiting' = WaitingBut(k), work' = Moved(work, waiting[k], "reset")
  PROVE  WorkInv'
<1> DEFINE w == waiting[k]
           old(i) == IF i < k THEN i ELSE i + 1
<1>0. waiting \in Seq(Workers)
  BY DEF WorkInv, WorkType
<1>1. /\ Len(waiting) \in Nat /\ DOMAIN waiting = 1 .. Len(waiting) /\ w \in Workers
      /\ k \in Nat
      /\ \A i \in DOMAIN waiting : waiting[i] \in Workers
  BY <1>0
<1>2. /\ DOMAIN waiting' = 1 .. Len(waiting) - 1
      /\ \A i \in DOMAIN waiting' : old(i) \in DOMAIN waiting \ {k} /\ waiting'[i] = waiting[old(i)]
  BY <1>1 DEF WaitingBut
<1>3. waiting' \in Seq(Workers)
  <2>1. Len(waiting) - 1 \in Nat
    BY <1>1
  <2> QED
    BY <1>1, <1>2, <2>1 DEF WaitingBut
<1>4. WorkType' /\ TodoFits'
  BY <1>1, <1>3 DEF WorkInv, WorkType, TodoFits, Moved
<1>5. \A v \in Workers : v # w => work'[v] = work[v]
  BY DEF WorkInv, WorkType, Moved
<1>6. \A i \in DOMAIN waiting' : work'[waiting'[i]].at = "wait"
  BY <1>1, <1>2, <1>5 DEF WorkInv, WaitFits
<1>7. ASSUME NEW i \in DOMAIN waiting', NEW j \in DOMAIN waiting', waiting'[i] = waiting'[j]
      PROVE  i = j
  <2>1. old(i) = old(j)
    BY <1>2, <1>7 DEF WorkInv, WaitFits
  <2> QED
    BY <1>1, <1>2, <2>1
<1> QED
  BY <1>4, <1>6, <1>7 DEF WorkInv, WaitFits

-----------------------------------------------------------------------------
LEMMA FollowType ==
  ASSUME NEW s \in Steps \cup {"starting"}
  PROVE  Follow(s) \in Steps \cup {"configDone"}
  BY DEF Follow, Steps, Simple, Multi

\* An event, with the step of the caller's goroutine taken (ws).
LEMMA AdvanceType ==
  ASSUME TypeInv, NEW s \in Steps \cup {"starting"}, NEW ws,
         ws \in [Workers -> [at : {"off", "begin", "send", "record", "wait", "reset",
                                   "next", "gone"},
                             todo : Seq(Gems)]],
         \A w \in Workers : /\ ws[w] # work[w] => /\ ws[w].at = "gone"
                                                  /\ work[w].at \notin {"off", "wait"},
         Advance(s, ws),
         UNCHANGED <<run, slice, unusable, waiting>>,
         prep' \in [Runs -> {"off", "fill", "event", "gone"}]
  PROVE  /\ FsmInv' /\ WorkInv' /\ BeginFits'
         /\ open' \subseteq RequestSet /\ resets' \in Nat
         /\ callback' \in Simple \cup {None}
<1>1. /\ FsmType /\ RunFits /\ WorkType /\ TodoFits /\ WaitFits /\ BeginFits
      /\ open \subseteq RequestSet /\ resets \in Nat
  BY DEF TypeInv, TypeOK, ChannelType, CountType
<1>2. \A w \in Workers : ws[w].at \in {"send", "record", "wait"} => ws[w] = work[w]
  OBVIOUS
<1>3. \A w \in Workers : work[w].at = "wait" => ws[w] = work[w]
  OBVIOUS
<1>4. CASE state # s
  <2>1. UNCHANGED <<state, completed, callback, open, resets>> /\ work' = ws
    BY <1>4 DEF Advance
  <2>2. FsmInv'
    BY <1>1, <2>1 DEF FsmInv, FsmType, RunFits
  <2>3. WorkType' /\ TodoFits'
    BY <1>1, <1>2, <2>1 DEF WorkType, TodoFits
  <2>4. WaitFits'
    BY <1>1, <1>3, <2>1 DEF WorkType, WaitFits
  <2>5. BeginFits'
    BY <1>1, <2>1, NoneBegins
  <2> QED
    BY <1>1, <2>1, <2>2, <2>3, <2>4, <2>5 DEF FsmInv, FsmType, WorkInv
<1>5. CASE state = s
  <2> DEFINE to == Follow(s)
  <2>1. /\ to \in Steps \cup {"configDone"}
        /\ state' = to
        /\ completed' = (completed \/ to = "configDone")
        /\ work' = IF to \in Multi THEN Moved(ws, <<run, to>>, "begin")
                   ELSE ws
        /\ callback' = IF to \in Simple THEN to ELSE None
        /\ open' = IF to \in Simple THEN open \cup {Request(run, to, NoGem)} ELSE open
        /\ resets' \in {resets, resets + 1}
    BY <1>5, FollowType DEF Advance
  <2> HIDE DEF to
  <2>2. run \in Runs
    BY <1>1, <1>5 DEF FsmType, RunFits, Runs, Steps, Simple, Multi
  <2>3. FsmInv' /\ callback' \in Simple \cup {None}
    <3>1. completed' \in BOOLEAN
      BY <1>1, <2>1 DEF FsmType
    <3>2. run' >= 1
      BY <2>2 DEF Runs
    <3>3. state' \in Running \cup {"disabled", "resetting"} /\ callback' \in Simple \cup {None}
      BY <2>1 DEF Running
    <3> QED
      BY <1>1, <3>1, <3>2, <3>3 DEF FsmInv, FsmType, RunFits
  <2>4. open' \subseteq RequestSet
    BY <1>1, <2>1, <2>2, RequestType DEF Steps
  <2>5. resets' \in Nat
    BY <1>1, <2>1
  <2>6. WorkInv'
    <3>1. CASE to \notin Multi
      <4>1. work' = ws
        BY <2>1, <3>1
      <4>2. WorkType' /\ TodoFits'
        BY <1>1, <1>2, <4>1 DEF WorkType, TodoFits
      <4>3. WaitFits'
        BY <1>1, <1>3, <4>1 DEF WorkType, WaitFits
      <4> QED
        BY <4>2, <4>3 DEF WorkInv
    <3>2. CASE to \in Multi
      <4> DEFINE w == <<run, to>>
      <4>1. w \in Workers
        BY <2>2, <3>2 DEF Workers
      <4>2. /\ work' = Moved(ws, w, "begin")
        BY <2>1, <3>2
      <4> HIDE DEF w
      <4>3. /\ \A v \in Workers : v # w => work'[v] = ws[v]
            /\ work'[w].at = "begin"
            /\ WorkType'
        BY <1>1, <4>1, <4>2 DEF WorkType, Moved
      <4>4. TodoFits'
        BY <1>1, <1>2, <4>3 DEF TodoFits
      <4>5. work[w].at = "off"
        <5>1. to \notin Begun
          BY <1>5, <3>2 DEF Begun, to, Follow, Steps, Simple, Multi
        <5>2. w[1] = run /\ w[2] = to
          BY DEF w
        <5> QED
          BY <1>1, <4>1, <5>1, <5>2, <2>2 DEF BeginFits, Runs
      <4>6. WaitFits'
        <5>1. waiting \in Seq(Workers) /\ waiting' = waiting
          BY <1>1 DEF WorkType
        <5>2. \A i \in DOMAIN waiting : waiting[i] \in Workers /\ work[waiting[i]].at = "wait"
          BY <1>1, <5>1 DEF WaitFits
        <5>3. \A i \in DOMAIN waiting : waiting[i] # w
          BY <4>5, <5>2
        <5>4. \A i \in DOMAIN waiting : work'[waiting[i]] = work[waiting[i]]
          BY <1>3, <4>3, <5>2, <5>3
        <5> QED
          BY <1>1, <5>1, <5>2, <5>4 DEF WaitFits
      <4> QED
        BY <4>3, <4>4, <4>6 DEF WorkInv
    <3> QED
      BY <3>1, <3>2
  <2>7. BeginFits'
    <3>1. Begun \subseteq Begun' /\ (to \in Multi => to \in Begun')
      BY <1>5, <2>1 DEF Begun, to, Follow, Steps, Simple, Multi
    <3>2. \A w \in Workers :
            work'[w].at # "off" => work[w].at # "off" \/ (w[1] = run /\ w[2] = to /\ to \in Multi)
      <4>1. CASE to \notin Multi
        BY <2>1, <4>1
      <4>2. CASE to \in Multi
        <5>1. work' = Moved(ws, <<run, to>>, "begin")
          BY <2>1, <4>2
        <5>2. \A w \in Workers : w # <<run, to>> => work'[w] = ws[w]
          BY <5>1 DEF Moved
        <5> QED
          BY <4>2, <5>2
      <4> QED
        BY <4>1, <4>2
    <3> QED
      BY <1>1, <2>1, <3>1, <3>2 DEF BeginFits
  <2> QED
    BY <2>3, <2>4, <2>5, <2>6, <2>7
<1> QED
  BY <1>4, <1>5

LEMMA ResetType ==
  ASSUME TypeInv, Reset, \A w \in Workers : work'[w].at # "off" => work[w].at # "off"
  PROVE  /\ FsmInv' /\ BeginFits'
         /\ commChan' \in Seq(RequestSet \cup {Abort})
         /\ restarts' \in Nat
<1>1. /\ FsmType /\ RunFits /\ BeginFits
      /\ commChan \in Seq(RequestSet \cup {Abort}) /\ restarts \in Nat
  BY DEF TypeInv, TypeOK, ChannelType, CountType
<1>2. CASE state \in Running
  <2>1. state' = "resetting" /\ commChan' = Append(commChan, Abort) /\ restarts' = restarts + 1
    BY <1>2 DEF Reset
  <2>2. UNCHANGED <<run, completed, slice, unusable, prep, callback>>
    BY DEF Reset
  <2>3. FsmInv'
    BY <1>1, <1>2, <2>1, <2>2 DEF FsmInv, FsmType, RunFits, Running, Steps, Simple, Multi
  <2>4. BeginFits'
    BY <1>1, <2>1, <2>2, NoneBegins
  <2>5. commChan' \in Seq(RequestSet \cup {Abort})
    BY <1>1, <2>1
  <2>6. restarts' \in Nat
    BY <1>1, <2>1
  <2> QED
    BY <2>3, <2>4, <2>5, <2>6
<1>3. CASE state \notin Running
  <2>1. UNCHANGED <<state, run, completed, slice, unusable, prep, callback, commChan, restarts>>
    BY <1>3 DEF Reset
  <2>2. FsmInv'
    BY <1>1, <2>1 DEF FsmInv, FsmType, RunFits
  <2>3. BeginFits'
    BY <1>1, <2>1, NoneBegins
  <2> QED
    BY <1>1, <2>1, <2>2, <2>3
<1> QED
  BY <1>2, <1>3

\* Steps that move no machine and start no goroutine.
LEMMA StillFits ==
  ASSUME TypeInv, UNCHANGED fsmVars, UNCHANGED <<work, waiting>>
  PROVE  FsmInv' /\ WorkInv' /\ BeginFits'
<1>1. FsmInv' /\ WorkInv'
  BY SameType DEF TypeInv, TypeOK, FsmInv, WorkInv
<1>2. BeginFits'
  BY NoneBegins DEF TypeInv, fsmVars
<1> QED
  BY <1>1, <1>2

\* What has to be shown of a step.
LEMMA TypeParts ==
  FsmInv' /\ WorkInv' /\ BeginFits' /\ LoopType' /\ ChannelType' /\ CountType' => TypeInv'
  BY DEF TypeInv, TypeOK, FsmInv, WorkInv

LEMMA StartType == ASSUME TypeInv, Start PROVE TypeInv'
<1> USE DEF TypeInv, TypeOK, Start
<1>1. run \in Nat /\ run' = run + 1 /\ run' \in Runs /\ run' \in 0 .. MaxRuns
  BY AniAssumption DEF FsmType, Runs
<1>2. FsmInv'
  <2>1. slice' \in Seq(Gems)
    OBVIOUS
  <2>2. prep' \in [Runs -> {"off", "fill", "event", "gone"}]
    BY <1>1 DEF FsmType
  <2>3. run' >= 1
    BY <1>1
  <2> QED
    BY <1>1, <2>1, <2>2, <2>3 DEF FsmInv, FsmType, RunFits, Running
<1>3. WorkInv'
  BY SameType DEF WorkInv
<1>4. BeginFits'
  <2>1. \A w \in Workers : w[1] \in Nat
    BY DEF Workers, Runs
  <2> QED
    BY <1>1, <2>1 DEF BeginFits
<1>5. LoopType'
  BY <1>1 DEF LoopType
<1>6. ChannelType' /\ CountType'
  BY SameType DEF onuVars, boundVars
<1> QED
  BY <1>2, <1>3, <1>4, <1>5, <1>6, TypeParts

LEMMA FillType == ASSUME TypeInv, NEW r \in Runs, Fill(r) PROVE TypeInv'
<1> USE DEF TypeInv, TypeOK, Fill
<1>1. \A order \in Orders : order \in Seq(Gems)
  <2>1. Cardinality(Gems) \in Nat
    BY AniAssumption, FS_CardinalityType
  <2> QED
    BY <2>1 DEF Orders
<1>2. slice' \in Seq(Gems)
  BY <1>1 DEF FsmType
<1>3. FsmInv'
  BY <1>2 DEF FsmInv, FsmType, RunFits
<1>4. WorkInv' /\ LoopType' /\ ChannelType' /\ CountType'
  BY SameType DEF WorkInv, loopVars, onuVars, boundVars
<1>5. BeginFits'
  BY NoneBegins DEF loopVars
<1> QED
  BY <1>3, <1>4, <1>5, TypeParts

LEMMA StartConfigType == ASSUME TypeInv, NEW r \in Runs, StartConfig(r) PROVE TypeInv'
<1>1. prep' \in [Runs -> {"off", "fill", "event", "gone"}]
  BY DEF StartConfig, TypeInv, TypeOK, FsmType
<1>2. /\ FsmInv' /\ WorkInv' /\ BeginFits'
      /\ open' \subseteq RequestSet /\ resets' \in Nat
  BY <1>1, AdvanceType DEF StartConfig, TypeInv, TypeOK, WorkType
<1>3. LoopType'
  BY SameType DEF StartConfig, TypeInv, TypeOK
<1>4. ChannelType'
  BY <1>2 DEF StartConfig, TypeInv, TypeOK, ChannelType
<1>5. CountType'
  BY <1>2 DEF StartConfig, TypeInv, TypeOK, CountType, boundVars
<1> QED
  BY <1>2, <1>3, <1>4, <1>5, TypeParts

LEMMA RecordedType == ASSUME TypeInv, Recorded PROVE TypeInv'
<1> USE DEF TypeInv, TypeOK, Recorded
<1>1. FsmInv'
  BY DEF FsmInv, FsmType, RunFits
<1>2. WorkInv' /\ CountType'
  BY SameType DEF WorkInv
<1>3. BeginFits'
  BY NoneBegins
<1>4. LoopType'
  BY DEF LoopType
<1>5. lastTx' \in (Steps \cup {None}) \X (Gems \cup {NoGem})
  BY EntityType DEF FsmType, Steps
<1>6. ChannelType'
  BY <1>5 DEF ChannelType, onuVars
<1> QED
  BY <1>1, <1>2, <1>3, <1>4, <1>6, TypeParts

LEMMA AnswerType == ASSUME TypeInv, NEW q \in open, Answer(q) PROVE TypeInv'
<1> USE DEF TypeInv, TypeOK, Answer
<1>1. q \in RequestSet
  BY DEF ChannelType
<1>2. commChan' \in Seq(RequestSet \cup {Abort})
  BY <1>1 DEF ChannelType
<1>3. ChannelType'
  BY <1>1, <1>2 DEF ChannelType
<1>4. LoopType' /\ CountType'
  BY SameType DEF loopVars
<1> QED
  BY <1>3, <1>4, StillFits, TypeParts DEF loopVars

\* The message loop.
LEMMA ReceivesType ==
  ASSUME TypeInv, NEW n \in Runs, NEW m, Receives(n, m)
  PROVE  ChannelType' /\ FsmInv' /\ UNCHANGED <<resets, restarts, expired, timeouts>>
<1> USE DEF TypeInv, TypeOK, Receives
<1>1. commChan' \in Seq(RequestSet \cup {Abort})
  BY HeadTailProperties DEF ChannelType
<1>2. ChannelType'
  BY <1>1 DEF ChannelType, onuVars
<1>3. FsmInv'
  BY SameType DEF FsmInv
<1> QED
  BY <1>2, <1>3

LEMMA MessageLoopType == ASSUME TypeInv, NEW n \in Runs, MessageLoop(n) PROVE TypeInv'
<1> USE DEF TypeInv, TypeOK
<1>1. CASE ReadAbort(n)
  <2>1. LoopType'
    BY <1>1 DEF ReadAbort, LoopType
  <2>2. WorkInv' /\ BeginFits'
    BY <1>1, StillFits DEF ReadAbort, Receives
  <2>3. CountType'
    BY <1>1 DEF ReadAbort, Receives, CountType
  <2> QED
    BY <1>1, <2>1, <2>2, <2>3, ReceivesType, TypeParts DEF ReadAbort
<1>2. CASE ReadUnexpected(n)
  <2>1. PICK m \in acked : Receives(n, m)
    BY <1>2 DEF ReadUnexpected
  <2>2. UNCHANGED loopVars /\ missed' = TRUE
    BY <1>2 DEF ReadUnexpected
  <2>3. WorkInv' /\ BeginFits' /\ LoopType'
    BY <2>1, <2>2, StillFits, SameType DEF Receives, loopVars
  <2>4. CountType'
    BY <2>1, <2>2 DEF Receives, CountType
  <2> QED
    BY <2>1, <2>3, <2>4, ReceivesType, TypeParts
<1>3. CASE ReadSimple(n)
  <2>1. PICK m \in acked : Receives(n, m) /\ m.step \in Simple
                           /\ readers' = [readers EXCEPT ![n] = m.step]
    BY <1>3 DEF ReadSimple
  <2>2. UNCHANGED <<work, waiting, handing, missed>>
    BY <1>3 DEF ReadSimple
  <2>3. LoopType'
    BY <2>1, <2>2 DEF LoopType
  <2>4. WorkInv' /\ BeginFits'
    BY <2>1, <2>2, StillFits DEF Receives
  <2>5. CountType'
    BY <2>1, <2>2 DEF Receives, CountType
  <2> QED
    BY <2>1, <2>3, <2>4, <2>5, ReceivesType, TypeParts
<1>4. CASE ReadMulti(n)
  <2>1. PICK m \in acked : Receives(n, m)
    BY <1>4 DEF ReadMulti
  <2>2. CountType'
    BY <1>4, <2>1 DEF ReadMulti, Receives, CountType
  <2>3. CASE waiting # << >>
    <3>1. waiting' = Tail(waiting) /\ work' = Released(Head(waiting))
          /\ UNCHANGED <<readers, handing>>
      BY <1>4, <2>3 DEF ReadMulti
    <3>2. WorkInv'
      BY <2>3, <3>1, WaitingReleased DEF WorkInv
    <3>3. BeginFits'
      <4>1. Head(waiting) \in Workers /\ work[Head(waiting)].at = "wait"
            /\ work[Head(waiting)].todo # << >>
        BY <2>3 DEF WorkType, WaitFits, TodoFits
      <4>2. \A w \in Workers : w # Head(waiting) => work'[w] = work[w]
        BY <3>1, <4>1, ReleasedType
      <4>3. \A w \in Workers : work'[w].at # "off" => work[w].at # "off"
        BY <4>1, <4>2
      <4> QED
        BY <2>1, <4>3, NoneBegins DEF Receives, fsmVars
    <3>4. LoopType'
      BY <3>1, SameType
    <3> QED
      BY <2>1, <2>2, <3>2, <3>3, <3>4, ReceivesType, TypeParts
  <2>4. CASE waiting = << >>
    <3>1. /\ handing' = Append(handing, n)
          /\ readers' = [readers EXCEPT ![n] = "hand"]
          /\ UNCHANGED <<work, waiting>>
      BY <1>4, <2>4 DEF ReadMulti
    <3>2. LoopType'
      BY <3>1 DEF LoopType
    <3>3. WorkInv' /\ BeginFits'
      BY <2>1, <3>1, StillFits DEF Receives
    <3> QED
      BY <2>1, <2>2, <3>2, <3>3, ReceivesType, TypeParts
  <2> QED
    BY <2>3, <2>4
<1>5. CASE PostEvent(n)
  <2>1. UNCHANGED <<run, slice, unusable, prep, waiting, handing, commChan, lastTx, restarts,
                    acked, boundVars>>
        /\ readers[n] \in Simple /\ Advance(readers[n], work)
    BY <1>5 DEF PostEvent
  <2>2. /\ FsmInv' /\ WorkInv' /\ BeginFits'
        /\ open' \subseteq RequestSet /\ resets' \in Nat
    BY <2>1, AdvanceType DEF WorkType, FsmType, Steps
  <2>3. LoopType'
    <3>1. readers' = [readers EXCEPT ![n] = IF callback' = None THEN "read" ELSE "callback"]
      BY <1>5 DEF PostEvent
    <3> QED
      BY <2>1, <3>1 DEF LoopType
  <2>4. ChannelType'
    BY <2>1, <2>2 DEF ChannelType
  <2>5. CountType'
    BY <2>1, <2>2 DEF CountType, boundVars
  <2> QED
    BY <2>2, <2>3, <2>4, <2>5, TypeParts
<1> QED
  BY <1>1, <1>2, <1>3, <1>4, <1>5 DEF MessageLoop

\* The goroutines of the states with several entities.
LEMMA WorkerSteps ==
  ASSUME TypeInv, NEW w \in Workers, BeginFits, WorkInv',
         UNCHANGED fsmVars, work[w].at # "off",
         \A v \in Workers : v # w => work'[v] = work[v]
  PROVE  FsmInv' /\ BeginFits'
<1>1. FsmInv'
  BY SameType DEF TypeInv, TypeOK, FsmInv
<1>2. \A v \in Workers : work'[v].at # "off" => work[v].at # "off"
  OBVIOUS
<1> QED
  BY <1>1, <1>2, NoneBegins DEF fsmVars

LEMMA WorkerType == ASSUME TypeInv, NEW w \in Workers, Worker(w) \/ TimeOut(w) PROVE TypeInv'
<1> USE DEF TypeInv, TypeOK
<1>0. WorkInv /\ w[1] \in Runs /\ w[2] \in Steps
  BY DEF WorkInv, Workers, Steps
<1>1. CASE Begin(w)
  <2> DEFINE at == IF slice = << >> THEN "next" ELSE "send"
  <2>1. work' = [work EXCEPT ![w] = [at |-> at, todo |-> slice]] /\ waiting' = waiting
        /\ work[w].at = "begin"
    BY <1>1 DEF Begin
  <2>2. at \in {"next", "send"} /\ (at = "send" => slice # << >>) /\ slice \in Seq(Gems)
    BY DEF FsmType
  <2> HIDE DEF at
  <2>3. WorkType' /\ TodoFits'
    BY <2>1, <2>2 DEF WorkType, TodoFits
  <2>4. WaitFits'
    BY <2>1, <2>2 DEF WorkType, WaitFits
  <2>5. \A v \in Workers : v # w => work'[v] = work[v]
    BY <2>1 DEF WorkType
  <2>6. LoopType' /\ ChannelType' /\ CountType'
    BY <1>1, SameType DEF Begin, onuVars
  <2> QED
    BY <1>1, <2>1, <2>3, <2>4, <2>5, <2>6, WorkerSteps, TypeParts DEF Begin, WorkInv
<1>2. CASE Send(w)
  <2>1. /\ work[w].at = "record" \/ work[w].at = "send"
        /\ work' = Moved(work, w, "record") /\ waiting' = waiting
    BY <1>2 DEF Send
  <2>2. work[w].todo # << >> /\ work[w].todo \in Seq(Gems)
    BY <2>1 DEF TodoFits, WorkType
  <2>3. WorkInv'
    BY <1>0, <2>1, <2>2, MoveOne
  <2>4. \A v \in Workers : v # w => work'[v] = work[v]
    BY <2>1 DEF WorkType, Moved
  <2>5. Head(work[w].todo) \in Gems
    BY <2>2, HeadTailProperties
  <2>6. Request(w[1], w[2], Head(work[w].todo)) \in RequestSet
    BY <1>0, <2>5, RequestType
  <2>7. ChannelType'
    BY <1>2, <2>6 DEF Send, ChannelType
  <2>8. LoopType' /\ CountType'
    BY <1>2, SameType DEF Send
  <2> QED
    BY <1>2, <2>1, <2>3, <2>4, <2>7, <2>8, WorkerSteps, TypeParts DEF Send
<1>3. CASE RecordAndWait(w)
  <2>1. work[w].at = "record" /\ UNCHANGED fsmVars
    BY <1>3 DEF RecordAndWait
  <2>2. work[w].todo # << >> /\ work[w].todo \in Seq(Gems)
    BY <2>1 DEF TodoFits, WorkType
  <2>3. Head(work[w].todo) \in Gems
    BY <2>2, HeadTailProperties
  <2>4. lastTx' \in (Steps \cup {None}) \X (Gems \cup {NoGem})
    BY <1>0, <1>3, <2>3, EntityType DEF RecordAndWait
  <2>5. ChannelType'
    BY <1>3, <2>4 DEF RecordAndWait, ChannelType, onuVars
  <2>6. CountType'
    BY <1>3, SameType DEF RecordAndWait
  <2>7. CASE handing # << >>
    <3>1. /\ handing' = Tail(handing) /\ readers' = [readers EXCEPT ![Head(handing)] = "read"]
          /\ work' = Released(w) /\ waiting' = waiting
      BY <1>3, <2>7 DEF RecordAndWait
    <3>2. LoopType'
      BY <2>7, <3>1, HeadTailProperties DEF LoopType
    <3>3. WorkType' /\ TodoFits' /\ \A v \in Workers : v # w => work'[v] = work[v]
      BY <2>2, <3>1, ReleasedType DEF WorkType, TodoFits
    <3>4. WaitFits'
      <4>1. \A i \in DOMAIN waiting : waiting[i] \in Workers /\ waiting[i] # w
        BY <2>1 DEF WorkType, WaitFits
      <4> QED
        BY <3>1, <3>3, <4>1 DEF WaitFits
    <3> QED
      BY <2>1, <2>5, <2>6, <3>2, <3>3, <3>4, WorkerSteps, TypeParts DEF WorkInv
  <2>8. CASE handing = << >>
    <3>1. waiting' = Append(waiting, w) /\ work' = Moved(work, w, "wait")
          /\ UNCHANGED <<readers, handing>>
      BY <1>3, <2>8 DEF RecordAndWait
    <3>2. WorkInv'
      BY <1>0, <2>1, <3>1, WaitingJoined
    <3>3. \A v \in Workers : v # w => work'[v] = work[v]
      BY <3>1 DEF WorkType, Moved
    <3>4. LoopType'
      BY <3>1, SameType
    <3> QED
      BY <2>1, <2>5, <2>6, <3>2, <3>3, <3>4, WorkerSteps, TypeParts
  <2> QED
    BY <2>7, <2>8
<1>4. CASE AbortRun(w)
  <2>1. /\ work[w].at = "reset" /\ work' = Moved(work, w, "gone") /\ Reset
        /\ UNCHANGED <<waiting, readers, handing, lastTx, resets, onuVars, boundVars>>
    BY <1>4 DEF AbortRun
  <2>2. WorkInv'
    BY <1>0, <2>1, MoveOne
  <2>3. \A v \in Workers : work'[v].at # "off" => work[v].at # "off"
    BY <2>1 DEF WorkType, Moved
  <2>4. /\ FsmInv' /\ BeginFits'
        /\ commChan' \in Seq(RequestSet \cup {Abort}) /\ restarts' \in Nat
    BY <2>1, <2>3, ResetType
  <2>5. LoopType'
    BY <2>1, SameType
  <2>6. ChannelType'
    BY <2>1, <2>4 DEF ChannelType, onuVars
  <2>7. CountType'
    BY <2>1, <2>4 DEF CountType, boundVars
  <2> QED
    BY <2>2, <2>4, <2>5, <2>6, <2>7, TypeParts
<1>5. CASE EndLoop(w)
  <2> DEFINE ws == Moved(work, w, "gone")
  <2>1. /\ work[w].at = "next" /\ Advance(w[2], ws)
        /\ UNCHANGED <<run, slice, unusable, prep, waiting, readers, handing, commChan,
                       lastTx, restarts, acked, boundVars>>
    BY <1>5 DEF EndLoop
  <2>2. /\ ws \in [Workers -> [at : {"off", "begin", "send", "record", "wait", "reset",
                                     "next", "gone"},
                               todo : Seq(Gems)]]
        /\ \A v \in Workers : ws[v] # work[v] => /\ ws[v].at = "gone"
                                                 /\ work[v].at \notin {"off", "wait"}
    BY <2>1 DEF WorkType, Moved
  <2> HIDE DEF ws
  <2>3. /\ FsmInv' /\ WorkInv' /\ BeginFits'
        /\ open' \subseteq RequestSet /\ resets' \in Nat
    BY <1>0, <2>1, <2>2, AdvanceType DEF FsmType
  <2>4. LoopType'
    BY <2>1, SameType
  <2>5. ChannelType'
    BY <2>1, <2>3 DEF ChannelType
  <2>6. CountType'
    BY <2>1, <2>3 DEF CountType, boundVars
  <2> QED
    BY <2>3, <2>4, <2>5, <2>6, TypeParts
<1>6. CASE TimeOut(w)
  <2>1. PICK i \in DOMAIN waiting : waiting[i] = w /\ waiting' = WaitingBut(i)
    BY <1>6 DEF TimeOut
  <2>2. work[w].at = "wait" /\ work' = Moved(work, w, "reset") /\ UNCHANGED fsmVars
    BY <1>6 DEF TimeOut
  <2>3. WorkInv'
    BY <1>0, <2>1, <2>2, WaitingGivenUp
  <2>4. \A v \in Workers : v # w => work'[v] = work[v]
    BY <2>2 DEF WorkType, Moved
  <2>5. LoopType' /\ ChannelType'
    BY <1>6, SameType DEF TimeOut, onuVars
  <2>6. timeouts' \in Nat
    BY <1>6 DEF TimeOut, CountType
  <2>7. CountType'
    BY <1>6, <2>6 DEF TimeOut, CountType
  <2> QED
    BY <2>2, <2>3, <2>4, <2>5, <2>7, WorkerSteps, TypeParts
<1> QED
  BY <1>1, <1>2, <1>3, <1>4, <1>5, <1>6 DEF Worker

\* The end of a run.
LEMMA EndType ==
  ASSUME TypeInv, PostedReset \/ PostedRestart \/ \E r \in Runs : ResetFromOutside(r)
  PROVE  TypeInv'
<1> USE DEF TypeInv, TypeOK
<1>1. CASE PostedReset
  <2>1. Reset /\ resets' \in Nat /\ UNCHANGED <<loopVars, lastTx, onuVars, boundVars>>
    BY <1>1 DEF PostedReset, CountType
  <2>2. /\ FsmInv' /\ BeginFits'
        /\ commChan' \in Seq(RequestSet \cup {Abort}) /\ restarts' \in Nat
    BY <2>1, ResetType DEF loopVars
  <2>3. WorkInv' /\ LoopType'
    BY <2>1, SameType DEF WorkInv, loopVars
  <2>4. ChannelType'
    BY <2>1, <2>2 DEF ChannelType, onuVars
  <2>5. CountType'
    BY <2>1, <2>2 DEF CountType, boundVars
  <2> QED
    BY <2>2, <2>3, <2>4, <2>5, TypeParts
<1>2. CASE PostedRestart
  <2>0. restarts' \in Nat
    <3>1. restarts \in Nat /\ restarts > 0 /\ restarts' = restarts - 1
      BY <1>2 DEF PostedRestart, CountType
    <3> QED
      BY <3>1
  <2>1. /\ UNCHANGED <<run, slice, unusable, prep, callback, loopVars, commChan, lastTx,
                       resets, onuVars, boundVars>>
        /\ \/ state = "resetting" /\ state' = "disabled" /\ completed' = FALSE
           \/ UNCHANGED <<state, completed>>
    BY <1>2 DEF PostedRestart
  <2>2. FsmInv'
    BY <2>1 DEF FsmInv, FsmType, RunFits
  <2>3. BeginFits'
    BY <2>1, NoneBegins DEF loopVars
  <2>4. WorkInv' /\ LoopType' /\ ChannelType'
    BY <2>1, SameType DEF WorkInv, loopVars, onuVars
  <2>5. CountType'
    BY <2>0, <2>1 DEF CountType, boundVars
  <2> QED
    BY <2>2, <2>3, <2>4, <2>5, TypeParts
<1>3. ASSUME NEW r \in Runs, ResetFromOutside(r) PROVE TypeInv'
  <2>1. Reset /\ UNCHANGED <<loopVars, lastTx, resets, onuVars, timeouts, missed>>
        /\ expired' = expired \cup {r}
    BY <1>3 DEF ResetFromOutside
  <2>2. /\ FsmInv' /\ BeginFits'
        /\ commChan' \in Seq(RequestSet \cup {Abort}) /\ restarts' \in Nat
    BY <2>1, ResetType DEF loopVars
  <2>3. WorkInv' /\ LoopType'
    BY <2>1, SameType DEF WorkInv, loopVars
  <2>4. ChannelType'
    BY <2>1, <2>2 DEF ChannelType, onuVars
  <2>5. CountType'
    BY <2>1, <2>2 DEF CountType
  <2> QED
    BY <2>2, <2>3, <2>4, <2>5, TypeParts
<1> QED
  BY <1>1, <1>2, <1>3

LEMMA TypeStep == TypeInv /\ [Next]_vars => TypeInv'
<1> SUFFICES ASSUME TypeInv, [Next]_vars PROVE TypeInv'
  OBVIOUS
<1>1. CASE UNCHANGED vars
  <2>1. FsmInv' /\ WorkInv' /\ BeginFits'
    BY <1>1, StillFits DEF vars, loopVars
  <2>2. LoopType' /\ ChannelType' /\ CountType'
    BY <1>1, SameType DEF vars, loopVars, onuVars, TypeInv, TypeOK
  <2> QED
    BY <2>1, <2>2, TypeParts
<1> QED
  BY <1>1, StartType, AnswerType, FillType, StartConfigType, MessageLoopType, WorkerType,
     RecordedType, EndType
     DEF Next, RunSteps, MachineSteps

(* The fields, channels and goroutines keep their types for any number of  *)
(* runs and GEM ports: a goroutine that sends or waits has an entity left, *)
(* the queue of the waiting holds nobody twice, however waits time out and *)
(* runs are reset, and none of the goroutines is started twice in a run.   *)
THEOREM TypeCorrect == Spec => []TypeOK
<1>1. TypeInv => TypeOK
  BY DEF TypeInv
<1> QED
  BY <1>1, InitType, TypeStep, PTL DEF Spec

-----------------------------------------------------------------------------
(* The message loops and the abort messages.                               *)

\* Those blocked in the hand-over are blocked, and are there once.
HandFits ==
    /\ \A i \in DOMAIN handing : readers[handing[i]] = "hand"
    /\ \A i, j \in DOMAIN handing : handing[i] = handing[j] => i = j

\* The loops of the runs to come have not been started.
LoopsToCome == \A r \in Runs : r > run => readers[r] = "off"

LoopInv == HandFits /\ LoopsToCome /\ EveryLoopIsEnded

\* The places of a sequence that hold something of S.
Places(q, S) == {i \in DOMAIN q : q[i] \in S}

LEMMA PlacesFinite ==
  ASSUME NEW T, NEW q \in Seq(T), NEW S
  PROVE  IsFiniteSet(Places(q, S)) /\ Cardinality(Places(q, S)) \in Nat
<1>1. Len(q) \in Nat /\ DOMAIN q = 1 .. Len(q)
  OBVIOUS
<1>2. IsFiniteSet(1 .. Len(q))
  BY <1>1, FS_Interval
<1>3. Places(q, S) \in SUBSET (1 .. Len(q))
  BY <1>1 DEF Places
<1> QED
  BY <1>2, <1>3, FS_Subset, FS_CardinalityType

LEMMA OneMorePlace ==
  ASSUME NEW T, NEW q \in Seq(T), NEW S, NEW m \in T
  PROVE  /\ m \in S => Cardinality(Places(Append(q, m), S)) = Cardinality(Places(q, S)) + 1
         /\ m \notin S => Cardinality(Places(Append(q, m), S)) = Cardinality(Places(q, S))
<1> DEFINE n == Len(q) + 1
           p == Append(q, m)
<1>1. /\ n \in Nat /\ DOMAIN q = 1 .. n - 1 /\ DOMAIN p = 1 .. n /\ p[n] = m
      /\ \A i \in DOMAIN q : p[i] = q[i]
  OBVIOUS
<1> HIDE DEF p
<1>2. n \notin Places(q, S)
  BY <1>1 DEF Places
<1>3. IsFiniteSet(Places(q, S)) /\ Cardinality(Places(q, S)) \in Nat
  BY PlacesFinite
<1>4. CASE m \in S
  <2>1. Places(p, S) = Places(q, S) \cup {n}
    BY <1>1, <1>4 DEF Places
  <2> QED
    BY <1>2, <1>3, <1>4, <2>1, FS_AddElement DEF p
<1>5. CASE m \notin S
  <2>1. Places(p, S) = Places(q, S)
    BY <1>1, <1>5 DEF Places
  <2> QED
    BY <1>3, <1>5, <2>1 DEF p
<1> QED
  BY <1>4, <1>5 DEF p

LEMMA OnePlaceLess ==
  ASSUME NEW T, NEW q \in Seq(T), NEW S, q # << >>, NEW p, p = Tail(q)
  PROVE  Cardinality(Places(p, S)) = Cardinality(Places(q, S)) - (IF Head(q) \in S THEN 1 ELSE 0)
<1> DEFINE later == Places(q, S) \ {1}
           back == [i \in Places(p, S) |-> i + 1]
<1>1. /\ Len(q) \in Nat \ {0} /\ DOMAIN q = 1 .. Len(q) /\ DOMAIN p = 1 .. Len(q) - 1
      /\ \A i \in DOMAIN p : p[i] = q[i + 1]
      /\ Head(q) = q[1]
  OBVIOUS
<1>2. \A i \in Places(p, S) : i \in Nat /\ i + 1 \in later
  BY <1>1 DEF Places
<1>3. \A j \in later : j - 1 \in Places(p, S) /\ (j - 1) + 1 = j
  BY <1>1 DEF Places
<1>4. back \in Bijection(Places(p, S), later)
  <2>1. back \in [Places(p, S) -> later]
    BY <1>2
  <2>2. \A i, j \in Places(p, S) : back[i] = back[j] => i = j
    BY <1>2
  <2>3. \A j \in later : \E i \in Places(p, S) : back[i] = j
    BY <1>3
  <2> HIDE DEF back, later
  <2> QED
    BY <2>1, <2>2, <2>3 DEF Bijection, Injection, Surjection, IsInjective
<1>5. p \in Seq(T)
  OBVIOUS
<1>6. IsFiniteSet(Places(p, S))
  BY <1>5, PlacesFinite
<1>7. Cardinality(Places(p, S)) = Cardinality(later)
  BY <1>4, <1>6, FS_Bijection DEF ExistsBijection
<1>8. 1 \in Places(q, S) <=> Head(q) \in S
  BY <1>1 DEF Places
<1>9. IsFiniteSet(Places(q, S)) /\ Cardinality(Places(q, S)) \in Nat
  BY PlacesFinite
<1>10. Cardinality(later) = IF 1 \in Places(q, S) THEN Cardinality(Places(q, S)) - 1
                                                  ELSE Cardinality(Places(q, S))
  BY <1>9, FS_RemoveElement
<1> QED
  BY <1>7, <1>8, <1>9, <1>10

LEMMA AbortPlaces == Aborts = Places(commChan, {Abort}) /\ Aborts' = Places(commChan', {Abort})
  BY DEF Aborts, Places

LEMMA AbortsFinite ==
  ASSUME ChannelType
  PROVE  IsFiniteSet(Aborts) /\ Cardinality(Aborts) \in Nat
  BY AbortPlaces, PlacesFinite DEF ChannelType

LEMMA AbortSent ==
  ASSUME ChannelType, NEW m \in RequestSet \cup {Abort}, commChan' = Append(commChan, m)
  PROVE  Cardinality(Aborts') = Cardinality(Aborts) + (IF m = Abort THEN 1 ELSE 0)
<1>1. commChan \in Seq(RequestSet \cup {Abort})
  BY DEF ChannelType
<1>2. CASE m = Abort
  <2>1. m \in {Abort}
    BY <1>2
  <2>2. Cardinality(Places(commChan', {Abort})) = Cardinality(Places(commChan, {Abort})) + 1
    BY <1>1, <2>1, OneMorePlace
  <2>3. Cardinality(Aborts') = Cardinality(Aborts) + 1
    BY <2>2, AbortPlaces
  <2> QED
    BY <1>2, <2>3
<1>3. CASE m # Abort
  <2> DEFINE A == {Abort}
  <2>1. m \notin A
    BY <1>3
  <2> HIDE DEF A
  <2>2. Cardinality(Places(commChan', A)) = Cardinality(Places(commChan, A))
    BY <1>1, <2>1, OneMorePlace
  <2>3. Cardinality(Aborts) \in Nat
    BY AbortsFinite
  <2>4. Cardinality(Aborts') = Cardinality(Aborts)
    BY <2>2, AbortPlaces DEF A
  <2> QED
    BY <1>3, <2>3, <2>4
<1> QED
  BY <1>2, <1>3

LEMMA AbortTaken ==
  ASSUME ChannelType, commChan # << >>, commChan' = Tail(commChan)
  PROVE  Cardinality(Aborts') = Cardinality(Aborts) - (IF Head(commChan) = Abort THEN 1 ELSE 0)
<1>1. commChan \in Seq(RequestSet \cup {Abort})
  BY DEF ChannelType
<1>2. Cardinality(Aborts') = Cardinality(Aborts) - (IF Head(commChan) \in {Abort} THEN 1 ELSE 0)
  BY <1>1, AbortPlaces, OnePlaceLess
<1> QED
  BY <1>2

LEMMA LiveFinite == IsFiniteSet(Live) /\ Cardinality(Live) \in Nat
<1>1. IsFiniteSet(Runs)
  BY AniAssumption, FS_Interval DEF Runs
<1>2. Live \in SUBSET Runs
  BY DEF Live
<1> QED
  BY <1>1, <1>2, FS_Subset, FS_CardinalityType

\* Steps that neither start nor end a loop, and neither end nor reset a run.
LEMMA LoopsGoOn ==
  ASSUME EveryLoopIsEnded, state' \in Running <=> state \in Running,
         \A n \in Runs : readers'[n] \in {"off", "gone"} <=> readers[n] \in {"off", "gone"},
         Cardinality(Aborts') = Cardinality(Aborts)
  PROVE  EveryLoopIsEnded'
<1>1. Live' = Live
  BY DEF Live
<1> QED
  BY <1>1 DEF EveryLoopIsEnded

\* The number of loops at work when a step has started or ended one.
LEMMA LoopStarted ==
  ASSUME TypeInv, LoopsToCome, Start
  PROVE  Cardinality(Live') = Cardinality(Live) + 1
<1>1. run + 1 \in Runs /\ run + 1 > run
  BY AniAssumption DEF Start, TypeInv, TypeOK, FsmType, Runs
<1>2. readers[run + 1] = "off" /\ readers' = [readers EXCEPT ![run + 1] = "read"]
  BY <1>1 DEF LoopsToCome, Start
<1>3. Live' = Live \cup {run + 1} /\ run + 1 \notin Live
  BY <1>1, <1>2 DEF Live, TypeInv, TypeOK, LoopType
<1> QED
  BY <1>3, LiveFinite, FS_AddElement

LEMMA LoopEnded ==
  ASSUME TypeInv, NEW n \in Runs, readers[n] = "read", readers' = [readers EXCEPT ![n] = "gone"]
  PROVE  Cardinality(Live') = Cardinality(Live) - 1
<1>1. Live' = Live \ {n} /\ n \in Live
  BY DEF Live, TypeInv, TypeOK, LoopType
<1> QED
  BY <1>1, LiveFinite, FS_RemoveElement

LEMMA StartLoops == ASSUME TypeInv, LoopInv, Start PROVE LoopInv'
<1> USE DEF LoopInv
<1>1. /\ run \in Nat /\ run + 1 \in Runs
      /\ readers' = [readers EXCEPT ![run + 1] = "read"] /\ run' = run + 1 /\ handing' = handing
      /\ commChan' = commChan /\ state = "disabled" /\ state' = "starting"
  BY AniAssumption DEF Start, TypeInv, TypeOK, FsmType, Runs
<1>2. readers \in [Runs -> {"off", "read", "hand", "callback", "gone"} \cup Simple]
  BY DEF TypeInv, TypeOK, LoopType
<1>3. HandFits'
  <2>1. readers[run + 1] # "hand"
    BY <1>1 DEF LoopsToCome
  <2> QED
    BY <1>1, <1>2, <2>1 DEF HandFits, TypeInv, TypeOK, LoopType
<1>4. LoopsToCome'
  BY <1>1, <1>2 DEF LoopsToCome, Runs
<1>5. EveryLoopIsEnded'
  <2>1. Cardinality(Aborts') = Cardinality(Aborts)
    BY <1>1 DEF Aborts
  <2>2. state \notin Running /\ state' \in Running
    BY <1>1 DEF Running, Steps, Simple, Multi
  <2>3. Cardinality(Aborts) \in Nat
    BY AbortsFinite DEF TypeInv, TypeOK
  <2> QED
    BY <2>1, <2>2, <2>3, LoopStarted, LiveFinite DEF EveryLoopIsEnded
<1> QED
  BY <1>3, <1>4, <1>5

LEMMA ResetLoops ==
  ASSUME TypeInv, LoopInv, Reset, UNCHANGED <<readers, handing>>
  PROVE  LoopInv'
<1> USE DEF LoopInv
<1>1. HandFits' /\ LoopsToCome'
  BY DEF HandFits, LoopsToCome, Reset
<1>2. Live' = Live
  BY DEF Live
<1>3. Cardinality(Aborts) \in Nat /\ ChannelType
  BY AbortsFinite DEF TypeInv, TypeOK
<1>4. CASE state \in Running
  <2>1. state' \notin Running
    BY <1>4 DEF Reset, Running, Steps, Simple, Multi
  <2>2. Cardinality(Aborts') = Cardinality(Aborts) + 1
    BY <1>3, <1>4, AbortSent DEF Reset
  <2> QED
    BY <1>1, <1>2, <1>3, <1>4, <2>1, <2>2 DEF EveryLoopIsEnded
<1>5. CASE state \notin Running
  BY <1>1, <1>2, <1>5 DEF EveryLoopIsEnded, Reset, Aborts
<1> QED
  BY <1>4, <1>5

LEMMA AdvanceStays ==
  ASSUME NEW s \in Steps \cup {"starting"}, NEW ws, Advance(s, ws)
  PROVE  state' \in Running <=> state \in Running
  BY FollowType DEF Advance, Running

\* Steps that leave the loops as they are.
LEMMA CalmLoops ==
  ASSUME LoopInv, UNCHANGED <<run, readers, handing>>,
         state' \in Running <=> state \in Running,
         Cardinality(Aborts') = Cardinality(Aborts)
  PROVE  LoopInv'
<1>1. HandFits' /\ LoopsToCome'
  BY DEF LoopInv, HandFits, LoopsToCome
<1> QED
  BY <1>1, LoopsGoOn DEF LoopInv

\* A loop goes from one place to another.
LEMMA LoopMoves ==
  ASSUME TypeInv, LoopInv, NEW n \in Runs, NEW p, p \notin {"off", "gone", "hand"},
         readers[n] \notin {"off", "gone", "hand"},
         readers' = [readers EXCEPT ![n] = p], UNCHANGED <<run, handing>>,
         state' \in Running <=> state \in Running,
         Cardinality(Aborts') = Cardinality(Aborts)
  PROVE  LoopInv'
<1>1. readers \in [Runs -> {"off", "read", "hand", "callback", "gone"} \cup Simple]
      /\ handing \in Seq(Runs)
  BY DEF TypeInv, TypeOK, LoopType
<1>2. HandFits'
  BY <1>1 DEF LoopInv, HandFits
<1>3. LoopsToCome'
  BY <1>1 DEF LoopInv, LoopsToCome
<1>4. EveryLoopIsEnded'
  BY <1>1, LoopsGoOn DEF LoopInv
<1> QED
  BY <1>2, <1>3, <1>4 DEF LoopInv

LEMMA MessageLoops == ASSUME TypeInv, LoopInv, NEW n \in Runs, MessageLoop(n) PROVE LoopInv'
<1>1. /\ readers \in [Runs -> {"off", "read", "hand", "callback", "gone"} \cup Simple]
      /\ handing \in Seq(Runs) /\ ChannelType /\ acked \subseteq RequestSet
      /\ Cardinality(Aborts) \in Nat
  BY AbortsFinite DEF TypeInv, TypeOK, LoopType, ChannelType
<1>2. ASSUME NEW m \in acked, Receives(n, m)
      PROVE  Cardinality(Aborts') = Cardinality(Aborts)
  <2>1. m # Abort
    BY <1>1, AbortIsNoRequest
  <2> QED
    BY <1>1, <1>2, <2>1, AbortTaken DEF Receives
<1>3. CASE ReadAbort(n)
  <2>1. /\ readers[n] = "read" /\ readers' = [readers EXCEPT ![n] = "gone"]
        /\ UNCHANGED <<handing, run, state>>
    BY <1>3 DEF ReadAbort, Receives, fsmVars
  <2>2. Cardinality(Live') = Cardinality(Live) - 1
    BY <2>1, LoopEnded
  <2>3. Cardinality(Aborts') = Cardinality(Aborts) - 1
    BY <1>1, <1>3, AbortTaken DEF ReadAbort, Receives
  <2>4. EveryLoopIsEnded'
    BY <1>1, <2>1, <2>2, <2>3, LiveFinite DEF LoopInv, EveryLoopIsEnded
  <2>5. HandFits'
    BY <1>1, <2>1 DEF LoopInv, HandFits
  <2>6. LoopsToCome'
    BY <1>1, <2>1 DEF LoopInv, LoopsToCome
  <2> QED
    BY <2>4, <2>5, <2>6 DEF LoopInv
<1>4. CASE ReadUnexpected(n)
  BY <1>2, <1>4, CalmLoops DEF ReadUnexpected, Receives, fsmVars, loopVars
<1>5. CASE ReadSimple(n)
  <2>1. PICK m \in acked : Receives(n, m) /\ m.step \in Simple
                           /\ readers' = [readers EXCEPT ![n] = m.step]
    BY <1>5 DEF ReadSimple
  <2>2. m.step \notin {"off", "gone", "hand"}
    BY <2>1 DEF Simple
  <2>3. readers[n] = "read" /\ UNCHANGED <<run, state, handing>>
    BY <1>5, <2>1 DEF Receives, fsmVars, ReadSimple
  <2> QED
    BY <1>2, <2>1, <2>2, <2>3, LoopMoves
<1>6. CASE ReadMulti(n)
  <2>1. PICK m \in acked : Receives(n, m)
    BY <1>6 DEF ReadMulti
  <2>2. readers[n] = "read" /\ UNCHANGED <<run, state>>
    BY <2>1 DEF Receives, fsmVars
  <2>3. Cardinality(Aborts') = Cardinality(Aborts)
    BY <1>2, <2>1
  <2>4. CASE waiting # << >>
    BY <1>6, <2>2, <2>3, <2>4, CalmLoops DEF ReadMulti
  <2>5. CASE waiting = << >>
    <3>1. handing' = Append(handing, n) /\ readers' = [readers EXCEPT ![n] = "hand"]
      BY <1>6, <2>5 DEF ReadMulti
    <3>2. /\ Len(handing) \in Nat /\ DOMAIN handing = 1 .. Len(handing)
          /\ DOMAIN handing' = 1 .. Len(handing) + 1
          /\ handing'[Len(handing) + 1] = n
          /\ \A i \in DOMAIN handing : handing'[i] = handing[i] /\ handing[i] \in Runs
      BY <1>1, <3>1
    <3>3. \A i \in DOMAIN handing : handing[i] # n
      BY <2>2 DEF LoopInv, HandFits
    <3>4. readers'[n] = "hand" /\ \A r \in Runs : r # n => readers'[r] = readers[r]
      BY <1>1, <3>1
    <3>5. \A i \in DOMAIN handing' : i \in DOMAIN handing \/ i = Len(handing) + 1
      BY <3>2
    <3>6. \A i \in DOMAIN handing' : readers'[handing'[i]] = "hand"
      BY <3>2, <3>3, <3>4, <3>5 DEF LoopInv, HandFits
    <3>7. \A i, j \in DOMAIN handing' : handing'[i] = handing'[j] => i = j
      BY <3>2, <3>3, <3>5 DEF LoopInv, HandFits
    <3>8. LoopsToCome'
      BY <2>2, <3>4 DEF LoopInv, LoopsToCome
    <3>9. EveryLoopIsEnded'
      BY <2>2, <2>3, <3>4, LoopsGoOn DEF LoopInv
    <3> QED
      BY <3>6, <3>7, <3>8, <3>9 DEF LoopInv, HandFits
  <2> QED
    BY <2>4, <2>5
<1>7. CASE PostEvent(n)
  <2> DEFINE p == IF callback' = None THEN "read" ELSE "callback"
  <2>1. /\ readers[n] \in Simple /\ Advance(readers[n], work)
        /\ readers' = [readers EXCEPT ![n] = p]
        /\ UNCHANGED <<run, handing, commChan>>
    BY <1>7 DEF PostEvent
  <2>2. state' \in Running <=> state \in Running
    BY <2>1, AdvanceStays DEF Steps
  <2>3. Cardinality(Aborts') = Cardinality(Aborts)
    BY <2>1 DEF Aborts
  <2>4. p \notin {"off", "gone", "hand"} /\ readers[n] \notin {"off", "gone", "hand"}
    BY <2>1 DEF Simple
  <2> HIDE DEF p
  <2> QED
    BY <2>1, <2>2, <2>3, <2>4, LoopMoves
<1> QED
  BY <1>3, <1>4, <1>5, <1>6, <1>7 DEF MessageLoop

LEMMA WorkerLoops ==
  ASSUME TypeInv, LoopInv, NEW w \in Workers, Worker(w) \/ TimeOut(w)
  PROVE  LoopInv'
<1>1. CASE Begin(w) \/ Send(w) \/ TimeOut(w)
  BY <1>1, CalmLoops DEF Begin, Send, TimeOut, fsmVars, Aborts
<1>2. CASE RecordAndWait(w)
  <2>1. UNCHANGED <<run, state, commChan>>
    BY <1>2 DEF RecordAndWait, fsmVars
  <2>2. Cardinality(Aborts') = Cardinality(Aborts)
    BY <2>1 DEF Aborts
  <2>3. CASE handing = << >>
    BY <1>2, <2>1, <2>2, <2>3, CalmLoops DEF RecordAndWait
  <2>4. CASE handing # << >>
    <3> DEFINE n == Head(handing)
    <3>0. handing' = Tail(handing) /\ readers' = [readers EXCEPT ![n] = "read"]
      BY <1>2, <2>4 DEF RecordAndWait
    <3>1. /\ readers \in [Runs -> {"off", "read", "hand", "callback", "gone"} \cup Simple]
          /\ handing \in Seq(Runs)
      BY DEF TypeInv, TypeOK, LoopType
    <3>2. /\ Len(handing) \in Nat \ {0} /\ DOMAIN handing = 1 .. Len(handing)
          /\ n = handing[1] /\ n \in Runs
          /\ \A i \in DOMAIN handing : handing[i] \in Runs
          /\ \A i \in DOMAIN handing' : /\ i \in Nat \ {0} /\ i + 1 \in DOMAIN handing
                                        /\ handing'[i] = handing[i + 1]
      BY <2>4, <3>0, <3>1
    <3>3. readers[n] = "hand"
      BY <3>2 DEF LoopInv, HandFits
    <3>4. readers'[n] = "read" /\ \A r \in Runs : r # n => readers'[r] = readers[r]
      BY <3>0, <3>1, <3>2
    <3>5. \A i \in DOMAIN handing' : readers'[handing'[i]] = "hand"
      <4>1. TAKE i \in DOMAIN handing'
      <4>2. i + 1 # 1 /\ i + 1 \in DOMAIN handing /\ 1 \in DOMAIN handing
        BY <3>2
      <4>3. handing[i + 1] # n
        BY <3>2, <4>2 DEF LoopInv, HandFits
      <4> QED
        BY <3>2, <3>4, <4>2, <4>3 DEF LoopInv, HandFits
    <3>6. \A i, j \in DOMAIN handing' : handing'[i] = handing'[j] => i = j
      <4>1. TAKE i, j \in DOMAIN handing'
      <4>2. handing'[i] = handing'[j] => i + 1 = j + 1
        BY <3>2 DEF LoopInv, HandFits
      <4> QED
        BY <3>2, <4>2
    <3>7. LoopsToCome'
      BY <2>1, <3>2, <3>3, <3>4 DEF LoopInv, LoopsToCome
    <3>8. EveryLoopIsEnded'
      BY <2>1, <2>2, <3>3, <3>4, LoopsGoOn DEF LoopInv
    <3> QED
      BY <3>5, <3>6, <3>7, <3>8 DEF LoopInv, HandFits
  <2> QED
    BY <2>3, <2>4
<1>3. CASE AbortRun(w)
  BY <1>3, ResetLoops DEF AbortRun
<1>4. CASE EndLoop(w)
  <2>1. w[2] \in Steps
    BY DEF Workers, Steps
  <2>2. Advance(w[2], Moved(work, w, "gone"))
    BY <1>4 DEF EndLoop
  <2>3. state' \in Running <=> state \in Running
    BY <2>1, <2>2, AdvanceStays
  <2> QED
    BY <1>4, <2>3, CalmLoops DEF EndLoop, Aborts
<1> QED
  BY <1>1, <1>2, <1>3, <1>4 DEF Worker

LEMMA LoopStep == ASSUME TypeInv, LoopInv, [Next]_vars PROVE LoopInv'
<1>1. CASE Start
  BY <1>1, StartLoops
<1>2. ASSUME NEW q \in open, Answer(q) PROVE LoopInv'
  <2>1. ChannelType /\ q \in RequestSet /\ Cardinality(Aborts) \in Nat
    BY AbortsFinite DEF TypeInv, TypeOK, ChannelType
  <2>2. Cardinality(Aborts') = Cardinality(Aborts)
    BY <1>2, <2>1, AbortSent, AbortIsNoRequest DEF Answer
  <2> QED
    BY <1>2, <2>2, CalmLoops DEF Answer, fsmVars, loopVars
<1>3. ASSUME NEW r \in Runs, RunSteps(r) PROVE LoopInv'
  <2>1. CASE Fill(r)
    BY <2>1, CalmLoops DEF Fill, loopVars, Aborts
  <2>2. CASE StartConfig(r)
    <3>1. state' \in Running <=> state \in Running
      BY <2>2, AdvanceStays DEF StartConfig
    <3> QED
      BY <2>2, <3>1, CalmLoops DEF StartConfig, Aborts
  <2> QED
    BY <1>3, <2>1, <2>2 DEF RunSteps
<1>4. ASSUME NEW r \in Runs, ResetFromOutside(r) PROVE LoopInv'
  BY <1>4, ResetLoops DEF ResetFromOutside, loopVars
<1>5. CASE Recorded
  <2>1. UNCHANGED <<run, state, commChan, handing>>
        /\ readers' = [r \in Runs |-> IF readers[r] = "callback" THEN "read" ELSE readers[r]]
    BY <1>5 DEF Recorded
  <2>2. HandFits'
    BY <2>1 DEF LoopInv, HandFits, TypeInv, TypeOK, LoopType
  <2>3. LoopsToCome'
    BY <2>1 DEF LoopInv, LoopsToCome
  <2>4. EveryLoopIsEnded'
    BY <2>1, LoopsGoOn DEF LoopInv, Aborts
  <2> QED
    BY <2>2, <2>3, <2>4 DEF LoopInv
<1>6. CASE PostedReset
  BY <1>6, ResetLoops DEF PostedReset, loopVars
<1>7. CASE PostedRestart
  <2>1. state' \in Running <=> state \in Running
    BY <1>7 DEF PostedRestart, Running, Steps, Simple, Multi
  <2> QED
    BY <1>7, <2>1, CalmLoops DEF PostedRestart, loopVars, Aborts
<1>8. CASE UNCHANGED vars
  BY <1>8, CalmLoops DEF vars, fsmVars, loopVars, Aborts
<1> QED
  BY <1>1, <1>2, <1>3, <1>4, <1>5, <1>6, <1>7, <1>8, MessageLoops, WorkerLoops
     DEF Next, MachineSteps

LEMMA InitLoops == Init => LoopInv
<1> SUFFICES ASSUME Init PROVE LoopInv
  OBVIOUS
<1>1. HandFits /\ LoopsToCome
  BY DEF Init, HandFits, LoopsToCome
<1>2. Live = {} /\ Aborts = {}
  BY DEF Init, Live, Aborts
<1>3. state \notin Running
  BY DEF Init, Running, Steps, Simple, Multi
<1> QED
  BY <1>1, <1>2, <1>3, FS_EmptySet DEF LoopInv, EveryLoopIsEnded

(* enterConfigStartingState starts a message loop, enterResettingState     *)
(* sends it the abort message: however resets, time-outs and runs          *)
(* interleave, the loops at work are the one of the run under way and one  *)
(* for each abort message that has not been read.                          *)
THEOREM LoopsAreEnded == Spec => []EveryLoopIsEnded
<1>1. TypeInv /\ LoopInv /\ [Next]_vars => TypeInv' /\ LoopInv'
  BY TypeStep, LoopStep
<1>2. LoopInv => EveryLoopIsEnded
  BY DEF LoopInv
<1> QED
  BY <1>1, <1>2, InitType, InitLoops, PTL DEF Spec

-----------------------------------------------------------------------------
(* The responses the goroutines wait for.                                  *)

\* Responses to the requests of the states with several entities.
Several == {q \in RequestSet : q.step \in Multi}

\* Goroutines that have sent a request and have not heard of it.
Owing == {w \in Workers : work[w].at \in {"record", "wait"}}

\* A loop is blocked only while nobody waits.
OneSideWaits == handing # << >> => waiting = << >>
Queued == \A w \in Workers : work[w].at = "wait" => \E i \in DOMAIN waiting : waiting[i] = w

\* Each request on its way, response on its way and response in the hands of
\* a loop has a goroutine of its own.
EachHasItsOwn ==
    Cardinality(open \cap Several) + Cardinality(Places(commChan, Several)) + Len(handing)
        <= Cardinality(Owing)

HeardInv == OneSideWaits /\ Queued /\ EachHasItsOwn
OwingInv == IsFiniteSet(open) /\ (timeouts = 0 => HeardInv)

LEMMA OwingFinite == IsFiniteSet(Owing) /\ Cardinality(Owing) \in Nat
<1>1. IsFiniteSet(Runs)
  BY AniAssumption, FS_Interval DEF Runs
<1>2. IsFiniteSet(Multi)
  <2>1. IsFiniteSet({"creatingGemNCTPs"} \cup {"creatingGemIWs"})
    BY FS_Singleton, FS_AddElement
  <2>2. IsFiniteSet(({"creatingGemNCTPs"} \cup {"creatingGemIWs"}) \cup {"settingPQs"})
    BY <2>1, FS_AddElement
  <2>3. Multi = ({"creatingGemNCTPs"} \cup {"creatingGemIWs"}) \cup {"settingPQs"}
    BY DEF Multi
  <2> QED
    BY <2>2, <2>3
<1>3. IsFiniteSet(Workers)
  BY <1>1, <1>2, FS_Product DEF Workers
<1>4. Owing \in SUBSET Workers
  BY DEF Owing
<1> QED
  BY <1>3, <1>4, FS_Subset, FS_CardinalityType

LEMMA AskedFinite ==
  ASSUME IsFiniteSet(open)
  PROVE  IsFiniteSet(open \cap Several) /\ Cardinality(open \cap Several) \in Nat
<1>1. open \cap Several \in SUBSET open
  OBVIOUS
<1> QED
  BY <1>1, FS_Subset, FS_CardinalityType

\* The counts are numbers.
LEMMA Counts ==
  ASSUME TypeInv, IsFiniteSet(open)
  PROVE  /\ Cardinality(open \cap Several) \in Nat
         /\ Cardinality(Places(commChan, Several)) \in Nat
         /\ Len(handing) \in Nat
         /\ Cardinality(Owing) \in Nat
<1>1. commChan \in Seq(RequestSet \cup {Abort}) /\ handing \in Seq(Runs)
  BY DEF TypeInv, TypeOK, ChannelType, LoopType
<1> QED
  BY <1>1, AskedFinite, PlacesFinite, OwingFinite

\* Steps that ask for nothing of several entities and hand nothing over.
LEMMA CalmOwing ==
  ASSUME TypeInv, TypeInv', OwingInv, UNCHANGED <<waiting, handing, timeouts>>,
         \A w \in Workers : work'[w].at = "wait" <=> work[w].at = "wait",
         \A w \in Workers : work'[w].at = "record" <=> work[w].at = "record",
         IsFiniteSet(open'), open' \cap Several = open \cap Several,
         Cardinality(Places(commChan', Several)) <= Cardinality(Places(commChan, Several))
  PROVE  OwingInv'
<1> SUFFICES ASSUME timeouts = 0 PROVE HeardInv'
  BY DEF OwingInv
<1>1. OneSideWaits' /\ Queued'
  BY DEF OwingInv, HeardInv, OneSideWaits, Queued
<1>2. Owing' = Owing
  BY DEF Owing
<1>3. Several' = Several
  BY DEF Several, RequestSet, Runs
<1>4. Cardinality(Places(commChan', Several)) \in Nat
  BY PlacesFinite DEF TypeInv, TypeOK, ChannelType
<1>5. EachHasItsOwn'
  <2>1. Cardinality(open' \cap Several) + Cardinality(Places(commChan', Several)) + Len(handing')
          <= Cardinality(Owing')
    <3>1. Cardinality(open \cap Several) + Cardinality(Places(commChan, Several)) + Len(handing)
            <= Cardinality(Owing)
      BY DEF OwingInv, HeardInv, EachHasItsOwn
    <3>2. Cardinality(open' \cap Several) = Cardinality(open \cap Several)
          /\ Len(handing') = Len(handing) /\ Cardinality(Owing') = Cardinality(Owing)
      BY <1>2
    <3>3. IsFiniteSet(open)
      BY DEF OwingInv
    <3> QED
      BY <1>4, <3>1, <3>2, <3>3, Counts
  <2> QED
    BY <1>3, <2>1 DEF EachHasItsOwn
<1> QED
  BY <1>1, <1>5 DEF HeardInv

\* A message loop takes the next message.
LEMMA Fewer ==
  ASSUME TypeInv, commChan # << >>, commChan' = Tail(commChan)
  PROVE  /\ Cardinality(Places(commChan', Several)) <= Cardinality(Places(commChan, Several))
         /\ Head(commChan) \in Several =>
               Cardinality(Places(commChan', Several)) = Cardinality(Places(commChan, Several)) - 1
<1>1. commChan \in Seq(RequestSet \cup {Abort})
  BY DEF TypeInv, TypeOK, ChannelType
<1>2. Cardinality(Places(commChan', Several))
        = Cardinality(Places(commChan, Several)) - (IF Head(commChan) \in Several THEN 1 ELSE 0)
  BY <1>1, OnePlaceLess
<1> QED
  BY <1>1, <1>2, PlacesFinite

\* A goroutine has its response: one fewer owes.
LEMMA OneHears ==
  ASSUME TypeInv, NEW w \in Workers, work[w].at \in {"record", "wait"}, work' = Released(w)
  PROVE  /\ Cardinality(Owing') = Cardinality(Owing) - 1
         /\ work'[w].at \in {"send", "next"}
         /\ \A v \in Workers : v # w => work'[v] = work[v]
<1> DEFINE at == IF Tail(work[w].todo) = << >> THEN "next" ELSE "send"
           todo == Tail(work[w].todo)
<1>1. /\ at \in {"send", "next"}
      /\ work' = [work EXCEPT ![w] = [at |-> at, todo |-> todo]]
  BY DEF Released, TypeInv, TypeOK, WorkType
<1> HIDE DEF at, todo
<1>2. work'[w].at \in {"send", "next"} /\ \A v \in Workers : v # w => work'[v] = work[v]
  BY <1>1 DEF TypeInv, TypeOK, WorkType
<1>3. Owing' = Owing \ {w} /\ w \in Owing
  BY <1>2 DEF Owing
<1>4. Cardinality(Owing') = Cardinality(Owing) - 1
  BY <1>3, OwingFinite, FS_RemoveElement
<1> QED
  BY <1>2, <1>4

\* An event: a goroutine is started or ends, none that owes.
LEMMA AdvanceOwing ==
  ASSUME TypeInv, TypeInv', OwingInv, NEW s \in Steps \cup {"starting"}, NEW ws,
         ws \in [Workers -> [at : {"off", "begin", "send", "record", "wait", "reset",
                                   "next", "gone"},
                             todo : Seq(Gems)]],
         \A w \in Workers : ws[w] # work[w] => /\ ws[w].at = "gone" /\ work[w].at = "next",
         Advance(s, ws), UNCHANGED <<waiting, handing, timeouts, commChan>>
  PROVE  OwingInv'
<1>1. \A w \in Workers : /\ ws[w].at = "wait" <=> work[w].at = "wait"
                         /\ ws[w].at = "record" <=> work[w].at = "record"
  OBVIOUS
<1>2. IsFiniteSet(open)
  BY DEF OwingInv
<1>3. Cardinality(Places(commChan', Several)) <= Cardinality(Places(commChan, Several))
  BY <1>2, Counts
<1>4. CASE state # s
  BY <1>1, <1>2, <1>3, <1>4, CalmOwing DEF Advance
<1>5. CASE state = s
  <2> DEFINE to == Follow(s)
             q == Request(run, to, NoGem)
  <2>1. /\ work' = IF to \in Multi THEN Moved(ws, <<run, to>>, "begin") ELSE ws
        /\ open' = IF to \in Simple THEN open \cup {q} ELSE open
        /\ to \in Steps \cup {"configDone"}
    BY <1>5, FollowType DEF Advance
  <2>2. to \in Multi => to \notin Begun
    BY <1>5 DEF Begun, Follow, Steps, Simple, Multi
  <2>3. to \in Simple => q \notin Several
    BY DEF Several, Request, Simple, Multi
  <2>4. IsFiniteSet(open') /\ open' \cap Several = open \cap Several
    <3> HIDE DEF q, to
    <3> QED
      BY <1>2, <2>1, <2>3, FS_AddElement
  <2>5. \A w \in Workers : /\ work'[w].at = "wait" <=> work[w].at = "wait"
                           /\ work'[w].at = "record" <=> work[w].at = "record"
    <3>1. CASE to \notin Multi
      BY <1>1, <2>1, <3>1
    <3>2. CASE to \in Multi
      <4> DEFINE v == <<run, to>>
      <4>1. run \in Runs
        BY <1>5 DEF TypeInv, TypeOK, FsmType, RunFits, Runs, Steps, Simple, Multi
      <4>2. v \in Workers /\ v[1] = run /\ v[2] = to
        BY <3>2, <4>1 DEF Workers
      <4>3. work' = Moved(ws, v, "begin")
        BY <2>1, <3>2
      <4> HIDE DEF v, to
      <4>4. work[v].at = "off"
        BY <2>2, <3>2, <4>1, <4>2 DEF TypeInv, BeginFits, Runs
      <4>5. work'[v].at = "begin" /\ \A w \in Workers : w # v => work'[w] = ws[w]
        BY <4>2, <4>3 DEF Moved
      <4> QED
        BY <1>1, <4>4, <4>5
    <3> QED
      BY <3>1, <3>2
  <2> QED
    BY <1>3, <2>4, <2>5, CalmOwing
<1> QED
  BY <1>4, <1>5

\* Steps that leave the goroutines and what is sent alone.
LEMMA SameOwing ==
  ASSUME TypeInv, TypeInv', OwingInv, UNCHANGED <<work, waiting, handing, open, timeouts>>,
         Cardinality(Places(commChan', Several)) <= Cardinality(Places(commChan, Several))
  PROVE  OwingInv'
<1>1. IsFiniteSet(open')
  BY DEF OwingInv
<1> QED
  BY <1>1, CalmOwing

\* The abort message is not a response.
LEMMA ResetOwing ==
  ASSUME TypeInv, TypeInv', OwingInv, Reset, UNCHANGED <<waiting, handing, open, timeouts>>,
         \A w \in Workers : /\ work'[w].at = "wait" <=> work[w].at = "wait"
                            /\ work'[w].at = "record" <=> work[w].at = "record"
  PROVE  OwingInv'
<1>1. commChan \in Seq(RequestSet \cup {Abort}) /\ Abort \notin Several
  BY AbortIsNoRequest DEF TypeInv, TypeOK, ChannelType, Several
<1>2. Cardinality(Places(commChan, Several)) \in Nat
  BY <1>1, PlacesFinite
<1>3. Cardinality(Places(commChan', Several)) = Cardinality(Places(commChan, Several))
  <2>1. CASE state \in Running
    <3>1. commChan' = Append(commChan, Abort)
      BY <2>1 DEF Reset
    <3> DEFINE T == RequestSet \cup {Abort}
    <3>2. commChan \in Seq(T) /\ Abort \in T
      BY <1>1
    <3> HIDE DEF T
    <3> QED
      BY <1>1, <3>1, <3>2, OneMorePlace
  <2>2. CASE state \notin Running
    BY <2>2 DEF Reset
  <2> QED
    BY <2>1, <2>2
<1>4. IsFiniteSet(open')
  BY DEF OwingInv
<1>5. Cardinality(Places(commChan', Several)) <= Cardinality(Places(commChan, Several))
  BY <1>2, <1>3
<1> QED
  BY <1>4, <1>5, CalmOwing

LEMMA MessageOwing ==
  ASSUME TypeInv, TypeInv', OwingInv, NEW n \in Runs, MessageLoop(n)
  PROVE  OwingInv'
<1>1. ASSUME NEW m, Receives(n, m)
      PROVE  /\ Cardinality(Places(commChan', Several)) <= Cardinality(Places(commChan, Several))
             /\ m \in Several =>
                   Cardinality(Places(commChan', Several)) = Cardinality(Places(commChan, Several)) - 1
             /\ UNCHANGED <<open, timeouts>>
  BY <1>1, Fewer DEF Receives, onuVars
<1>2. CASE ReadAbort(n)
  <2>1. Receives(n, Abort) /\ UNCHANGED <<work, waiting, handing>>
    BY <1>2 DEF ReadAbort
  <2> QED
    BY <1>1, <2>1, SameOwing
<1>3. CASE ReadUnexpected(n)
  <2>1. PICK m \in acked : Receives(n, m)
    BY <1>3 DEF ReadUnexpected
  <2>2. UNCHANGED <<work, waiting, handing>>
    BY <1>3 DEF ReadUnexpected, loopVars
  <2> QED
    BY <1>1, <2>1, <2>2, SameOwing
<1>4. CASE ReadSimple(n)
  <2>1. PICK m \in acked : Receives(n, m)
    BY <1>4 DEF ReadSimple
  <2>2. UNCHANGED <<work, waiting, handing>>
    BY <1>4 DEF ReadSimple
  <2> QED
    BY <1>1, <2>1, <2>2, SameOwing
<1>5. CASE ReadMulti(n)
  <2>1. PICK m \in acked : Receives(n, m) /\ m.step \in Multi
    BY <1>5 DEF ReadMulti
  <2>2. m \in Several
    BY <2>1 DEF Several, TypeInv, TypeOK, ChannelType
  <2>3. /\ Cardinality(Places(commChan', Several)) = Cardinality(Places(commChan, Several)) - 1
        /\ UNCHANGED <<open, timeouts>>
    BY <1>1, <2>1, <2>2
  <2>4. IsFiniteSet(open) /\ IsFiniteSet(open')
    BY <2>3 DEF OwingInv
  <2> SUFFICES ASSUME timeouts = 0 PROVE HeardInv'
    BY <2>3, <2>4 DEF OwingInv
  <2>5. HeardInv
    BY DEF OwingInv
  <2>6. Several' = Several
    BY DEF Several, RequestSet, Runs
  <2>7. CASE waiting # << >>
    <3> DEFINE w == Head(waiting)
    <3>0. waiting' = Tail(waiting) /\ work' = Released(w) /\ handing' = handing
      BY <1>5, <2>7 DEF ReadMulti
    <3>1. waiting \in Seq(Workers)
      BY DEF TypeInv, TypeOK, WorkType
    <3>2. /\ w = waiting[1] /\ w \in Workers /\ 1 \in DOMAIN waiting
          /\ \A i \in DOMAIN waiting \ {1} :
                i - 1 \in DOMAIN waiting' /\ waiting'[i - 1] = waiting[i]
      <4>1. /\ Len(waiting) \in Nat \ {0} /\ DOMAIN waiting = 1 .. Len(waiting)
            /\ w = waiting[1] /\ w \in Workers
        BY <2>7, <3>1
      <4>2. /\ DOMAIN waiting' = 1 .. Len(waiting) - 1
            /\ \A j \in DOMAIN waiting' : waiting'[j] = waiting[j + 1]
        BY <2>7, <3>0, <3>1
      <4>3. \A i \in DOMAIN waiting :
               i = 1 \/ (i - 1 \in DOMAIN waiting' /\ (i - 1) + 1 = i)
        BY <4>1, <4>2
      <4>4. ASSUME NEW i \in DOMAIN waiting \ {1}
            PROVE  i - 1 \in DOMAIN waiting' /\ waiting'[i - 1] = waiting[i]
        <5>1. i - 1 \in DOMAIN waiting' /\ (i - 1) + 1 = i
          BY <4>3, <4>4
        <5>2. waiting'[i - 1] = waiting[(i - 1) + 1]
          BY <4>2, <5>1
        <5> QED
          BY <5>1, <5>2
      <4>5. w = waiting[1] /\ w \in Workers /\ 1 \in DOMAIN waiting
        BY <4>1
      <4> QED
        BY <4>4, <4>5
    <3> HIDE DEF w
    <3>3. work[w].at = "wait"
      BY <3>2 DEF TypeInv, WaitFits
    <3>4. /\ Cardinality(Owing') = Cardinality(Owing) - 1
          /\ work'[w].at \in {"send", "next"}
          /\ \A v \in Workers : v # w => work'[v] = work[v]
      BY <3>0, <3>2, <3>3, OneHears
    <3>5. OneSideWaits'
      BY <2>5, <2>7, <3>0 DEF HeardInv, OneSideWaits
    <3>6. Queued'
      BY <2>5, <3>2, <3>4 DEF HeardInv, Queued
    <3>7. EachHasItsOwn'
      <4>1. Cardinality(open' \cap Several) = Cardinality(open \cap Several)
        BY <2>3
      <4>2. Len(handing') = Len(handing)
        BY <3>0
      <4>3. Cardinality(open' \cap Several) + Cardinality(Places(commChan', Several)) + Len(handing')
              <= Cardinality(Owing')
        BY <2>3, <2>4, <2>5, <3>4, <4>1, <4>2, Counts DEF HeardInv, EachHasItsOwn
      <4> QED
        BY <2>6, <4>3 DEF EachHasItsOwn
    <3> QED
      BY <3>5, <3>6, <3>7 DEF HeardInv
  <2>8. CASE waiting = << >>
    <3>1. handing' = Append(handing, n) /\ UNCHANGED <<work, waiting>>
      BY <1>5, <2>8 DEF ReadMulti
    <3>2. OneSideWaits' /\ Queued'
      BY <2>5, <2>8, <3>1 DEF HeardInv, OneSideWaits, Queued
    <3>3. Len(handing') = Len(handing) + 1
      BY <3>1 DEF TypeInv, TypeOK, LoopType
    <3>4. Cardinality(Owing') = Cardinality(Owing)
      BY <3>1 DEF Owing
    <3>5. Cardinality(open' \cap Several) = Cardinality(open \cap Several)
      BY <2>3
    <3>6. Cardinality(open' \cap Several) + Cardinality(Places(commChan', Several)) + Len(handing')
              <= Cardinality(Owing')
      BY <2>3, <2>4, <2>5, <3>3, <3>4, <3>5, Counts DEF HeardInv, EachHasItsOwn
    <3>7. EachHasItsOwn'
      BY <2>6, <3>6 DEF EachHasItsOwn
    <3> QED
      BY <3>2, <3>7 DEF HeardInv
  <2> QED
    BY <2>7, <2>8
<1>6. CASE PostEvent(n)
  <2>1. /\ readers[n] \in Steps /\ Advance(readers[n], work)
        /\ UNCHANGED <<waiting, handing, commChan, timeouts>>
    BY <1>6 DEF PostEvent, Steps, boundVars
  <2> QED
    BY <2>1, AdvanceOwing DEF TypeInv, TypeOK, WorkType
<1> QED
  BY <1>2, <1>3, <1>4, <1>5, <1>6 DEF MessageLoop

LEMMA WorkerOwing ==
  ASSUME TypeInv, TypeInv', OwingInv, NEW w \in Workers, Worker(w) \/ TimeOut(w)
  PROVE  OwingInv'
<1>0. IsFiniteSet(open)
  BY DEF OwingInv
<1>1. /\ work \in [Workers -> [at : {"off", "begin", "send", "record", "wait", "reset",
                                     "next", "gone"},
                               todo : Seq(Gems)]]
      /\ waiting \in Seq(Workers) /\ timeouts \in Nat
  BY DEF TypeInv, TypeOK, WorkType, CountType
<1>2. ASSUME commChan' = commChan
      PROVE  Cardinality(Places(commChan', Several)) <= Cardinality(Places(commChan, Several))
  BY <1>0, <1>2, Counts
<1>3. CASE Begin(w)
  <2> DEFINE at == IF slice = << >> THEN "next" ELSE "send"
  <2>1. /\ work[w].at = "begin" /\ at \in {"next", "send"}
        /\ work' = [work EXCEPT ![w] = [at |-> at, todo |-> slice]]
        /\ UNCHANGED <<waiting, handing, commChan, open, timeouts>>
    BY <1>3 DEF Begin, onuVars, boundVars
  <2> HIDE DEF at
  <2>2. work'[w].at = at /\ \A v \in Workers : v # w => work'[v] = work[v]
    BY <1>1, <2>1
  <2>3. \A v \in Workers : /\ work'[v].at = "wait" <=> work[v].at = "wait"
                           /\ work'[v].at = "record" <=> work[v].at = "record"
    BY <2>1, <2>2
  <2>4. IsFiniteSet(open') /\ open' \cap Several = open \cap Several
    BY <1>0, <2>1
  <2> QED
    BY <1>2, <2>1, <2>3, <2>4, CalmOwing
<1>4. CASE Send(w)
  <2> DEFINE q == Request(w[1], w[2], Head(work[w].todo))
  <2>1. /\ work[w].at = "send" /\ work' = Moved(work, w, "record")
        /\ open' = open \cup {q}
        /\ UNCHANGED <<waiting, handing, commChan, timeouts>>
    BY <1>4 DEF Send, boundVars
  <2> HIDE DEF q
  <2>2. work'[w].at = "record" /\ \A v \in Workers : v # w => work'[v] = work[v]
    BY <1>1, <2>1 DEF Moved
  <2>3. Owing' = Owing \cup {w} /\ w \notin Owing
    BY <2>1, <2>2 DEF Owing
  <2>4. Cardinality(Owing') = Cardinality(Owing) + 1
    BY <2>3, OwingFinite, FS_AddElement
  <2>5. IsFiniteSet(open')
    BY <1>0, <2>1, FS_AddElement
  <2>6. Cardinality(open' \cap Several) <= Cardinality(open \cap Several) + 1
        /\ Cardinality(open' \cap Several) \in Nat
    <3>1. IsFiniteSet(open \cap Several) /\ Cardinality(open \cap Several) \in Nat
      BY <1>0, AskedFinite
    <3>2. CASE q \in Several
      <4>1. open' \cap Several = (open \cap Several) \cup {q}
        BY <2>1, <3>2
      <4> QED
        BY <3>1, <4>1, FS_AddElement
    <3>3. CASE q \notin Several
      <4>1. open' \cap Several = open \cap Several
        BY <2>1, <3>3
      <4>2. Cardinality(open' \cap Several) = Cardinality(open \cap Several)
        BY <4>1
      <4> QED
        BY <3>1, <4>2
    <3> QED
      BY <3>2, <3>3
  <2> SUFFICES ASSUME timeouts = 0 PROVE HeardInv'
    BY <2>1, <2>5 DEF OwingInv
  <2>7. HeardInv
    BY DEF OwingInv
  <2>8. OneSideWaits'
    BY <2>1, <2>7 DEF HeardInv, OneSideWaits
  <2>9. Queued'
    BY <2>1, <2>2, <2>7 DEF HeardInv, Queued
  <2>10. EachHasItsOwn'
    <3>1. Several' = Several
      BY DEF Several, RequestSet, Runs
    <3>2. Len(handing') = Len(handing)
          /\ Cardinality(Places(commChan', Several)) = Cardinality(Places(commChan, Several))
      BY <2>1
    <3>3. Cardinality(open' \cap Several) + Cardinality(Places(commChan', Several)) + Len(handing')
            <= Cardinality(Owing')
      BY <1>0, <2>4, <2>6, <2>7, <3>2, Counts DEF HeardInv, EachHasItsOwn
    <3> QED
      BY <3>1, <3>3 DEF EachHasItsOwn
  <2> QED
    BY <2>8, <2>9, <2>10 DEF HeardInv
<1>5. CASE RecordAndWait(w)
  <2>1. /\ work[w].at = "record" /\ UNCHANGED <<commChan, open, timeouts>>
    BY <1>5 DEF RecordAndWait, onuVars, boundVars
  <2>2. IsFiniteSet(open')
    BY <1>0, <2>1
  <2> SUFFICES ASSUME timeouts = 0 PROVE HeardInv'
    BY <2>1, <2>2 DEF OwingInv
  <2>3. HeardInv
    BY DEF OwingInv
  <2>4. Several' = Several
    BY DEF Several, RequestSet, Runs
  <2>5. /\ Cardinality(open' \cap Several) = Cardinality(open \cap Several)
        /\ Cardinality(Places(commChan', Several)) = Cardinality(Places(commChan, Several))
    BY <2>1
  <2>6. handing \in Seq(Runs)
    BY DEF TypeInv, TypeOK, LoopType
  <2>7. CASE handing # << >>
    <3>1. handing' = Tail(handing) /\ work' = Released(w) /\ waiting' = waiting
      BY <1>5, <2>7 DEF RecordAndWait
    <3>2. Len(handing') = Len(handing) - 1
      BY <2>6, <2>7, <3>1
    <3>3. /\ Cardinality(Owing') = Cardinality(Owing) - 1
          /\ work'[w].at \in {"send", "next"}
          /\ \A v \in Workers : v # w => work'[v] = work[v]
      BY <2>1, <3>1, OneHears
    <3>4. waiting' = << >>
      BY <2>3, <2>7, <3>1 DEF HeardInv, OneSideWaits
    <3>5. OneSideWaits'
      BY <3>4 DEF OneSideWaits
    <3>6. Queued'
      BY <2>3, <3>1, <3>3 DEF HeardInv, Queued
    <3>7. EachHasItsOwn'
      <4>1. Cardinality(open' \cap Several) + Cardinality(Places(commChan', Several)) + Len(handing')
              <= Cardinality(Owing')
        BY <1>0, <2>3, <2>5, <3>2, <3>3, Counts DEF HeardInv, EachHasItsOwn
      <4> QED
        BY <2>4, <4>1 DEF EachHasItsOwn
    <3> QED
      BY <3>5, <3>6, <3>7 DEF HeardInv
  <2>8. CASE handing = << >>
    <3>1. /\ waiting' = Append(waiting, w) /\ work' = Moved(work, w, "wait")
          /\ handing' = handing
      BY <1>5, <2>8 DEF RecordAndWait
    <3>2. work'[w].at = "wait" /\ \A v \in Workers : v # w => work'[v] = work[v]
      BY <1>1, <3>1 DEF Moved
    <3>3. /\ Len(waiting) + 1 \in DOMAIN waiting' /\ waiting'[Len(waiting) + 1] = w
          /\ \A i \in DOMAIN waiting : i \in DOMAIN waiting' /\ waiting'[i] = waiting[i]
      BY <1>1, <3>1
    <3>4. OneSideWaits'
      BY <2>8, <3>1 DEF OneSideWaits
    <3>5. Queued'
      BY <2>3, <3>2, <3>3 DEF HeardInv, Queued
    <3>6. Owing' = Owing
      BY <2>1, <3>2 DEF Owing
    <3>7. EachHasItsOwn'
      <4>1. Cardinality(Owing') = Cardinality(Owing) /\ Len(handing') = Len(handing)
        BY <3>1, <3>6
      <4>2. Cardinality(open' \cap Several) + Cardinality(Places(commChan', Several)) + Len(handing')
              <= Cardinality(Owing')
        BY <1>0, <2>3, <2>5, <4>1, Counts DEF HeardInv, EachHasItsOwn
      <4> QED
        BY <2>4, <4>2 DEF EachHasItsOwn
    <3> QED
      BY <3>4, <3>5, <3>7 DEF HeardInv
  <2> QED
    BY <2>7, <2>8
<1>6. CASE AbortRun(w)
  <2>1. /\ work[w].at = "reset" /\ work' = Moved(work, w, "gone") /\ Reset
        /\ UNCHANGED <<waiting, handing, open, timeouts>>
    BY <1>6 DEF AbortRun, onuVars, boundVars
  <2>2. work'[w].at = "gone" /\ \A v \in Workers : v # w => work'[v] = work[v]
    BY <1>1, <2>1 DEF Moved
  <2>3. \A v \in Workers : /\ work'[v].at = "wait" <=> work[v].at = "wait"
                           /\ work'[v].at = "record" <=> work[v].at = "record"
    BY <2>1, <2>2
  <2> QED
    BY <2>1, <2>3, ResetOwing
<1>7. CASE EndLoop(w)
  <2> DEFINE ws == Moved(work, w, "gone")
  <2>1. /\ work[w].at = "next" /\ Advance(w[2], ws)
        /\ UNCHANGED <<waiting, handing, timeouts, commChan>>
    BY <1>7 DEF EndLoop, boundVars
  <2>2. w[2] \in Steps
    BY DEF Workers, Steps
  <2>3. /\ ws \in [Workers -> [at : {"off", "begin", "send", "record", "wait", "reset",
                                     "next", "gone"},
                               todo : Seq(Gems)]]
        /\ ws[w].at = "gone"
        /\ \A v \in Workers : v # w => ws[v] = work[v]
    BY <1>1 DEF Moved
  <2> HIDE DEF ws
  <2>4. \A v \in Workers : ws[v] # work[v] => ws[v].at = "gone" /\ work[v].at = "next"
    BY <2>1, <2>3
  <2> QED
    BY <2>1, <2>2, <2>3, <2>4, AdvanceOwing
<1>8. CASE TimeOut(w)
  <2>1. timeouts' = timeouts + 1 /\ open' = open
    BY <1>8 DEF TimeOut, onuVars
  <2>2. timeouts' # 0 /\ IsFiniteSet(open')
    BY <1>0, <1>1, <2>1
  <2> QED
    BY <2>2 DEF OwingInv
<1> QED
  BY <1>3, <1>4, <1>5, <1>6, <1>7, <1>8 DEF Worker

\* The ONU answers: what was asked for is on its way.
LEMMA AnswerOwing ==
  ASSUME TypeInv, TypeInv', OwingInv, NEW q \in open, Answer(q)
  PROVE  OwingInv'
<1> DEFINE T == RequestSet \cup {Abort}
<1>1. /\ open' = open \ {q} /\ commChan' = Append(commChan, q)
      /\ UNCHANGED <<work, waiting, handing, timeouts>>
  BY DEF Answer, loopVars, boundVars
<1>2. commChan \in Seq(T) /\ q \in T
  BY DEF TypeInv, TypeOK, ChannelType
<1> HIDE DEF T
<1>3. IsFiniteSet(open) /\ IsFiniteSet(open')
  BY <1>1, FS_RemoveElement DEF OwingInv
<1> SUFFICES ASSUME timeouts = 0 PROVE HeardInv'
  BY <1>1, <1>3 DEF OwingInv
<1>4. HeardInv
  BY DEF OwingInv
<1>5. OneSideWaits' /\ Queued'
  BY <1>1, <1>4 DEF HeardInv, OneSideWaits, Queued
<1>6. Cardinality(Owing') = Cardinality(Owing) /\ Len(handing') = Len(handing)
  BY <1>1 DEF Owing
<1>7. Cardinality(open' \cap Several) + Cardinality(Places(commChan', Several))
        = Cardinality(open \cap Several) + Cardinality(Places(commChan, Several))
  <2>1. /\ Cardinality(open \cap Several) \in Nat /\ IsFiniteSet(open \cap Several)
        /\ Cardinality(Places(commChan, Several)) \in Nat
    BY <1>3, Counts, AskedFinite
  <2>2. CASE q \in Several
    <3>1. open' \cap Several = (open \cap Several) \ {q} /\ q \in open \cap Several
      BY <1>1, <2>2
    <3>2. Cardinality(open' \cap Several) = Cardinality(open \cap Several) - 1
      BY <2>1, <3>1, FS_RemoveElement
    <3>3. Cardinality(Places(commChan', Several)) = Cardinality(Places(commChan, Several)) + 1
      BY <1>1, <1>2, <2>2, OneMorePlace
    <3> QED
      BY <2>1, <3>2, <3>3
  <2>3. CASE q \notin Several
    <3>1. open' \cap Several = open \cap Several
      BY <1>1, <2>3
    <3>2. Cardinality(Places(commChan', Several)) = Cardinality(Places(commChan, Several))
      BY <1>1, <1>2, <2>3, OneMorePlace
    <3> QED
      BY <3>1, <3>2
  <2> QED
    BY <2>2, <2>3
<1>8. EachHasItsOwn'
  <2>1. Several' = Several
    BY DEF Several, RequestSet, Runs
  <2>2. Cardinality(open' \cap Several) + Cardinality(Places(commChan', Several)) + Len(handing')
          <= Cardinality(Owing')
    BY <1>4, <1>6, <1>7 DEF HeardInv, EachHasItsOwn
  <2> QED
    BY <2>1, <2>2 DEF EachHasItsOwn
<1> QED
  BY <1>5, <1>8 DEF HeardInv

LEMMA OwingStep == ASSUME TypeInv, TypeInv', OwingInv, [Next]_vars PROVE OwingInv'
<1>0. IsFiniteSet(open) /\ Cardinality(Places(commChan, Several)) \in Nat
  BY Counts DEF OwingInv
<1>1. ASSUME UNCHANGED <<work, waiting, handing, open, timeouts, commChan>>
      PROVE  OwingInv'
  BY <1>0, <1>1, SameOwing
<1>2. CASE Start
  BY <1>1, <1>2 DEF Start, onuVars, boundVars
<1>3. ASSUME NEW r \in Runs, RunSteps(r) PROVE OwingInv'
  <2>1. CASE Fill(r)
    BY <1>1, <2>1 DEF Fill, loopVars, onuVars, boundVars
  <2>2. CASE StartConfig(r)
    <3>1. Advance("starting", work) /\ UNCHANGED <<waiting, handing, commChan, timeouts>>
      BY <2>2 DEF StartConfig, boundVars
    <3> QED
      BY <3>1, AdvanceOwing DEF TypeInv, TypeOK, WorkType
  <2> QED
    BY <1>3, <2>1, <2>2 DEF RunSteps
<1>4. ASSUME NEW r \in Runs, ResetFromOutside(r) PROVE OwingInv'
  BY <1>4, ResetOwing DEF ResetFromOutside, loopVars, onuVars
<1>5. CASE Recorded
  BY <1>1, <1>5 DEF Recorded, onuVars, boundVars
<1>6. CASE PostedReset
  BY <1>6, ResetOwing DEF PostedReset, loopVars, onuVars, boundVars
<1>7. CASE PostedRestart
  BY <1>1, <1>7 DEF PostedRestart, loopVars, onuVars, boundVars
<1>8. CASE UNCHANGED vars
  BY <1>1, <1>8 DEF vars, loopVars, onuVars, boundVars
<1> QED
  BY <1>2, <1>3, <1>4, <1>5, <1>6, <1>7, <1>8, AnswerOwing, MessageOwing, WorkerOwing
     DEF Next, MachineSteps

LEMMA InitOwing == Init => OwingInv
<1> SUFFICES ASSUME Init PROVE OwingInv
  OBVIOUS
<1>1. OneSideWaits /\ Queued
  BY DEF Init, OneSideWaits, Queued, Idle
<1>2. open \cap Several = {} /\ Places(commChan, Several) = {} /\ Len(handing) = 0
  BY DEF Init, Places
<1>3. Cardinality(open \cap Several) = 0 /\ Cardinality(Places(commChan, Several)) = 0
  BY <1>2, FS_EmptySet
<1>4. EachHasItsOwn
  BY <1>2, <1>3, OwingFinite DEF EachHasItsOwn
<1>5. IsFiniteSet(open)
  BY FS_EmptySet DEF Init
<1> QED
  BY <1>1, <1>4, <1>5 DEF OwingInv, HeardInv

(* omciMIdsResponseReceived has no buffer.  Unless a wait times out, each  *)
(* request of waitforOmciResponse, its response and the loop that has it   *)
(* have a goroutine of their own that waits or is about to, so that a loop *)
(* that blocks has one about to record its request, however the runs of    *)
(* the machine are reset.                                                  *)
THEOREM BlockedLoops == Spec => []BlockedNeedsTimeOut
<1>1. TypeInv /\ OwingInv => BlockedNeedsTimeOut
  <2> SUFFICES ASSUME TypeInv, OwingInv, handing # << >>, timeouts = 0
               PROVE  \E w \in Workers : work[w].at = "record"
    BY DEF BlockedNeedsTimeOut, TypeInv, TypeOK, CountType
  <2>1. HeardInv /\ IsFiniteSet(open)
    BY DEF OwingInv
  <2>2. Len(handing) \in Nat \ {0}
    BY DEF TypeInv, TypeOK, LoopType
  <2>3. Cardinality(Owing) # 0
    BY <2>1, <2>2, Counts DEF HeardInv, EachHasItsOwn
  <2>4. PICK w \in Owing : TRUE
    BY <2>3, FS_EmptySet
  <2>5. waiting = << >>
    BY <2>1 DEF HeardInv, OneSideWaits
  <2>6. work[w].at # "wait"
    BY <2>1, <2>4, <2>5 DEF HeardInv, Queued, Owing
  <2> QED
    BY <2>4, <2>6 DEF Owing
<1>2. TypeInv /\ OwingInv /\ [Next]_vars => TypeInv' /\ OwingInv'
  BY TypeStep, OwingStep
<1> QED
  BY <1>1, <1>2, InitType, InitOwing, PTL DEF Spec

-----------------------------------------------------------------------------
(* The order of the configuration in an undisturbed machine.               *)

\* The states before s in the order of the transition table.
Before(s) ==
    CASE s = "starting" -> {}
      [] s = "creatingDot1PMapper" -> {"starting"}
      [] s = "creatingMBPCD" -> {"starting", "creatingDot1PMapper"}
      [] s = "settingTconts" -> {"starting", "creatingDot1PMapper", "creatingMBPCD"}
      [] s = "creatingGemNCTPs" ->
            {"starting", "creatingDot1PMapper", "creatingMBPCD", "settingTconts"}
      [] s = "creatingGemIWs" ->
            {"starting", "creatingDot1PMapper", "creatingMBPCD", "settingTconts",
             "creatingGemNCTPs"}
      [] s = "settingPQs" ->
            {"starting", "creatingDot1PMapper", "creatingMBPCD", "settingTconts",
             "creatingGemNCTPs", "creatingGemIWs"}
      [] s = "settingDot1PMapper" -> {"starting"} \cup (Steps \ {"settingDot1PMapper"})
      [] s = "configDone" -> {"starting"} \cup Steps

\* What the run asks for in the states S.
AskedIn(S) ==
    {Request(run, s, NoGem) : s \in S \cap Simple}
        \cup {Request(run, s, g) : s \in S \cap Multi, g \in Gems}

\* Places of the channel that hold a response.
Heard == {i \in DOMAIN commChan : commChan[i] # Abort}

Silent == open = {} /\ Heard = {}

\* One request at most is on its way, or its response is.
OnItsWay(q) ==
    \/ open \subseteq {q} /\ Heard = {}
    \/ /\ open = {} /\ q \in acked
       /\ \E i \in DOMAIN commChan : Heard = {i} /\ commChan[i] = q

\* The parts of the machine that are at work are those of the current state.
TidyInv ==
    /\ \A r \in Runs : prep[r] \in {"fill", "event"} => state = "starting" /\ r = run
    /\ \A w \in Workers :
          work[w].at \notin {"off", "gone"} => state \in Multi /\ w = <<run, state>>
    /\ \A n \in Runs : readers[n] \in Simple => readers[n] = state
    /\ handing # << >> => state \in Multi
    /\ state \notin Steps => Silent

PostedInv ==
    /\ resets = IF state = "configDone" THEN 1 ELSE 0
    /\ restarts = IF state = "resetting" THEN 1 ELSE 0

\* Every GEM port is in the slice once the run has prepared it.
SliceInv ==
    \/ \A g \in Gems : \E i \in DOMAIN slice : slice[i] = g
    \/ state \in {"disabled", "resetting"}
    \/ state = "starting" /\ prep[run] # "event"

AckedInv == state \in Running => AskedIn(Before(state)) \subseteq acked

\* In a state with one entity.
SimpleInv ==
    state \in Simple =>
        \/ OnItsWay(Request(run, state, NoGem)) /\ \A n \in Runs : readers[n] \notin Simple
        \/ /\ Silent /\ Request(run, state, NoGem) \in acked
           /\ \A n, k \in Runs : readers[n] \in Simple /\ readers[k] \in Simple => n = k

\* In a state with several: w is its goroutine.
PendingInv(w) ==
    /\ work[w].at \in {"begin", "send", "next"} => Silent /\ handing = << >>
    /\ work[w].at = "next" => work[w].todo = << >>
    /\ work[w].at \in {"record", "wait"} =>
          LET q == Request(run, state, Head(work[w].todo))
          IN \/ OnItsWay(q) /\ handing = << >>
             \/ Silent /\ q \in acked /\ Len(handing) = 1

TodoInv(w) ==
    work[w].at # "begin" =>
        \A g \in Gems : \/ Request(run, state, g) \in acked
                        \/ \E i \in DOMAIN work[w].todo : work[w].todo[i] = g

MultiInv ==
    state \in Multi =>
        /\ work[<<run, state>>].at \in {"begin", "send", "record", "wait", "next"}
        /\ PendingInv(<<run, state>>) /\ TodoInv(<<run, state>>)

InOrder == TidyInv /\ PostedInv /\ SliceInv /\ AckedInv /\ SimpleInv /\ MultiInv
OrderlyInv == Undisturbed => InOrder

LEMMA StepNames ==
  /\ Simple \cap Multi = {}
  /\ "starting" \notin Steps /\ "disabled" \notin Steps /\ "resetting" \notin Steps
  /\ "configDone" \notin Steps
  /\ Steps = Simple \cup Multi
  BY DEF Steps, Simple, Multi

\* The transition table is the order.
LEMMA FollowBefore ==
  ASSUME NEW s \in Steps \cup {"starting"}
  PROVE  Before(Follow(s)) = Before(s) \cup {s}
<1>1. CASE s \in {"starting", "creatingDot1PMapper", "creatingMBPCD"}
  BY <1>1 DEF Before, Follow
<1>2. CASE s \in {"settingTconts", "creatingGemNCTPs", "creatingGemIWs"}
  BY <1>2 DEF Before, Follow
<1>3. CASE s = "settingPQs"
  BY <1>3 DEF Before, Follow, Steps, Simple, Multi
<1>4. CASE s = "settingDot1PMapper"
  BY <1>4 DEF Before, Follow, Steps, Simple, Multi
<1> QED
  BY <1>1, <1>2, <1>3, <1>4 DEF Steps, Simple, Multi

\* An abort message, or the response to q, joins the channel.
LEMMA HeardAppend ==
  ASSUME TypeInv, NEW m \in RequestSet \cup {Abort}, commChan' = Append(commChan, m)
  PROVE  /\ m = Abort => Heard' = Heard
         /\ m # Abort /\ Heard = {} =>
               \E i \in DOMAIN commChan' : Heard' = {i} /\ commChan'[i] = m
<1> DEFINE n == Len(commChan) + 1
<1>1. commChan \in Seq(RequestSet \cup {Abort})
  BY DEF TypeInv, TypeOK, ChannelType
<1>2. /\ n \in Nat /\ DOMAIN commChan = 1 .. n - 1 /\ DOMAIN commChan' = 1 .. n
      /\ commChan'[n] = m
      /\ \A i \in DOMAIN commChan : commChan'[i] = commChan[i]
  BY <1>1
<1>3. \A i \in DOMAIN commChan' : i \in DOMAIN commChan \/ i = n
  BY <1>2
<1>4. n \in DOMAIN commChan' /\ \A i \in DOMAIN commChan : i \in DOMAIN commChan'
  BY <1>2
<1> HIDE DEF n
<1>5. m = Abort => Heard' = Heard
  BY <1>2, <1>3, <1>4 DEF Heard
<1>6. m # Abort /\ Heard = {} => Heard' = {n}
  BY <1>2, <1>3, <1>4 DEF Heard
<1> QED
  BY <1>2, <1>4, <1>5, <1>6

\* A message loop takes a message.
LEMMA HeardTail ==
  ASSUME TypeInv, commChan # << >>, commChan' = Tail(commChan)
  PROVE  /\ Heard = {} => Heard' = {} /\ Head(commChan) = Abort
         /\ \A i \in DOMAIN commChan :
               Heard = {i} =>
                  \/ Head(commChan) = commChan[i] /\ Heard' = {}
                  \/ /\ Head(commChan) = Abort
                     /\ \E j \in DOMAIN commChan' : Heard' = {j} /\ commChan'[j] = commChan[i]
<1>1. commChan \in Seq(RequestSet \cup {Abort})
  BY DEF TypeInv, TypeOK, ChannelType
<1>2. /\ Len(commChan) \in Nat \ {0} /\ DOMAIN commChan = 1 .. Len(commChan)
      /\ DOMAIN commChan' = 1 .. Len(commChan) - 1
      /\ \A j \in DOMAIN commChan' : commChan'[j] = commChan[j + 1]
      /\ Head(commChan) = commChan[1]
  BY <1>1
<1>3. \A j \in DOMAIN commChan' : j \in Nat \ {0} /\ j + 1 \in DOMAIN commChan
  BY <1>2
<1>4. 1 \in DOMAIN commChan
  BY <1>2
<1>5. \A j \in DOMAIN commChan' : j \in Heard' <=> j + 1 \in Heard
  BY <1>2, <1>3 DEF Heard
<1>6. \A j \in Heard' : j \in DOMAIN commChan'
  BY DEF Heard
<1>7. 1 \in Heard <=> Head(commChan) # Abort
  BY <1>2, <1>4 DEF Heard
<1>8. Heard = {} => Heard' = {} /\ Head(commChan) = Abort
  BY <1>5, <1>6, <1>7
<1>9. ASSUME NEW i \in DOMAIN commChan, Heard = {i}
      PROVE  \/ Head(commChan) = commChan[i] /\ Heard' = {}
             \/ /\ Head(commChan) = Abort
                /\ \E j \in DOMAIN commChan' : Heard' = {j} /\ commChan'[j] = commChan[i]
  <2>1. CASE i = 1
    <3>1. \A j \in DOMAIN commChan' : j + 1 # 1
      BY <1>3
    <3>2. \A j \in DOMAIN commChan' : j \notin Heard'
      BY <1>5, <1>9, <2>1, <3>1
    <3> QED
      BY <1>2, <1>6, <2>1, <3>2
  <2>2. CASE i # 1
    <3>1. i \in Nat /\ i - 1 \in DOMAIN commChan' /\ (i - 1) + 1 = i
      BY <1>2, <2>2
    <3>2. i - 1 \in Heard'
      BY <1>5, <1>9, <3>1
    <3>3. \A j \in Heard' : j = i - 1
      <4>1. TAKE j \in Heard'
      <4>2. j \in Nat /\ j + 1 = i
        BY <1>3, <1>5, <1>6, <1>9
      <4> QED
        BY <3>1, <4>2
    <3>4. Heard' = {i - 1}
      BY <3>2, <3>3
    <3>5. commChan'[i - 1] = commChan[i]
      BY <1>2, <3>1
    <3>6. Head(commChan) = Abort
      BY <1>7, <1>9, <2>2
    <3> QED
      BY <3>1, <3>4, <3>5, <3>6
  <2> QED
    BY <2>1, <2>2
<1> QED
  BY <1>8, <1>9

\* Nothing of the machine is at work but the state that follows s.
LEMMA AdvanceOrder ==
  ASSUME TypeInv, Undisturbed, NEW s \in Steps \cup {"starting"}, state = s,
         NEW ws, Advance(s, ws),
         ws \in [Workers -> [at : {"off", "begin", "send", "record", "wait", "reset",
                                   "next", "gone"},
                             todo : Seq(Gems)]],
         \A w \in Workers : ws[w].at \in {"off", "gone"},
         \A r \in Runs : prep'[r] \notin {"fill", "event"},
         \A n \in Runs : readers'[n] \notin Simple,
         Silent, handing = << >>, resets = 0, restarts = 0,
         AskedIn(Before(s) \cup {s}) \subseteq acked,
         \A g \in Gems : \E i \in DOMAIN slice : slice[i] = g,
         UNCHANGED <<run, slice, unusable, handing, commChan, acked, restarts>>
  PROVE  InOrder'
<1> DEFINE to == Follow(s)
           v == <<run, to>>
<1>0. state' = to /\ to \in Steps \cup {"configDone"} /\ run' = run /\ handing' = << >>
  BY FollowType DEF Advance
<1>1. /\ work' = IF to \in Multi THEN Moved(ws, v, "begin") ELSE ws
      /\ open' = IF to \in Simple THEN open \cup {Request(run, to, NoGem)} ELSE open
      /\ resets' = IF to = "configDone" THEN 1 ELSE 0
  BY DEF Advance, Undisturbed
<1>2. run \in Runs
  BY DEF TypeInv, TypeOK, FsmType, RunFits, Runs, Steps, Simple, Multi
<1>3. Before(to) = Before(s) \cup {s}
  BY FollowBefore
<1> HIDE DEF to
<1>4. Heard' = {} /\ open = {}
  BY DEF Silent, Heard
<1>5. /\ \A w \in Workers : work'[w].at \notin {"off", "gone"} => to \in Multi /\ w = v
      /\ to \in Multi => work'[v].at = "begin"
  <2>1. CASE to \in Multi
    <3>1. v \in Workers
      BY <1>2, <2>1 DEF Workers
    <3> HIDE DEF v
    <3>2. work'[v].at = "begin" /\ \A w \in Workers : w # v => work'[w] = ws[w]
      BY <1>1, <2>1, <3>1 DEF Moved
    <3> QED
      BY <2>1, <3>2
  <2>2. CASE to \notin Multi
    BY <1>1, <2>2
  <2> QED
    BY <2>1, <2>2
<1>6. TidyInv'
  <2>1. state' \notin Steps => Silent'
    BY <1>0, <1>1, <1>4, StepNames DEF Silent
  <2> QED
    BY <1>0, <1>5, <2>1 DEF TidyInv
<1>7. PostedInv'
  BY <1>0, <1>1, StepNames DEF PostedInv
<1>8. SliceInv'
  BY DEF SliceInv
<1>9. AckedInv'
  <2>1. AskedIn(Before(to)) \subseteq acked
    BY <1>3
  <2> QED
    BY <1>0, <2>1 DEF AckedInv, AskedIn
<1>10. SimpleInv'
  <2>1. to \in Simple => open' \subseteq {Request(run, to, NoGem)}
    BY <1>1, <1>4
  <2> QED
    BY <1>0, <1>4, <2>1 DEF SimpleInv, OnItsWay
<1>11. MultiInv'
  <2> SUFFICES ASSUME to \in Multi
               PROVE  /\ work'[v].at = "begin" /\ Silent'
    BY <1>0 DEF MultiInv, PendingInv, TodoInv
  <2>1. open' = open
    BY <1>1, StepNames
  <2> QED
    BY <1>4, <1>5, <2>1 DEF Silent
<1> QED
  BY <1>6, <1>7, <1>8, <1>9, <1>10, <1>11 DEF InOrder

LEMMA NothingAsked == AskedIn({}) = {} /\ AskedIn({} \cup {"starting"}) = {}
  BY StepNames DEF AskedIn

LEMMA StartOrder == ASSUME TypeInv, InOrder, Start PROVE InOrder'
<1> USE DEF InOrder
<1>1. /\ state = "disabled" /\ state' = "starting" /\ run' = run + 1 /\ run + 1 \in Runs
      /\ readers' = [readers EXCEPT ![run + 1] = "read"]
      /\ prep' = [prep EXCEPT ![run + 1] = "fill"]
      /\ UNCHANGED <<work, handing, commChan, resets, restarts, open, acked>>
  BY AniAssumption DEF Start, TypeInv, TypeOK, FsmType, Runs, onuVars
<1>2. /\ readers \in [Runs -> {"off", "read", "hand", "callback", "gone"} \cup Simple]
      /\ prep \in [Runs -> {"off", "fill", "event", "gone"}]
  BY DEF TypeInv, TypeOK, LoopType, FsmType
<1>3. /\ \A r \in Runs : prep[r] \notin {"fill", "event"}
      /\ \A w \in Workers : work[w].at \in {"off", "gone"}
      /\ \A n \in Runs : readers[n] \notin Simple
      /\ handing = << >> /\ Silent
  BY <1>1, StepNames DEF TidyInv
<1>4. TidyInv'
  <2>1. \A n \in Runs : readers'[n] \notin Simple
    BY <1>1, <1>2, <1>3 DEF Simple
  <2>2. \A r \in Runs : prep'[r] \in {"fill", "event"} => r = run'
    BY <1>1, <1>2, <1>3
  <2>3. Silent'
    BY <1>1, <1>3 DEF Silent, Heard
  <2> QED
    BY <1>1, <1>3, <2>1, <2>2, <2>3 DEF TidyInv
<1>5. PostedInv'
  BY <1>1 DEF PostedInv
<1>6. SliceInv'
  BY <1>1, <1>2 DEF SliceInv
<1>7. AckedInv'
  <2>1. Before(state') = {}
    BY <1>1 DEF Before
  <2> QED
    BY <2>1 DEF AckedInv, AskedIn
<1>8. SimpleInv' /\ MultiInv'
  BY <1>1, StepNames DEF SimpleInv, MultiInv
<1> QED
  BY <1>4, <1>5, <1>6, <1>7, <1>8

LEMMA FillOrder ==
  ASSUME TypeInv, InOrder, NEW r \in Runs, Fill(r) PROVE InOrder'
<1> USE DEF InOrder
<1>1. /\ prep[r] = "fill" /\ prep' = [prep EXCEPT ![r] = "event"]
      /\ UNCHANGED <<state, run, work, readers, handing, commChan, resets, restarts, open, acked>>
  BY DEF Fill, loopVars, onuVars
<1>2. PICK order \in Orders : slice' = slice \o order
  BY DEF Fill
<1>3. state = "starting" /\ r = run
  BY <1>1 DEF TidyInv
<1>4. prep \in [Runs -> {"off", "fill", "event", "gone"}] /\ slice \in Seq(Gems)
  BY DEF TypeInv, TypeOK, FsmType
<1>5. TidyInv'
  BY <1>1, <1>3, <1>4 DEF TidyInv, Silent, Heard
<1>6. PostedInv'
  BY <1>1 DEF PostedInv
<1>7. AckedInv'
  BY <1>1 DEF AckedInv, AskedIn
<1>8. SimpleInv' /\ MultiInv'
  BY <1>1, <1>3, StepNames DEF SimpleInv, MultiInv
<1>9. SliceInv'
  <2>1. Cardinality(Gems) \in Nat
    BY AniAssumption, FS_CardinalityType
  <2>2. order \in [1 .. Cardinality(Gems) -> Gems] /\ \A g \in Gems : \E i \in DOMAIN order : order[i] = g
    BY DEF Orders
  <2>3. order \in Seq(Gems)
    BY <2>1, <2>2
  <2>4. \A i \in DOMAIN order : /\ Len(slice) + i \in DOMAIN (slice \o order)
                                /\ (slice \o order)[Len(slice) + i] = order[i]
    BY <1>4, <2>3
  <2>5. \A g \in Gems : \E i \in DOMAIN (slice \o order) : (slice \o order)[i] = g
    BY <2>2, <2>4
  <2> QED
    BY <1>2, <2>5 DEF SliceInv
<1> QED
  BY <1>5, <1>6, <1>7, <1>8, <1>9

LEMMA StartConfigOrder ==
  ASSUME TypeInv, Undisturbed, InOrder, NEW r \in Runs, StartConfig(r) PROVE InOrder'
<1> USE DEF InOrder
<1>1. /\ prep[r] = "event" /\ prep' = [prep EXCEPT ![r] = "gone"]
      /\ Advance("starting", work)
      /\ UNCHANGED <<run, slice, unusable, readers, handing, commChan, acked, restarts>>
  BY DEF StartConfig
<1>2. state = "starting" /\ r = run
  BY <1>1 DEF TidyInv
<1>3. /\ \A k \in Runs : prep'[k] \notin {"fill", "event"}
      /\ \A w \in Workers : work[w].at \in {"off", "gone"}
      /\ \A n \in Runs : readers'[n] \notin Simple
      /\ handing = << >> /\ Silent
  <2>1. \A k \in Runs : prep[k] \in {"fill", "event"} => k = r
    BY <1>2 DEF TidyInv
  <2>2. prep \in [Runs -> {"off", "fill", "event", "gone"}]
    BY DEF TypeInv, TypeOK, FsmType
  <2>3. \A k \in Runs : prep'[k] \notin {"fill", "event"}
    BY <1>1, <2>1, <2>2
  <2> QED
    BY <1>1, <1>2, <2>3, StepNames DEF TidyInv
<1>4. resets = 0 /\ restarts = 0
  BY <1>2 DEF PostedInv
<1>5. \A g \in Gems : \E i \in DOMAIN slice : slice[i] = g
  BY <1>1, <1>2 DEF SliceInv
<1>6. AskedIn(Before("starting") \cup {"starting"}) \subseteq acked
  <2>1. Before("starting") = {}
    BY DEF Before
  <2> QED
    BY <2>1, NothingAsked
<1>7. work \in [Workers -> [at : {"off", "begin", "send", "record", "wait", "reset",
                                  "next", "gone"},
                            todo : Seq(Gems)]]
  BY DEF TypeInv, TypeOK, WorkType
<1> QED
  BY <1>1, <1>2, <1>3, <1>4, <1>5, <1>6, <1>7, AdvanceOrder

\* The end of a run.
LEMMA PostedOrder ==
  ASSUME TypeInv, InOrder, PostedReset \/ PostedRestart PROVE InOrder'
<1> USE DEF InOrder
<1>0. resets \in Nat /\ restarts \in Nat
  BY DEF TypeInv, TypeOK, CountType
<1>1. CASE PostedReset
  <2>1. resets > 0 /\ resets' = resets - 1 /\ Reset
        /\ UNCHANGED <<work, readers, handing, open, acked, run, slice, prep>>
    BY <1>1 DEF PostedReset, Reset, loopVars, onuVars
  <2>2. state = "configDone" /\ resets = 1 /\ restarts = 0
    BY <1>0, <2>1 DEF PostedInv
  <2>3. state' = "resetting" /\ restarts' = 1 /\ resets' = 0 /\ commChan' = Append(commChan, Abort)
    BY <2>1, <2>2 DEF Reset, Running
  <2>4. Heard' = Heard
    BY <2>3, HeardAppend
  <2>5. TidyInv'
    BY <2>1, <2>2, <2>3, <2>4, StepNames DEF TidyInv, Silent
  <2>6. PostedInv' /\ SliceInv'
    BY <2>3 DEF PostedInv, SliceInv
  <2>7. AckedInv' /\ SimpleInv' /\ MultiInv'
    BY <2>3, StepNames DEF AckedInv, SimpleInv, MultiInv, Running
  <2> QED
    BY <2>5, <2>6, <2>7
<1>2. CASE PostedRestart
  <2>1. restarts > 0 /\ restarts' = restarts - 1
        /\ UNCHANGED <<work, readers, handing, open, acked, run, slice, prep, resets, commChan>>
    BY <1>2 DEF PostedRestart, loopVars, onuVars
  <2>2. state = "resetting" /\ restarts = 1 /\ resets = 0
    BY <1>0, <2>1 DEF PostedInv
  <2>3. state' = "disabled"
    BY <1>2, <2>2 DEF PostedRestart
  <2>4. TidyInv'
    BY <2>1, <2>2, <2>3, StepNames DEF TidyInv, Silent, Heard
  <2>5. PostedInv' /\ SliceInv'
    BY <2>1, <2>2, <2>3 DEF PostedInv, SliceInv
  <2>6. AckedInv' /\ SimpleInv' /\ MultiInv'
    BY <2>3, StepNames DEF AckedInv, SimpleInv, MultiInv, Running
  <2> QED
    BY <2>4, <2>5, <2>6
<1> QED
  BY <1>1, <1>2

\* The invariant of the current goroutine, named.
LEMMA MultiOf ==
  ASSUME NEW w, w = <<run, state>>, run' = run, state' = state
  PROVE  /\ MultiInv <=> (state \in Multi =>
                /\ work[w].at \in {"begin", "send", "record", "wait", "next"}
                /\ PendingInv(w) /\ TodoInv(w))
         /\ MultiInv' <=> (state \in Multi =>
                /\ work'[w].at \in {"begin", "send", "record", "wait", "next"}
                /\ PendingInv(w)' /\ TodoInv(w)')
  BY DEF MultiInv

\* Steps that neither leave a state nor touch the goroutines.
LEMMA ParkedOrder ==
  ASSUME InOrder, UNCHANGED <<state, run, slice, prep, work, resets, restarts>>,
         acked \subseteq acked'
  PROVE  /\ PostedInv' /\ SliceInv' /\ AckedInv'
         /\ \A w \in Workers : TodoInv(w) => TodoInv(w)'
<1>1. PostedInv' /\ SliceInv' /\ AckedInv'
  BY DEF InOrder, PostedInv, SliceInv, AckedInv, AskedIn
<1>2. \A w \in Workers : TodoInv(w) => TodoInv(w)'
  BY DEF TodoInv
<1> QED
  BY <1>1, <1>2

\* The same but for what is on its way and in the hands of the loops.
LEMMA WireOrder ==
  ASSUME TypeInv, InOrder, UNCHANGED <<state, run, slice, prep, work, resets, restarts>>,
         acked \subseteq acked',
         state \in Steps,
         \A n \in Runs : readers'[n] \in Simple => readers'[n] = state,
         handing' # << >> => state \in Multi,
         state \in Simple =>
            \/ /\ OnItsWay(Request(run, state, NoGem))'
               /\ \A n \in Runs : readers'[n] \notin Simple
            \/ /\ Silent' /\ Request(run, state, NoGem) \in acked'
               /\ \A n, k \in Runs : readers'[n] \in Simple /\ readers'[k] \in Simple => n = k,
         state \in Multi => PendingInv(<<run, state>>)'
  PROVE  InOrder'
<1>1. TidyInv'
  BY DEF InOrder, TidyInv
<1>2. SimpleInv'
  BY DEF SimpleInv
<1>3. MultiInv'
  <2> SUFFICES ASSUME state \in Multi PROVE MultiInv'
    BY DEF MultiInv
  <2> DEFINE w == <<run, state>>
  <2>1. run \in Runs
    BY DEF TypeInv, TypeOK, FsmType, RunFits, Runs, Steps, Simple, Multi
  <2>2. w \in Workers
    BY <2>1 DEF Workers
  <2>3. work[w].at \in {"begin", "send", "record", "wait", "next"} /\ TodoInv(w)
    BY DEF InOrder, MultiInv
  <2>4. TodoInv(w)'
    BY <2>3 DEF TodoInv
  <2> QED
    BY <2>3, <2>4 DEF MultiInv
<1> QED
  BY <1>1, <1>2, <1>3, ParkedOrder DEF InOrder

\* The request the state under way waits for.
Expects(q) ==
    \/ state \in Simple /\ q = Request(run, state, NoGem)
    \/ /\ state \in Multi
       /\ work[<<run, state>>].at \in {"record", "wait"}
       /\ q = Request(run, state, Head(work[<<run, state>>].todo))

LEMMA RunUnderWay ==
  ASSUME TypeInv, state \in Multi
  PROVE  run \in Runs /\ <<run, state>> \in Workers
  BY DEF TypeInv, TypeOK, FsmType, RunFits, Runs, Steps, Simple, Multi, Workers

LEMMA UnderWay ==
  ASSUME TypeInv, InOrder, ~Silent
  PROVE  \E q \in RequestSet : /\ Expects(q) /\ OnItsWay(q) /\ handing = << >>
                               /\ \A n \in Runs : readers[n] \notin Simple
<1>1. state \in Steps
  BY DEF InOrder, TidyInv
<1>2. CASE state \in Simple
  <2>1. run \in Runs
    BY <1>2 DEF TypeInv, TypeOK, FsmType, RunFits, Runs, Simple
  <2>2. Request(run, state, NoGem) \in RequestSet
    BY <1>1, <2>1, RequestType
  <2>3. OnItsWay(Request(run, state, NoGem)) /\ \A n \in Runs : readers[n] \notin Simple
    BY <1>2 DEF InOrder, SimpleInv
  <2>4. handing = << >>
    BY <1>2, StepNames DEF InOrder, TidyInv
  <2> QED
    BY <1>2, <2>2, <2>3, <2>4 DEF Expects
<1>3. CASE state \in Multi
  <2> DEFINE w == <<run, state>>
             q == Request(run, state, Head(work[w].todo))
  <2>1. run \in Runs /\ w \in Workers
    BY <1>3, RunUnderWay
  <2>2. work[w].at \in {"record", "wait"} /\ OnItsWay(q) /\ handing = << >>
    BY <1>3 DEF InOrder, MultiInv, PendingInv
  <2>3. Head(work[w].todo) \in Gems
    <3>1. work[w].todo \in Seq(Gems) /\ work[w].todo # << >>
      BY <2>1, <2>2 DEF TypeInv, TypeOK, WorkType, TodoFits
    <3> QED
      BY <3>1
  <2>4. q \in RequestSet
    BY <1>1, <2>1, <2>3, RequestType
  <2>5. \A n \in Runs : readers[n] \notin Simple
    BY <1>3, StepNames DEF InOrder, TidyInv
  <2>6. Expects(q)
    BY <1>3, <2>2 DEF Expects
  <2> HIDE DEF q
  <2> QED
    BY <2>2, <2>4, <2>5, <2>6
<1> QED
  BY <1>1, <1>2, <1>3 DEF Steps

\* What is expected goes from one place to the next.
LEMMA ExpectsOrder ==
  ASSUME TypeInv, InOrder, NEW q \in RequestSet, Expects(q),
         UNCHANGED <<state, run, slice, prep, work, resets, restarts>>, acked \subseteq acked',
         \/ /\ OnItsWay(q)' /\ handing' = << >>
            /\ \A n \in Runs : readers'[n] \notin Simple
         \/ /\ state \in Simple /\ Silent' /\ q \in acked' /\ handing' = << >>
            /\ \E n \in Runs : /\ readers'[n] = state
                               /\ \A k \in Runs : k # n => readers'[k] \notin Simple
         \/ /\ state \in Multi /\ Silent' /\ q \in acked' /\ Len(handing') = 1
            /\ \A n \in Runs : readers'[n] \notin Simple
  PROVE  InOrder'
<1>1. state \in Steps
  BY DEF Expects, Steps
<1>2. \A n \in Runs : readers'[n] \in Simple => readers'[n] = state
  OBVIOUS
<1>3. CASE state \in Simple
  <2>1. q = Request(run, state, NoGem) /\ state \notin Multi
    BY <1>3, StepNames DEF Expects
  <2>2. handing' = << >>
    BY <1>3, <2>1
  <2>3. \/ OnItsWay(q)' /\ \A n \in Runs : readers'[n] \notin Simple
        \/ /\ Silent' /\ q \in acked'
           /\ \A n, k \in Runs : readers'[n] \in Simple /\ readers'[k] \in Simple => n = k
    BY <2>1
  <2>4. \/ /\ OnItsWay(Request(run, state, NoGem))'
           /\ \A n \in Runs : readers'[n] \notin Simple
        \/ /\ Silent' /\ Request(run, state, NoGem) \in acked'
           /\ \A n, k \in Runs : readers'[n] \in Simple /\ readers'[k] \in Simple => n = k
    BY <2>1, <2>3 DEF OnItsWay
  <2> QED
    BY <1>1, <1>2, <2>1, <2>2, <2>4, WireOrder
<1>4. CASE state \in Multi
  <2> DEFINE w == <<run, state>>
  <2>1. /\ w \in Workers /\ work[w].at \in {"record", "wait"} /\ state \notin Simple
        /\ q = Request(run, state, Head(work[w].todo))
    BY <1>4, RunUnderWay, StepNames DEF Expects
  <2>2. \/ OnItsWay(q)' /\ handing' = << >>
        \/ Silent' /\ q \in acked' /\ Len(handing') = 1
    BY <2>1
  <2>3. q = Request(run', state', Head(work'[<<run', state'>>].todo))
        /\ work'[<<run', state'>>].at \in {"record", "wait"}
    BY <2>1
  <2>4. PendingInv(<<run, state>>)'
    BY <2>2, <2>3 DEF PendingInv, OnItsWay
  <2> QED
    BY <1>1, <1>2, <1>4, <2>1, <2>4, WireOrder
<1> QED
  BY <1>1, <1>3, <1>4 DEF Steps

\* Nothing moves.
LEMMA QuietOrder ==
  ASSUME TypeInv, InOrder,
         UNCHANGED <<state, run, slice, prep, work, handing, resets, restarts, open, acked>>,
         commChan' = commChan \/ (Heard = {} /\ Heard' = {}),
         \A n \in Runs : \/ readers'[n] = readers[n]
                         \/ readers[n] \notin Simple /\ readers'[n] \notin Simple
  PROVE  InOrder'
<1>1. Silent' <=> Silent
  BY DEF Silent, Heard
<1>2. ASSUME NEW q, OnItsWay(q) PROVE OnItsWay(q)'
  BY <1>2 DEF OnItsWay, Heard
<1>3. TidyInv'
  BY <1>1 DEF InOrder, TidyInv
<1>4. SimpleInv'
  <2> SUFFICES ASSUME state \in Simple PROVE SimpleInv'
    BY DEF SimpleInv
  <2> DEFINE q == Request(run, state, NoGem)
  <2>0. q = Request(run', state', NoGem)
    OBVIOUS
  <2> HIDE DEF q
  <2>1. CASE OnItsWay(q) /\ \A n \in Runs : readers[n] \notin Simple
    <3>1. PICK p : p = q
      OBVIOUS
    <3>2. OnItsWay(p)'
      BY <1>2, <2>1, <3>1
    <3> QED
      BY <2>0, <2>1, <3>1, <3>2 DEF SimpleInv, OnItsWay
  <2>2. CASE /\ Silent /\ q \in acked
             /\ \A n, k \in Runs : readers[n] \in Simple /\ readers[k] \in Simple => n = k
    BY <1>1, <2>0, <2>2 DEF SimpleInv
  <2> QED
    BY <2>1, <2>2 DEF InOrder, SimpleInv, q
<1>5. MultiInv'
  <2> SUFFICES ASSUME state \in Multi PROVE MultiInv'
    BY DEF MultiInv
  <2>1. PICK w \in Workers : w = <<run, state>>
    BY RunUnderWay
  <2>2. /\ work[w].at \in {"begin", "send", "record", "wait", "next"}
        /\ PendingInv(w) /\ TodoInv(w)
    BY <2>1, MultiOf DEF InOrder
  <2>3. TodoInv(w)'
    BY <2>2 DEF TodoInv
  <2>4. PICK q : q = Request(run, state, Head(work[w].todo))
    OBVIOUS
  <2>5. q = Request(run', state', Head(work'[w].todo))
    BY <2>4
  <2>6. work[w].at \in {"record", "wait"} =>
           (OnItsWay(q)' /\ handing' = << >>) \/ (Silent' /\ q \in acked' /\ Len(handing') = 1)
    BY <1>1, <1>2, <2>2, <2>4 DEF PendingInv
  <2>7. PendingInv(w)'
    <3>1. /\ work'[w].at \in {"begin", "send", "next"} => Silent' /\ handing' = << >>
          /\ work'[w].at = "next" => work'[w].todo = << >>
      BY <1>1, <2>2 DEF PendingInv
    <3> QED
      BY <2>5, <2>6, <3>1 DEF PendingInv, OnItsWay
  <2> QED
    BY <2>1, <2>2, <2>3, <2>7, MultiOf
<1> QED
  BY <1>3, <1>4, <1>5, ParkedOrder DEF InOrder

LEMMA AnswerOrder ==
  ASSUME TypeInv, InOrder, NEW p \in open, Answer(p) PROVE InOrder'
<1>1. /\ open' = open \ {p} /\ acked' = acked \cup {p} /\ commChan' = Append(commChan, p)
      /\ UNCHANGED <<state, run, slice, prep, work, readers, handing, resets, restarts>>
  BY DEF Answer, fsmVars, loopVars
<1>2. p \in RequestSet /\ p # Abort
  BY AbortIsNoRequest DEF TypeInv, TypeOK, ChannelType
<1>3. ~Silent
  BY DEF Silent
<1>4. PICK q \in RequestSet : /\ Expects(q) /\ OnItsWay(q) /\ handing = << >>
                              /\ \A n \in Runs : readers[n] \notin Simple
  BY <1>3, UnderWay
<1>5. open \subseteq {q} /\ Heard = {}
  BY <1>4 DEF OnItsWay
<1>6. p = q /\ open' = {}
  BY <1>1, <1>5
<1>7. \E i \in DOMAIN commChan' : Heard' = {i} /\ commChan'[i] = p
  BY <1>1, <1>2, <1>5, HeardAppend
<1>8. OnItsWay(q)'
  BY <1>1, <1>6, <1>7 DEF OnItsWay
<1> QED
  BY <1>1, <1>4, <1>8, ExpectsOrder

\* A response is read: it is the one expected.
LEMMA ReadIt ==
  ASSUME TypeInv, InOrder, NEW n \in Runs, NEW m \in acked, Receives(n, m)
  PROVE  /\ m \in RequestSet /\ Expects(m) /\ Silent' /\ open' = {} /\ Heard' = {} /\ m \in acked'
         /\ handing = << >> /\ \A k \in Runs : readers[k] \notin Simple
         /\ UNCHANGED <<state, run, slice, prep, resets, restarts, acked>>
<1>1. /\ commChan # << >> /\ m = Head(commChan) /\ commChan' = Tail(commChan)
      /\ UNCHANGED <<state, run, slice, prep, resets, restarts, open, acked>>
  BY DEF Receives, fsmVars, onuVars
<1>2. m \in RequestSet /\ m # Abort
  BY AbortIsNoRequest DEF TypeInv, TypeOK, ChannelType
<1>3. Heard # {}
  BY <1>1, <1>2, HeardTail
<1>4. ~Silent
  BY <1>3 DEF Silent
<1>5. PICK q \in RequestSet : /\ Expects(q) /\ OnItsWay(q) /\ handing = << >>
                              /\ \A k \in Runs : readers[k] \notin Simple
  BY <1>4, UnderWay
<1>6. open = {} /\ \E i \in DOMAIN commChan : Heard = {i} /\ commChan[i] = q
  BY <1>3, <1>5 DEF OnItsWay
<1>7. m = q /\ Heard' = {}
  BY <1>1, <1>2, <1>6, HeardTail
<1> QED
  BY <1>1, <1>2, <1>5, <1>6, <1>7 DEF Silent

LEMMA ReadOrder ==
  ASSUME TypeInv, InOrder, NEW n \in Runs,
         ReadAbort(n) \/ ReadUnexpected(n) \/ ReadSimple(n)
  PROVE  InOrder'
<1>0. readers \in [Runs -> {"off", "read", "hand", "callback", "gone"} \cup Simple]
  BY DEF TypeInv, TypeOK, LoopType
<1>1. CASE ReadAbort(n)
  <2>1. /\ commChan # << >> /\ Head(commChan) = Abort /\ commChan' = Tail(commChan)
        /\ readers[n] = "read" /\ readers' = [readers EXCEPT ![n] = "gone"]
        /\ UNCHANGED <<state, run, slice, prep, work, handing, resets, restarts, open, acked>>
    BY <1>1 DEF ReadAbort, Receives, fsmVars, onuVars
  <2>2. /\ readers'[n] \notin Simple /\ readers[n] \notin Simple
        /\ \A k \in Runs : k # n => readers'[k] = readers[k]
    BY <1>0, <2>1 DEF Simple
  <2>3. CASE Heard = {}
    <3>1. Heard' = {}
      BY <2>1, <2>3, HeardTail
    <3> QED
      BY <2>1, <2>2, <2>3, <3>1, QuietOrder
  <2>4. CASE Heard # {}
    <3>1. PICK q \in RequestSet : /\ Expects(q) /\ OnItsWay(q) /\ handing = << >>
                                  /\ \A k \in Runs : readers[k] \notin Simple
      BY <2>4, UnderWay DEF Silent
    <3>2. open = {} /\ q \in acked
      BY <2>4, <3>1 DEF OnItsWay
    <3>3. PICK i \in DOMAIN commChan : Heard = {i} /\ commChan[i] = q
      BY <2>4, <3>1 DEF OnItsWay
    <3>4. commChan[i] # Abort
      BY <3>3 DEF Heard
    <3>5. \E j \in DOMAIN commChan' : Heard' = {j} /\ commChan'[j] = commChan[i]
      BY <2>1, <3>3, <3>4, HeardTail
    <3>6. OnItsWay(q)'
      BY <2>1, <3>2, <3>3, <3>5 DEF OnItsWay
    <3>7. \A k \in Runs : readers'[k] \notin Simple
      BY <2>2, <3>1
    <3> QED
      BY <2>1, <3>1, <3>6, <3>7, ExpectsOrder
  <2> QED
    BY <2>3, <2>4
<1>2. CASE ReadUnexpected(n)
  <2>1. PICK m \in acked : Receives(n, m)
    BY <1>2 DEF ReadUnexpected
  <2>2. UNCHANGED <<work, readers, handing>>
    BY <1>2 DEF ReadUnexpected, loopVars
  <2>3. /\ m \in RequestSet /\ Expects(m) /\ open' = {} /\ Heard' = {}
        /\ handing = << >> /\ \A k \in Runs : readers[k] \notin Simple
        /\ UNCHANGED <<state, run, slice, prep, resets, restarts, acked>>
    BY <2>1, ReadIt
  <2>4. OnItsWay(m)'
    BY <2>3 DEF OnItsWay
  <2> QED
    BY <2>2, <2>3, <2>4, ExpectsOrder
<1>3. CASE ReadSimple(n)
  <2>1. PICK m \in acked : /\ Receives(n, m) /\ m.step \in Simple
                           /\ readers' = [readers EXCEPT ![n] = m.step]
    BY <1>3 DEF ReadSimple
  <2>2. /\ m \in RequestSet /\ Expects(m) /\ Silent' /\ m \in acked'
        /\ handing = << >> /\ \A k \in Runs : readers[k] \notin Simple
        /\ UNCHANGED <<state, run, slice, prep, resets, restarts, acked>>
    BY <2>1, ReadIt
  <2>3. m.step = state /\ state \in Simple
    BY <2>1, <2>2, StepNames DEF Expects, Request
  <2>4. readers'[n] = state /\ \A k \in Runs : k # n => readers'[k] \notin Simple
    BY <1>0, <2>1, <2>2, <2>3
  <2>5. work' = work /\ handing' = << >>
    BY <1>3, <2>2 DEF ReadSimple
  <2> QED
    BY <2>2, <2>3, <2>4, <2>5, ExpectsOrder
<1> QED
  BY <1>1, <1>2, <1>3

\* A goroutine has its response and goes on.
LEMMA ReleasedOrder ==
  ASSUME TypeInv, InOrder, state \in Multi, NEW w \in Workers, w = <<run, state>>,
         work[w].at \in {"record", "wait"}, work' = Released(w),
         Request(run, state, Head(work[w].todo)) \in acked,
         UNCHANGED <<state, run, slice, prep, resets, restarts, acked>>,
         Silent', handing' = << >>, \A k \in Runs : readers'[k] \notin Simple
  PROVE  InOrder'
<1> DEFINE todo == Tail(work[w].todo)
           at == IF todo = << >> THEN "next" ELSE "send"
<1>1. work[w].todo \in Seq(Gems) /\ work[w].todo # << >>
  BY DEF TypeInv, TypeOK, WorkType, TodoFits
<1>2. TodoInv(w)
  BY MultiOf DEF InOrder
<1>3. \A g \in Gems : \/ Request(run, state, g) \in acked
                      \/ \E i \in DOMAIN todo : todo[i] = g
  <2>1. TAKE g \in Gems
  <2>2. SUFFICES ASSUME Request(run, state, g) \notin acked
                 PROVE  \E i \in DOMAIN todo : todo[i] = g
    OBVIOUS
  <2>3. PICK i \in DOMAIN work[w].todo : work[w].todo[i] = g
    BY <1>2, <2>2 DEF TodoInv
  <2>4. i # 1
    BY <1>1, <2>2, <2>3
  <2>5. i - 1 \in DOMAIN todo /\ todo[i - 1] = work[w].todo[i]
    <3>1. /\ Len(work[w].todo) \in Nat /\ DOMAIN work[w].todo = 1 .. Len(work[w].todo)
          /\ DOMAIN todo = 1 .. Len(work[w].todo) - 1
          /\ \A j \in DOMAIN todo : todo[j] = work[w].todo[j + 1]
      BY <1>1
    <3> HIDE DEF todo
    <3>2. i - 1 \in DOMAIN todo /\ (i - 1) + 1 = i
      BY <2>4, <3>1
    <3>3. todo[i - 1] = work[w].todo[(i - 1) + 1]
      BY <3>1, <3>2
    <3> QED
      BY <3>2, <3>3
  <2> QED
    BY <2>3, <2>5
<1>4. at \in {"next", "send"} /\ (at = "next" => todo = << >>)
  OBVIOUS
<1>5. work' = [work EXCEPT ![w] = [at |-> at, todo |-> todo]]
  BY DEF Released, TypeInv, TypeOK, WorkType
<1> HIDE DEF todo, at
<1>6. /\ work'[w].at = at /\ work'[w].todo = todo
      /\ \A v \in Workers : v # w => work'[v] = work[v]
  <2>1. DOMAIN work = Workers
    BY DEF TypeInv, TypeOK, WorkType
  <2>2. work'[w] = [at |-> at, todo |-> todo]
    BY <1>5, <2>1
  <2>3. \A v \in Workers : v # w => work'[v] = work[v]
    BY <1>5, <2>1
  <2> QED
    BY <2>2, <2>3
<1>7. TidyInv'
  <2>1. state \in Steps
    BY DEF Steps
  <2> QED
    BY <1>6, <2>1 DEF InOrder, TidyInv
<1>8. PostedInv' /\ SliceInv' /\ AckedInv'
  BY DEF InOrder, PostedInv, SliceInv, AckedInv, AskedIn
<1>9. SimpleInv'
  BY StepNames DEF SimpleInv
<1>10. PendingInv(w)'
  BY <1>4, <1>6 DEF PendingInv
<1>11. TodoInv(w)'
  BY <1>3, <1>6 DEF TodoInv
<1>12. MultiInv'
  BY <1>4, <1>6, <1>10, <1>11, MultiOf
<1> QED
  BY <1>7, <1>8, <1>9, <1>12 DEF InOrder

LEMMA ReadMultiOrder ==
  ASSUME TypeInv, InOrder, NEW n \in Runs, ReadMulti(n) PROVE InOrder'
<1>0. readers \in [Runs -> {"off", "read", "hand", "callback", "gone"} \cup Simple]
  BY DEF TypeInv, TypeOK, LoopType
<1>1. PICK m \in acked : Receives(n, m) /\ m.step \in Multi
  BY DEF ReadMulti
<1>2. /\ m \in RequestSet /\ Expects(m) /\ Silent' /\ m \in acked'
      /\ handing = << >> /\ \A k \in Runs : readers[k] \notin Simple
      /\ UNCHANGED <<state, run, slice, prep, resets, restarts, acked>>
  BY <1>1, ReadIt
<1>3. state \in Multi
  BY <1>1, <1>2, StepNames DEF Expects, Request
<1>4. PICK w \in Workers : w = <<run, state>>
  BY <1>3, RunUnderWay
<1>5. work[w].at \in {"record", "wait"} /\ m = Request(run, state, Head(work[w].todo))
  BY <1>2, <1>3, <1>4, StepNames DEF Expects
<1>6. CASE waiting # << >>
  <2>1. work' = Released(Head(waiting)) /\ UNCHANGED <<readers, handing>>
    BY <1>6 DEF ReadMulti
  <2>2. Head(waiting) \in Workers /\ work[Head(waiting)].at = "wait"
    <3>1. waiting \in Seq(Workers)
      BY DEF TypeInv, TypeOK, WorkType
    <3>2. Head(waiting) = waiting[1] /\ 1 \in DOMAIN waiting /\ Head(waiting) \in Workers
      BY <1>6, <3>1
    <3> QED
      BY <3>2 DEF TypeInv, WaitFits
  <2>3. Head(waiting) = w
    BY <1>4, <2>2 DEF InOrder, TidyInv
  <2> QED
    BY <1>2, <1>3, <1>4, <1>5, <2>1, <2>3, ReleasedOrder
<1>7. CASE waiting = << >>
  <2>1. /\ handing' = Append(handing, n) /\ readers' = [readers EXCEPT ![n] = "hand"]
        /\ work' = work
    BY <1>7 DEF ReadMulti
  <2>2. Len(handing') = 1
    BY <1>2, <2>1
  <2>3. \A k \in Runs : readers'[k] \notin Simple
    BY <1>0, <1>2, <2>1 DEF Simple
  <2> QED
    BY <1>2, <1>3, <2>1, <2>2, <2>3, ExpectsOrder
<1> QED
  BY <1>6, <1>7

LEMMA PostEventOrder ==
  ASSUME TypeInv, Undisturbed, InOrder, NEW n \in Runs, PostEvent(n) PROVE InOrder'
<1> DEFINE p == IF callback' = None THEN "read" ELSE "callback"
<1>1. /\ readers[n] \in Simple /\ Advance(readers[n], work)
      /\ readers' = [readers EXCEPT ![n] = p]
      /\ UNCHANGED <<run, slice, unusable, prep, handing, commChan, acked, restarts>>
  BY DEF PostEvent
<1>2. p \notin Simple
  BY DEF Simple
<1> HIDE DEF p
<1>3. PICK s \in Simple : s = readers[n]
  BY <1>1
<1>4. state = s /\ s \in Steps \cup {"starting"} /\ state \notin Multi
  BY <1>1, <1>3, StepNames DEF InOrder, TidyInv
<1>5. /\ Silent /\ Request(run, s, NoGem) \in acked
      /\ \A k \in Runs : readers[k] \in Simple => k = n
  BY <1>1, <1>3, <1>4 DEF InOrder, SimpleInv
<1>6. \A k \in Runs : readers'[k] \notin Simple
  BY <1>1, <1>2, <1>5 DEF TypeInv, TypeOK, LoopType
<1>7. /\ \A w \in Workers : work[w].at \in {"off", "gone"}
      /\ handing = << >>
      /\ \A r \in Runs : prep'[r] \notin {"fill", "event"}
  BY <1>1, <1>4, StepNames DEF InOrder, TidyInv
<1>8. resets = 0 /\ restarts = 0
  BY <1>3, <1>4, StepNames DEF InOrder, PostedInv
<1>9. \A g \in Gems : \E i \in DOMAIN slice : slice[i] = g
  BY <1>3, <1>4, StepNames DEF InOrder, SliceInv
<1>10. AskedIn(Before(s) \cup {s}) \subseteq acked
  <2>1. AskedIn(Before(s)) \subseteq acked
    BY <1>4 DEF InOrder, AckedInv, Running, Steps
  <2>2. AskedIn(Before(s) \cup {s}) \subseteq AskedIn(Before(s)) \cup {Request(run, s, NoGem)}
    BY <1>4 DEF AskedIn
  <2> QED
    BY <1>5, <2>1, <2>2
<1>11. work \in [Workers -> [at : {"off", "begin", "send", "record", "wait", "reset",
                                   "next", "gone"},
                             todo : Seq(Gems)]]
  BY DEF TypeInv, TypeOK, WorkType
<1> QED
  BY <1>1, <1>3, <1>4, <1>5, <1>6, <1>7, <1>8, <1>9, <1>10, <1>11, AdvanceOrder

LEMMA WorkerOrder ==
  ASSUME TypeInv, Undisturbed, InOrder, NEW w \in Workers, Worker(w)
  PROVE  InOrder'
<1>1. /\ state \in Multi /\ w = <<run, state>>
      /\ work[w].at \in {"begin", "send", "record", "wait", "next"}
      /\ PendingInv(w) /\ TodoInv(w)
  <2>1. work[w].at \notin {"off", "gone"}
    BY DEF Worker, Begin, Send, RecordAndWait, AbortRun, EndLoop
  <2>2. state \in Multi /\ w = <<run, state>>
    BY <2>1 DEF InOrder, TidyInv
  <2>3. /\ work[w].at \in {"begin", "send", "record", "wait", "next"}
        /\ PendingInv(w) /\ TodoInv(w)
    BY <2>2 DEF InOrder, MultiInv
  <2> QED
    BY <2>2, <2>3
<1>2. /\ work \in [Workers -> [at : {"off", "begin", "send", "record", "wait", "reset",
                                     "next", "gone"},
                               todo : Seq(Gems)]]
      /\ DOMAIN work = Workers
      /\ slice \in Seq(Gems)
  BY DEF TypeInv, TypeOK, WorkType, FsmType
<1>3. state \in Steps /\ state \notin Simple
  BY <1>1, StepNames
<1>4. \A k \in Runs : readers[k] \notin Simple
  BY <1>3 DEF InOrder, TidyInv
\* The goroutine alone moves; its invariant is to be shown.
<1>5. ASSUME UNCHANGED <<state, run, slice, prep, resets, restarts, acked, readers>>,
             \A v \in Workers : v # w => work'[v] = work[v],
             work'[w].at \in {"begin", "send", "record", "wait", "next"},
             PendingInv(w)', TodoInv(w)'
      PROVE  InOrder'
  <2>1. TidyInv'
    BY <1>1, <1>3, <1>5 DEF InOrder, TidyInv
  <2>2. PostedInv' /\ SliceInv' /\ AckedInv'
    BY <1>5 DEF InOrder, PostedInv, SliceInv, AckedInv, AskedIn
  <2>3. SimpleInv'
    BY <1>3, <1>5 DEF SimpleInv
  <2>4. MultiInv'
    BY <1>1, <1>5, MultiOf
  <2> QED
    BY <2>1, <2>2, <2>3, <2>4 DEF InOrder
<1>6. CASE Begin(w)
  <2> DEFINE at == IF slice = << >> THEN "next" ELSE "send"
  <2>1. /\ work[w].at = "begin" /\ at \in {"next", "send"} /\ (at = "next" => slice = << >>)
        /\ work' = [work EXCEPT ![w] = [at |-> at, todo |-> slice]]
        /\ UNCHANGED <<state, run, slice, prep, resets, restarts, acked, readers, handing,
                       open, commChan>>
    BY <1>6 DEF Begin, fsmVars, onuVars
  <2> HIDE DEF at
  <2>2. work'[w] = [at |-> at, todo |-> slice]
    BY <1>2, <2>1
  <2>3. \A v \in Workers : v # w => work'[v] = work[v]
    BY <1>2, <2>1
  <2>4. work'[w].at = at /\ work'[w].todo = slice
    BY <2>2
  <2>5. Silent' /\ handing' = << >>
    BY <1>1, <2>1 DEF PendingInv, Silent, Heard
  <2>6. PendingInv(w)'
    BY <2>1, <2>4, <2>5 DEF PendingInv
  <2>7. \A g \in Gems : \E i \in DOMAIN slice : slice[i] = g
    BY <1>1, <1>3, StepNames DEF InOrder, SliceInv
  <2>8. TodoInv(w)'
    BY <2>4, <2>7 DEF TodoInv
  <2> QED
    BY <1>5, <2>1, <2>3, <2>4, <2>6, <2>8
<1>7. CASE Send(w)
  <2>1. /\ work[w].at = "send" /\ work' = [work EXCEPT ![w] = [at |-> "record", todo |-> work[w].todo]]
        /\ open' = open \cup {Request(run, state, Head(work[w].todo))}
        /\ UNCHANGED <<state, run, slice, prep, resets, restarts, acked, readers, handing,
                       commChan>>
    BY <1>1, <1>7 DEF Send, Moved, fsmVars
  <2>2. /\ work'[w] = [at |-> "record", todo |-> work[w].todo]
        /\ \A v \in Workers : v # w => work'[v] = work[v]
    BY <1>2, <2>1
  <2>3. work'[w].at = "record" /\ work'[w].todo = work[w].todo
    BY <2>2
  <2>4. Silent /\ handing' = << >>
    BY <1>1, <2>1 DEF PendingInv
  <2>5. open' \subseteq {Request(run', state', Head(work'[w].todo))} /\ Heard' = {}
    BY <2>1, <2>3, <2>4 DEF Silent, Heard
  <2>6. PendingInv(w)'
    BY <2>3, <2>4, <2>5 DEF PendingInv, OnItsWay
  <2>7. TodoInv(w)'
    BY <1>1, <2>1, <2>3 DEF TodoInv
  <2> QED
    BY <1>5, <2>1, <2>2, <2>3, <2>6, <2>7
<1>8. CASE RecordAndWait(w)
  <2>1. /\ work[w].at = "record"
        /\ UNCHANGED <<state, run, slice, prep, resets, restarts, acked, open, commChan>>
    BY <1>8 DEF RecordAndWait, fsmVars, onuVars
  <2>2. PICK q : q = Request(run, state, Head(work[w].todo))
    OBVIOUS
  <2>3. \/ OnItsWay(q) /\ handing = << >>
        \/ Silent /\ q \in acked /\ Len(handing) = 1
    BY <1>1, <2>1, <2>2 DEF PendingInv
  <2>4. CASE handing # << >>
    <3>1. /\ handing' = Tail(handing) /\ work' = Released(w)
          /\ readers' = [readers EXCEPT ![Head(handing)] = "read"]
      BY <1>8, <2>4 DEF RecordAndWait
    <3>2. handing \in Seq(Runs)
      BY DEF TypeInv, TypeOK, LoopType
    <3>3. Silent' /\ q \in acked /\ handing' = << >>
      BY <2>1, <2>3, <2>4, <3>1, <3>2 DEF Silent, Heard
    <3>4. \A k \in Runs : readers'[k] \notin Simple
      BY <1>4, <3>1 DEF Simple, TypeInv, TypeOK, LoopType
    <3> QED
      BY <1>1, <2>1, <2>2, <3>1, <3>3, <3>4, ReleasedOrder
  <2>5. CASE handing = << >>
    <3>1. /\ work' = [work EXCEPT ![w] = [at |-> "wait", todo |-> work[w].todo]]
          /\ UNCHANGED <<readers, handing>>
      BY <1>8, <2>5 DEF RecordAndWait, Moved
    <3>2. /\ work'[w] = [at |-> "wait", todo |-> work[w].todo]
          /\ \A v \in Workers : v # w => work'[v] = work[v]
      BY <1>2, <3>1
    <3>3. work'[w].at = "wait" /\ work'[w].todo = work[w].todo
      BY <3>2
    <3>4. OnItsWay(q)
      BY <2>3, <2>5
    <3>5. OnItsWay(q)'
      BY <2>1, <3>4 DEF OnItsWay, Heard
    <3>6. q = Request(run', state', Head(work'[w].todo))
      BY <2>1, <2>2, <3>3
    <3>7. PendingInv(w)'
      BY <2>5, <3>1, <3>3, <3>5, <3>6 DEF PendingInv, OnItsWay
    <3>8. TodoInv(w)'
      BY <1>1, <2>1, <3>3 DEF TodoInv
    <3> QED
      BY <1>5, <2>1, <3>1, <3>2, <3>3, <3>7, <3>8
  <2> QED
    BY <2>4, <2>5
<1>9. CASE AbortRun(w)
  BY <1>1, <1>9 DEF AbortRun
<1>10. CASE EndLoop(w)
  <2> DEFINE ws == Moved(work, w, "gone")
  <2>1. /\ work[w].at = "next" /\ Advance(w[2], ws)
        /\ UNCHANGED <<run, slice, unusable, prep, readers, handing, commChan, acked, restarts>>
    BY <1>10 DEF EndLoop
  <2>2. w[2] = state
    BY <1>1
  <2>3. PICK s \in Multi : s = state
    BY <1>1
  <2>4. ws \in [Workers -> [at : {"off", "begin", "send", "record", "wait", "reset",
                                  "next", "gone"},
                            todo : Seq(Gems)]]
        /\ ws[w].at = "gone" /\ \A v \in Workers : v # w => ws[v] = work[v]
    BY <1>2 DEF Moved
  <2> HIDE DEF ws
  <2>5. \A v \in Workers : ws[v].at \in {"off", "gone"}
    BY <1>1, <2>4 DEF InOrder, TidyInv
  <2>6. Silent /\ handing = << >> /\ work[w].todo = << >>
    BY <1>1, <2>1 DEF PendingInv
  <2>7. \A r \in Runs : prep'[r] \notin {"fill", "event"}
    BY <1>3, <2>1, StepNames DEF InOrder, TidyInv
  <2>8. resets = 0 /\ restarts = 0
    BY <1>3, StepNames DEF InOrder, PostedInv
  <2>9. \A g \in Gems : \E i \in DOMAIN slice : slice[i] = g
    BY <1>3, StepNames DEF InOrder, SliceInv
  <2>10. AskedIn(Before(s) \cup {s}) \subseteq acked
    <3>1. AskedIn(Before(s)) \subseteq acked
      BY <1>3, <2>3 DEF InOrder, AckedInv, Running
    <3>2. \A g \in Gems : Request(run, s, g) \in acked
      BY <1>1, <2>1, <2>3, <2>6 DEF TodoInv
    <3>3. AskedIn(Before(s) \cup {s})
            \subseteq AskedIn(Before(s)) \cup {Request(run, s, g) : g \in Gems}
      BY <2>3, StepNames DEF AskedIn
    <3> QED
      BY <3>1, <3>2, <3>3
  <2>11. s \in Steps \cup {"starting"}
    BY <2>3, StepNames
  <2>12. Advance(s, ws)
    BY <2>1, <2>2, <2>3
  <2>13. \A k \in Runs : readers'[k] \notin Simple
    BY <1>4, <2>1
  <2> QED
    BY <2>1, <2>3, <2>4, <2>5, <2>6, <2>7, <2>8, <2>9, <2>10, <2>11, <2>12, <2>13, AdvanceOrder
<1> QED
  BY <1>6, <1>7, <1>8, <1>9, <1>10 DEF Worker

LEMMA OrderStep == ASSUME TypeInv, OrderlyInv, [Next]_vars PROVE OrderlyInv'
<1>0. timeouts \in Nat /\ expired \subseteq Runs /\ unusable \subseteq Runs
  BY DEF TypeInv, TypeOK, CountType, FsmType
<1> SUFFICES ASSUME Undisturbed' PROVE InOrder'
  BY DEF OrderlyInv
<1>1. ASSUME UNCHANGED <<expired, timeouts>>, unusable' = unusable \/ \E r \in Runs : Fill(r)
      PROVE  Undisturbed /\ InOrder
  <2>1. unusable \subseteq unusable'
    BY <1>1 DEF Fill
  <2>2. Undisturbed
    BY <1>1, <2>1 DEF Undisturbed
  <2> QED
    BY <2>2 DEF OrderlyInv
<1>2. CASE Start
  BY <1>1, <1>2, StartOrder DEF Start, boundVars
<1>3. ASSUME NEW q \in open, Answer(q) PROVE InOrder'
  BY <1>1, <1>3, AnswerOrder DEF Answer, boundVars, fsmVars
<1>4. ASSUME NEW r \in Runs, RunSteps(r) PROVE InOrder'
  <2>1. CASE Fill(r)
    BY <1>1, <2>1, FillOrder DEF Fill, boundVars
  <2>2. CASE StartConfig(r)
    BY <1>1, <2>2, StartConfigOrder DEF StartConfig, boundVars
  <2> QED
    BY <1>4, <2>1, <2>2 DEF RunSteps
<1>5. ASSUME NEW r \in Runs, MessageLoop(r) PROVE InOrder'
  <2>1. CASE ReadAbort(r) \/ ReadUnexpected(r) \/ ReadSimple(r)
    <3>1. UNCHANGED <<expired, timeouts, unusable>>
      BY <2>1 DEF ReadAbort, ReadUnexpected, ReadSimple, Receives, fsmVars
    <3> QED
      BY <1>1, <2>1, <3>1, ReadOrder
  <2>2. CASE ReadMulti(r)
    BY <1>1, <2>2, ReadMultiOrder DEF ReadMulti, Receives, fsmVars
  <2>3. CASE PostEvent(r)
    BY <1>1, <2>3, PostEventOrder DEF PostEvent, boundVars
  <2> QED
    BY <1>5, <2>1, <2>2, <2>3 DEF MessageLoop
<1>6. ASSUME NEW r \in Runs, ResetFromOutside(r) PROVE InOrder'
  BY <1>6 DEF ResetFromOutside, Undisturbed
<1>7. ASSUME NEW w \in Workers, Worker(w) PROVE InOrder'
  <2>1. UNCHANGED <<expired, timeouts, unusable>>
    BY <1>7 DEF Worker, Begin, Send, RecordAndWait, AbortRun, EndLoop, Reset, fsmVars, boundVars
  <2> QED
    BY <1>1, <1>7, <2>1, WorkerOrder
<1>8. ASSUME NEW w \in Workers, TimeOut(w) PROVE InOrder'
  <2>1. timeouts' = timeouts + 1
    BY <1>8 DEF TimeOut
  <2> QED
    BY <1>0, <2>1 DEF Undisturbed
<1>9. CASE Recorded
  <2>1. /\ UNCHANGED <<state, run, slice, prep, work, handing, resets, restarts, open, acked,
                       commChan, expired, timeouts, unusable>>
        /\ readers' = [k \in Runs |-> IF readers[k] = "callback" THEN "read" ELSE readers[k]]
    BY <1>9 DEF Recorded, onuVars, boundVars
  <2>2. \A n \in Runs : \/ readers'[n] = readers[n]
                        \/ readers[n] \notin Simple /\ readers'[n] \notin Simple
    BY <2>1 DEF Simple
  <2> QED
    BY <1>1, <2>1, <2>2, QuietOrder
<1>10. CASE PostedReset \/ PostedRestart
  <2>1. UNCHANGED <<expired, timeouts, unusable>>
    BY <1>10 DEF PostedReset, PostedRestart, Reset, boundVars
  <2> QED
    BY <1>1, <1>10, <2>1, PostedOrder
<1>11. CASE UNCHANGED vars
  <2>1. UNCHANGED <<state, run, slice, prep, work, handing, resets, restarts, open, acked,
                    commChan, readers, expired, timeouts, unusable>>
    BY <1>11 DEF vars, fsmVars, loopVars, onuVars, boundVars
  <2> QED
    BY <1>1, <2>1, QuietOrder
<1> QED
  BY <1>2, <1>3, <1>4, <1>5, <1>6, <1>7, <1>8, <1>9, <1>10, <1>11 DEF Next, MachineSteps

LEMMA InitOrder == Init => OrderlyInv
<1> SUFFICES ASSUME Init PROVE InOrder
  BY DEF OrderlyInv
<1>1. state = "disabled" /\ Heard = {} /\ open = {}
  BY DEF Init, Heard
<1>2. TidyInv
  BY <1>1, StepNames DEF Init, TidyInv, Silent, Idle, Simple
<1>3. PostedInv /\ SliceInv
  BY <1>1 DEF Init, PostedInv, SliceInv
<1>4. AckedInv /\ SimpleInv /\ MultiInv
  BY <1>1, StepNames DEF AckedInv, SimpleInv, MultiInv, Running
<1> QED
  BY <1>2, <1>3, <1>4 DEF InOrder

(* processOmciAniMessages and the goroutines of the states: as long as no  *)
(* run is reset from outside, no wait times out and every profile has a    *)
(* p-bit, one request is on its way at a time, and at configDone the ONU   *)
(* has answered each request of the run, for any number of GEM ports.      *)
THEOREM AnswersBeforeDone == Spec => []CompleteIsAnswered
<1>1. TypeInv /\ OrderlyInv => CompleteIsAnswered
  <2> SUFFICES ASSUME TypeInv, InOrder
               PROVE  /\ Cardinality(open) <= 1
                      /\ state = "configDone" => Wanted(run) \subseteq acked
    BY DEF OrderlyInv, CompleteIsAnswered
  <2>1. open = {} \/ \E q : open = {q}
    <3>1. CASE Silent
      BY <3>1 DEF Silent
    <3>2. CASE ~Silent
      BY <3>2, UnderWay DEF OnItsWay
    <3> QED
      BY <3>1, <3>2
  <2>2. Cardinality(open) <= 1
    <3>1. CASE open = {}
      <4>1. Cardinality(open) = 0
        BY <3>1, FS_EmptySet
      <4> QED
        BY <4>1
    <3>2. CASE \E q : open = {q}
      <4>1. Cardinality(open) = 1
        BY <3>2, FS_Singleton
      <4> QED
        BY <4>1
    <3> QED
      BY <2>1, <3>1, <3>2
  <2>3. state = "configDone" => Wanted(run) \subseteq acked
    <3> SUFFICES ASSUME state = "configDone" PROVE Wanted(run) \subseteq acked
      OBVIOUS
    <3>1. Before(state) = {"starting"} \cup Steps
      BY DEF Before
    <3>2. AskedIn(Before(state)) \subseteq acked
      BY DEF InOrder, AckedInv, Running
    <3>3. Wanted(run) \subseteq AskedIn(Before(state))
      BY <3>1, StepNames DEF Wanted, AskedIn
    <3> QED
      BY <3>2, <3>3
  <2> QED
    BY <2>2, <2>3
<1>2. TypeInv /\ OrderlyInv /\ [Next]_vars => TypeInv' /\ OrderlyInv'
  BY TypeStep, OrderStep
<1> QED
  BY <1>1, <1>2, InitType, InitOrder, PTL DEF Spec

-----------------------------------------------------------------------------
(* The machine of the tech profile processing.                             *)

\* What the tech profile processing sees of it.
Phase == IF state \in Steps \ {"settingDot1PMapper"} THEN "creating"
         ELSE IF state = "settingDot1PMapper" THEN "mapper" ELSE state

CompletedIsFlag == completed \in BOOLEAN
AniMoves == CompletedIsFlag' /\ [Machine!Next]_<<Phase, completed>>

LEMMA SameMachine == CompletedIsFlag /\ UNCHANGED <<state, completed>> => AniMoves
  BY DEF CompletedIsFlag, AniMoves, Phase

LEMMA AdvanceMoves ==
  ASSUME CompletedIsFlag, NEW s \in Steps \cup {"starting"}, NEW ws, Advance(s, ws)
  PROVE  AniMoves
<1>1. CASE state # s
  BY <1>1, SameMachine DEF Advance
<1>2. CASE state = s
  <2>1. state' = Follow(s) /\ completed' = (completed \/ Follow(s) = "configDone")
    BY <1>2 DEF Advance
  <2>2. CASE s = "starting"
    BY <1>2, <2>1, <2>2
       DEF Follow, CompletedIsFlag, AniMoves, Phase, Steps, Simple, Multi,
           Machine!Next, Machine!Create, Machine!Go
  <2>3. CASE s \in Steps \ {"settingDot1PMapper", "settingPQs"}
    BY <1>2, <2>1, <2>3
       DEF Follow, CompletedIsFlag, AniMoves, Phase, Steps, Simple, Multi
  <2>4. CASE s = "settingPQs"
    BY <1>2, <2>1, <2>4
       DEF Follow, CompletedIsFlag, AniMoves, Phase, Steps, Simple, Multi,
           Machine!Next, Machine!SetMapper, Machine!Go
  <2>5. CASE s = "settingDot1PMapper"
    BY <1>2, <2>1, <2>5
       DEF Follow, CompletedIsFlag, AniMoves, Phase, Steps, Simple, Multi,
           Machine!Next, Machine!Complete
  <2> QED
    BY <2>2, <2>3, <2>4, <2>5
<1> QED
  BY <1>1, <1>2

LEMMA ResetMoves == ASSUME CompletedIsFlag, Reset PROVE AniMoves
<1>1. CASE state \in Running
  BY <1>1 DEF Reset, CompletedIsFlag, AniMoves, Phase, Running, Steps, Simple, Multi,
              Machine!Next, Machine!Abort, Machine!Go
<1>2. CASE state \notin Running
  BY <1>2, SameMachine DEF Reset
<1> QED
  BY <1>1, <1>2

LEMMA StepMoves == ASSUME CompletedIsFlag, [Next]_vars PROVE AniMoves
<1>1. CASE Start
  BY <1>1 DEF Start, CompletedIsFlag, AniMoves, Phase, Steps, Simple, Multi,
              Machine!Next, Machine!Start, Machine!Go
<1>2. CASE \E q \in open : Answer(q)
  BY <1>2, SameMachine DEF Answer, fsmVars
<1>3. ASSUME NEW r \in Runs, RunSteps(r) PROVE AniMoves
  BY <1>3, AdvanceMoves, SameMachine DEF RunSteps, Fill, StartConfig
<1>4. ASSUME NEW n \in Runs, MessageLoop(n) PROVE AniMoves
  <2>1. CASE PostEvent(n)
    BY <2>1, AdvanceMoves DEF PostEvent, Steps
  <2>2. CASE ReadAbort(n) \/ ReadUnexpected(n) \/ ReadSimple(n) \/ ReadMulti(n)
    BY <2>2, SameMachine
       DEF ReadAbort, ReadUnexpected, ReadSimple, ReadMulti, Receives, fsmVars
  <2> QED
    BY <1>4, <2>1, <2>2 DEF MessageLoop
<1>5. ASSUME NEW r \in Runs, ResetFromOutside(r) PROVE AniMoves
  BY <1>5, ResetMoves DEF ResetFromOutside
<1>6. ASSUME NEW w \in Workers, Worker(w) \/ TimeOut(w) PROVE AniMoves
  <2>1. w[2] \in Steps
    BY DEF Workers, Steps
  <2>2. CASE AbortRun(w)
    BY <2>2, ResetMoves DEF AbortRun
  <2>3. CASE EndLoop(w)
    BY <2>1, <2>3, AdvanceMoves DEF EndLoop
  <2>4. CASE Begin(w) \/ Send(w) \/ RecordAndWait(w) \/ TimeOut(w)
    BY <2>4, SameMachine DEF Begin, Send, RecordAndWait, TimeOut, fsmVars
  <2> QED
    BY <1>6, <2>2, <2>3, <2>4 DEF Worker
<1>7. CASE MachineSteps
  <2>1. CASE Recorded
    BY <2>1, SameMachine DEF Recorded
  <2>2. CASE PostedReset
    BY <2>2, ResetMoves DEF PostedReset
  <2>3. CASE PostedRestart
    <3>1. CASE state = "resetting"
      BY <2>3, <3>1
         DEF PostedRestart, CompletedIsFlag, AniMoves, Phase, Steps, Simple, Multi,
             Machine!Next, Machine!Restart
    <3>2. CASE state # "resetting"
      BY <2>3, <3>2, SameMachine DEF PostedRestart
    <3> QED
      BY <3>1, <3>2
  <2> QED
    BY <1>7, <2>1, <2>2, <2>3 DEF MachineSteps
<1>8. CASE UNCHANGED vars
  BY <1>8, SameMachine DEF vars, fsmVars
<1> QED
  BY <1>1, <1>2, <1>3, <1>4, <1>5, <1>6, <1>7, <1>8 DEF Next

(* runAniConfigFsm, enterAniConfigDone, enterDisabledState: whatever the    *)
(* message loops, the waits that time out and the resets do, a run is       *)
(* complete only from its last state, and disabled means that is forgotten. *)
THEOREM ImplementsAniMachine == Spec => ImplementsMachine
<1>1. Init => CompletedIsFlag /\ Machine!Init
  BY DEF Init, CompletedIsFlag, Machine!Init, Steps, Simple, Multi
<1>2. CompletedIsFlag /\ [Next]_vars => CompletedIsFlag' /\ [Machine!Next]_<<Phase, completed>>
  BY StepMoves DEF AniMoves
<1> QED
  BY <1>1, <1>2, PTL DEF Spec, ImplementsMachine, Machine!Spec, Machine!vars, Phase
=============================================================================
