---------------------------- MODULE AniConfigFsm ----------------------------
(***************************************************************************)
(* The ANI configuration state machine of an ONU (omci_ani_config.go).     *)
(*                                                                         *)
(* Every run of the machine starts a goroutine that reads the responses    *)
(* (the message loop), one that collects the GEM ports, and one for each   *)
(* of the three states that configure several entities.  A response counts *)
(* as the answer to the request sent last, whoever sent it.  In a state    *)
(* with one entity it posts the next event; in the others it is handed     *)
(* over an unbuffered channel to the goroutine that waits for 30 s at      *)
(* most.  No goroutine is stopped when its run is.                         *)
(*                                                                         *)
(* The mutex of the machine is held from the entry into a state with one   *)
(* entity until its request has been recorded as the last one.  The report *)
(* on the step channel, which holds it as well, is in TechProf.  The ONU   *)
(* answers a request once at most (OmciExchange); a negative answer is     *)
(* dropped, as if there were none.                                         *)
(***************************************************************************)
EXTENDS Naturals, Sequences, FiniteSets

CONSTANTS
    Gems,         \* GEM ports of the profile, each with a queue of its own
    NoGem,        \* the entity of a state with only one
    MaxRuns,      \* bound: runs of the machine
    MaxFaults     \* bound: waits that time out, profiles without a p-bit

Runs == 1 .. MaxRuns

ASSUME AniAssumption ==
    /\ NoGem \notin Gems
    /\ IsFiniteSet(Gems)
    /\ MaxRuns \in Nat /\ MaxFaults \in Nat

VARIABLES
    state,      \* of the state machine
    run,        \* number of the current run, 0 before the first
    completed,  \* aniConfigCompleted
    slice,      \* gemPortAttribsSlice
    unusable,   \* runs whose profile has no p-bit set
    prep,       \* prepareAndEnterConfigState of each run
    callback,   \* state whose entry callback has not recorded its request
    work,       \* the goroutines of the states with several entities
    waiting,    \* those blocked in waitforOmciResponse
    readers,    \* processOmciAniMessages of each run
    handing,    \* those blocked on omciMIdsResponseReceived
    commChan,   \* messages to the message loop
    lastTx,     \* pLastTxMeInstance
    resets,     \* goroutines that are about to post aniEvReset
    restarts,   \* goroutines that are about to post aniEvRestart
    open,       \* requests the ONU may answer
    acked,      \* history: requests it has answered
    expired,    \* runs reset from outside
    timeouts,   \* waits that have timed out
    missed      \* history: some response was not that of the last request

fsmVars == <<state, run, completed, slice, unusable, prep, callback>>
loopVars == <<work, waiting, readers, handing>>
onuVars == <<open, acked>>
boundVars == <<expired, timeouts, missed>>
vars == <<fsmVars, loopVars, commChan, lastTx, resets, restarts, onuVars, boundVars>>

Multi == {"creatingGemNCTPs", "creatingGemIWs", "settingPQs"}
Simple == {"creatingDot1PMapper", "creatingMBPCD", "settingTconts", "settingDot1PMapper"}
Steps == Simple \cup Multi
Running == Steps \cup {"starting", "configDone"}
Workers == Runs \X Multi

\* The transition table: the state that follows when s has its answers.  The
\* time-out events it also has are posted by nobody.
Follow(s) ==
    CASE s = "starting" -> "creatingDot1PMapper"
      [] s = "creatingDot1PMapper" -> "creatingMBPCD"
      [] s = "creatingMBPCD" -> "settingTconts"
      [] s = "settingTconts" -> "creatingGemNCTPs"
      [] s = "creatingGemNCTPs" -> "creatingGemIWs"
      [] s = "creatingGemIWs" -> "settingPQs"
      [] s = "settingPQs" -> "settingDot1PMapper"
      [] s = "settingDot1PMapper" -> "configDone"

\* The entity a step is about: the mapper is created first and set last.
Entity(s, g) == <<IF s = "settingDot1PMapper" THEN "creatingDot1PMapper" ELSE s, g>>

Request(r, s, g) == [run |-> r, step |-> s, gem |-> g]

None == "none"
Abort == Request(0, "abort", NoGem)
Idle == [at |-> "off", todo |-> << >>]

Init ==
    /\ state = "disabled" /\ run = 0 /\ completed = FALSE
    /\ slice = << >> /\ unusable = {}
    /\ prep = [r \in Runs |-> "off"]
    /\ callback = None
    /\ work = [w \in Workers |-> Idle]
    /\ waiting = << >>
    /\ readers = [r \in Runs |-> "off"]
    /\ handing = << >>
    /\ commChan = << >>
    /\ lastTx = <<None, NoGem>>
    /\ resets = 0 /\ restarts = 0
    /\ open = {} /\ acked = {}
    /\ expired = {} /\ timeouts = 0 /\ missed = FALSE

\* The goroutine w is at p, and what it has still to do is the same.
Moved(ws, w, p) == [ws EXCEPT ![w] = [at |-> p, todo |-> ws[w].todo]]

-----------------------------------------------------------------------------
(* More plausible bugs.  Each operator is the definition below whose name  *)
(* it starts with, changed in the way its comment says.                    *)

\* The message loop is not told to end.
ResetWithoutAbort ==
    /\ callback = None
    /\ IF state \in Running
          THEN state' = "resetting" /\ restarts' = restarts + 1
          ELSE UNCHANGED <<state, restarts>>
    /\ UNCHANGED <<run, completed, slice, unusable, prep, callback, commChan>>

\* No restart is posted.
ResetWithoutRestart ==
    /\ callback = None
    /\ IF state \in Running
          THEN state' = "resetting" /\ commChan' = Append(commChan, Abort)
          ELSE UNCHANGED <<state, commChan>>
    /\ UNCHANGED <<run, completed, slice, unusable, prep, callback, restarts>>

\* The message loop is started when the channel is made, not with each run.
StartWithoutLoop ==
    /\ run < MaxRuns
    /\ state = "disabled"
    /\ state' = "starting"
    /\ run' = run + 1
    /\ slice' = << >>
    /\ readers' = IF run = 0 THEN [readers EXCEPT ![1] = "read"] ELSE readers
    /\ prep' = [prep EXCEPT ![run + 1] = "fill"]
    /\ UNCHANGED <<completed, unusable, callback, work, waiting, handing, commChan,
                   lastTx, resets, restarts, onuVars, boundVars>>

\* The next request is sent without waiting for the response.
RecordAndWaitNot(w) ==
    /\ work[w].at = "record"
    /\ lastTx' = Entity(w[2], Head(work[w].todo))
    /\ work' = [work EXCEPT ![w] = [at |-> IF Tail(@.todo) = << >> THEN "next" ELSE "send",
                                    todo |-> Tail(@.todo)]]
    /\ UNCHANGED <<fsmVars, waiting, readers, handing, commChan, resets, restarts,
                   onuVars, boundVars>>

\* The completion of a run is not forgotten.
PostedRestartKeepsCompleted ==
    /\ restarts > 0
    /\ callback = None
    /\ restarts' = restarts - 1
    /\ state' = IF state = "resetting" THEN "disabled" ELSE state
    /\ UNCHANGED <<run, completed, slice, unusable, prep, callback, loopVars, commChan,
                   lastTx, resets, onuVars, boundVars>>

\* A restart is executed that nobody has posted.
PostedRestartUncounted ==
    /\ callback = None
    /\ restarts' = restarts - 1
    /\ IF state = "resetting" THEN state' = "disabled" /\ completed' = FALSE
       ELSE UNCHANGED <<state, completed>>
    /\ UNCHANGED <<run, slice, unusable, prep, callback, loopVars, commChan, lastTx,
                   resets, onuVars, boundVars>>

-----------------------------------------------------------------------------
(* Events.                                                                 *)

\* The event that ends state s; ws are the goroutines, the caller's own
\* step taken.  An event the state does not know changes nothing.
Advance(s, ws) ==
    /\ callback = None
    /\ IF state = s
          THEN LET to == Follow(s)
               IN /\ state' = to
                  /\ completed' = (completed \/ to = "configDone")
                  /\ work' = IF to \in Multi
                                THEN Moved(ws, <<run, to>>, "begin")
                                ELSE ws
                  /\ callback' = IF to \in Simple THEN to ELSE None
                  /\ open' = IF to \in Simple THEN open \cup {Request(run, to, NoGem)}
                                              ELSE open
                  /\ resets' = IF \/ to = "configDone"
                                  \/ to = "settingDot1PMapper" /\ run \in unusable
                                  THEN resets + 1 ELSE resets
          ELSE work' = ws /\ UNCHANGED <<state, completed, callback, open, resets>>

\* aniEvReset: the message loop is told to end and a restart is posted.
Reset ==
    /\ callback = None
    /\ IF state \in Running
          THEN /\ state' = "resetting"
               /\ commChan' = Append(commChan, Abort)
               /\ restarts' = restarts + 1
          ELSE UNCHANGED <<state, commChan, restarts>>
    /\ UNCHANGED <<run, completed, slice, unusable, prep, callback>>

-----------------------------------------------------------------------------
(* The start of a run.                                                     *)

\* aniEvStart: enterConfigStartingState.  The loop that empties the old
\* channel finds nothing: it asks for the length of an unbuffered channel.
Start ==
    /\ run < MaxRuns
    /\ state = "disabled"
    /\ state' = "starting"
    /\ run' = run + 1
    /\ slice' = << >>
    /\ readers' = [readers EXCEPT ![run + 1] = "read"]
    /\ prep' = [prep EXCEPT ![run + 1] = "fill"]
    /\ UNCHANGED <<completed, unusable, callback, work, waiting, handing, commChan,
                   lastTx, resets, restarts, onuVars, boundVars>>

MoreFaults == timeouts + Cardinality(unusable) < MaxFaults

\* The GEM ports in the order of a Go map, which is any.
Orders ==
    {o \in [1 .. Cardinality(Gems) -> Gems] : \A g \in Gems : \E i \in DOMAIN o : o[i] = g}

\* prepareAndEnterConfigState.
Fill(r) ==
    /\ prep[r] = "fill"
    /\ prep' = [prep EXCEPT ![r] = "event"]
    /\ \E order \in Orders : slice' = slice \o order
    /\ \/ UNCHANGED unusable
       \/ MoreFaults /\ unusable' = unusable \cup {r}
    /\ UNCHANGED <<state, run, completed, callback, loopVars, commChan, lastTx, resets,
                   restarts, onuVars, boundVars>>

StartConfig(r) ==
    /\ prep[r] = "event"
    /\ prep' = [prep EXCEPT ![r] = "gone"]
    /\ Advance("starting", work)
    /\ UNCHANGED <<run, slice, unusable, waiting, readers, handing, commChan, lastTx,
                   restarts, acked, boundVars>>

\* The callback records its request as the last one and returns.
Recorded ==
    /\ callback # None
    /\ callback' = None
    /\ lastTx' = Entity(callback, NoGem)
    /\ readers' = [r \in Runs |-> IF readers[r] = "callback" THEN "read" ELSE readers[r]]
    /\ UNCHANGED <<state, run, completed, slice, unusable, prep, work, waiting, handing,
                   commChan, resets, restarts, onuVars, boundVars>>

\* The ONU answers a request.
Answer(q) ==
    /\ q \in open
    /\ open' = open \ {q}
    /\ acked' = acked \cup {q}
    /\ commChan' = Append(commChan, q)
    /\ UNCHANGED <<fsmVars, loopVars, lastTx, resets, restarts, boundVars>>

-----------------------------------------------------------------------------
(* The message loop of run n.                                              *)

\* w has its response; it goes on with its next entity or ends its state.
Released(w) ==
    [work EXCEPT ![w] = [at |-> IF Tail(@.todo) = << >> THEN "next" ELSE "send",
                         todo |-> Tail(@.todo)]]

\* The next message.
Receives(n, m) ==
    /\ readers[n] = "read"
    /\ commChan # << >>
    /\ m = Head(commChan)
    /\ commChan' = Tail(commChan)
    /\ UNCHANGED <<fsmVars, lastTx, resets, restarts, onuVars, expired, timeouts>>

ReadAbort(n) ==
    /\ Receives(n, Abort)
    /\ readers' = [readers EXCEPT ![n] = "gone"]
    /\ UNCHANGED <<work, waiting, handing, missed>>

Expected(m) == m # Abort /\ lastTx = Entity(m.step, m.gem)

\* Not the answer to the last request: dropped.
ReadUnexpected(n) ==
    /\ \E m \in acked : Receives(n, m) /\ ~Expected(m)
    /\ missed' = TRUE
    /\ UNCHANGED loopVars

\* The event of a state with one entity is about to be posted.
ReadSimple(n) ==
    /\ \E m \in acked :
         /\ Receives(n, m) /\ Expected(m) /\ m.step \in Simple
         /\ readers' = [readers EXCEPT ![n] = m.step]
    /\ UNCHANGED <<work, waiting, handing, missed>>

\* Handed over at once if someone waits; else the loop blocks.
ReadMulti(n) ==
    /\ \E m \in acked : Receives(n, m) /\ Expected(m) /\ m.step \in Multi
    /\ IF waiting # << >>
          THEN /\ waiting' = Tail(waiting)
               /\ work' = Released(Head(waiting))
               /\ UNCHANGED <<readers, handing>>
          ELSE /\ handing' = Append(handing, n)
               /\ readers' = [readers EXCEPT ![n] = "hand"]
               /\ UNCHANGED <<work, waiting>>
    /\ UNCHANGED missed

PostEvent(n) ==
    /\ readers[n] \in Simple
    /\ Advance(readers[n], work)
    /\ readers' = [readers EXCEPT ![n] = IF callback' = None THEN "read" ELSE "callback"]
    /\ UNCHANGED <<run, slice, unusable, prep, waiting, handing, commChan, lastTx, restarts,
                   acked, boundVars>>

-----------------------------------------------------------------------------
(* The goroutines of the states with several entities: performCreating-    *)
(* GemNCTPs, performCreatingGemIWs and performSettingPQs.                  *)

Begin(w) ==
    /\ work[w].at = "begin"
    /\ work' = [work EXCEPT ![w] = [at |-> IF slice = << >> THEN "next" ELSE "send",
                                    todo |-> slice]]
    /\ UNCHANGED <<fsmVars, waiting, readers, handing, commChan, lastTx, resets, restarts,
                   onuVars, boundVars>>

Send(w) ==
    /\ work[w].at = "send"
    /\ work' = Moved(work, w, "record")
    /\ open' = open \cup {Request(w[1], w[2], Head(work[w].todo))}
    /\ UNCHANGED <<fsmVars, waiting, readers, handing, commChan, lastTx, resets, restarts,
                   acked, boundVars>>

\* The request becomes the last one and its response is waited for; a
\* blocked message loop hands over what it has.
RecordAndWait(w) ==
    /\ work[w].at = "record"
    /\ lastTx' = Entity(w[2], Head(work[w].todo))
    /\ IF handing # << >>
          THEN /\ handing' = Tail(handing)
               /\ readers' = [readers EXCEPT ![Head(handing)] = "read"]
               /\ work' = Released(w)
               /\ UNCHANGED waiting
          ELSE /\ waiting' = Append(waiting, w)
               /\ work' = Moved(work, w, "wait")
               /\ UNCHANGED <<readers, handing>>
    /\ UNCHANGED <<fsmVars, commChan, resets, restarts, onuVars, boundVars>>

\* The queue of those that wait without the i-th.
WaitingBut(i) ==
    [j \in 1 .. Len(waiting) - 1 |-> IF j < i THEN waiting[j] ELSE waiting[j + 1]]

\* waitforOmciResponse gives up.
TimeOut(w) ==
    /\ work[w].at = "wait"
    /\ MoreFaults
    /\ timeouts' = timeouts + 1
    /\ \E i \in DOMAIN waiting : waiting[i] = w /\ waiting' = WaitingBut(i)
    /\ work' = Moved(work, w, "reset")
    /\ UNCHANGED <<fsmVars, readers, handing, commChan, lastTx, resets, restarts, onuVars,
                   expired, missed>>

AbortRun(w) ==
    /\ work[w].at = "reset"
    /\ work' = Moved(work, w, "gone")
    /\ Reset
    /\ UNCHANGED <<waiting, readers, handing, lastTx, resets, onuVars, boundVars>>

EndLoop(w) ==
    /\ work[w].at = "next"
    /\ Advance(w[2], Moved(work, w, "gone"))
    /\ UNCHANGED <<run, slice, unusable, prep, waiting, readers, handing, commChan, lastTx,
                   restarts, acked, boundVars>>

-----------------------------------------------------------------------------
(* The end of a run.                                                       *)

PostedReset ==
    /\ resets > 0
    /\ resets' = resets - 1
    /\ Reset
    /\ UNCHANGED <<loopVars, lastTx, onuVars, boundVars>>

\* aniEvRestart: enterDisabledState.
PostedRestart ==
    /\ restarts > 0
    /\ callback = None
    /\ restarts' = restarts - 1
    /\ IF state = "resetting" THEN state' = "disabled" /\ completed' = FALSE
       ELSE UNCHANGED <<state, completed>>
    /\ UNCHANGED <<run, slice, unusable, prep, callback, loopVars, commChan, lastTx,
                   resets, onuVars, boundVars>>

\* A plausible bug: the goroutines that wait are stopped with the run.
ResetFromOutsideStopsWaits(r) ==
    /\ r <= run
    /\ r \notin expired
    /\ expired' = expired \cup {r}
    /\ Reset
    /\ waiting' = << >>
    /\ work' = [w \in Workers |-> IF work[w].at = "wait" THEN [work[w] EXCEPT !.at = "gone"]
                                                         ELSE work[w]]
    /\ UNCHANGED <<readers, handing, lastTx, resets, onuVars, timeouts, missed>>

\* The request that started run r has waited too long (configureUniTp), or
\* the ONU has gone down (updateInterface).
ResetFromOutside(r) ==
    /\ r <= run
    /\ r \notin expired
    /\ expired' = expired \cup {r}
    /\ Reset
    /\ UNCHANGED <<loopVars, lastTx, resets, onuVars, timeouts, missed>>

-----------------------------------------------------------------------------
MessageLoop(n) ==
    \/ ReadAbort(n) \/ ReadUnexpected(n) \/ ReadSimple(n) \/ ReadMulti(n) \/ PostEvent(n)

Worker(w) ==
    \/ Begin(w) \/ Send(w) \/ RecordAndWait(w) \/ AbortRun(w) \/ EndLoop(w)

RunSteps(r) == Fill(r) \/ StartConfig(r)
MachineSteps == Recorded \/ PostedReset \/ PostedRestart

Next ==
    \/ Start
    \/ \E q \in open : Answer(q)
    \/ \E r \in Runs : RunSteps(r) \/ MessageLoop(r) \/ ResetFromOutside(r)
    \/ \E w \in Workers : Worker(w) \/ TimeOut(w)
    \/ MachineSteps

Spec == Init /\ [][Next]_vars

(* Goroutines are scheduled.  Nothing is assumed of the ONU, of the time   *)
(* and of the requests.                                                    *)
FairSpec ==
    /\ Spec
    /\ \A r \in Runs : WF_vars(RunSteps(r)) /\ WF_vars(MessageLoop(r))
    /\ \A w \in Workers : WF_vars(Worker(w))
    /\ WF_vars(MachineSteps)

-----------------------------------------------------------------------------
(* Properties.                                                             *)

RequestSet == [run : Runs, step : Steps, gem : Gems \cup {NoGem}]

FsmType ==
    /\ state \in Running \cup {"disabled", "resetting"}
    /\ run \in 0 .. MaxRuns
    /\ completed \in BOOLEAN
    /\ slice \in Seq(Gems) /\ unusable \subseteq Runs
    /\ prep \in [Runs -> {"off", "fill", "event", "gone"}]
    /\ callback \in Simple \cup {None}
WorkType ==
    /\ work \in [Workers -> [at : {"off", "begin", "send", "record", "wait", "reset",
                                   "next", "gone"},
                             todo : Seq(Gems)]]
    /\ waiting \in Seq(Workers)
LoopType ==
    /\ readers \in [Runs -> {"off", "read", "hand", "callback", "gone"} \cup Simple]
    /\ handing \in Seq(Runs)
ChannelType ==
    /\ commChan \in Seq(RequestSet \cup {Abort})
    /\ lastTx \in (Steps \cup {None}) \X (Gems \cup {NoGem})
    /\ open \subseteq RequestSet /\ acked \subseteq RequestSet
CountType ==
    /\ resets \in Nat /\ restarts \in Nat
    /\ expired \subseteq Runs /\ timeouts \in Nat /\ missed \in BOOLEAN

\* The values the fields, channels and goroutines range over.
TypeOK == FsmType /\ WorkType /\ LoopType /\ ChannelType /\ CountType

\* No run has been cut short from outside, by a wait that timed out, or
\* by its own profile.
Undisturbed == expired = {} /\ timeouts = 0 /\ unusable = {}

Live == {n \in Runs : readers[n] \notin {"off", "gone"}}
Aborts == {i \in DOMAIN commChan : commChan[i] = Abort}

(* enterConfigStartingState and enterResettingState: every message loop is *)
(* that of the run under way or has an abort message on its way.           *)
EveryLoopIsEnded ==
    Cardinality(Live) = Cardinality(Aborts) + (IF state \in Running THEN 1 ELSE 0)

Wanted(r) ==
    {Request(r, s, NoGem) : s \in Simple} \cup {Request(r, s, g) : s \in Multi, g \in Gems}

(* "verify response": entities refer to those created before.  An          *)
(* undisturbed machine asks for one only when all the requests before it   *)
(* have been answered, and is complete only when the ONU has answered each *)
(* request of its run.                                                     *)
CompleteIsAnswered ==
    Undisturbed => /\ Cardinality(open) <= 1
                   /\ state = "configDone" => Wanted(run) \subseteq acked

(* omciMIdsResponseReceived has no buffer: the message loop blocks on it,  *)
(* with no goroutine about to take the value, only after a wait has timed  *)
(* out, however runs are reset.                                            *)
BlockedNeedsTimeOut ==
    handing # << >> => timeouts > 0 \/ \E w \in Workers : work[w].at = "record"

(* When the ONU answers its requests, a run completes, unless it is        *)
(* disturbed or a response overtakes the record of its request.            *)
AnsweredRunCompletes ==
    (\A q \in RequestSet : WF_vars(q \in open /\ Answer(q)))
        => (state = "starting" ~> (completed \/ ~Undisturbed \/ missed))

(* Every run ends, at the latest when it is reset from outside.            *)
EveryRunEnds ==
    (\A r \in Runs : WF_vars(ResetFromOutside(r)))
        => (state = "starting" ~> state = "disabled")

Machine == INSTANCE AniMachine WITH
    phase <- IF state \in Steps \ {"settingDot1PMapper"} THEN "creating"
             ELSE IF state = "settingDot1PMapper" THEN "mapper" ELSE state

(* The machine keeps its promises to the tech profile processing.          *)
ImplementsMachine == Machine!Spec

=============================================================================
