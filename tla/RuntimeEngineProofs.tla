------------------------- MODULE RuntimeEngineProofs -------------------------
(***************************************************************************)
(* What the engine keeps for any number of callers and of graph runs, as   *)
(* long as abort is the only control call that is made.                    *)
(***************************************************************************)
EXTENDS RuntimeEngine, TLAPS

\* The caller that watches a graph run.
Watching(c) == call[c].pc \in {"polling", "awaiting"}

EngineTypes ==
    /\ current \in 0..MaxRuns
    /\ graph \in [RunIds -> [pc: {"unused", "created", "busy"} \cup Done, cancel: BOOLEAN]]
    /\ call \in [Callers -> [pc: {"idle"} \cup InArun, run: 0..MaxRuns, hit: BOOLEAN,
                             result: {"none", "finished", "aborted", "error"}]]

\* Nobody is ever held, for nobody pauses.
NeverPaused == ~paused /\ status # "paused" /\ \A c \in Callers: call[c].pc # "held"

\* Whoever watches a graph run watches the one that abort would cancel, and keeps
\* every other arun from making one: the engine is running, or told to abort.
Watched ==
    \A c \in Callers: Watching(c) =>
        /\ call[c].run \in RunIds /\ call[c].run = current
        /\ status = "running" \/ abortRequested
        /\ call[c].hit => abortRequested
        /\ call[c].result = "none"

OneWatcher == \A c, d \in Callers: Watching(c) /\ Watching(d) => c = d

LiveIsWatched == \A g \in RunIds: Live(g) => \E c \in Callers: Watching(c) /\ call[c].run = g

EngineInv == EngineTypes /\ NeverPaused /\ Watched /\ OneWatcher /\ LiveIsWatched /\ AbortIsReported

-----------------------------------------------------------------------------
LEMMA EngineInvInit == EngineInit => EngineInv
<1> SUFFICES ASSUME EngineInit PROVE EngineInv
  OBVIOUS
<1>1. EngineTypes
  BY EngineAssumption DEF EngineAssumption, EngineInit, EngineTypes, NoRun, Idle, Call
<1>2. \A c \in Callers: call[c] = Idle
  BY DEF EngineInit
<1>3. \A g \in RunIds: graph[g] = NoRun
  BY DEF EngineInit
<1>4. NeverPaused /\ Watched /\ OneWatcher /\ AbortIsReported
  BY <1>2 DEF EngineInit, NeverPaused, Watched, OneWatcher, AbortIsReported, Watching, Idle, Call
<1>5. LiveIsWatched
  BY <1>3 DEF LiveIsWatched, Live, NoRun
<1> QED BY <1>1, <1>4, <1>5 DEF EngineInv

\* A step of a graph run changes it alone, and brings none to life that was not.
LEMMA GraphKeeps == ASSUME EngineInv, NEW g \in RunIds, GraphStep(g) PROVE EngineInv'
<1> USE DEF EngineInv
<1>1. UNCHANGED <<status, paused, abortRequested, current, call>>
  BY DEF GraphStep, GraphEnters, GraphReturns, GraphRaises, GraphCancelled, GraphIgnoresCancel
<1>2. PICK to \in {"busy", "returned", "raised", "cancelled"}:
         /\ Live(g)
         /\ graph' = [graph EXCEPT ![g].pc = to] \/ graph' = [graph EXCEPT ![g].cancel = FALSE]
  BY DEF GraphStep, GraphEnters, GraphReturns, GraphRaises, GraphCancelled, GraphIgnoresCancel, Live
<1>3. /\ graph' \in [RunIds -> [pc: {"unused", "created", "busy"} \cup Done, cancel: BOOLEAN]]
      /\ \A h \in RunIds: h # g => graph'[h] = graph[h]
  BY <1>2, ZenonT(40) DEF EngineTypes, Done
<1>4. \A h \in RunIds: Live(h)' => Live(h)
  BY <1>2, <1>3 DEF Live
<1>5. EngineTypes' /\ NeverPaused' /\ Watched' /\ OneWatcher' /\ AbortIsReported'
  BY <1>1, <1>3 DEF EngineTypes, NeverPaused, Watched, OneWatcher, AbortIsReported, Watching
<1>6. LiveIsWatched'
  BY <1>1, <1>4 DEF LiveIsWatched, Watching
<1> QED BY <1>5, <1>6

\* An arun makes a graph run only when nobody watches one.
LEMMA ArunKeeps == ASSUME EngineInv, NEW c \in Callers, Arun(c) PROVE EngineInv'
<1> USE DEF EngineInv
<1>1. /\ ~paused /\ Proceed(c, FALSE) /\ UNCHANGED paused
      /\ call[c].pc = "idle" /\ status # "running"
  BY DEF Arun, MayBegin, NeverPaused
<1>2. CASE abortRequested
  <2> DEFINE returned == Call("idle", 0, FALSE, "aborted")
  <2>1. /\ status' = "aborted" /\ UNCHANGED <<abortRequested, current, graph>>
        /\ call' = [call EXCEPT ![c] = returned]
    BY <1>1, <1>2 DEF Proceed
  <2>2. returned = [pc |-> "idle", run |-> 0, hit |-> FALSE, result |-> "aborted"]
    BY DEF Call
  <2> HIDE DEF returned
  <2>3. /\ call'[c] = returned
        /\ \A d \in Callers: d # c => call'[d] = call[d]
        /\ \A d \in Callers: Watching(d)' => d # c
    BY <2>1, <2>2 DEF EngineTypes, Watching
  <2>4. EngineTypes'
    BY <2>1, <2>2, EngineAssumption DEF EngineTypes, EngineAssumption
  <2>5. NeverPaused' /\ AbortIsReported'
    BY <1>1, <2>1, <2>2, <2>3 DEF NeverPaused, AbortIsReported
  <2>6. Watched' /\ OneWatcher'
    BY <1>2, <2>1, <2>3 DEF Watched, OneWatcher, Watching
  <2>7. LiveIsWatched'
    BY <1>1, <2>1, <2>3 DEF LiveIsWatched, Live, Watching
  <2> QED BY <2>4, <2>5, <2>6, <2>7
<1>3. CASE ~abortRequested
  <2>1. PICK g \in RunIds:
           /\ graph[g] = NoRun /\ status' = "running" /\ current' = g
           /\ graph' = [graph EXCEPT ![g].pc = "created"]
           /\ call' = [call EXCEPT ![c] = Call("polling", g, FALSE, "none")]
           /\ UNCHANGED abortRequested
    BY <1>1, <1>3 DEF Proceed
  <2>2. \A d \in Callers: ~Watching(d)
    BY <1>1, <1>3 DEF Watched
  <2>3. \A h \in RunIds: ~Live(h)
    BY <2>2 DEF LiveIsWatched
  <2>4. /\ call'[c] = [pc |-> "polling", run |-> g, hit |-> FALSE, result |-> "none"]
        /\ \A d \in Callers: d # c => call'[d] = call[d]
    BY <2>1 DEF EngineTypes, Call
  <2>5. /\ call'[c].pc = "polling" /\ call'[c].run = g /\ ~call'[c].hit
        /\ call'[c].result = "none"
    BY <2>4
  <2>6. EngineTypes'
    <3>1. call' \in [Callers -> [pc: {"idle"} \cup InArun, run: 0..MaxRuns, hit: BOOLEAN,
                                 result: {"none", "finished", "aborted", "error"}]]
      BY <2>1 DEF EngineTypes, Call, InArun, RunIds
    <3>2. graph' \in [RunIds -> [pc: {"unused", "created", "busy"} \cup Done, cancel: BOOLEAN]]
      BY <2>1 DEF EngineTypes
    <3>3. current' \in 0..MaxRuns
      BY <2>1 DEF RunIds
    <3> QED BY <3>1, <3>2, <3>3 DEF EngineTypes
  <2>7. \A d \in Callers: Watching(d)' => d = c
    BY <2>2, <2>4 DEF Watching
  <2>8. NeverPaused' /\ AbortIsReported'
    <3>1. \A d \in Callers: call'[d].pc # "held"
      BY <2>4, <2>5 DEF NeverPaused
    <3>2. \A d \in Callers: call'[d].hit => call'[d].result # "finished"
      BY <2>4, <2>5 DEF AbortIsReported
    <3> QED BY <1>1, <2>1, <3>1, <3>2 DEF NeverPaused, AbortIsReported
  <2>9. Watched' /\ OneWatcher'
    BY <2>1, <2>7, <2>5 DEF Watched, OneWatcher
  <2>10. LiveIsWatched'
    <3>1. \A h \in RunIds: h # g => graph'[h] = graph[h]
      BY <2>1 DEF EngineTypes
    <3>2. Watching(c)' /\ call'[c].run = g
      BY <2>5 DEF Watching
    <3> QED BY <2>3, <3>1, <3>2 DEF LiveIsWatched, Live
  <2> QED BY <2>6, <2>8, <2>9, <2>10
<1> QED BY <1>2, <1>3

\* The watcher returns once its graph run has ended; nobody else watches one.
LEMMA OutcomeKeeps ==
    ASSUME EngineInv, NEW c \in Callers, Watching(c), IsDone(call[c].run), Outcome(c),
           UNCHANGED <<paused, graph>>
    PROVE  EngineInv'
<1> USE DEF EngineInv
<1>1. call[c].hit => abortRequested
  BY DEF Watched
<1>2. PICK out \in {"finished", "aborted", "error"}:
         /\ status' = out /\ current' = 0
         /\ Return(c, out)
         /\ abortRequested => out # "finished"
  BY DEF Outcome, IsDone, Done
<1>3. /\ call'[c] = [pc |-> "idle", run |-> 0, hit |-> call[c].hit, result |-> out]
      /\ \A d \in Callers: d # c => call'[d] = call[d]
  BY <1>2 DEF Return, EngineTypes, Call
<1>4. \A d \in Callers: ~Watching(d)'
  BY <1>3 DEF OneWatcher, Watching
<1>5. EngineTypes'
  <2>1. call[c].hit \in BOOLEAN
    BY DEF EngineTypes
  <2> QED BY <1>2, <2>1, EngineAssumption DEF EngineTypes, Return, Call, EngineAssumption
<1>6. NeverPaused'
  BY <1>2, <1>3 DEF NeverPaused
<1>7. AbortIsReported'
  BY <1>1, <1>2, <1>3 DEF AbortIsReported
<1>8. Watched' /\ OneWatcher'
  BY <1>4 DEF Watched, OneWatcher
<1>9. LiveIsWatched'
  <2>1. \A h \in RunIds: ~Live(h)
    <3>1. ASSUME NEW h \in RunIds, Live(h) PROVE FALSE
      <4>1. PICK d \in Callers: Watching(d) /\ call[d].run = h
        BY <3>1 DEF LiveIsWatched
      <4>2. d = c
        BY <4>1 DEF OneWatcher
      <4> QED BY <3>1, <4>1, <4>2 DEF IsDone, Live, Done
    <3> QED BY <3>1
  <2> QED BY <2>1 DEF LiveIsWatched, Live
<1> QED BY <1>5, <1>6, <1>7, <1>8, <1>9

LEMMA CallerKeeps == ASSUME EngineInv, NEW c \in Callers, CallerStep(c) PROVE EngineInv'
<1> USE DEF EngineInv
<1>1. ~Wake(c)
  BY DEF Wake, NeverPaused
<1>2. CASE Poll(c)
  <2>1. Watching(c)
    BY <1>2 DEF Poll, Watching
  <2>2. CASE IsDone(call[c].run) /\ Outcome(c) /\ UNCHANGED graph
    BY <1>2, <2>1, <2>2, OutcomeKeeps DEF Poll
  <2>3. CASE ~(IsDone(call[c].run) /\ Outcome(c) /\ UNCHANGED graph)
    <3>1. /\ graph' = [graph EXCEPT ![call[c].run] = Cancelled(@)]
          /\ call' = [call EXCEPT ![c].pc = "awaiting"]
          /\ UNCHANGED <<status, current, abortRequested, paused>>
      BY <1>2, <2>3 DEF Poll
    <3>2. call[c].run \in RunIds
      BY <2>1 DEF Watched
    <3>3. /\ graph' \in [RunIds -> [pc: {"unused", "created", "busy"} \cup Done, cancel: BOOLEAN]]
          /\ \A h \in RunIds: graph'[h].pc = graph[h].pc
      BY <3>1, <3>2 DEF EngineTypes, Cancelled
    <3>4. /\ call' \in [Callers -> [pc: {"idle"} \cup InArun, run: 0..MaxRuns, hit: BOOLEAN,
                                    result: {"none", "finished", "aborted", "error"}]]
          /\ \A d \in Callers: /\ call'[d].run = call[d].run /\ call'[d].hit = call[d].hit
                               /\ call'[d].result = call[d].result
                               /\ d # c => call'[d].pc = call[d].pc
          /\ call'[c].pc = "awaiting"
      BY <3>1 DEF EngineTypes, InArun
    <3>5. \A d \in Callers: Watching(d)' <=> Watching(d)
      BY <2>1, <3>4 DEF Watching
    <3>6. EngineTypes' /\ NeverPaused' /\ AbortIsReported'
      BY <3>1, <3>3, <3>4 DEF EngineTypes, NeverPaused, AbortIsReported
    <3>7. Watched' /\ OneWatcher'
      BY <3>1, <3>4, <3>5 DEF Watched, OneWatcher
    <3>8. LiveIsWatched'
      BY <3>3, <3>4, <3>5 DEF LiveIsWatched, Live
    <3> QED BY <3>6, <3>7, <3>8
  <2> QED BY <2>2, <2>3
<1>3. CASE Await(c)
  BY <1>3, OutcomeKeeps DEF Await, Watching
<1> QED BY <1>1, <1>2, <1>3 DEF CallerStep

LEMMA EngineAborts == ASSUME EngineInv, Abort PROVE EngineInv'
<1> USE DEF EngineInv
<1>1. /\ abortRequested' = TRUE /\ paused' = FALSE /\ status' = "aborting" /\ UNCHANGED current
      /\ graph' = IF current = 0 THEN graph ELSE [graph EXCEPT ![current] = Cancelled(@)]
      /\ call' = [c \in Callers |-> IF call[c].pc \in InArun THEN [call[c] EXCEPT !.hit = TRUE]
                                                             ELSE call[c]]
  BY DEF Abort
<1>2. /\ graph' \in [RunIds -> [pc: {"unused", "created", "busy"} \cup Done, cancel: BOOLEAN]]
      /\ \A h \in RunIds: graph'[h].pc = graph[h].pc
  BY <1>1 DEF EngineTypes, Cancelled, RunIds
<1>3. /\ call' \in [Callers -> [pc: {"idle"} \cup InArun, run: 0..MaxRuns, hit: BOOLEAN,
                                result: {"none", "finished", "aborted", "error"}]]
      /\ \A d \in Callers: /\ call'[d].run = call[d].run /\ call'[d].pc = call[d].pc
                           /\ call'[d].result = call[d].result
                           /\ call[d].pc \notin InArun => call'[d].hit = call[d].hit
  BY <1>1, ZenonT(40) DEF EngineTypes
<1>4. \A d \in Callers: Watching(d)' <=> Watching(d)
  BY <1>3 DEF Watching
<1>5. EngineTypes' /\ NeverPaused'
  BY <1>1, <1>2, <1>3 DEF EngineTypes, NeverPaused
<1>6. AbortIsReported'
  <2>1. \A d \in Callers: call[d].pc \in InArun => Watching(d)
    BY DEF NeverPaused, InArun, Watching
  <2>2. \A d \in Callers: call[d].pc \in InArun => call[d].result = "none"
    BY <2>1 DEF Watched
  <2> QED BY <1>3, <2>2 DEF AbortIsReported
<1>7. Watched' /\ OneWatcher'
  BY <1>1, <1>3, <1>4 DEF Watched, OneWatcher
<1>8. LiveIsWatched'
  BY <1>2, <1>3, <1>4 DEF LiveIsWatched, Live
<1> QED BY <1>5, <1>6, <1>7, <1>8

LEMMA EngineInvNext ==
    ASSUME Controls \subseteq {"abort"}
    PROVE  EngineInv /\ [EngineNext]_engineVars => EngineInv'
<1> SUFFICES ASSUME EngineInv, [EngineNext]_engineVars PROVE EngineInv'
  OBVIOUS
<1>1. ~Pause /\ ~Reset /\ \A c \in Callers: ~CancelCaller(c)
  BY DEF Pause, Reset, CancelCaller, Control
<1>2. ~Resume
  BY DEF Resume, EngineInv, NeverPaused
<1>3. CASE EngineNext
  BY <1>1, <1>2, <1>3, GraphKeeps, ArunKeeps, CallerKeeps, EngineAborts DEF EngineNext
<1>4. CASE UNCHANGED engineVars
  BY <1>4 DEF engineVars, EngineInv, EngineTypes, NeverPaused, Watched, OneWatcher, LiveIsWatched,
              AbortIsReported, Watching, Live
<1> QED BY <1>3, <1>4

\* RuntimeAlreadyRunningError and abort, for any number of callers: while abort is the
\* only control call, no two graph runs work on the AgentState at a time, although
\* abort takes the status away from "running", and no run that was under way when it
\* was called is reported as finished.
THEOREM AbortsKeepOneRun ==
    ASSUME Controls \subseteq {"abort"}
    PROVE  EngineSpec => [](OneGraphRun /\ AbortIsReported)
<1>1. EngineInv => OneGraphRun /\ AbortIsReported
  <2> SUFFICES ASSUME EngineInv, NEW g \in RunIds, NEW h \in RunIds, Live(g), Live(h) PROVE g = h
    BY DEF OneGraphRun, EngineInv
  <2>1. PICK c \in Callers: Watching(c) /\ call[c].run = g
    BY DEF EngineInv, LiveIsWatched
  <2>2. PICK d \in Callers: Watching(d) /\ call[d].run = h
    BY DEF EngineInv, LiveIsWatched
  <2> QED BY <2>1, <2>2 DEF EngineInv, Watched
<1> QED BY EngineInvInit, EngineInvNext, <1>1, PTL DEF EngineSpec
-----------------------------------------------------------------------------
(***************************************************************************)
(* Under every control call, for any number of callers.                    *)
(***************************************************************************)
CallType == [pc: {"idle"} \cup InArun, run: 0..MaxRuns, hit: BOOLEAN,
             result: {"none", "finished", "aborted", "error"}]
GraphType == [pc: {"unused", "created", "busy"} \cup Done, cancel: BOOLEAN]

Values ==
    /\ status \in Status /\ paused \in BOOLEAN /\ abortRequested \in BOOLEAN
    /\ current \in 0..MaxRuns /\ agent \in {"idle", "busy", "finished", "error", "cancelled"}
    /\ graph \in [RunIds -> GraphType] /\ call \in [Callers -> CallType]
    /\ controls \in 0..MaxControls

\* A caller that watches no graph run names none; the one abort would cancel was made.
Named ==
    /\ \A c \in Callers: IF Watching(c) THEN call[c].run \in RunIds /\ graph[call[c].run].pc # "unused"
                         ELSE call[c].run = 0
    /\ current # 0 => \E c \in Callers: call[c].run = current

EngineBook == Values /\ Named

LEMMA EngineBookTypes == EngineBook => EngineTypeOK
<1> SUFFICES ASSUME EngineBook PROVE EngineTypeOK
  OBVIOUS
<1>1. \A c \in Callers: call[c].pc \in {"polling", "awaiting"} =>
         call[c].run # 0 /\ graph[call[c].run].pc # "unused"
  BY DEF EngineBook, Named, Watching, RunIds
<1> QED BY <1>1 DEF EngineBook, Values, Named, EngineTypeOK, CallType, GraphType

LEMMA EngineBookInit == EngineInit => EngineBook
<1> SUFFICES ASSUME EngineInit PROVE EngineBook
  OBVIOUS
<1>1. Values
  <2>1. Idle \in CallType /\ NoRun \in GraphType
    BY EngineAssumption DEF EngineAssumption, Idle, Call, CallType, NoRun, GraphType
  <2>2. graph \in [RunIds -> GraphType] /\ call \in [Callers -> CallType]
    BY <2>1 DEF EngineInit
  <2>3. status \in Status /\ paused \in BOOLEAN /\ abortRequested \in BOOLEAN
    BY Zenon DEF EngineInit, Status
  <2>4. current \in 0..MaxRuns /\ controls \in 0..MaxControls
    BY EngineAssumption DEF EngineAssumption, EngineInit
  <2> QED BY <2>2, <2>3, <2>4 DEF EngineInit, Values
<1>2. Named
  BY DEF EngineInit, Named, Watching, Idle, Call
<1> QED BY <1>1, <1>2 DEF EngineBook

\* The calls that leave nobody at a graph run, or make one for its only caller.
LEMMA CallIs ==
    ASSUME NEW pc, NEW run, NEW hit, NEW result
    PROVE  /\ Call(pc, run, hit, result).pc = pc /\ Call(pc, run, hit, result).run = run
           /\ Call(pc, run, hit, result).hit = hit /\ Call(pc, run, hit, result).result = result
BY DEF Call

LEMMA CallTyped ==
    ASSUME NEW pc \in {"idle"} \cup InArun, NEW run \in 0..MaxRuns, NEW hit \in BOOLEAN,
           NEW result \in {"none", "finished", "aborted", "error"}
    PROVE  Call(pc, run, hit, result) \in CallType
BY DEF Call, CallType

\* Nothing is named but what was named before, and no graph run is unmade.
LEMMA NamedKept ==
    ASSUME EngineBook, Values',
           \A g \in RunIds: graph[g].pc # "unused" => graph'[g].pc # "unused",
           \A c \in Callers: \/ call'[c].run = call[c].run /\ (Watching(c)' <=> Watching(c))
                             \/ call'[c].run = 0 /\ ~Watching(c)',
           current' = 0
             \/ (current' = current /\ \A c \in Callers: call'[c].run = call[c].run)
    PROVE  EngineBook'
<1>1. ASSUME NEW c \in Callers
      PROVE  IF Watching(c)' THEN call'[c].run \in RunIds /\ graph'[call'[c].run].pc # "unused"
             ELSE call'[c].run = 0
  BY DEF EngineBook, Named
<1>2. current' # 0 => \E c \in Callers: call'[c].run = current'
  BY DEF EngineBook, Named
<1> QED BY <1>1, <1>2 DEF EngineBook, Named

LEMMA ProceedBooks ==
    ASSUME EngineBook, NEW c \in Callers, ~Watching(c), NEW hit \in BOOLEAN, Proceed(c, hit),
           UNCHANGED <<paused, controls>>
    PROVE  EngineBook'
<1> USE DEF EngineBook
<1>1. CASE abortRequested
  <2> DEFINE back == Call("idle", 0, hit, "aborted")
  <2>1. /\ agent' = "cancelled" /\ status' = "aborted" /\ call' = [call EXCEPT ![c] = back]
        /\ UNCHANGED <<abortRequested, current, graph>>
    BY <1>1 DEF Proceed
  <2>2. back \in CallType /\ back.pc = "idle" /\ back.run = 0
    BY CallTyped, CallIs, EngineAssumption DEF EngineAssumption
  <2> HIDE DEF back
  <2>3. Values'
    BY <2>1, <2>2 DEF Values, Status
  <2>4. \A d \in Callers: call'[d].run = call[d].run /\ (Watching(d)' <=> Watching(d))
    BY <2>1, <2>2 DEF Values, Named, Watching
  <2> QED BY <2>1, <2>3, <2>4, NamedKept
<1>2. CASE ~abortRequested
  <2>1. PICK g \in RunIds:
           /\ graph[g] = NoRun /\ status' = "running" /\ current' = g
           /\ graph' = [graph EXCEPT ![g].pc = "created"]
           /\ call' = [call EXCEPT ![c] = Call("polling", g, FALSE, "none")]
           /\ UNCHANGED <<abortRequested, agent>>
    BY <1>2 DEF Proceed
  <2> DEFINE at == Call("polling", g, FALSE, "none")
  <2>2. at \in CallType /\ at.pc = "polling" /\ at.run = g
    <3>1. /\ "polling" \in {"idle"} \cup InArun /\ g \in 0..MaxRuns /\ FALSE \in BOOLEAN
          /\ "none" \in {"none", "finished", "aborted", "error"}
      BY DEF InArun, RunIds
    <3> HIDE DEF at
    <3>2. at = Call("polling", g, FALSE, "none")
      BY DEF at
    <3>3. Call("polling", g, FALSE, "none") \in CallType
      BY <3>1, CallTyped
    <3>4. Call("polling", g, FALSE, "none").pc = "polling" /\ Call("polling", g, FALSE, "none").run = g
      BY DEF Call
    <3> QED BY <3>2, <3>3, <3>4
  <2>3. call' = [call EXCEPT ![c] = at]
    BY <2>1
  <2> HIDE DEF at
  <2>4. /\ graph' \in [RunIds -> GraphType] /\ graph'[g].pc = "created"
        /\ \A h \in RunIds: h # g => graph'[h] = graph[h]
    BY <2>1 DEF Values, GraphType
  <2>5. Values'
    <3>1. call' \in [Callers -> CallType]
      BY <2>2, <2>3 DEF Values
    <3>3. current' \in 0..MaxRuns
      BY <2>1 DEF RunIds
    <3>2. status' \in Status /\ abortRequested' = abortRequested /\ agent' = agent
      BY <2>1 DEF Status
    <3> QED BY <2>4, <3>1, <3>2, <3>3 DEF Values
  <2>6. /\ call'[c].run = g /\ Watching(c)'
        /\ \A d \in Callers: d # c => call'[d] = call[d]
    BY <2>2, <2>3 DEF Values, Watching
  <2>7. Named'
    <3>1. ASSUME NEW d \in Callers
          PROVE  IF Watching(d)' THEN call'[d].run \in RunIds /\ graph'[call'[d].run].pc # "unused"
                 ELSE call'[d].run = 0
      <4>1. CASE d = c
        BY <2>4, <2>6, <4>1
      <4>2. CASE d # c
        BY <2>4, <2>6, <4>2 DEF Named, Watching
      <4> QED BY <4>1, <4>2
    <3> QED BY <2>1, <2>6, <3>1 DEF Named
  <2> QED BY <2>5, <2>7
<1> QED BY <1>1, <1>2

LEMMA ReturnBooks ==
    ASSUME EngineBook, NEW c \in Callers, NEW out \in {"none", "finished", "aborted", "error"},
           Return(c, out), UNCHANGED graph, Values',
           current' = 0 \/ (current' = current /\ ~Watching(c))
    PROVE  EngineBook'
<1> DEFINE back == Call("idle", 0, call[c].hit, out)
<1>1. call' = [call EXCEPT ![c] = back] /\ back.pc = "idle" /\ back.run = 0
  BY CallIs DEF Return
<1> HIDE DEF back
<1>2. \A d \in Callers: \/ call'[d].run = call[d].run /\ (Watching(d)' <=> Watching(d))
                        \/ call'[d].run = 0 /\ ~Watching(d)'
  BY <1>1 DEF EngineBook, Values, Watching
<1>3. ~Watching(c) => \A d \in Callers: call'[d].run = call[d].run
  BY <1>1 DEF EngineBook, Values, Named
<1>4. current' = 0 \/ (current' = current /\ \A d \in Callers: call'[d].run = call[d].run)
  BY <1>3
<1>5. \A g \in RunIds: graph'[g] = graph[g]
  OBVIOUS
<1> QED BY <1>2, <1>4, <1>5, NamedKept

LEMMA ReturnTyped ==
    ASSUME EngineBook, NEW c \in Callers, NEW out \in {"none", "finished", "aborted", "error"},
           Return(c, out)
    PROVE  call' \in [Callers -> CallType]
<1> DEFINE back == Call("idle", 0, call[c].hit, out)
<1>1. call[c].hit \in BOOLEAN /\ 0 \in 0..MaxRuns
  BY EngineAssumption DEF EngineAssumption, EngineBook, Values, CallType
<1>2. back \in CallType
  BY <1>1, CallTyped
<1>3. call' = [call EXCEPT ![c] = back]
  BY DEF Return
<1> HIDE DEF back
<1> QED BY <1>2, <1>3 DEF EngineBook, Values

LEMMA OutcomeBooks ==
    ASSUME EngineBook, NEW c \in Callers, Outcome(c), UNCHANGED <<paused, graph, controls>>
    PROVE  EngineBook'
<1>1. PICK out \in {"finished", "aborted", "error"}:
         /\ status' = out /\ Return(c, out) /\ current' = 0 /\ abortRequested' = FALSE
         /\ agent' \in {"cancelled", "error", agent}
  BY DEF Outcome
<1>2. call' \in [Callers -> CallType]
  BY <1>1, ReturnTyped
<1>3. Values'
  <2>1. status' \in Status /\ current' \in 0..MaxRuns
    BY <1>1, EngineAssumption DEF Status, EngineAssumption
  <2>3. abortRequested' \in BOOLEAN
    BY <1>1, Zenon
  <2>2. agent' \in {"idle", "busy", "finished", "error", "cancelled"}
    BY <1>1 DEF EngineBook, Values
  <2> QED BY <1>2, <2>1, <2>2, <2>3 DEF EngineBook, Values
<1> QED BY <1>1, <1>3, ReturnBooks

\* A cancel unmakes no graph run.
LEMMA CancelsOf ==
    ASSUME EngineBook, NEW g \in RunIds, graph' = [graph EXCEPT ![g] = Cancelled(@)]
    PROVE  graph' \in [RunIds -> GraphType] /\ \A h \in RunIds: graph'[h].pc = graph[h].pc
BY DEF EngineBook, Values, GraphType, Cancelled

LEMMA GraphBooks == ASSUME EngineBook, NEW g \in RunIds, GraphStep(g) PROVE EngineBook'
<1>1. UNCHANGED <<status, paused, abortRequested, current, call, controls>>
  BY DEF GraphStep, GraphEnters, GraphReturns, GraphRaises, GraphCancelled, GraphIgnoresCancel
<1>2. agent' \in {"busy", "finished", agent}
  BY DEF GraphStep, GraphEnters, GraphReturns, GraphRaises, GraphCancelled, GraphIgnoresCancel
<1>3. PICK to \in {"busy", "returned", "raised", "cancelled"}:
         graph' = [graph EXCEPT ![g].pc = to] \/ graph' = [graph EXCEPT ![g].cancel = FALSE]
  BY DEF GraphStep, GraphEnters, GraphReturns, GraphRaises, GraphCancelled, GraphIgnoresCancel
<1>4. /\ graph' \in [RunIds -> GraphType]
      /\ \A h \in RunIds: graph[h].pc # "unused" => graph'[h].pc # "unused"
  <2>1. CASE graph' = [graph EXCEPT ![g].pc = to]
    BY <2>1 DEF EngineBook, Values, GraphType, Done
  <2>2. CASE graph' = [graph EXCEPT ![g].cancel = FALSE]
    BY <2>2 DEF EngineBook, Values, GraphType
  <2> QED BY <1>3, <2>1, <2>2
<1>5. Values'
  BY <1>1, <1>2, <1>4 DEF EngineBook, Values
<1> QED BY <1>1, <1>4, <1>5, NamedKept DEF Watching
LEMMA ArunBooks == ASSUME EngineBook, NEW c \in Callers, Arun(c) PROVE EngineBook'
<1>1. call[c].pc = "idle" /\ ~Watching(c) /\ UNCHANGED <<paused, controls>>
  BY DEF Arun, Watching
<1>2. CASE paused /\ ~abortRequested
  <2> DEFINE held == Call("held", 0, FALSE, "none")
  <2>1. /\ status' = "paused" /\ call' = [call EXCEPT ![c] = held]
        /\ UNCHANGED <<abortRequested, current, agent, graph>>
    BY <1>2 DEF Arun
  <2>2. held \in CallType /\ held.pc = "held" /\ held.run = 0
    <3>1. /\ "held" \in {"idle"} \cup InArun /\ 0 \in 0..MaxRuns /\ FALSE \in BOOLEAN
          /\ "none" \in {"none", "finished", "aborted", "error"}
      BY EngineAssumption DEF InArun, EngineAssumption
    <3>2. Call("held", 0, FALSE, "none") \in CallType
      BY <3>1, CallTyped
    <3>3. Call("held", 0, FALSE, "none").pc = "held" /\ Call("held", 0, FALSE, "none").run = 0
      BY DEF Call
    <3> QED BY <3>2, <3>3
  <2> HIDE DEF held
  <2>3. call' \in [Callers -> CallType]
    BY <2>1, <2>2 DEF EngineBook, Values
  <2>4. Values'
    BY <1>1, <2>1, <2>3 DEF EngineBook, Values, Status
  <2>5. \A d \in Callers: call'[d].run = call[d].run /\ (Watching(d)' <=> Watching(d))
    BY <1>1, <2>1, <2>2 DEF EngineBook, Values, Named, Watching
  <2> QED BY <2>1, <2>4, <2>5, NamedKept
<1>3. CASE ~(paused /\ ~abortRequested)
  <2>1. Proceed(c, FALSE) /\ FALSE \in BOOLEAN
    BY <1>3 DEF Arun
  <2> QED BY <1>1, <2>1, ProceedBooks
<1> QED BY <1>2, <1>3

LEMMA CallerBooks == ASSUME EngineBook, NEW c \in Callers, CallerStep(c) PROVE EngineBook'
<1>1. CASE Wake(c)
  <2>1. call[c].pc = "held" /\ ~Watching(c) /\ UNCHANGED <<paused, controls>>
    BY <1>1 DEF Wake, Watching
  <2>2. call[c].hit \in BOOLEAN
    BY DEF EngineBook, Values, CallType
  <2>3. CASE paused /\ ~abortRequested
    <3>1. status' = "paused" /\ UNCHANGED <<abortRequested, current, agent, graph, call>>
      BY <1>1, <2>3 DEF Wake
    <3>2. Values'
      BY <2>1, <3>1 DEF EngineBook, Values, Status
    <3> QED BY <3>1, <3>2, NamedKept DEF Watching
  <2>4. CASE ~(paused /\ ~abortRequested)
    <3>1. Proceed(c, call[c].hit)
      BY <1>1, <2>4 DEF Wake
    <3> QED BY <2>1, <2>2, <3>1, ProceedBooks
  <2> QED BY <2>3, <2>4
<1>2. CASE Poll(c)
  <2>1. Watching(c) /\ UNCHANGED <<paused, controls>>
    BY <1>2 DEF Poll, Watching
  <2>2. CASE IsDone(call[c].run) /\ Outcome(c) /\ UNCHANGED graph
    BY <2>1, <2>2, OutcomeBooks
  <2>3. CASE ~(IsDone(call[c].run) /\ Outcome(c) /\ UNCHANGED graph)
    <3>1. /\ graph' = [graph EXCEPT ![call[c].run] = Cancelled(@)]
          /\ call' = [call EXCEPT ![c].pc = "awaiting"]
          /\ UNCHANGED <<status, current, agent, abortRequested>>
      BY <1>2, <2>3 DEF Poll
    <3>2. call[c].run \in RunIds
      BY <2>1 DEF EngineBook, Named
    <3>3. graph' \in [RunIds -> GraphType] /\ \A g \in RunIds: graph'[g].pc = graph[g].pc
      BY <3>1, <3>2, CancelsOf
    <3>4. /\ call' \in [Callers -> CallType] /\ call'[c].pc = "awaiting"
          /\ \A d \in Callers: call'[d].run = call[d].run /\ (d # c => call'[d].pc = call[d].pc)
      BY <3>1 DEF EngineBook, Values, CallType, InArun
    <3>5. \A d \in Callers: Watching(d)' <=> Watching(d)
      BY <2>1, <3>4 DEF Watching
    <3>6. Values'
      BY <2>1, <3>1, <3>3, <3>4 DEF EngineBook, Values
    <3> QED BY <3>1, <3>3, <3>4, <3>5, <3>6, NamedKept
  <2> QED BY <2>2, <2>3
<1>3. CASE Await(c)
  BY <1>3, OutcomeBooks DEF Await
<1> QED BY <1>1, <1>2, <1>3 DEF CallerStep

LEMMA CancelBooks == ASSUME EngineBook, NEW c \in Callers, CancelCaller(c) PROVE EngineBook'
<1>1. controls' \in 0..MaxControls /\ UNCHANGED paused /\ call[c].pc \in InArun
  BY EngineAssumption DEF CancelCaller, Control, EngineBook, Values, EngineAssumption
<1>2. CASE call[c].pc = "held"
  <2>1. Return(c, "none") /\ UNCHANGED <<status, abortRequested, current, agent, graph>>
    BY <1>2 DEF CancelCaller
  <2>2. call' \in [Callers -> CallType]
    BY <2>1, ReturnTyped
  <2>3. Values'
    BY <1>1, <2>1, <2>2 DEF EngineBook, Values
  <2>4. ~Watching(c)
    BY <1>2 DEF Watching
  <2> QED BY <2>1, <2>3, <2>4, ReturnBooks
<1>3. CASE call[c].pc = "awaiting" /\ ~IsDone(call[c].run)
  <2>1. /\ graph' = [graph EXCEPT ![call[c].run] = Cancelled(@)]
        /\ UNCHANGED <<status, abortRequested, current, agent, call>>
    BY <1>3 DEF CancelCaller
  <2>2. call[c].run \in RunIds
    BY <1>3 DEF EngineBook, Named, Watching
  <2>3. graph' \in [RunIds -> GraphType] /\ \A g \in RunIds: graph'[g].pc = graph[g].pc
    BY <2>1, <2>2, CancelsOf
  <2>4. Values'
    BY <1>1, <2>1, <2>3 DEF EngineBook, Values
  <2> QED BY <2>1, <2>3, <2>4, NamedKept DEF Watching
<1>4. CASE call[c].pc # "held" /\ ~(call[c].pc = "awaiting" /\ ~IsDone(call[c].run))
  <2>1. /\ agent' = "cancelled" /\ status' = "aborted" /\ Return(c, "aborted")
        /\ current' = 0 /\ abortRequested' = FALSE /\ UNCHANGED graph
    BY <1>4 DEF CancelCaller
  <2>2. call' \in [Callers -> CallType]
    BY <2>1, ReturnTyped
  <2>3. abortRequested' \in BOOLEAN
    BY <2>1, Zenon
  <2>4. current' \in 0..MaxRuns
    BY <2>1, EngineAssumption DEF EngineAssumption
  <2>5. Values'
    BY <1>1, <2>1, <2>2, <2>3, <2>4 DEF EngineBook, Values, Status
  <2> QED BY <2>1, <2>5, ReturnBooks
<1> QED BY <1>2, <1>3, <1>4

LEMMA ControlBooks == ASSUME EngineBook, Pause \/ Resume \/ Abort \/ Reset PROVE EngineBook'
<1>1. CASE Pause
  <2>1. /\ UNCHANGED <<abortRequested, current, agent, graph, call>> /\ status' \in {"paused", status}
        /\ controls' \in 0..MaxControls
    BY <1>1, EngineAssumption DEF Pause, Control, EngineBook, Values, EngineAssumption
  <2>2. paused' \in BOOLEAN
    BY <1>1, Zenon DEF Pause
  <2>3. Values'
    BY <2>1, <2>2 DEF EngineBook, Values, Status
  <2> QED BY <2>1, <2>3, NamedKept DEF Watching
<1>2. CASE Resume
  <2>1. /\ UNCHANGED <<abortRequested, current, agent, graph, call, controls>>
        /\ status' \in {"idle", status}
    BY <1>2 DEF Resume
  <2>2. paused' \in BOOLEAN
    BY <1>2, Zenon DEF Resume
  <2>3. Values'
    BY <2>1, <2>2 DEF EngineBook, Values, Status
  <2> QED BY <2>1, <2>3, NamedKept DEF Watching
<1>3. CASE Abort
  <2>1. /\ status' = "aborting" /\ UNCHANGED <<current, agent>>
        /\ graph' = IF current = 0 THEN graph ELSE [graph EXCEPT ![current] = Cancelled(@)]
        /\ call' = [c \in Callers |-> IF call[c].pc \in InArun THEN [call[c] EXCEPT !.hit = TRUE]
                                                               ELSE call[c]]
        /\ controls' \in 0..MaxControls
    BY <1>3, EngineAssumption DEF Abort, Control, EngineBook, Values, EngineAssumption
  <2>2. paused' \in BOOLEAN /\ abortRequested' \in BOOLEAN
    BY <1>3, Zenon DEF Abort
  <2>3. graph' \in [RunIds -> GraphType] /\ \A g \in RunIds: graph'[g].pc = graph[g].pc
    <3>1. CASE current = 0
      BY <2>1, <3>1 DEF EngineBook, Values
    <3>2. CASE current # 0
      <4>1. current \in RunIds
        BY <3>2 DEF EngineBook, Values, RunIds
      <4> QED BY <2>1, <3>2, <4>1, CancelsOf
    <3> QED BY <3>1, <3>2
  <2>4. /\ call' \in [Callers -> CallType]
        /\ \A d \in Callers: call'[d].run = call[d].run /\ call'[d].pc = call[d].pc
    <3>1. \A d \in Callers: call[d] \in CallType
      BY DEF EngineBook, Values
    <3>2. \A x \in CallType: /\ [x EXCEPT !.hit = TRUE] \in CallType
                             /\ [x EXCEPT !.hit = TRUE].run = x.run
                             /\ [x EXCEPT !.hit = TRUE].pc = x.pc
      BY DEF CallType
    <3> QED BY <2>1, <3>1, <3>2
  <2>5. \A d \in Callers: Watching(d)' <=> Watching(d)
    BY <2>4 DEF Watching
  <2>6. Values'
    BY <2>1, <2>2, <2>3, <2>4 DEF EngineBook, Values, Status
  <2> QED BY <2>1, <2>3, <2>4, <2>5, <2>6, NamedKept
<1>4. CASE Reset
  <2>1. /\ status' = "idle" /\ current' = 0 /\ agent' = "idle" /\ UNCHANGED graph
        /\ call' = [c \in Callers |-> [call[c] EXCEPT !.hit = FALSE]]
        /\ controls' \in 0..MaxControls
    BY <1>4, EngineAssumption DEF Reset, Control, EngineBook, Values, EngineAssumption
  <2>2. paused' \in BOOLEAN /\ abortRequested' \in BOOLEAN
    BY <1>4, Zenon DEF Reset
  <2>3. /\ call' \in [Callers -> CallType]
        /\ \A d \in Callers: call'[d].run = call[d].run /\ call'[d].pc = call[d].pc
    <3>1. \A d \in Callers: call[d] \in CallType
      BY DEF EngineBook, Values
    <3>2. \A x \in CallType: /\ [x EXCEPT !.hit = FALSE] \in CallType
                             /\ [x EXCEPT !.hit = FALSE].run = x.run
                             /\ [x EXCEPT !.hit = FALSE].pc = x.pc
      BY DEF CallType
    <3> QED BY <2>1, <3>1, <3>2
  <2>4. \A d \in Callers: Watching(d)' <=> Watching(d)
    BY <2>3 DEF Watching
  <2>5. current' \in 0..MaxRuns
    BY <2>1, EngineAssumption DEF EngineAssumption
  <2>6. Values'
    BY <2>1, <2>2, <2>3, <2>5 DEF EngineBook, Values, Status
  <2> QED BY <2>1, <2>3, <2>4, <2>6, NamedKept
<1> QED BY <1>1, <1>2, <1>3, <1>4

LEMMA EngineBookNext == EngineBook /\ [EngineNext]_engineVars => EngineBook'
<1> SUFFICES ASSUME EngineBook, [EngineNext]_engineVars PROVE EngineBook'
  OBVIOUS
<1>1. CASE EngineNext
  BY <1>1, GraphBooks, ArunBooks, CallerBooks, CancelBooks, ControlBooks DEF EngineNext
<1>2. CASE UNCHANGED engineVars
  BY <1>2 DEF engineVars, EngineBook, Values, Named, Watching
<1> QED BY <1>1, <1>2

\* A graph run is made only by an arun that is past _wait_if_paused: abort, cancel and
\* the graph itself change what is there.
LEMMA StartsUnpaused ==
    ASSUME EngineBook, EngineNext, NEW g \in RunIds, graph[g] = NoRun, graph'[g] # NoRun
    PROVE  ~paused
<1> USE DEF EngineBook
<1>0. graph[g].pc = "unused" /\ ~graph[g].cancel
  BY DEF NoRun
<1>1. ASSUME NEW h \in RunIds, GraphStep(h) PROVE FALSE
  <2>1. graph[h].pc # "unused"
    BY <1>1 DEF GraphStep, GraphEnters, GraphReturns, GraphRaises, GraphCancelled,
                GraphIgnoresCancel, Live
  <2>2. \A k \in RunIds \ {h}: graph'[k] = graph[k]
    BY <1>1 DEF GraphStep, GraphEnters, GraphReturns, GraphRaises, GraphCancelled,
                GraphIgnoresCancel, Values
  <2> QED BY <1>0, <2>1, <2>2
<1>2. ASSUME NEW h \in RunIds, graph[h].pc # "unused", graph' = [graph EXCEPT ![h] = Cancelled(@)]
      PROVE  FALSE
  BY <1>0, <1>2 DEF Values
<1>3. ASSUME NEW c \in Callers, CallerStep(c) \/ CancelCaller(c) PROVE ~paused
  <2>1. CASE UNCHANGED graph
    BY <2>1
  <2>2. CASE graph' = [graph EXCEPT ![call[c].run] = Cancelled(@)] /\ Watching(c)
    <3>1. call[c].run \in RunIds /\ graph[call[c].run].pc # "unused"
      BY <2>2 DEF Named
    <3> QED BY <1>2, <2>2, <3>1
  <2>3. CASE Wake(c) /\ ~UNCHANGED graph
    BY <2>3 DEF Wake, Proceed
  <2> QED BY <1>3, <2>1, <2>2, <2>3 DEF CallerStep, Poll, Await, CancelCaller, Watching
<1>4. ASSUME NEW c \in Callers, Arun(c) PROVE ~paused
  BY <1>4 DEF Arun, Proceed
<1>5. ASSUME Abort PROVE FALSE
  <2>1. current # 0 /\ graph' = [graph EXCEPT ![current] = Cancelled(@)]
    BY <1>5 DEF Abort
  <2>2. PICK c \in Callers: call[c].run = current
    BY <2>1 DEF Named
  <2>3. Watching(c) /\ current \in RunIds /\ graph[current].pc # "unused"
    BY <2>1, <2>2 DEF Named
  <2> QED BY <1>2, <2>1, <2>3
<1>6. ~Pause /\ ~Resume /\ ~Reset
  BY DEF Pause, Resume, Reset
<1> QED BY <1>1, <1>3, <1>4, <1>5, <1>6 DEF EngineNext

\* The run that an abort would cancel is one that was made and that a caller watches, for
\* any number of callers and of control calls.
THEOREM EngineIsTyped == EngineSpec => []EngineTypeOK
BY EngineBookInit, EngineBookNext, EngineBookTypes, PTL DEF EngineSpec

\* No graph run begins while the engine is paused, whoever pauses, resumes, aborts, resets
\* and cancels meanwhile.
THEOREM PausesHold == EngineSpec => NothingStartsPaused
<1>1. EngineBook /\ [EngineNext]_engineVars =>
         [\A g \in RunIds: graph[g] = NoRun /\ graph'[g] # NoRun => ~paused]_engineVars
  BY StartsUnpaused
<1> QED BY EngineBookInit, EngineBookNext, <1>1, PTL DEF EngineSpec, NothingStartsPaused
-----------------------------------------------------------------------------
(***************************************************************************)
(* One caller only, as the RuntimeController is, under every control call: *)
(* nobody else is past the beginning of arun, so abort stays requested     *)
(* until its arun returns or is reset.                                     *)
(***************************************************************************)
\* Of d: what an abort does to an arun that it reaches stays to be told.
Hears(d) ==
    /\ call[d].pc \in InArun => call[d].result = "none" /\ (call[d].hit => abortRequested)
    /\ call[d].hit => call[d].result # "finished"

Sole(c) == (\A d \in Callers: Hears(d)) /\ \A d \in Callers \ {c}: call[d].pc = "idle"

LEMMA SoleInit == ASSUME EngineInit, NEW c PROVE Sole(c)
BY DEF EngineInit, Sole, Hears, Idle, Call, InArun

\* The arun that ends tells, and leaves an abort to nobody.
LEMMA SoleReturns ==
    ASSUME EngineBook, NEW c, Sole(c), NEW d \in Callers, call[d].pc \in InArun,
           NEW out \in {"none", "finished", "aborted", "error"}, Return(d, out),
           abortRequested => out # "finished"
    PROVE  Sole(c)'
<1>1. /\ call'[d] = Call("idle", 0, call[d].hit, out)
      /\ \A e \in Callers: e # d => call'[e] = call[e] /\ call[e].pc \notin InArun
  <2>1. d = c
    BY DEF Sole, InArun
  <2>2. \A e \in Callers: e # d => call[e].pc \notin InArun
    BY <2>1 DEF Sole, InArun
  <2> QED BY <2>2 DEF Return, EngineBook, Values
<1>2. call'[d].pc = "idle" /\ call'[d].hit = call[d].hit /\ call'[d].result = out
  BY <1>1, CallIs
<1>3. Hears(d)'
  BY <1>2 DEF Hears, Sole, InArun
<1>4. \A e \in Callers: e # d => Hears(e)'
  BY <1>1 DEF Hears, Sole
<1> QED BY <1>1, <1>2, <1>3, <1>4 DEF Sole

LEMMA SoleProceeds ==
    ASSUME EngineBook, NEW c, Sole(c), NEW d \in Callers, NEW hit \in BOOLEAN, Proceed(d, hit),
           \A e \in Callers: e # c => call'[e].pc = "idle"
    PROVE  Sole(c)'
<1>1. PICK x \in CallType:
         /\ call' = [call EXCEPT ![d] = x] /\ UNCHANGED abortRequested
         /\ \/ x.pc = "idle" /\ x.result = "aborted"
            \/ x.result = "none" /\ ~x.hit
  <2>1. CASE abortRequested
    <3>1. Call("idle", 0, hit, "aborted") \in CallType
      BY CallTyped, EngineAssumption DEF EngineAssumption
    <3> QED BY <2>1, <3>1, CallIs DEF Proceed
  <2>2. CASE ~abortRequested
    <3>1. PICK g \in RunIds: call' = [call EXCEPT ![d] = Call("polling", g, FALSE, "none")]
      BY <2>2 DEF Proceed
    <3>2. /\ "polling" \in {"idle"} \cup InArun /\ g \in 0..MaxRuns /\ FALSE \in BOOLEAN
          /\ "none" \in {"none", "finished", "aborted", "error"}
      BY DEF InArun, RunIds
    <3>3. Call("polling", g, FALSE, "none") \in CallType
      BY <3>2, CallTyped
    <3>4. Call("polling", g, FALSE, "none").result = "none" /\ ~Call("polling", g, FALSE, "none").hit
      BY DEF Call
    <3>5. UNCHANGED abortRequested
      BY <2>2 DEF Proceed
    <3> QED BY <3>1, <3>3, <3>4, <3>5
  <2> QED BY <2>1, <2>2
<1>2. \A e \in Callers: Hears(e)'
  <2>1. call'[d] = x /\ \A e \in Callers: e # d => call'[e] = call[e]
    BY <1>1 DEF EngineBook, Values
  <2> QED BY <1>1, <2>1 DEF Sole, Hears, InArun
<1> QED BY <1>2 DEF Sole

\* A step that moves callers on, or back, without a word.
LEMMA SoleKept ==
    ASSUME NEW c, Sole(c),
           \A d \in Callers: call'[d].pc \in InArun <=> call[d].pc \in InArun,
           \A d \in Callers \ {c}: call'[d].pc = call[d].pc,
           \A d \in Callers: call'[d].result = call[d].result,
           \A d \in Callers: call'[d].hit => call[d].pc \in InArun \/ call[d].hit,
           \A d \in Callers: call'[d].hit /\ call[d].pc \in InArun =>
              abortRequested' \/ (call[d].hit /\ UNCHANGED abortRequested)
    PROVE  Sole(c)'
<1>1. ASSUME NEW d \in Callers PROVE Hears(d)'
  <2>1. Hears(d)
    BY DEF Sole
  <2>2. CASE call[d].pc \in InArun
    BY <2>1, <2>2 DEF Hears
  <2>3. CASE call[d].pc \notin InArun
    BY <2>1, <2>3 DEF Hears
  <2> QED BY <2>2, <2>3
<1>2. \A d \in Callers \ {c}: call'[d].pc = "idle"
  BY DEF Sole
<1> QED BY <1>1, <1>2 DEF Sole

\* Nobody but c ever begins: the others are not called.
LEMMA SoleNext ==
    ASSUME EngineBook, NEW c, Sole(c), EngineNext, \A d \in Callers \ {c}: call'[d].pc = "idle"
    PROVE  Sole(c)'
<1> USE DEF EngineBook
<1>1. ASSUME UNCHANGED <<abortRequested, call>> PROVE Sole(c)'
  BY <1>1 DEF Sole, Hears
<1>2. ASSUME NEW g \in RunIds, GraphStep(g) PROVE Sole(c)'
  BY <1>1, <1>2 DEF GraphStep, GraphEnters, GraphReturns, GraphRaises, GraphCancelled,
                    GraphIgnoresCancel
<1>3. ASSUME NEW d \in Callers, Arun(d) PROVE Sole(c)'
  <2>1. CASE paused /\ ~abortRequested
    <3>1. call' = [call EXCEPT ![d] = Call("held", 0, FALSE, "none")] /\ UNCHANGED abortRequested
      BY <1>3, <2>1 DEF Arun
    <3>2. call'[d] = Call("held", 0, FALSE, "none") /\ \A e \in Callers: e # d => call'[e] = call[e]
      BY <3>1 DEF Values
    <3>3. \A e \in Callers: Hears(e)'
      BY <3>1, <3>2 DEF Sole, Hears, Call
    <3> QED BY <3>3 DEF Sole
  <2>2. CASE ~(paused /\ ~abortRequested)
    <3>1. Proceed(d, FALSE) /\ FALSE \in BOOLEAN
      BY <1>3, <2>2 DEF Arun
    <3> QED BY <3>1, SoleProceeds
  <2> QED BY <2>1, <2>2
<1>4. ASSUME NEW d \in Callers, call[d].pc \in InArun, IsDone(call[d].run), Outcome(d) PROVE Sole(c)'
  <2>1. PICK out \in {"finished", "aborted", "error"}:
           Return(d, out) /\ (abortRequested => out # "finished")
    BY <1>4 DEF Outcome, IsDone, Done
  <2> QED BY <1>4, <2>1, SoleReturns
<1>5. ASSUME NEW d \in Callers, Wake(d) PROVE Sole(c)'
  <2>1. CASE paused /\ ~abortRequested
    BY <1>1, <1>5, <2>1 DEF Wake
  <2>2. CASE ~(paused /\ ~abortRequested)
    <3>1. Proceed(d, call[d].hit) /\ call[d].hit \in BOOLEAN
      BY <1>5, <2>2 DEF Wake, Values, CallType
    <3> QED BY <3>1, SoleProceeds
  <2> QED BY <2>1, <2>2
<1>6. ASSUME NEW d \in Callers, Poll(d) PROVE Sole(c)'
  <2>1. CASE IsDone(call[d].run) /\ Outcome(d)
    BY <1>4, <1>6, <2>1 DEF Poll, InArun
  <2>2. CASE ~(IsDone(call[d].run) /\ Outcome(d))
    <3>1. /\ call[d].pc = "polling" /\ call' = [call EXCEPT ![d].pc = "awaiting"]
          /\ UNCHANGED abortRequested
      BY <1>6, <2>2 DEF Poll
    <3>2. \A e \in Callers: /\ call'[e].pc \in InArun <=> call[e].pc \in InArun
                            /\ call'[e].hit = call[e].hit /\ call'[e].result = call[e].result
                            /\ e # d => call'[e].pc = call[e].pc
      BY <3>1 DEF Values, CallType, InArun
    <3>3. d = c
      BY <3>1 DEF Sole
    <3> QED BY <3>1, <3>2, <3>3, SoleKept
  <2> QED BY <2>1, <2>2
<1>7. ASSUME NEW d \in Callers, Await(d) PROVE Sole(c)'
  BY <1>4, <1>7 DEF Await, InArun
<1>8. ASSUME NEW d \in Callers, CancelCaller(d) PROVE Sole(c)'
  <2>1. CASE call[d].pc = "held" \/ ~(call[d].pc = "awaiting" /\ ~IsDone(call[d].run))
    <3>1. PICK out \in {"none", "aborted"}: Return(d, out)
      BY <1>8, <2>1 DEF CancelCaller
    <3>2. call[d].pc \in InArun
      BY <1>8 DEF CancelCaller
    <3> QED BY <3>1, <3>2, SoleReturns
  <2>2. CASE call[d].pc = "awaiting" /\ ~IsDone(call[d].run)
    BY <1>1, <1>8, <2>2 DEF CancelCaller
  <2> QED BY <2>1, <2>2
<1>9. ASSUME Abort PROVE Sole(c)'
  <2>1. /\ abortRequested' = TRUE
        /\ call' = [d \in Callers |-> IF call[d].pc \in InArun THEN [call[d] EXCEPT !.hit = TRUE]
                                                               ELSE call[d]]
    BY <1>9 DEF Abort
  <2>2. \A x \in CallType: /\ [x EXCEPT !.hit = TRUE].pc = x.pc
                           /\ [x EXCEPT !.hit = TRUE].result = x.result
    BY DEF CallType
  <2>3. \A d \in Callers: /\ call'[d].pc = call[d].pc /\ call'[d].result = call[d].result
                          /\ call[d].pc \notin InArun => call'[d].hit = call[d].hit
    BY <2>1, <2>2 DEF Values
  <2> QED BY <2>1, <2>3, SoleKept
<1>10. ASSUME Reset PROVE Sole(c)'
  <2>1. call' = [d \in Callers |-> [call[d] EXCEPT !.hit = FALSE]]
    BY <1>10 DEF Reset
  <2>2. \A x \in CallType: /\ [x EXCEPT !.hit = FALSE].pc = x.pc /\ ~[x EXCEPT !.hit = FALSE].hit
                           /\ [x EXCEPT !.hit = FALSE].result = x.result
    BY DEF CallType
  <2>3. \A d \in Callers: call'[d].pc = call[d].pc /\ call'[d].result = call[d].result /\ ~call'[d].hit
    BY <2>1, <2>2 DEF Values
  <2> QED BY <2>3, SoleKept
<1>11. ASSUME Pause \/ Resume PROVE Sole(c)'
  BY <1>1, <1>11 DEF Pause, Resume
<1> QED BY <1>2, <1>3, <1>5, <1>6, <1>7, <1>8, <1>9, <1>10, <1>11 DEF EngineNext, CallerStep
=============================================================================
