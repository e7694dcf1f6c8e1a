---------------------------- MODULE SessionProofs ----------------------------
(***************************************************************************)
(* The turns of the terminal application: for any number of inputs, events *)
(* of a run, mode switches and aborts, and for every size of the queue.    *)
(***************************************************************************)
EXTENDS MCSession, RuntimeEngineProofs, FiniteSetTheorems

-----------------------------------------------------------------------------
(***************************************************************************)
(* The inductive invariant.                                                *)
(***************************************************************************)
Message == [turn: Nat, what: Outcomes \cup {"none", "user"}]

TurnSet == [pc: Streaming \cup {"unused", "scheduled", "dropped", "over"}, ctl: Nat,
            run: RunStages \cup {"none", "done"}, cancel: BOOLEAN,
            how: {"none", "returned", "silent", "raised", "cancelled"}, result: Message,
            sent: Nat, shown: Seq(Nat)]
ControllerSet == [mode: Modes, status: Outcomes \cup {"ready", "running", "aborting"},
                  abortRequested: BOOLEAN, session: Seq(Message), last: Message]
StreamSet == [open: BOOLEAN, queue: Seq(Nat), closedAt: Nat, dropped: SUBSET Nat]

Types ==
    /\ mode \in Modes /\ busy \in BOOLEAN /\ quitting \in BOOLEAN /\ aborts \in 0..MaxAborts
    /\ chat \in Seq(Message)
    /\ controller \in Seq(ControllerSet)
    /\ using = Len(controller) /\ Len(controller) \in 1..(MaxSwitches + 1)
    /\ turn \in [Turns -> TurnSet]
    /\ stream \in [Turns -> StreamSet]
    /\ \A k \in 1..Len(controller): controller[k].last.what # "user"
    /\ \A t \in Turns: turn[t].result.what # "user" /\ Len(stream[t].queue) <= QueueMax

Going(t) == turn[t].pc \in Streaming
Listening(t) == turn[t].pc \in {"waiting", "grace", "joining"}

\* Where the worker of a turn and its run can be at the same time.
StageBook(t) ==
    LET x == turn[t] IN
    /\ x.run = "none" <=> x.pc \in {"unused", "scheduled", "dropped"}
    /\ x.run = "none" => /\ x.result = Nothing /\ x.sent = 0 /\ x.shown = << >> /\ ~x.cancel
                         /\ stream[t] = NoStream
    /\ x.pc \in {"grace", "over"} => x.run = "done"
    /\ x.cancel => x.pc \in {"closing", "joining", "over"}
    /\ Listening(t) /\ ~stream[t].open => stream[t].closedAt # 0 /\ x.run # "created"
    /\ stream[t].open => x.pc \in {"waiting", "grace"} /\ stream[t].closedAt = 0
    /\ x.pc = "joining" => ~stream[t].open /\ stream[t].queue = << >>
    /\ x.run = "done" => \/ x.result.turn = t /\ x.result.what # "none"
                         \/ x.cancel /\ x.pc \in {"closing", "over"}

\* The app is busy with one turn, which uses the controller that there is.
OneGoes ==
    /\ busy <=> \E t \in Turns: Going(t)
    /\ \A t, u \in Turns: Going(t) /\ Going(u) => t = u
    /\ \A t \in Turns: Going(t) => turn[t].ctl = using
    /\ \A t \in Turns: turn[t].pc = "scheduled" => ~busy
    /\ \A t, u \in Turns: turn[t].pc = "scheduled" /\ turn[u].pc = "scheduled" => t = u

\* The chat ends with the input that is worked on, and tells of turns that are over.
ChatBook ==
    /\ \A t \in Turns: Going(t) \/ turn[t].pc = "scheduled" =>
          Len(chat) > 0 /\ chat[Len(chat)] = Said(t, "user")
    /\ \A i \in 1..Len(chat): chat[i].what # "user" =>
          /\ chat[i].turn \in Turns /\ turn[chat[i].turn].pc = "over"
          /\ chat[i] = turn[chat[i].turn].result
          /\ i > 1 /\ chat[i - 1] = Said(chat[i].turn, "user")

\* What the controller would tell in the grace period is about this turn.
LastBook ==
    \A t \in Turns: turn[t].pc = "grace" => controller[turn[t].ctl].last = turn[t].result

\* The session of a controller: each outcome is right after its input, an input without one
\* is of a run that had none to tell, and at the end there may be the input of the run in its
\* graph, of every such run.
SilentlyDone(t, x) == x[t].run = "done" /\ x[t].result.what = "empty"
Paired(s, x) ==
    \A i \in 1..Len(s):
       /\ s[i].turn \in Turns
       /\ s[i].what # "user" => /\ i > 1 /\ s[i - 1] = Said(s[i].turn, "user")
                                /\ s[i] = x[s[i].turn].result /\ x[s[i].turn].run = "done"
       /\ s[i].what = "user" /\ i < Len(s) /\ s[i + 1].what = "user" => SilentlyDone(s[i].turn, x)
Settled(s, x) == Len(s) > 0 /\ s[Len(s)].what = "user" => SilentlyDone(s[Len(s)].turn, x)
AsksLast(s, t) == Len(s) > 0 /\ s[Len(s)] = Said(t, "user")
InGraph(t) == turn[t].run \in {"graph", "ended"}
SessionOf(s, k, x) ==
    /\ Paired(s, x)
    /\ Settled(s, x) \/ \E t \in Turns: /\ x[t].run \in {"graph", "ended"} /\ x[t].ctl = k
                                         /\ AsksLast(s, t)
SessionBook ==
    /\ \A k \in 1..Len(controller): SessionOf(controller[k].session, k, turn)
    /\ \A t \in Turns: InGraph(t) => AsksLast(controller[turn[t].ctl].session, t)

\* The events of a turn that its stream has heard of.
UpTo(s, sent) == IF s.closedAt = 0 THEN sent ELSE s.closedAt

\* What was shown is in order, and none of it was dropped.
ShownRight(shown, dropped, upTo) ==
    \A i \in 1..Len(shown):
       /\ i > 1 => shown[i - 1] < shown[i]
       /\ shown[i] \in 1..upTo /\ shown[i] \notin dropped

\* The queue holds, in order and before its end, the events that were neither shown
\* nor dropped.
QueueRight(s, shown, upTo) ==
    LET q == s.queue IN
    /\ \A i \in 1..Len(q):
          /\ q[i] = End => ~s.open /\ i = Len(q)
          /\ q[i] # End => /\ q[i] \in 1..upTo /\ q[i] \notin s.dropped
                           /\ \A j \in 1..Len(shown): shown[j] < q[i]
    /\ \A i, j \in 1..Len(q): i < j /\ q[j] # End => q[i] < q[j]
    /\ s.dropped \subseteq 1..upTo
    /\ \A n \in 1..upTo: \/ n \in s.dropped
                         \/ \E i \in 1..Len(shown): shown[i] = n
                         \/ \E i \in 1..Len(q): q[i] = n

Complete(shown, dropped, upTo) ==
    1..upTo = {shown[i]: i \in 1..Len(shown)} \cup dropped

Told(t) == \E i \in 1..Len(chat): chat[i].turn = t /\ chat[i].what # "user"

EventBook(t) ==
    LET x == turn[t]
        upTo == UpTo(stream[t], x.sent)
    IN  /\ ShownRight(x.shown, stream[t].dropped, upTo)
        /\ Listening(t) => QueueRight(stream[t], x.shown, upTo)
        /\ x.pc = "over" /\ (Told(t) \/ ~quitting) => Complete(x.shown, stream[t].dropped, upTo)
        /\ x.pc = "over" /\ ~quitting => x.result.what = "empty" \/ Told(t)
        /\ x.pc = "closing" => quitting

SessionInv ==
    /\ Types /\ OneGoes /\ ChatBook /\ LastBook /\ SessionBook
    /\ \A t \in Turns: StageBook(t) /\ EventBook(t)

-----------------------------------------------------------------------------
(***************************************************************************)
(* The queue.                                                              *)
(***************************************************************************)
Fits(s) == s \in StreamSet /\ Len(s.queue) <= QueueMax
NoEnd(s) == \A i \in 1..Len(s.queue): s.queue[i] # End
Dropping(s) == [s EXCEPT !.queue = Tail(@), !.dropped = @ \cup {Head(s.queue)}]
Adding(s, n) == [s EXCEPT !.queue = Append(@, n)]

LEMMA PutIs ==
    ASSUME NEW s, Fits(s), NEW n \in Nat
    PROVE  \/ Len(s.queue) < QueueMax /\ Put(s, n) = Adding(s, n)
           \/ s.queue # << >> /\ Put(s, n) = Adding(Dropping(s), n)
<1>1. s.queue \in Seq(Nat) /\ QueueMax \in Nat \ {0}
  BY SessionAssumption DEF Fits, StreamSet, SessionAssumption
<1>2. CASE Len(s.queue) < QueueMax
  BY <1>2 DEF Put, Adding
<1>3. CASE ~(Len(s.queue) < QueueMax)
  <2>1. s.queue # << >>
    BY <1>1, <1>3
  <2>2. Put(s, n) = Adding(Dropping(s), n)
    <3>1. s = [open |-> s.open, queue |-> s.queue, closedAt |-> s.closedAt, dropped |-> s.dropped]
      BY DEF Fits, StreamSet
    <3> QED BY <1>3, <3>1 DEF Put, Adding, Dropping
  <2> QED BY <2>1, <2>2
<1> QED BY <1>2, <1>3

LEMMA QueueOps ==
    ASSUME NEW q \in Seq(Nat), NEW n \in Nat
    PROVE  /\ Append(q, n) \in Seq(Nat) /\ Len(Append(q, n)) = Len(q) + 1
           /\ Append(q, n)[Len(q) + 1] = n /\ \A i \in 1..Len(q): Append(q, n)[i] = q[i]
           /\ q # << >> => /\ Tail(q) \in Seq(Nat) /\ Len(Tail(q)) = Len(q) - 1 /\ Head(q) = q[1]
                           /\ q[1] \in Nat /\ Len(q) > 0
                           /\ \A i \in 1..Len(Tail(q)): Tail(q)[i] = q[i + 1]
           /\ Len(q) \in Nat /\ \A i \in 1..Len(q): q[i] \in Nat
OBVIOUS

LEMMA DroppingIs ==
    ASSUME NEW s, Fits(s), s.queue # << >>
    PROVE  /\ Fits(Dropping(s)) /\ Len(Dropping(s).queue) < QueueMax
           /\ Dropping(s).open = s.open /\ Dropping(s).closedAt = s.closedAt
           /\ Dropping(s).queue = Tail(s.queue)
           /\ Dropping(s).dropped = s.dropped \cup {s.queue[1]}
<1>1. s.queue \in Seq(Nat) /\ s.dropped \in SUBSET Nat /\ QueueMax \in Nat
  BY SessionAssumption DEF Fits, StreamSet, SessionAssumption
<1>2. /\ Tail(s.queue) \in Seq(Nat) /\ Len(Tail(s.queue)) = Len(s.queue) - 1
      /\ Head(s.queue) = s.queue[1] /\ s.queue[1] \in Nat /\ Len(s.queue) \in Nat
  BY <1>1, QueueOps
<1>3. s.dropped \cup {s.queue[1]} \in SUBSET Nat
  BY <1>1, <1>2
<1> DEFINE t == Tail(s.queue)
           d == s.dropped \cup {Head(s.queue)}
<1>4. Dropping(s) = [s EXCEPT !.queue = t, !.dropped = d]
  BY DEF Dropping
<1>5. t \in Seq(Nat) /\ d \in SUBSET Nat /\ s \in StreamSet
  BY <1>2, <1>3 DEF Fits
<1>6. /\ t = Tail(s.queue) /\ d = s.dropped \cup {s.queue[1]}
  BY <1>2
<1> HIDE DEF t, d
<1>7. /\ Dropping(s) \in StreamSet
      /\ Dropping(s).queue = t /\ Dropping(s).dropped = d
      /\ Dropping(s).open = s.open /\ Dropping(s).closedAt = s.closedAt
  BY <1>4, <1>5 DEF StreamSet
<1>8. Len(t) < QueueMax /\ Len(t) <= QueueMax
  BY <1>1, <1>2, <1>6 DEF Fits
<1> QED BY <1>6, <1>7, <1>8 DEF Fits

LEMMA AddingIs ==
    ASSUME NEW s, Fits(s), Len(s.queue) < QueueMax, NEW n \in Nat
    PROVE  /\ Fits(Adding(s, n))
           /\ Adding(s, n).open = s.open /\ Adding(s, n).closedAt = s.closedAt
           /\ Adding(s, n).queue = Append(s.queue, n) /\ Adding(s, n).dropped = s.dropped
<1>1. s.queue \in Seq(Nat) /\ QueueMax \in Nat
  BY SessionAssumption DEF Fits, StreamSet, SessionAssumption
<1>2. Append(s.queue, n) \in Seq(Nat) /\ Len(Append(s.queue, n)) = Len(s.queue) + 1 /\ Len(s.queue) \in Nat
  BY <1>1, QueueOps
<1>3. Adding(s, n) = [open |-> s.open, queue |-> Append(s.queue, n), closedAt |-> s.closedAt,
                      dropped |-> s.dropped]
  <2>1. PICK o, q, c, d: s = [open |-> o, queue |-> q, closedAt |-> c, dropped |-> d]
    BY DEF Fits, StreamSet
  <2> QED BY <2>1, SMTT(30) DEF Adding
<1>4. s.open \in BOOLEAN /\ s.closedAt \in Nat /\ s.dropped \in SUBSET Nat
  BY DEF Fits, StreamSet
<1>5. Len(Append(s.queue, n)) <= QueueMax
  BY <1>1, <1>2
<1>6. Adding(s, n) \in StreamSet
  BY <1>2, <1>3, <1>4 DEF StreamSet
<1> QED BY <1>3, <1>5, <1>6 DEF Fits

\* The oldest event goes.
LEMMA DroppingIsRight ==
    ASSUME NEW s, Fits(s), NoEnd(s), s.queue # << >>, NEW shown \in Seq(Nat), NEW u \in Nat,
           QueueRight(s, shown, u), ShownRight(shown, s.dropped, u)
    PROVE  /\ QueueRight(Dropping(s), shown, u) /\ NoEnd(Dropping(s))
           /\ ShownRight(shown, Dropping(s).dropped, u)
<1> DEFINE q == s.queue
           r == Tail(q)
           d == s.dropped \cup {q[1]}
<1>1. /\ Len(q) \in Nat /\ Len(q) > 0 /\ Len(r) = Len(q) - 1
      /\ \A i \in 1..Len(r): r[i] = q[i + 1]
      /\ \A i \in 1..Len(q): q[i] \in Nat /\ q[i] # End
  BY QueueOps DEF Fits, StreamSet, NoEnd
<1>2. /\ Dropping(s).open = s.open /\ Dropping(s).queue = r /\ Dropping(s).dropped = d
  BY DroppingIs
<1>3. /\ \A i \in 1..Len(q): /\ q[i] \in 1..u /\ q[i] \notin s.dropped
                             /\ \A j \in 1..Len(shown): shown[j] < q[i]
      /\ \A i, j \in 1..Len(q): i < j => q[i] < q[j]
      /\ s.dropped \subseteq 1..u
      /\ \A n \in 1..u: \/ n \in s.dropped
                        \/ \E i \in 1..Len(shown): shown[i] = n
                        \/ \E i \in 1..Len(q): q[i] = n
  BY <1>1 DEF QueueRight
<1> HIDE DEF q
<1>4. 1 \in 1..Len(q) /\ \A i \in 1..Len(r): i + 1 \in 1..Len(q) /\ 1 < i + 1
  BY <1>1
<1>5. ASSUME NEW i \in 1..Len(r)
      PROVE  /\ r[i] # End /\ r[i] \in 1..u /\ r[i] \notin d
             /\ \A j \in 1..Len(shown): shown[j] < r[i]
  <2>1. i + 1 \in 1..Len(q) /\ 1 < i + 1 /\ r[i] = q[i + 1] /\ q[1] \in Nat /\ q[i + 1] \in Nat
    BY <1>1, <1>4
  <2>2. q[1] < q[i + 1]
    BY <1>3, <1>4, <2>1
  <2> QED BY <1>1, <1>3, <2>1, <2>2
<1>6. \A i, j \in 1..Len(r): i < j => r[i] < r[j]
  BY <1>1, <1>3, SMTT(30)
<1>7. d \subseteq 1..u
  BY <1>3, <1>4
<1>8. ASSUME NEW n \in 1..u, n \notin d, ~\E i \in 1..Len(shown): shown[i] = n
      PROVE  \E i \in 1..Len(r): r[i] = n
  <2>1. PICK i \in 1..Len(q): q[i] = n
    BY <1>3, <1>8
  <2>2. i # 1
    BY <1>8, <2>1
  <2>3. i - 1 \in 1..Len(r) /\ r[i - 1] = q[(i - 1) + 1] /\ (i - 1) + 1 = i
    BY <1>1, <2>1, <2>2
  <2> QED BY <2>1, <2>3
<1>9. QueueRight(Dropping(s), shown, u)
  <2> HIDE DEF r, d
  <2> QED BY <1>2, <1>5, <1>6, <1>7, <1>8 DEF QueueRight
<1>11. NoEnd(Dropping(s))
  BY <1>2, <1>5 DEF NoEnd
<1>10. ShownRight(shown, d, u)
  <2>1. \A j \in 1..Len(shown): shown[j] \in Nat /\ shown[j] < q[1] /\ q[1] \in Nat
    BY <1>1, <1>3, <1>4
  <2>2. \A j \in 1..Len(shown): shown[j] # q[1]
    BY <2>1
  <2> QED BY <2>2 DEF ShownRight
<1> QED BY <1>2, <1>9, <1>10, <1>11

\* The next event comes after those before it.
LEMMA AddingIsRight ==
    ASSUME NEW s, Fits(s), NoEnd(s), Len(s.queue) < QueueMax, NEW shown \in Seq(Nat), NEW u \in Nat,
           QueueRight(s, shown, u), ShownRight(shown, s.dropped, u)
    PROVE  /\ QueueRight(Adding(s, u + 1), shown, u + 1) /\ NoEnd(Adding(s, u + 1))
           /\ ShownRight(shown, Adding(s, u + 1).dropped, u + 1)
<1> DEFINE q == s.queue
           r == Append(q, u + 1)
<1>1. /\ Len(q) \in Nat /\ Len(r) = Len(q) + 1
      /\ r[Len(q) + 1] = u + 1 /\ \A i \in 1..Len(q): r[i] = q[i]
      /\ \A i \in 1..Len(q): q[i] \in Nat /\ q[i] # End
  BY QueueOps DEF Fits, StreamSet, NoEnd
<1>2. /\ Adding(s, u + 1).open = s.open /\ Adding(s, u + 1).queue = r
      /\ Adding(s, u + 1).dropped = s.dropped
  <2>1. u + 1 \in Nat
    OBVIOUS
  <2> QED BY <2>1, AddingIs
<1>3. /\ \A i \in 1..Len(q): /\ q[i] \in 1..u /\ q[i] \notin s.dropped
                             /\ \A j \in 1..Len(shown): shown[j] < q[i]
      /\ \A i, j \in 1..Len(q): i < j => q[i] < q[j]
      /\ s.dropped \subseteq 1..u
      /\ \A n \in 1..u: \/ n \in s.dropped
                        \/ \E i \in 1..Len(shown): shown[i] = n
                        \/ \E i \in 1..Len(q): q[i] = n
  BY <1>1 DEF QueueRight
<1>4. \A j \in 1..Len(shown): shown[j] \in 1..u
  BY DEF ShownRight
<1>0. Len(q) \in Nat /\ Len(r) = Len(q) + 1
  BY <1>1
<1> HIDE DEF q, r
<1>5. ASSUME NEW i \in 1..Len(r)
      PROVE  /\ r[i] # End /\ r[i] \in 1..(u + 1) /\ r[i] \notin s.dropped
             /\ \A j \in 1..Len(shown): shown[j] < r[i]
  <2>1. CASE i = Len(q) + 1
    <3>1. r[i] = u + 1 /\ u + 1 # 0
      BY <1>1, <2>1
    <3> QED BY <1>3, <1>4, <3>1 DEF End
  <2>2. CASE i \in 1..Len(q)
    <3>1. r[i] = q[i] /\ q[i] # End /\ q[i] \in 1..u
      BY <1>1, <1>3, <2>2
    <3>2. r[i] \in 1..(u + 1)
      BY <3>1
    <3> QED BY <1>3, <2>2, <3>1, <3>2
  <2> QED BY <1>1, <2>1, <2>2, SMTT(30)
<1>6. ASSUME NEW i \in 1..Len(r), NEW j \in 1..Len(r), i < j PROVE r[i] < r[j]
  <2>1. i \in 1..Len(q) /\ (j \in 1..Len(q) \/ j = Len(q) + 1)
    BY <1>0, <1>6, SMTT(30)
  <2>2. r[i] = q[i] /\ q[i] \in 1..u
    BY <1>1, <1>3, <2>1
  <2> QED BY <1>1, <1>3, <1>6, <2>1, <2>2
<1>7. s.dropped \subseteq 1..(u + 1)
  BY <1>3
<1>8. ASSUME NEW n \in 1..(u + 1)
      PROVE  \/ n \in s.dropped
             \/ \E i \in 1..Len(shown): shown[i] = n
             \/ \E i \in 1..Len(r): r[i] = n
  <2>1. CASE n = u + 1
    <3>1. Len(q) + 1 \in 1..Len(r)
      BY <1>0
    <3> QED BY <1>1, <2>1, <3>1
  <2>2. CASE n # u + 1
    <3>0. n \in 1..u
      BY <2>2
    <3>1. CASE \E i \in 1..Len(q): q[i] = n
      <4>1. PICK i \in 1..Len(q): q[i] = n
        BY <3>1
      <4>2. i \in 1..Len(r) /\ r[i] = n
        BY <1>0, <1>1, <4>1
      <4> QED BY <4>2
    <3> QED BY <1>3, <3>0, <3>1
  <2> QED BY <2>1, <2>2
<1>9. QueueRight(Adding(s, u + 1), shown, u + 1)
  BY <1>2, <1>5, <1>6, <1>7, <1>8 DEF QueueRight
<1>11. NoEnd(Adding(s, u + 1))
  BY <1>2, <1>5 DEF NoEnd
<1>10. ShownRight(shown, s.dropped, u + 1)
  BY DEF ShownRight
<1> QED BY <1>2, <1>9, <1>10, <1>11

\* The end comes after all events.
LEMMA AddingEndIsRight ==
    ASSUME NEW s, Fits(s), NoEnd(s), ~s.open, Len(s.queue) < QueueMax,
           NEW shown \in Seq(Nat), NEW u \in Nat, QueueRight(s, shown, u)
    PROVE  QueueRight(Adding(s, End), shown, u)
<1> DEFINE q == s.queue
           r == Append(q, End)
<1>1. /\ Len(q) \in Nat /\ Len(r) = Len(q) + 1 /\ r[Len(q) + 1] = End
      /\ \A i \in 1..Len(q): r[i] = q[i]
      /\ \A i \in 1..Len(q): q[i] # End
  BY QueueOps DEF Fits, StreamSet, NoEnd, End
<1>2. /\ Adding(s, End).open = s.open /\ Adding(s, End).queue = r
      /\ Adding(s, End).dropped = s.dropped
  BY AddingIs DEF End
<1>3. /\ \A i \in 1..Len(q): /\ q[i] \in 1..u /\ q[i] \notin s.dropped
                             /\ \A j \in 1..Len(shown): shown[j] < q[i]
      /\ \A i, j \in 1..Len(q): i < j => q[i] < q[j]
      /\ s.dropped \subseteq 1..u
      /\ \A n \in 1..u: \/ n \in s.dropped
                        \/ \E i \in 1..Len(shown): shown[i] = n
                        \/ \E i \in 1..Len(q): q[i] = n
  BY <1>1 DEF QueueRight
<1>4. Len(q) \in Nat /\ Len(r) = Len(q) + 1
  BY <1>1
<1> HIDE DEF q, r
<1>5. \A i \in 1..Len(r): r[i] = End <=> i = Len(q) + 1
  BY <1>1, <1>4
<1>6. \A i \in 1..Len(r): r[i] # End => i \in 1..Len(q) /\ r[i] = q[i]
  BY <1>1, <1>4, <1>5
<1>7. ASSUME NEW i \in 1..Len(r), NEW j \in 1..Len(r), i < j, r[j] # End PROVE r[i] < r[j]
  <2>1. j \in 1..Len(q) /\ r[j] = q[j] /\ i \in 1..Len(q) /\ r[i] = q[i]
    BY <1>1, <1>4, <1>6, <1>7
  <2> QED BY <1>3, <1>7, <2>1
<1>8. \A n \in 1..u: \/ n \in s.dropped
                     \/ \E i \in 1..Len(shown): shown[i] = n
                     \/ \E i \in 1..Len(r): r[i] = n
  <2>1. \A i \in 1..Len(q): i \in 1..Len(r) /\ r[i] = q[i]
    BY <1>1, <1>4
  <2> QED BY <1>3, <2>1
<1>9. \A i \in 1..Len(r):
         /\ r[i] = End => ~s.open /\ i = Len(r)
         /\ r[i] # End => /\ r[i] \in 1..u /\ r[i] \notin s.dropped
                          /\ \A j \in 1..Len(shown): shown[j] < r[i]
  BY <1>3, <1>4, <1>5, <1>6
<1> QED BY <1>2, <1>3, <1>7, <1>8, <1>9 DEF QueueRight

LEMMA PutIsRight ==
    ASSUME NEW s, Fits(s), NoEnd(s), NEW shown \in Seq(Nat), NEW u \in Nat,
           QueueRight(s, shown, u), ShownRight(shown, s.dropped, u),
           NEW r, r = Put(s, u + 1)
    PROVE  /\ Fits(r) /\ r.open = s.open /\ r.closedAt = s.closedAt
           /\ NoEnd(r) /\ QueueRight(r, shown, u + 1) /\ ShownRight(shown, r.dropped, u + 1)
<1>0. u + 1 \in Nat
  OBVIOUS
<1>1. CASE Len(s.queue) < QueueMax /\ r = Adding(s, u + 1)
  BY <1>0, <1>1, AddingIs, AddingIsRight
<1>2. CASE s.queue # << >> /\ r = Adding(Dropping(s), u + 1)
  <2> DEFINE d == Dropping(s)
  <2>1. /\ Fits(d) /\ Len(d.queue) < QueueMax /\ d.open = s.open /\ d.closedAt = s.closedAt
        /\ NoEnd(d) /\ QueueRight(d, shown, u) /\ ShownRight(shown, d.dropped, u)
    BY <1>2, DroppingIs, DroppingIsRight
  <2> HIDE DEF d
  <2>2. r = Adding(d, u + 1)
    BY <1>2 DEF d
  <2> QED BY <1>0, <2>1, <2>2, AddingIs, AddingIsRight
<1> QED BY <1>0, <1>1, <1>2, PutIs

\* Nothing is shown of what a closed stream drops for its end.
LEMMA CloseIsRight ==
    ASSUME NEW s, Fits(s), s.open, NEW shown \in Seq(Nat), NEW u \in Nat,
           QueueRight(s, shown, u), ShownRight(shown, s.dropped, u),
           NEW r, r = Close(s)
    PROVE  /\ Fits(r) /\ ~r.open /\ r.closedAt = s.closedAt
           /\ QueueRight(r, shown, u) /\ ShownRight(shown, r.dropped, u)
           /\ s.queue = << >> => r.dropped = s.dropped
<1> DEFINE c == [s EXCEPT !.open = FALSE]
<1>1. r = Put(c, End)
  BY DEF Close
<1>2. /\ Fits(c) /\ c.queue = s.queue /\ c.dropped = s.dropped /\ c.closedAt = s.closedAt /\ ~c.open
  BY DEF Fits, StreamSet
<1> HIDE DEF c
<1>3. NoEnd(c)
  BY <1>2 DEF NoEnd, QueueRight
<1>4. QueueRight(c, shown, u) /\ ShownRight(shown, c.dropped, u)
  BY <1>2 DEF QueueRight
<1>5. End \in Nat
  BY DEF End
<1>6. CASE Len(c.queue) < QueueMax /\ r = Adding(c, End)
  BY <1>2, <1>3, <1>4, <1>5, <1>6, AddingIs, AddingEndIsRight
<1>7. CASE c.queue # << >> /\ r = Adding(Dropping(c), End)
  <2> DEFINE d == Dropping(c)
  <2>1. /\ Fits(d) /\ Len(d.queue) < QueueMax /\ ~d.open /\ d.closedAt = s.closedAt
        /\ NoEnd(d) /\ QueueRight(d, shown, u) /\ ShownRight(shown, d.dropped, u)
    BY <1>2, <1>3, <1>4, <1>7, DroppingIs, DroppingIsRight
  <2> HIDE DEF d
  <2>2. r = Adding(d, End)
    BY <1>7 DEF d
  <2> QED BY <1>2, <1>5, <1>7, <2>1, <2>2, AddingIs, AddingEndIsRight
<1> QED BY <1>1, <1>2, <1>5, <1>6, <1>7, PutIs

LEMMA QueueSame ==
    ASSUME NEW a, NEW b, b.queue = a.queue, b.dropped = a.dropped, a.open, b.open,
           NEW shown, NEW n, QueueRight(a, shown, n)
    PROVE  QueueRight(b, shown, n)
BY DEF QueueRight

LEMMA OnEventIsRight ==
    ASSUME NEW s, Fits(s), s.open, s.closedAt = 0, NEW shown \in Seq(Nat), NEW u \in Nat,
           QueueRight(s, shown, u), ShownRight(shown, s.dropped, u),
           NEW closes \in BOOLEAN, NEW r, r = OnEvent(s, u + 1, closes)
    PROVE  /\ Fits(r)
           /\ closes => ~r.open /\ r.closedAt = u + 1
           /\ ~closes => r.open /\ r.closedAt = 0
           /\ QueueRight(r, shown, u + 1) /\ ShownRight(shown, r.dropped, u + 1)
<1> DEFINE a == Put(s, u + 1)
           b == [a EXCEPT !.closedAt = u + 1]
<1>1. r = IF closes THEN Close(b) ELSE a
  BY DEF OnEvent
<1>2. NoEnd(s) /\ u + 1 \in Nat
  BY DEF NoEnd, QueueRight
<1>3. /\ Fits(a) /\ a.open /\ a.closedAt = 0
      /\ QueueRight(a, shown, u + 1) /\ ShownRight(shown, a.dropped, u + 1)
  <2> HIDE DEF a
  <2>1. a = Put(s, u + 1)
    BY DEF a
  <2> QED BY <1>2, <2>1, PutIsRight
<1> HIDE DEF a
<1>4. /\ Fits(b) /\ b.open /\ b.closedAt = u + 1 /\ b.queue = a.queue /\ b.dropped = a.dropped
  BY <1>2, <1>3 DEF Fits, StreamSet
<1> HIDE DEF b
<1>5. QueueRight(b, shown, u + 1) /\ ShownRight(shown, b.dropped, u + 1)
  <2> HIDE DEF QueueRight, ShownRight
  <2>1. QueueRight(b, shown, u + 1)
    BY <1>3, <1>4, QueueSame
  <2> QED BY <1>3, <1>4, <2>1
<1>6. CASE closes
  <2>1. r = Close(b)
    BY <1>1, <1>6
  <2> QED BY <1>2, <1>4, <1>5, <1>6, <2>1, CloseIsRight
<1>7. CASE ~closes
  BY <1>1, <1>3, <1>7
<1> QED BY <1>6, <1>7

\* The worker takes the event at the head.
LEMMA TakingIsRight ==
    ASSUME NEW s, Fits(s), s.queue # << >>, Head(s.queue) # End,
           NEW shown \in Seq(Nat), NEW u \in Nat,
           QueueRight(s, shown, u), ShownRight(shown, s.dropped, u),
           NEW r, r = [s EXCEPT !.queue = Tail(@)], NEW more, more = Append(shown, Head(s.queue))
    PROVE  /\ Fits(r) /\ more \in Seq(Nat) /\ r.open = s.open /\ r.closedAt = s.closedAt
           /\ QueueRight(r, more, u) /\ ShownRight(more, r.dropped, u)
<1> DEFINE q == s.queue
           p == Tail(q)
           h == q[1]
<1>1. /\ p \in Seq(Nat) /\ Head(q) = h /\ h \in Nat /\ s.dropped \in SUBSET Nat
  BY QueueOps DEF Fits, StreamSet
<1>2. /\ Len(q) \in Nat /\ Len(q) > 0 /\ Len(p) = Len(q) - 1
      /\ \A i \in 1..Len(p): p[i] = q[i + 1]
      /\ \A i \in 1..Len(q): q[i] \in Nat
  BY QueueOps DEF Fits, StreamSet
<1>3. /\ r \in StreamSet /\ r.queue = p /\ r.open = s.open /\ r.closedAt = s.closedAt
      /\ r.dropped = s.dropped
  BY <1>1 DEF Fits, StreamSet
<1>4. Fits(r)
  BY <1>2, <1>3, SessionAssumption DEF Fits, SessionAssumption
<1>5. /\ more \in Seq(Nat) /\ Len(shown) \in Nat /\ Len(more) = Len(shown) + 1
      /\ more[Len(shown) + 1] = h /\ \A i \in 1..Len(shown): more[i] = shown[i] /\ shown[i] \in Nat
  BY <1>1, QueueOps
<1>6. /\ h # End /\ 1 \in 1..Len(q) /\ q[1] = h
      /\ \A i \in 1..Len(p): i + 1 \in 1..Len(q) /\ 1 < i + 1 /\ p[i] = q[i + 1]
  BY <1>1, <1>2, SMTT(30)
<1>7. /\ \A i \in 1..Len(q): q[i] = End => ~s.open /\ i = Len(q)
      /\ \A i \in 1..Len(q): q[i] # End => /\ q[i] \in 1..u /\ q[i] \notin s.dropped
                                           /\ \A j \in 1..Len(shown): shown[j] < q[i]
      /\ \A i, j \in 1..Len(q): i < j /\ q[j] # End => q[i] < q[j]
      /\ s.dropped \subseteq 1..u
      /\ \A n \in 1..u: \/ n \in s.dropped
                        \/ \E i \in 1..Len(shown): shown[i] = n
                        \/ \E i \in 1..Len(q): q[i] = n
  BY DEF QueueRight
<1>8. Len(q) \in Nat /\ Len(q) > 0 /\ Len(p) = Len(q) - 1
      /\ Len(shown) \in Nat /\ Len(more) = Len(shown) + 1
  BY <1>2, <1>5
<1>9. /\ h \in 1..u /\ h \notin s.dropped /\ \A j \in 1..Len(shown): shown[j] < h
  BY <1>6, <1>7
<1>10. \A j \in 1..Len(more): more[j] = h \/ (j \in 1..Len(shown) /\ more[j] = shown[j])
  BY <1>5, <1>8
<1> HIDE DEF q, p, h
<1>11. ASSUME NEW i \in 1..Len(p)
       PROVE  /\ p[i] = End => ~s.open /\ i = Len(p)
              /\ p[i] # End => /\ p[i] \in 1..u /\ p[i] \notin s.dropped
                               /\ \A j \in 1..Len(more): more[j] < p[i]
  <2>1. i + 1 \in 1..Len(q) /\ 1 < i + 1 /\ p[i] = q[i + 1]
    BY <1>6
  <2>2. p[i] = End => ~s.open /\ i = Len(p)
    <3>1. p[i] = End => ~s.open /\ i + 1 = Len(q)
      BY <1>7, <2>1
    <3> QED BY <1>8, <3>1
  <2>3. p[i] # End => p[i] \in 1..u /\ p[i] \notin s.dropped
    BY <1>7, <2>1
  <2>4. p[i] # End => h < p[i]
    BY <1>6, <1>7, <2>1
  <2>5. p[i] # End => \A j \in 1..Len(shown): shown[j] < p[i]
    BY <1>7, <2>1
  <2> QED BY <1>10, <2>2, <2>3, <2>4, <2>5
<1>12. ASSUME NEW i \in 1..Len(p), NEW j \in 1..Len(p), i < j, p[j] # End PROVE p[i] < p[j]
  <2>1. /\ i + 1 < j + 1 /\ i + 1 \in 1..Len(q) /\ j + 1 \in 1..Len(q)
        /\ p[i] = q[i + 1] /\ p[j] = q[j + 1]
    BY <1>6, <1>12
  <2>2. q[i + 1] < q[j + 1]
    BY <1>7, <1>12, <2>1
  <2> QED BY <2>1, <2>2
<1>13. ASSUME NEW n \in 1..u, n \notin s.dropped, ~\E i \in 1..Len(more): more[i] = n
       PROVE  \E i \in 1..Len(p): p[i] = n
  <2>1. n # h /\ ~\E i \in 1..Len(shown): shown[i] = n
    <3>1. Len(shown) + 1 \in 1..Len(more) /\ \A i \in 1..Len(shown): i \in 1..Len(more)
      BY <1>8
    <3> QED BY <1>5, <1>13, <3>1
  <2>2. PICK i \in 1..Len(q): q[i] = n
    BY <1>7, <1>13, <2>1
  <2>3. i # 1
    BY <1>6, <2>1, <2>2
  <2>4. i - 1 \in 1..Len(p) /\ (i - 1) + 1 = i
    BY <1>8, <2>3
  <2> QED BY <1>6, <2>2, <2>4
<1>14. QueueRight(r, more, u)
  BY <1>3, <1>7, <1>11, <1>12, <1>13 DEF QueueRight
<1>15. ASSUME NEW i \in 1..Len(more)
       PROVE  /\ i > 1 => more[i - 1] < more[i]
              /\ more[i] \in 1..u /\ more[i] \notin s.dropped
  <2>1. CASE i = Len(shown) + 1
    <3>1. more[i] = h
      BY <1>5, <2>1
    <3>2. i > 1 => i - 1 \in 1..Len(shown) /\ more[i - 1] = shown[i - 1]
      BY <1>5, <1>8, <2>1
    <3> QED BY <1>9, <3>1, <3>2
  <2>2. CASE i \in 1..Len(shown)
    <3>1. more[i] = shown[i] /\ (i > 1 => i - 1 \in 1..Len(shown) /\ more[i - 1] = shown[i - 1])
      BY <1>5, <1>8, <2>2
    <3> QED BY <2>2, <3>1 DEF ShownRight
  <2> QED BY <1>8, <2>1, <2>2
<1>16. ShownRight(more, r.dropped, u)
  BY <1>3, <1>15 DEF ShownRight
<1> QED BY <1>3, <1>4, <1>5, <1>14, <1>16

\* Nothing is left after the end.
LEMMA EndingIsRight ==
    ASSUME NEW s, Fits(s), s.queue # << >>, Head(s.queue) = End,
           NEW shown \in Seq(Nat), NEW u \in Nat, QueueRight(s, shown, u),
           NEW r, r = [s EXCEPT !.queue = Tail(@)]
    PROVE  /\ Fits(r) /\ r.queue = << >> /\ ~s.open /\ ~r.open /\ r.closedAt = s.closedAt
           /\ r.dropped = s.dropped /\ QueueRight(r, shown, u)
<1> DEFINE q == s.queue
           p == Tail(q)
<1>1. q \in Seq(Nat) /\ p \in Seq(Nat) /\ q[1] = End
  BY QueueOps DEF Fits, StreamSet
<1>2. Len(q) \in Nat /\ Len(q) > 0 /\ Len(p) = Len(q) - 1
  BY QueueOps DEF Fits, StreamSet
<1>3. /\ r \in StreamSet /\ r.queue = p /\ r.open = s.open /\ r.closedAt = s.closedAt
      /\ r.dropped = s.dropped
  BY <1>1 DEF Fits, StreamSet
<1>4. ~s.open /\ Len(q) = 1
  <2>1. 1 \in 1..Len(q)
    BY <1>2
  <2> QED BY <1>1, <2>1 DEF QueueRight
<1>5. p = << >>
  <2>1. Len(p) = 0
    BY <1>2, <1>4
  <2>2. \A x \in Seq(Nat): Len(x) = 0 => x = << >>
    OBVIOUS
  <2>3. p \in Seq(Nat)
    BY <1>1
  <2> HIDE DEF p
  <2> QED BY <2>1, <2>2, <2>3
<1>6. /\ s.dropped \subseteq 1..u
      /\ \A n \in 1..u: n \in s.dropped \/ \E i \in 1..Len(shown): shown[i] = n
  <2>1. \A i \in 1..Len(q): q[i] = 0
    BY <1>1, <1>2, <1>4 DEF End
  <2>2. \A n \in 1..u: n # 0
    OBVIOUS
  <2> QED BY <2>1, <2>2 DEF QueueRight
<1>7. Fits(r)
  <2>1. Len(r.queue) = 0
    BY <1>2, <1>3, <1>4
  <2> QED BY <1>3, <2>1, SessionAssumption DEF Fits, SessionAssumption
<1>8. QueueRight(r, shown, u)
  <2>1. 1..Len(r.queue) = {}
    BY <1>3, <1>5
  <2> QED BY <1>3, <1>6, <2>1 DEF QueueRight
<1> QED BY <1>3, <1>4, <1>5, <1>7, <1>8

\* When the queue is empty everything was shown or dropped.
LEMMA EmptyIsComplete ==
    ASSUME NEW s, s.queue = << >>, NEW shown \in Seq(Nat), NEW u \in Nat,
           QueueRight(s, shown, u), ShownRight(shown, s.dropped, u)
    PROVE  Complete(shown, s.dropped, u)
<1>1. 1..Len(s.queue) = {}
  OBVIOUS
<1>2. \A n \in 1..u: n \in s.dropped \/ \E i \in 1..Len(shown): shown[i] = n
  BY <1>1 DEF QueueRight
<1>3. s.dropped \subseteq 1..u /\ \A i \in 1..Len(shown): shown[i] \in 1..u
  BY DEF QueueRight, ShownRight
<1> QED BY <1>2, <1>3 DEF Complete

-----------------------------------------------------------------------------
(***************************************************************************)
(* What a step leaves alone.                                               *)
(***************************************************************************)
LEMMA SessionBasics ==
    ASSUME SessionInv, NEW t \in Turns
    PROVE  /\ turn[t] \in TurnSet /\ Fits(stream[t]) /\ stream[t].queue \in Seq(Nat)
           /\ turn[t].shown \in Seq(Nat) /\ turn[t].sent \in Nat
           /\ UpTo(stream[t], turn[t].sent) \in Nat
           /\ turn[t].run \in RunStages => Going(t)
           /\ turn[t].run = "done" => Going(t) \/ turn[t].pc = "over"
           /\ Listening(t) => Going(t)
           /\ Going(t) => /\ turn[t].ctl = using /\ using \in 1..Len(controller) /\ busy
                          /\ Len(controller) \in Nat
                          /\ controller[using] \in ControllerSet
           /\ StageBook(t) /\ EventBook(t)
<1>1. /\ turn[t] \in TurnSet /\ stream[t] \in StreamSet /\ Len(stream[t].queue) <= QueueMax
      /\ StageBook(t) /\ EventBook(t)
  BY DEF SessionInv, Types
<1>2. /\ turn[t].shown \in Seq(Nat) /\ turn[t].sent \in Nat /\ stream[t].queue \in Seq(Nat)
      /\ stream[t].closedAt \in Nat
  BY <1>1 DEF TurnSet, StreamSet
<1>3. UpTo(stream[t], turn[t].sent) \in Nat
  BY <1>2 DEF UpTo
<1>4. turn[t].run \in RunStages => Going(t)
  BY <1>1 DEF StageBook, RunStages, TurnSet, Going, Streaming
<1>5. turn[t].run = "done" => Going(t) \/ turn[t].pc = "over"
  BY <1>1 DEF StageBook, TurnSet, Going, Streaming
<1>6. Listening(t) => Going(t)
  BY DEF Listening, Going, Streaming
<1>7. Going(t) => turn[t].ctl = using /\ busy
  BY DEF SessionInv, OneGoes
<1>8. using \in 1..Len(controller) /\ Len(controller) \in Nat /\ controller[using] \in ControllerSet
  BY SessionAssumption DEF SessionInv, Types, SessionAssumption
<1> QED BY <1>1, <1>2, <1>3, <1>4, <1>5, <1>6, <1>7, <1>8 DEF Fits

LEMMA PlacesKept ==
    ASSUME OneGoes, using' = using \/ ~busy, busy' = busy,
           \A u \in Turns: /\ Going(u)' <=> Going(u)
                           /\ Going(u) => turn'[u].ctl = turn[u].ctl
                           /\ turn'[u].pc = "scheduled" => turn[u].pc = "scheduled"
    PROVE  OneGoes'
BY DEF OneGoes

LEMMA ChatKept ==
    ASSUME ChatBook, chat' = chat,
           \A u \in Turns: /\ Going(u)' \/ turn'[u].pc = "scheduled"
                              => Going(u) \/ turn[u].pc = "scheduled"
                           /\ turn[u].pc = "over" => turn'[u].pc = "over" /\ turn'[u].result = turn[u].result
    PROVE  ChatBook'
<1>1. \A t \in Turns: Going(t)' \/ turn'[t].pc = "scheduled" =>
          Len(chat') > 0 /\ chat'[Len(chat')] = Said(t, "user")
  BY DEF ChatBook
<1>2. \A i \in 1..Len(chat'): chat'[i].what # "user" =>
          /\ chat'[i].turn \in Turns /\ turn'[chat'[i].turn].pc = "over"
          /\ chat'[i] = turn'[chat'[i].turn].result
          /\ i > 1 /\ chat'[i - 1] = Said(chat'[i].turn, "user")
  BY DEF ChatBook
<1> QED BY <1>1, <1>2 DEF ChatBook, Said

\* A session that is asked, and one that is answered.
LEMMA SaysTruly ==
    ASSUME NEW t \in Turns, NEW what \in Outcomes \cup {"none", "user"}
    PROVE  Said(t, what) \in Message /\ Said(t, what).turn = t /\ Said(t, what).what = what
BY SessionAssumption DEF Said, Message, Turns, SessionAssumption

LEMMA AppendIs ==
    ASSUME NEW s \in Seq(Message), NEW r \in Message
    PROVE  /\ Append(s, r) \in Seq(Message) /\ Len(Append(s, r)) = Len(s) + 1 /\ Len(s) \in Nat
           /\ Append(s, r)[Len(s) + 1] = r /\ \A i \in 1..Len(s): Append(s, r)[i] = s[i]
OBVIOUS

LEMMA PairedKept ==
    ASSUME NEW s \in Seq(Message), NEW x, NEW y, Paired(s, x),
           \A u \in Turns: x[u].run = "done" => y[u].run = "done" /\ y[u].result = x[u].result
    PROVE  Paired(s, y) /\ (Settled(s, x) => Settled(s, y))
<1>1. \A u \in Turns: SilentlyDone(u, x) => SilentlyDone(u, y)
  BY DEF SilentlyDone
<1>2. Paired(s, y)
  BY <1>1 DEF Paired
<1>3. Settled(s, x) => Settled(s, y)
  <2>1. Len(s) > 0 => Len(s) \in 1..Len(s)
    OBVIOUS
  <2> QED BY <1>1, <2>1 DEF Settled, Paired
<1> QED BY <1>2, <1>3

LEMMA SessionsKept ==
    ASSUME SessionInv, Len(controller') \in Nat, Len(controller) <= Len(controller'),
           \A k \in 1..Len(controller): controller'[k].session = controller[k].session,
           \A k \in 1..Len(controller'): k \notin 1..Len(controller) => controller'[k].session = << >>,
           \A u \in Turns: /\ InGraph(u)' <=> InGraph(u)
                           /\ InGraph(u) => turn'[u].ctl = turn[u].ctl
                           /\ turn[u].run = "done" =>
                                 turn'[u].run = "done" /\ turn'[u].result = turn[u].result
    PROVE  SessionBook'
<1>0. Len(controller) \in Nat
  BY SessionAssumption DEF SessionInv, Types, SessionAssumption
<1>1. ASSUME NEW k \in 1..Len(controller')
      PROVE  SessionOf(controller'[k].session, k, turn')
  <2>1. CASE k \in 1..Len(controller)
    <3> DEFINE s == controller[k].session
    <3>1. s = controller'[k].session
      BY <2>1
    <3>b. s \in Seq(Message)
      <4>1. controller[k] \in ControllerSet
        BY <2>1 DEF SessionInv, Types
      <4> QED BY <4>1 DEF ControllerSet
    <3>2. SessionOf(s, k, turn)
      BY <2>1 DEF SessionInv, SessionBook
    <3> HIDE DEF s
    <3>a. \A u \in Turns: turn[u].run = "done" =>
             turn'[u].run = "done" /\ turn'[u].result = turn[u].result
      OBVIOUS
    <3>3. Paired(s, turn') /\ (Settled(s, turn) => Settled(s, turn'))
      BY <3>a, <3>b, <3>2, PairedKept DEF SessionOf
    <3>4. SessionOf(s, k, turn')
      BY <3>2, <3>3 DEF SessionOf, InGraph
    <3> QED BY <3>1, <3>4
  <2>2. CASE k \notin 1..Len(controller)
    <3>1. controller'[k].session = << >>
      BY <2>2
    <3>2. Len(<< >>) = 0 /\ ~(0 > 0) /\ 1..0 = {}
      OBVIOUS
    <3>3. SessionOf(<< >>, k, turn')
      BY <3>2 DEF SessionOf, Paired, Settled
    <3> QED BY <3>1, <3>3
  <2> QED BY <2>1, <2>2
<1>2. ASSUME NEW t \in Turns, InGraph(t)'
      PROVE  AsksLast(controller'[turn'[t].ctl].session, t)
  <2>1. InGraph(t) /\ turn'[t].ctl = turn[t].ctl /\ turn[t].ctl \in 1..Len(controller)
    BY <1>2, SessionBasics DEF InGraph, RunStages
  <2>2. controller'[turn'[t].ctl].session = controller[turn[t].ctl].session
    BY <2>1
  <2> QED BY <2>1, <2>2 DEF SessionInv, SessionBook
<1> QED BY <1>1, <1>2 DEF SessionBook

\* A turn that is left alone.
LEMMA TurnKept ==
    ASSUME NEW u \in Turns, StageBook(u), EventBook(u),
           turn'[u] = turn[u], stream'[u] = stream[u],
           turn[u].pc = "over" => (Told(u)' <=> Told(u)), quitting => quitting'
    PROVE  StageBook(u)' /\ EventBook(u)'
<1>1. StageBook(u)'
  BY DEF StageBook, Listening
<1>2. EventBook(u)'
  BY DEF EventBook, Listening
<1> QED BY <1>1, <1>2

\* A step within a turn that goes on.
LEMMA StepOf ==
    ASSUME SessionInv, NEW t \in Turns, Going(t), Types', UNCHANGED <<busy, chat, quitting>>,
           \A u \in Turns \ {t}: turn'[u] = turn[u] /\ stream'[u] = stream[u],
           turn'[t].pc \in Streaming, turn'[t].ctl = turn[t].ctl, using' = using,
           turn'[t].pc = "grace" => controller'[turn'[t].ctl].last = turn'[t].result,
           SessionBook', StageBook(t)', EventBook(t)'
    PROVE  SessionInv'
<1>0. OneGoes /\ ChatBook /\ LastBook
  BY DEF SessionInv
<1>1. turn[t].pc \notin {"scheduled", "over"} /\ turn'[t].pc \notin {"scheduled", "over"}
  BY DEF Going, Streaming
<1>2. \A u \in Turns: /\ Going(u)' <=> Going(u)
                      /\ Going(u) => turn'[u].ctl = turn[u].ctl
                      /\ turn'[u].pc = "scheduled" => turn[u].pc = "scheduled"
                      /\ turn[u].pc = "over" => turn'[u].pc = "over" /\ turn'[u].result = turn[u].result
  BY <1>1 DEF Going
<1>3. OneGoes'
  BY <1>0, <1>2, PlacesKept
<1>4. ChatBook'
  BY <1>0, <1>2, ChatKept
<1>5. LastBook'
  <2>1. \A u \in Turns \ {t}: turn'[u].pc # "grace"
    BY <1>0 DEF OneGoes, Going, Streaming
  <2> QED BY <2>1 DEF LastBook
<1>6. ASSUME NEW u \in Turns PROVE StageBook(u)' /\ EventBook(u)'
  <2>1. CASE u # t
    BY <2>1, TurnKept DEF SessionInv, Told
  <2> QED BY <2>1
<1> QED BY <1>3, <1>4, <1>5, <1>6 DEF SessionInv

\* The types of a step that changes one turn.
LEMMA TypesOf ==
    ASSUME SessionInv, NEW t \in Turns,
           turn' \in [Turns -> TurnSet], turn'[t].result.what # "user",
           stream' \in [Turns -> StreamSet], Len(stream'[t].queue) <= QueueMax,
           \A u \in Turns \ {t}: turn'[u] = turn[u] /\ stream'[u] = stream[u],
           controller' \in Seq(ControllerSet), Len(controller') = Len(controller),
           \A k \in 1..Len(controller): controller'[k].last.what # "user",
           UNCHANGED <<mode, using, quitting, aborts>>, busy' \in BOOLEAN, chat' \in Seq(Message)
    PROVE  Types'
BY DEF SessionInv, Types

\* One controller is changed.
LEMMA ControllerOf ==
    ASSUME SessionInv, NEW k \in 1..Len(controller), NEW c \in ControllerSet, c.last.what # "user",
           controller' = [controller EXCEPT ![k] = c]
    PROVE  /\ controller' \in Seq(ControllerSet) /\ Len(controller') = Len(controller)
           /\ controller'[k] = c /\ \A j \in 1..Len(controller) \ {k}: controller'[j] = controller[j]
           /\ \A j \in 1..Len(controller): controller'[j].last.what # "user"
<1>1. controller \in Seq(ControllerSet)
  BY DEF SessionInv, Types
<1>2. \A j \in 1..Len(controller): controller[j].last.what # "user"
  BY DEF SessionInv, Types
<1> QED BY <1>1, <1>2

\* What the steps make of a turn.
TurnIs(y, pc, ctl, run, cancel, result, sent, shown) ==
    /\ y \in TurnSet /\ y.pc = pc /\ y.ctl = ctl /\ y.run = run /\ y.cancel = cancel
    /\ y.result = result /\ y.sent = sent /\ y.shown = shown

LEMMA TurnEmits ==
    ASSUME NEW x \in TurnSet, NEW n \in Nat
    PROVE  TurnIs([x EXCEPT !.sent = n], x.pc, x.ctl, x.run, x.cancel, x.result, n, x.shown)
BY DEF TurnIs, TurnSet

LEMMA TurnRuns ==
    ASSUME NEW x \in TurnSet, NEW run \in RunStages \cup {"none", "done"}
    PROVE  TurnIs([x EXCEPT !.run = run], x.pc, x.ctl, run, x.cancel, x.result, x.sent, x.shown)
BY DEF TurnIs, TurnSet

LEMMA TurnGoesTo ==
    ASSUME NEW x \in TurnSet, NEW pc \in Streaming \cup {"unused", "scheduled", "dropped", "over"}
    PROVE  TurnIs([x EXCEPT !.pc = pc], pc, x.ctl, x.run, x.cancel, x.result, x.sent, x.shown)
BY DEF TurnIs, TurnSet

LEMMA TurnRunEnds ==
    ASSUME NEW x \in TurnSet, NEW how \in {"returned", "silent", "raised", "cancelled"}
    PROVE  TurnIs([x EXCEPT !.run = "ended", !.how = how],
                  x.pc, x.ctl, "ended", x.cancel, x.result, x.sent, x.shown)
BY DEF TurnIs, TurnSet, RunStages

LEMMA TurnReturns ==
    ASSUME NEW x \in TurnSet, NEW m \in Message
    PROVE  TurnIs([x EXCEPT !.run = "done", !.result = m],
                  x.pc, x.ctl, "done", x.cancel, m, x.sent, x.shown)
BY DEF TurnIs, TurnSet

LEMMA TurnShows ==
    ASSUME NEW x \in TurnSet, NEW shown \in Seq(Nat)
    PROVE  TurnIs([x EXCEPT !.shown = shown, !.pc = "waiting"],
                  "waiting", x.ctl, x.run, x.cancel, x.result, x.sent, shown)
BY DEF TurnIs, TurnSet, Streaming

LEMMA TurnBegins ==
    ASSUME NEW x \in TurnSet, NEW k \in Nat
    PROVE  TurnIs([x EXCEPT !.pc = "waiting", !.ctl = k, !.run = "created"],
                  "waiting", k, "created", x.cancel, x.result, x.sent, x.shown)
BY DEF TurnIs, TurnSet, Streaming, RunStages

-----------------------------------------------------------------------------
(***************************************************************************)
(* The run.                                                                *)
(***************************************************************************)
LEMMA EmitsKeeps == ASSUME SessionInv, NEW t \in Turns, Emits(t) PROVE SessionInv'
<1>1. PICK closes \in BOOLEAN:
         /\ turn[t].run = "graph" /\ turn[t].sent < MaxEvents
         /\ turn' = [turn EXCEPT ![t].sent = @ + 1]
         /\ stream' = [stream EXCEPT ![t] = OnEvent(@, turn[t].sent + 1, closes)]
         /\ UNCHANGED <<mode, using, busy, chat, controller, quitting, aborts>>
  BY DEF Emits
<1> DEFINE s == stream[t]
           n == turn[t].sent
           shown == turn[t].shown
           r == OnEvent(s, n + 1, closes)
<1>2. /\ Going(t) /\ Fits(s) /\ shown \in Seq(Nat) /\ n \in Nat /\ StageBook(t) /\ EventBook(t)
      /\ turn \in [Turns -> TurnSet] /\ stream \in [Turns -> StreamSet]
  BY <1>1, SessionBasics DEF RunStages, SessionInv, Types
<1>3. turn[t].pc \in {"waiting", "joining", "closing"}
  BY <1>1, <1>2 DEF StageBook, Going, Streaming
<1>4. /\ turn' \in [Turns -> TurnSet]
      /\ \A u \in Turns \ {t}: turn'[u] = turn[u]
      /\ turn'[t].pc = turn[t].pc /\ turn'[t].ctl = turn[t].ctl /\ turn'[t].run = "graph"
      /\ turn'[t].cancel = turn[t].cancel /\ turn'[t].result = turn[t].result
      /\ turn'[t].sent = n + 1 /\ turn'[t].shown = shown
  <2> DEFINE x == turn[t]
             y == [x EXCEPT !.sent = n + 1]
  <2>1. turn' = [turn EXCEPT ![t] = y]
    BY <1>1
  <2>2. TurnIs(y, x.pc, x.ctl, x.run, x.cancel, x.result, n + 1, x.shown)
    <3>1. x \in TurnSet /\ n + 1 \in Nat
      BY <1>2
    <3> HIDE DEF x, n
    <3> QED BY <3>1, TurnEmits
  <2> HIDE DEF y
  <2> QED BY <1>1, <1>2, <2>1, <2>2 DEF TurnIs
<1>5. /\ \A u \in Turns \ {t}: stream'[u] = stream[u]
      /\ stream'[t] = r
  BY <1>1, <1>2
<1>6. ASSUME s.open PROVE Fits(r) /\ StageBook(t)' /\ EventBook(t)'
  <2>1. Listening(t) /\ s.closedAt = 0 /\ UpTo(s, n) = n
    BY <1>2, <1>6 DEF StageBook, Listening, UpTo
  <2>2. QueueRight(s, shown, n) /\ ShownRight(shown, s.dropped, n)
    BY <1>2, <2>1 DEF EventBook
  <2> HIDE DEF s, r
  <2>3. /\ Fits(r)
        /\ closes => ~r.open /\ r.closedAt = n + 1
        /\ ~closes => r.open /\ r.closedAt = 0
        /\ QueueRight(r, shown, n + 1) /\ ShownRight(shown, r.dropped, n + 1)
    <3>1. r = OnEvent(s, n + 1, closes)
      BY DEF r, s
    <3> QED BY <1>2, <1>6, <2>1, <2>2, <3>1, OnEventIsRight
  <2>4. UpTo(r, n + 1) = n + 1 /\ n + 1 # 0
    BY <1>2, <2>3 DEF UpTo
  <2>5. EventBook(t)'
    <3>1. ShownRight(shown, r.dropped, UpTo(r, n + 1)) /\ QueueRight(r, shown, UpTo(r, n + 1))
      BY <2>3, <2>4
    <3>2. turn'[t].pc # "over" /\ turn'[t].pc # "closing"
      <4>1. turn[t].pc # "closing"
        BY <1>2, <1>6 DEF StageBook, s
      <4> QED BY <1>3, <1>4, <4>1
    <3> QED BY <1>4, <1>5, <3>1, <3>2 DEF EventBook
  <2>6. StageBook(t)'
    <3>1. turn[t].pc = "waiting" /\ ~turn[t].cancel
      BY <1>2, <1>3, <1>6 DEF StageBook, s
    <3>2. stream'[t] = r
      BY <1>5
    <3>3. r.open \/ r.closedAt # 0
      BY <2>3, <2>4
    <3>4. r.open => r.closedAt = 0
      BY <2>3
    <3> QED BY <1>4, <3>1, <3>2, <3>3, <3>4 DEF StageBook, Listening
  <2> QED BY <2>3, <2>5, <2>6
<1>7. ASSUME ~s.open PROVE Fits(r) /\ StageBook(t)' /\ EventBook(t)'
  <2>1. r = s
    BY <1>7 DEF OnEvent
  <2>2. StageBook(t)'
    <3>1. stream'[t] = s /\ ~s.open
      BY <1>5, <1>7, <2>1
    <3>2. /\ Listening(t) => s.closedAt # 0
          /\ turn[t].cancel => turn[t].pc \in {"closing", "joining", "over"}
          /\ turn[t].pc = "joining" => s.queue = << >>
      BY <1>2, <1>7 DEF StageBook
    <3> HIDE DEF s, r
    <3> QED BY <1>1, <1>3, <1>4, <3>1, <3>2 DEF StageBook, Listening
  <2>3. EventBook(t)'
    <3>1. UpTo(s, n) \in Nat /\ UpTo(s, n + 1) \in Nat /\ UpTo(s, n) <= UpTo(s, n + 1)
          /\ (Listening(t) => UpTo(s, n) = UpTo(s, n + 1))
      BY <1>2, <1>7 DEF UpTo, Fits, StreamSet, StageBook
    <3>2. ShownRight(shown, s.dropped, UpTo(s, n)) /\ (Listening(t) => QueueRight(s, shown, UpTo(s, n)))
      BY <1>2 DEF EventBook
    <3>3. ShownRight(shown, s.dropped, UpTo(s, n + 1))
      BY <3>1, <3>2 DEF ShownRight
    <3>4. Listening(t) => QueueRight(s, shown, UpTo(s, n + 1))
      BY <3>1, <3>2
    <3>5. turn'[t].pc # "over" /\ (Listening(t)' => Listening(t))
      BY <1>3, <1>4 DEF Listening
    <3>6. turn'[t].pc = "closing" => quitting'
      BY <1>1, <1>2, <1>4 DEF EventBook
    <3> QED BY <1>4, <1>5, <2>1, <3>3, <3>4, <3>5, <3>6 DEF EventBook
  <2> QED BY <1>2, <2>1, <2>2, <2>3
<1>8. Fits(r) /\ StageBook(t)' /\ EventBook(t)'
  BY <1>6, <1>7
<1> HIDE DEF r
<1>9. Types'
  <2>1. stream' \in [Turns -> StreamSet]
    BY <1>1, <1>2, <1>8 DEF Fits, r
  <2>2. turn'[t].result.what # "user"
    BY <1>4 DEF SessionInv, Types
  <2>3. controller \in Seq(ControllerSet) /\ busy \in BOOLEAN /\ chat \in Seq(Message)
        /\ \A k \in 1..Len(controller): controller[k].last.what # "user"
    BY DEF SessionInv, Types
  <2> QED BY <1>1, <1>4, <1>5, <1>8, <2>1, <2>2, <2>3, TypesOf DEF Fits
<1>10. SessionBook'
  <2>1. \A u \in Turns: /\ InGraph(u)' <=> InGraph(u)
                        /\ InGraph(u) => turn'[u].ctl = turn[u].ctl
                        /\ turn[u].run = "done" => turn'[u].run = "done" /\ turn'[u].result = turn[u].result
    BY <1>1, <1>4 DEF InGraph
  <2>2. Len(controller) \in Nat
    BY DEF SessionInv, Types
  <2> QED BY <1>1, <2>1, <2>2, SessionsKept
<1>11. turn'[t].pc \in Streaming /\ turn'[t].pc # "grace"
  BY <1>3, <1>4 DEF Streaming
<1> QED BY <1>1, <1>2, <1>4, <1>5, <1>8, <1>9, <1>10, <1>11, StepOf
\* A message more: an input, if nothing waits for an outcome, or the outcome of the last input.
LEMMA AddedIsPaired ==
    ASSUME NEW s \in Seq(Message), NEW x, Paired(s, x), NEW a \in Seq(Message), NEW m,
           Len(a) = Len(s) + 1, a[Len(s) + 1] = m, \A i \in 1..Len(s): a[i] = s[i],
           m.turn \in Turns,
           m.what # "user" => /\ Len(s) > 0 /\ s[Len(s)] = Said(m.turn, "user")
                              /\ m = x[m.turn].result /\ x[m.turn].run = "done",
           m.what = "user" /\ Len(s) > 0 /\ s[Len(s)].what = "user"
             => SilentlyDone(s[Len(s)].turn, x)
    PROVE  Paired(a, x)
<1>1. Len(s) \in Nat
  OBVIOUS
<1>2. ASSUME NEW i \in 1..Len(a)
      PROVE  /\ a[i].turn \in Turns
             /\ a[i].what # "user" => /\ i > 1 /\ a[i - 1] = Said(a[i].turn, "user")
                                      /\ a[i] = x[a[i].turn].result /\ x[a[i].turn].run = "done"
             /\ a[i].what = "user" /\ i < Len(a) /\ a[i + 1].what = "user"
                  => SilentlyDone(a[i].turn, x)
  <2>1. CASE i = Len(s) + 1
    <3>1. a[i] = m /\ ~(i < Len(a)) /\ i - 1 = Len(s)
      BY <1>1, <2>1
    <3>2. Len(s) > 0 => i > 1 /\ a[i - 1] = s[Len(s)]
      BY <1>1, <2>1
    <3> QED BY <3>1, <3>2
  <2>2. CASE i \in 1..Len(s)
    <3>1. a[i] = s[i] /\ (i > 1 => a[i - 1] = s[i - 1]) /\ (i < Len(s) => a[i + 1] = s[i + 1])
      BY <1>1, <2>2
    <3>2. i < Len(s) \/ (i = Len(s) /\ a[i + 1] = m /\ Len(s) > 0)
      BY <1>1, <2>2
    <3> QED BY <2>2, <3>1, <3>2 DEF Paired
  <2> QED BY <1>1, <1>2, <2>1, <2>2
<1> QED BY <1>2 DEF Paired

\* An input whose run had nothing to tell is settled.
LEMMA SilenceSettles ==
    ASSUME NEW s, NEW x, NEW t \in Turns, AsksLast(s, t), SilentlyDone(t, x)
    PROVE  Settled(s, x)
BY SaysTruly DEF AsksLast, Settled

LEMMA AskedIsPaired ==
    ASSUME NEW s \in Seq(Message), NEW x, Paired(s, x), Settled(s, x), NEW t \in Turns
    PROVE  /\ Paired(Append(s, Said(t, "user")), x) /\ AsksLast(Append(s, Said(t, "user")), t)
           /\ Append(s, Said(t, "user")) \in Seq(Message)
<1> DEFINE m == Said(t, "user")
           a == Append(s, m)
<1>0. m \in Message /\ m.what = "user" /\ m.turn \in Turns
  BY SaysTruly
<1>1. /\ a \in Seq(Message) /\ Len(a) = Len(s) + 1 /\ Len(s) \in Nat
      /\ a[Len(s) + 1] = m /\ \A i \in 1..Len(s): a[i] = s[i]
  BY <1>0, AppendIs
<1>2. Len(a) = Len(s) + 1 /\ Len(s) \in Nat
  BY <1>1
<1>3. a[Len(a)] = m
  BY <1>1
<1>4. AsksLast(a, t)
  BY <1>2, <1>3 DEF AsksLast
<1> HIDE DEF a, m
<1>6. Paired(a, x)
  BY <1>0, <1>1, AddedIsPaired DEF Settled
<1> QED BY <1>1, <1>4, <1>6 DEF a, m

LEMMA AnsweredIsPaired ==
    ASSUME NEW s \in Seq(Message), NEW x, Paired(s, x), NEW t \in Turns, AsksLast(s, t),
           NEW m \in Message, m.turn = t, x[t].result = m, x[t].run = "done",
           m.what # "user"
    PROVE  /\ Paired(Append(s, m), x) /\ Settled(Append(s, m), x)
           /\ Append(s, m) \in Seq(Message)
<1> DEFINE a == Append(s, m)
<1>1. /\ a \in Seq(Message) /\ Len(a) = Len(s) + 1 /\ Len(s) \in Nat
      /\ a[Len(s) + 1] = m /\ \A i \in 1..Len(s): a[i] = s[i]
  BY AppendIs
<1>2. Len(s) > 0 /\ s[Len(s)] = Said(t, "user")
  BY DEF AsksLast
<1> HIDE DEF a
<1>6. Paired(a, x)
  BY <1>1, <1>2, AddedIsPaired
<1>7. Settled(a, x)
  BY <1>1 DEF Settled
<1> QED BY <1>1, <1>6, <1>7 DEF a

\* The run of a turn writes to the session of its controller.
LEMMA SessionWritten ==
    ASSUME SessionInv, NEW t \in Turns, turn[t].run \in RunStages, NEW c,
           controller' = [controller EXCEPT ![turn[t].ctl] = c],
           \A u \in Turns \ {t}: turn'[u] = turn[u],
           turn'[t].ctl = turn[t].ctl,
           SessionOf(c.session, turn[t].ctl, turn'), InGraph(t)' => AsksLast(c.session, t)
    PROVE  SessionBook'
<1>1. turn[t].ctl \in 1..Len(controller) /\ Going(t) /\ controller \in Seq(ControllerSet)
  BY SessionBasics DEF SessionInv, Types
<1>2. /\ Len(controller') = Len(controller) /\ controller'[turn[t].ctl] = c
      /\ \A k \in 1..Len(controller): k # turn[t].ctl => controller'[k] = controller[k]
  BY <1>1
<1>3. \A u \in Turns \ {t}: ~InGraph(u) /\ ~InGraph(u)'
  BY <1>1, SessionBasics DEF SessionInv, OneGoes, InGraph, RunStages
<1>4. ASSUME NEW k \in 1..Len(controller), k # turn[t].ctl
      PROVE  SessionOf(controller[k].session, k, turn')
  <2> DEFINE s == controller[k].session
  <2>1. SessionOf(s, k, turn)
    BY DEF SessionInv, SessionBook
  <2>a. s \in Seq(Message)
    <3>1. controller[k] \in ControllerSet
      BY <1>1
    <3> QED BY <3>1 DEF ControllerSet
  <2> HIDE DEF s
  <2>2. \A u \in Turns: turn[u].run = "done" => turn'[u] = turn[u]
    BY DEF RunStages
  <2>b. Settled(s, turn)
    BY <1>3, <1>4, <2>1 DEF SessionOf, InGraph
  <2>3. Paired(s, turn')
    BY <2>1, <2>2, <2>a, PairedKept DEF SessionOf
  <2>4. Settled(s, turn')
    BY <2>1, <2>2, <2>a, <2>b, PairedKept DEF SessionOf
  <2>5. SessionOf(s, k, turn')
    BY <2>3, <2>4 DEF SessionOf
  <2> QED BY <2>5 DEF s
<1>5. \A k \in 1..Len(controller'): SessionOf(controller'[k].session, k, turn')
  BY <1>2, <1>4
<1>6. \A u \in Turns: InGraph(u)' => AsksLast(controller'[turn'[u].ctl].session, u)
  BY <1>2, <1>3
<1> QED BY <1>5, <1>6 DEF SessionBook

\* A step of a run: its stream hears nothing.
LEMMA RunStepOf ==
    ASSUME SessionInv, NEW t \in Turns, turn[t].run \in RunStages,
           UNCHANGED <<mode, using, busy, chat, stream, quitting, aborts>>,
           turn' \in [Turns -> TurnSet], \A u \in Turns \ {t}: turn'[u] = turn[u],
           turn'[t].pc = turn[t].pc, turn'[t].ctl = turn[t].ctl, turn'[t].cancel = turn[t].cancel,
           turn'[t].shown = turn[t].shown, turn'[t].sent = turn[t].sent,
           turn'[t].run \in {"graph", "ended", "done"}, turn'[t].result.what # "user",
           turn'[t].run = "done" => \/ turn'[t].result.turn = t /\ turn'[t].result.what # "none"
                                    \/ turn[t].cancel /\ turn[t].pc = "closing",
           controller' \in Seq(ControllerSet), Len(controller') = Len(controller),
           \A k \in 1..Len(controller): controller'[k].last.what # "user",
           SessionBook'
    PROVE  SessionInv'
<1>1. Going(t) /\ StageBook(t) /\ EventBook(t) /\ turn[t].pc # "grace"
  BY SessionBasics DEF StageBook, RunStages
<1>2. Types'
  BY <1>1, TypesOf DEF SessionInv, Types
<1>3. StageBook(t)'
  BY <1>1 DEF StageBook, Listening, RunStages, Going, Streaming
<1>4. EventBook(t)'
  <2>1. turn'[t].pc # "over"
    BY <1>1 DEF Going, Streaming
  <2> QED BY <1>1, <2>1 DEF EventBook, Listening
<1> QED BY <1>1, <1>2, <1>3, <1>4, StepOf DEF Going

LEMMA GraphEndsKeeps ==
    ASSUME SessionInv, NEW t \in Turns, NEW how \in {"returned", "silent", "raised", "cancelled"},
           GraphEnds(t, how)
    PROVE  SessionInv'
<1>1. /\ turn[t].run = "graph" /\ turn' = [turn EXCEPT ![t].run = "ended", ![t].how = how]
      /\ UNCHANGED <<mode, using, busy, chat, controller, stream, quitting, aborts>>
  BY DEF GraphEnds
<1>2. turn \in [Turns -> TurnSet] /\ turn[t] \in TurnSet
  BY DEF SessionInv, Types
<1>3. /\ turn' \in [Turns -> TurnSet] /\ \A u \in Turns \ {t}: turn'[u] = turn[u]
      /\ turn'[t].pc = turn[t].pc /\ turn'[t].ctl = turn[t].ctl /\ turn'[t].run = "ended"
      /\ turn'[t].cancel = turn[t].cancel /\ turn'[t].result = turn[t].result
      /\ turn'[t].sent = turn[t].sent /\ turn'[t].shown = turn[t].shown
  <2> DEFINE x == turn[t]
             y == [x EXCEPT !.run = "ended", !.how = how]
  <2>1. turn' = [turn EXCEPT ![t] = y]
    BY <1>1
  <2>2. TurnIs(y, x.pc, x.ctl, "ended", x.cancel, x.result, x.sent, x.shown)
    BY <1>2, TurnRunEnds
  <2> HIDE DEF y
  <2> QED BY <1>2, <2>1, <2>2 DEF TurnIs
<1>4. SessionBook'
  <2>1. \A u \in Turns: /\ InGraph(u)' <=> InGraph(u)
                        /\ InGraph(u) => turn'[u].ctl = turn[u].ctl
                        /\ turn[u].run = "done" => turn'[u].run = "done" /\ turn'[u].result = turn[u].result
    BY <1>1, <1>3 DEF InGraph
  <2>2. Len(controller) \in Nat /\ controller' = controller
    BY <1>1 DEF SessionInv, Types
  <2> QED BY <2>1, <2>2, SessionsKept
<1>5. /\ turn'[t].result.what # "user" /\ controller \in Seq(ControllerSet)
      /\ \A k \in 1..Len(controller): controller[k].last.what # "user"
  BY <1>3 DEF SessionInv, Types
<1> QED BY <1>1, <1>3, <1>4, <1>5, RunStepOf DEF RunStages
\* What the steps make of a controller.
LEMMA SyncedIs ==
    ASSUME NEW c \in ControllerSet, NEW m \in Message,
           NEW st \in Outcomes \cup {"ready", "running", "aborting"}
    PROVE  /\ Synced(c, m, st) \in ControllerSet
           /\ Synced(c, m, st).session = Append(c.session, m)
           /\ Synced(c, m, st).last = c.last
           /\ Synced(c, m, st).abortRequested = c.abortRequested
<1>1. c.session \in Seq(Message) /\ Append(c.session, m) \in Seq(Message)
  BY AppendIs DEF ControllerSet
<1> QED BY <1>1 DEF Synced, ControllerSet

LEMMA SyncIs ==
    ASSUME NEW c \in ControllerSet, NEW t \in Turns, NEW outcome \in Outcomes
    PROVE  /\ Sync(c, t, outcome) \in ControllerSet
           /\ Sync(c, t, outcome).session =
                 IF outcome = "empty" THEN c.session ELSE Append(c.session, Said(t, outcome))
           /\ Sync(c, t, outcome).last = c.last
<1>1. CASE outcome = "empty"
  BY <1>1 DEF Sync, ControllerSet, Outcomes
<1>2. CASE outcome # "empty"
  <2>1. Said(t, outcome) \in Message
    BY SaysTruly
  <2> QED BY <1>2, <2>1, SyncedIs DEF Sync
<1> QED BY <1>1, <1>2

LEMMA SpentIs ==
    ASSUME NEW c \in ControllerSet
    PROVE  /\ [c EXCEPT !.abortRequested = FALSE] \in ControllerSet
           /\ [c EXCEPT !.abortRequested = FALSE].session = c.session
           /\ [c EXCEPT !.abortRequested = FALSE].last = c.last
BY DEF ControllerSet

LEMMA TelledIs ==
    ASSUME NEW c \in ControllerSet, NEW m \in Message
    PROVE  /\ [c EXCEPT !.last = m] \in ControllerSet
           /\ [c EXCEPT !.last = m].session = c.session
           /\ [c EXCEPT !.last = m].last = m
BY DEF ControllerSet

\* The run of a turn has its outcome, and the session the answer.
LEMMA Answers ==
    ASSUME SessionInv, NEW t \in Turns, turn[t].run \in RunStages, NEW outcome \in Outcomes,
           turn' = [turn EXCEPT ![t] = Returned(@, t, outcome)],
           NEW s \in Seq(Message), Paired(s, turn), AsksLast(s, t),
           NEW c \in ControllerSet,
           c.session = IF outcome = "empty" THEN s ELSE Append(s, Said(t, outcome)),
           c.last = controller[turn[t].ctl].last,
           controller' = [controller EXCEPT ![turn[t].ctl] = c],
           UNCHANGED <<mode, using, busy, chat, stream, quitting, aborts>>
    PROVE  SessionInv'
<1> DEFINE m == Said(t, outcome)
           x == turn[t]
           y == [x EXCEPT !.run = "done", !.result = m]
<1>1. /\ turn \in [Turns -> TurnSet] /\ x \in TurnSet /\ m \in Message /\ m.turn = t
      /\ m.what # "user" /\ m.what # "none" /\ m.what = outcome /\ x.ctl \in 1..Len(controller)
  <2>1. m \in Message /\ m.turn = t /\ m.what = outcome
    BY SaysTruly
  <2>2. outcome # "user" /\ outcome # "none"
    BY DEF Outcomes
  <2> QED BY <2>1, <2>2, SessionBasics DEF SessionInv, Types
<1>2. turn' = [turn EXCEPT ![t] = y]
  BY DEF Returned
<1> HIDE DEF m
<1>3. TurnIs(y, x.pc, x.ctl, "done", x.cancel, m, x.sent, x.shown)
  <2> HIDE DEF x
  <2> QED BY <1>1, TurnReturns
<1> HIDE DEF y
<1>4. /\ turn' \in [Turns -> TurnSet] /\ \A u \in Turns \ {t}: turn'[u] = turn[u]
      /\ turn'[t].pc = x.pc /\ turn'[t].ctl = x.ctl /\ turn'[t].run = "done"
      /\ turn'[t].cancel = x.cancel /\ turn'[t].result = m
      /\ turn'[t].sent = x.sent /\ turn'[t].shown = x.shown
  BY <1>1, <1>2, <1>3 DEF TurnIs
<1>5. Paired(s, turn')
  <2>1. \A u \in Turns: turn[u].run = "done" =>
           turn'[u].run = "done" /\ turn'[u].result = turn[u].result
    BY <1>4 DEF RunStages
  <2>2. \A z: (\A u \in Turns: turn[u].run = "done" => z[u].run = "done" /\ z[u].result = turn[u].result)
              => Paired(s, z)
    BY PairedKept
  <2> QED BY <2>1, <2>2
<1>6. Paired(c.session, turn') /\ Settled(c.session, turn')
  <2>1. c.session = IF outcome = "empty" THEN s ELSE Append(s, m)
    BY DEF m
  <2>2. /\ turn'[t].result = m /\ turn'[t].run = "done" /\ m \in Message /\ m.turn = t
        /\ m.what # "user" /\ m.what = outcome
    BY <1>1, <1>4
  <2>3. CASE outcome = "empty"
    <3>1. SilentlyDone(t, turn')
      BY <2>2, <2>3 DEF SilentlyDone
    <3> QED BY <1>5, <2>1, <2>3, <3>1, SilenceSettles
  <2>4. CASE outcome # "empty"
    <3>1. c.session = Append(s, m)
      BY <2>1, <2>4
    <3> QED BY <1>5, <2>2, <3>1, AnsweredIsPaired, ZenonT(40)
  <2> QED BY <2>3, <2>4
<1>7. SessionOf(c.session, turn[t].ctl, turn') /\ ~InGraph(t)'
  BY <1>4, <1>6 DEF SessionOf, InGraph
<1>8. SessionBook'
  BY <1>4, <1>7, SessionWritten
<1>9. /\ controller' \in Seq(ControllerSet) /\ Len(controller') = Len(controller)
      /\ \A k \in 1..Len(controller): controller'[k].last.what # "user"
  <2>1. c.last.what # "user"
    BY <1>1 DEF SessionInv, Types
  <2> QED BY <1>1, <2>1, ControllerOf
<1> QED BY <1>1, <1>4, <1>8, <1>9, RunStepOf

LEMMA ArunBeginsKeeps == ASSUME SessionInv, NEW t \in Turns, ArunBegins(t) PROVE SessionInv'
<1> DEFINE k == turn[t].ctl
           c == controller[k]
           heard == Synced(c, Said(t, "user"), "running")
<1>1. /\ turn[t].run = "created"
      /\ UNCHANGED <<mode, using, busy, chat, stream, quitting, aborts>>
      /\ \/ /\ controller' = [controller EXCEPT ![k] = Sync(heard, t, "aborted")]
            /\ turn' = [turn EXCEPT ![t] = Returned(@, t, "aborted")]
         \/ /\ controller' = [controller EXCEPT ![k] = heard]
            /\ turn' = [turn EXCEPT ![t].run = "graph"]
  BY DEF ArunBegins
<1>2. /\ k \in 1..Len(controller) /\ k = using /\ c \in ControllerSet /\ Going(t)
      /\ turn[t].run \in RunStages /\ turn \in [Turns -> TurnSet] /\ turn[t] \in TurnSet
      /\ c.last.what # "user" /\ c.session \in Seq(Message)
  BY <1>1, SessionBasics DEF RunStages, SessionInv, Types, ControllerSet
<1>3. Paired(c.session, turn) /\ Settled(c.session, turn)
  <2>1. SessionOf(c.session, k, turn)
    BY <1>2 DEF SessionInv, SessionBook
  <2>2. ASSUME NEW u \in Turns, turn[u].run \in {"graph", "ended"} PROVE FALSE
    BY <1>1, <1>2, <2>2, SessionBasics DEF RunStages, SessionInv, OneGoes
  <2> QED BY <2>1, <2>2 DEF SessionOf
<1> DEFINE m == Said(t, "user")
           s == Append(c.session, m)
<1>4. m \in Message /\ "running" \in Outcomes \cup {"ready", "running", "aborting"}
  BY SaysTruly
<1>5. Paired(s, turn) /\ AsksLast(s, t) /\ s \in Seq(Message)
  BY <1>2, <1>3, AskedIsPaired
<1>6. heard \in ControllerSet /\ heard.session = s /\ heard.last = c.last
  <2> HIDE DEF m, c
  <2>1. heard = Synced(c, m, "running")
    BY DEF m
  <2> HIDE DEF heard
  <2> QED BY <1>2, <1>4, <2>1, SyncedIs
<1> HIDE DEF m, s, heard, c
<1>7. CASE /\ controller' = [controller EXCEPT ![k] = Sync(heard, t, "aborted")]
           /\ turn' = [turn EXCEPT ![t] = Returned(@, t, "aborted")]
  <2> DEFINE d == Sync(heard, t, "aborted")
  <2>2. "aborted" \in Outcomes
    BY DEF Outcomes
  <2>3. /\ d \in ControllerSet /\ d.last = c.last
        /\ d.session = IF "aborted" = "empty" THEN s ELSE Append(s, Said(t, "aborted"))
    BY <1>6, <2>2, SyncIs
  <2> HIDE DEF d
  <2>4. controller' = [controller EXCEPT ![turn[t].ctl] = d] /\ d.last = controller[turn[t].ctl].last
    BY <1>7, <2>3 DEF c, d
  <2>5. turn' = [turn EXCEPT ![t] = Returned(@, t, "aborted")]
    BY <1>7
  <2> QED BY <1>1, <1>2, <1>5, <2>2, <2>3, <2>4, <2>5, Answers, ZenonT(40)
<1>8. CASE /\ controller' = [controller EXCEPT ![k] = heard]
           /\ turn' = [turn EXCEPT ![t].run = "graph"]
  <2> DEFINE x == turn[t]
             y == [x EXCEPT !.run = "graph"]
  <2>1. turn' = [turn EXCEPT ![t] = y]
    BY <1>8
  <2>2. TurnIs(y, x.pc, x.ctl, "graph", x.cancel, x.result, x.sent, x.shown)
    <3>1. "graph" \in RunStages \cup {"none", "done"} /\ x \in TurnSet
      BY <1>2 DEF RunStages
    <3> HIDE DEF x
    <3> QED BY <3>1, TurnRuns
  <2> HIDE DEF y
  <2>3. /\ turn' \in [Turns -> TurnSet] /\ \A u \in Turns \ {t}: turn'[u] = turn[u]
        /\ turn'[t].pc = x.pc /\ turn'[t].ctl = x.ctl /\ turn'[t].run = "graph"
        /\ turn'[t].cancel = x.cancel /\ turn'[t].result = x.result
        /\ turn'[t].sent = x.sent /\ turn'[t].shown = x.shown
    BY <1>2, <2>1, <2>2 DEF TurnIs
  <2>4. SessionOf(s, k, turn')
    <3>1. \A u \in Turns: turn[u].run = "done" => turn'[u] = turn[u]
      BY <1>1, <2>3
    <3>2. Paired(s, turn')
      BY <1>5, <3>1, PairedKept
    <3> QED BY <1>5, <2>3, <3>2 DEF SessionOf
  <2>5. SessionBook'
    BY <1>2, <1>5, <1>6, <1>8, <2>3, <2>4, SessionWritten
  <2>6. /\ controller' \in Seq(ControllerSet) /\ Len(controller') = Len(controller)
        /\ \A j \in 1..Len(controller): controller'[j].last.what # "user"
    BY <1>2, <1>6, <1>8, ControllerOf
  <2>7. x.result.what # "user"
    BY DEF SessionInv, Types
  <2> QED BY <1>1, <1>2, <2>3, <2>5, <2>6, <2>7, RunStepOf
<1> QED BY <1>1, <1>7, <1>8

LEMMA ArunEndsKeeps ==
    ASSUME SessionInv, NEW t \in Turns, InGraph(t), NEW outcome \in Outcomes, ArunEnds(t, outcome)
    PROVE  SessionInv'
<1> DEFINE k == turn[t].ctl
           c == controller[k]
           d == Sync(c, t, outcome)
           e == [d EXCEPT !.abortRequested = FALSE]
<1>1. /\ turn[t].run \in RunStages /\ k \in 1..Len(controller) /\ c \in ControllerSet
      /\ c.session \in Seq(Message)
  BY SessionBasics DEF InGraph, RunStages, ControllerSet
<1>2. Paired(c.session, turn) /\ AsksLast(c.session, t)
  BY <1>1 DEF SessionInv, SessionBook, SessionOf
<1>3. /\ controller' = [controller EXCEPT ![k] = e]
      /\ turn' = [turn EXCEPT ![t] = Returned(@, t, outcome)]
      /\ UNCHANGED <<mode, using, busy, chat, stream, quitting, aborts>>
  BY <1>1 DEF ArunEnds
<1>4. /\ d \in ControllerSet /\ d.last = c.last
      /\ d.session = IF outcome = "empty" THEN c.session ELSE Append(c.session, Said(t, outcome))
  <2> HIDE DEF c
  <2> QED BY <1>1, SyncIs
<1> HIDE DEF d
<1>5. e \in ControllerSet /\ e.session = d.session /\ e.last = d.last
  BY <1>4, SpentIs
<1> HIDE DEF e
<1> QED BY <1>1, <1>2, <1>3, <1>4, <1>5, Answers
LEMMA ArunCancelledKeeps ==
    ASSUME SessionInv, NEW t \in Turns, ArunCancelled(t) PROVE SessionInv'
<1>1. turn[t].cancel
  BY DEF ArunCancelled
<1>2. CASE turn[t].run \in {"graph", "ended"} /\ ArunEnds(t, "aborted")
  BY <1>2, ArunEndsKeeps DEF InGraph, Outcomes
<1>3. CASE /\ turn[t].run = "created"
           /\ turn' = [turn EXCEPT ![t].run = "done"]
           /\ UNCHANGED <<mode, using, busy, chat, controller, stream, quitting, aborts>>
  <2>1. /\ turn \in [Turns -> TurnSet] /\ turn[t] \in TurnSet /\ StageBook(t) /\ Going(t)
        /\ turn[t].run \in RunStages
    BY <1>3, SessionBasics DEF SessionInv, Types, RunStages
  <2>2. turn[t].pc = "closing"
    BY <1>1, <1>3, <2>1 DEF StageBook, Listening, Going, Streaming
  <2> DEFINE x == turn[t]
             y == [x EXCEPT !.run = "done"]
  <2>3. turn' = [turn EXCEPT ![t] = y]
    BY <1>3
  <2>4. TurnIs(y, x.pc, x.ctl, "done", x.cancel, x.result, x.sent, x.shown)
    <3>1. "done" \in RunStages \cup {"none", "done"} /\ x \in TurnSet
      BY <2>1
    <3> HIDE DEF x
    <3> QED BY <3>1, TurnRuns
  <2> HIDE DEF y
  <2>5. /\ turn' \in [Turns -> TurnSet] /\ \A u \in Turns \ {t}: turn'[u] = turn[u]
        /\ turn'[t].pc = x.pc /\ turn'[t].ctl = x.ctl /\ turn'[t].run = "done"
        /\ turn'[t].cancel = x.cancel /\ turn'[t].result = x.result
        /\ turn'[t].sent = x.sent /\ turn'[t].shown = x.shown
    BY <2>1, <2>3, <2>4 DEF TurnIs
  <2>6. SessionBook'
    <3>1. \A u \in Turns: /\ InGraph(u)' <=> InGraph(u)
                          /\ InGraph(u) => turn'[u].ctl = turn[u].ctl
                          /\ turn[u].run = "done" => turn'[u].run = "done" /\ turn'[u].result = turn[u].result
      BY <1>3, <2>5 DEF InGraph
    <3>2. Len(controller) \in Nat /\ controller' = controller
      BY <1>3 DEF SessionInv, Types
    <3> QED BY <3>1, <3>2, SessionsKept
  <2>7. /\ x.result.what # "user" /\ controller \in Seq(ControllerSet)
        /\ \A k \in 1..Len(controller): controller[k].last.what # "user"
    BY DEF SessionInv, Types
  <2> QED BY <1>1, <1>3, <2>1, <2>2, <2>5, <2>6, <2>7, RunStepOf
<1> QED BY <1>2, <1>3 DEF ArunCancelled

-----------------------------------------------------------------------------
(***************************************************************************)
(* The worker.                                                             *)
(***************************************************************************)
\* A step of the worker that goes on: the run goes its own way.
LEMMA WorkerStepOf ==
    ASSUME SessionInv, NEW t \in Turns, Going(t),
           UNCHANGED <<mode, using, busy, chat, quitting, aborts>>,
           \A u \in Turns \ {t}: turn'[u] = turn[u] /\ stream'[u] = stream[u],
           turn' \in [Turns -> TurnSet], stream' \in [Turns -> StreamSet],
           Len(stream'[t].queue) <= QueueMax,
           turn'[t].pc \in Streaming, turn'[t].ctl = turn[t].ctl, turn'[t].run = turn[t].run,
           turn'[t].result = turn[t].result,
           controller' = controller
             \/ controller' = [controller EXCEPT ![turn[t].ctl].last = turn[t].result],
           turn'[t].pc = "grace" => controller'[turn[t].ctl].last = turn[t].result,
           StageBook(t)', EventBook(t)'
    PROVE  SessionInv'
<1>1. /\ turn[t].ctl \in 1..Len(controller) /\ controller \in Seq(ControllerSet)
      /\ turn[t].result.what # "user" /\ turn[t].result \in Message
      /\ \A k \in 1..Len(controller): controller[k].last.what # "user"
  BY SessionBasics DEF SessionInv, Types, TurnSet
<1>2. /\ controller' \in Seq(ControllerSet) /\ Len(controller') = Len(controller)
      /\ \A k \in 1..Len(controller): /\ controller'[k].last.what # "user"
                                      /\ controller'[k].session = controller[k].session
  <2>1. CASE controller' = controller
    BY <1>1, <2>1
  <2>2. CASE controller' = [controller EXCEPT ![turn[t].ctl].last = turn[t].result]
    <3> DEFINE c == controller[turn[t].ctl]
               d == [c EXCEPT !.last = turn[t].result]
    <3>1. controller' = [controller EXCEPT ![turn[t].ctl] = d]
      BY <2>2
    <3>2. c \in ControllerSet
      BY <1>1
    <3>3. d \in ControllerSet /\ d.session = c.session /\ d.last = turn[t].result
      <4> HIDE DEF c
      <4> QED BY <1>1, <3>2, TelledIs
    <3> HIDE DEF d
    <3> QED BY <1>1, <3>1, <3>3, ControllerOf
  <2> QED BY <2>1, <2>2
<1>3. Types'
  BY <1>1, <1>2, TypesOf DEF SessionInv, Types
<1>4. SessionBook'
  <2>1. \A u \in Turns: /\ InGraph(u)' <=> InGraph(u)
                        /\ InGraph(u) => turn'[u].ctl = turn[u].ctl
                        /\ turn[u].run = "done" => turn'[u].run = "done" /\ turn'[u].result = turn[u].result
    BY DEF InGraph
  <2>2. Len(controller) \in Nat /\ Len(controller') = Len(controller)
    BY <1>2 DEF SessionInv, Types
  <2>3. \A k \in 1..Len(controller): controller'[k].session = controller[k].session
    BY <1>2
  <2> QED BY <2>1, <2>2, <2>3, SessionsKept
<1> QED BY <1>3, <1>4, StepOf

LEMMA TakesEventKeeps == ASSUME SessionInv, NEW t \in Turns, TakesEvent(t) PROVE SessionInv'
<1> DEFINE x == turn[t]
           s == stream[t]
           u == UpTo(s, x.sent)
           more == Append(x.shown, Head(s.queue))
           y == [x EXCEPT !.shown = more, !.pc = "waiting"]
           r == [s EXCEPT !.queue = Tail(@)]
<1>1. /\ x.pc \in {"waiting", "grace"} /\ s.queue # << >> /\ Head(s.queue) # End
      /\ turn' = [turn EXCEPT ![t] = y] /\ stream' = [stream EXCEPT ![t] = r]
      /\ UNCHANGED <<mode, using, busy, chat, controller, quitting, aborts>>
  <2>1. PICK n \in 1..MaxEvents: NextItem(t, n)
    BY DEF TakesEvent
  <2>2. n # 0 /\ Head(s.queue) = n /\ x.pc \in {"waiting", "grace"} /\ s.queue # << >>
    BY <2>1, SessionAssumption DEF NextItem, SessionAssumption
  <2> QED BY <2>2 DEF TakesEvent, End
<1>2. /\ Going(t) /\ Listening(t) /\ Fits(s) /\ x.shown \in Seq(Nat) /\ u \in Nat
      /\ StageBook(t) /\ EventBook(t) /\ x \in TurnSet
      /\ turn \in [Turns -> TurnSet] /\ stream \in [Turns -> StreamSet]
  BY <1>1, SessionBasics DEF Listening, SessionInv, Types
<1>3. QueueRight(s, x.shown, u) /\ ShownRight(x.shown, s.dropped, u)
  BY <1>2 DEF EventBook
<1>4. /\ Fits(r) /\ more \in Seq(Nat) /\ r.open = s.open /\ r.closedAt = s.closedAt
      /\ QueueRight(r, more, u) /\ ShownRight(more, r.dropped, u)
  <2> DEFINE sh == x.shown
  <2>1. more = Append(sh, Head(s.queue)) /\ r = [s EXCEPT !.queue = Tail(@)] /\ sh \in Seq(Nat)
    BY <1>2
  <2>2. QueueRight(s, sh, u) /\ ShownRight(sh, s.dropped, u)
    BY <1>3
  <2> HIDE DEF sh, u, more, r, s
  <2>3. Fits(s) /\ s.queue # << >> /\ Head(s.queue) # End /\ u \in Nat
    BY <1>1, <1>2
  <2>4. \A p, q: p = [s EXCEPT !.queue = Tail(@)] /\ q = Append(sh, Head(s.queue)) =>
           /\ Fits(p) /\ q \in Seq(Nat) /\ p.open = s.open /\ p.closedAt = s.closedAt
           /\ QueueRight(p, q, u) /\ ShownRight(q, p.dropped, u)
    BY <2>1, <2>2, <2>3, TakingIsRight
  <2> QED BY <2>1, <2>4
<1>5. TurnIs(y, "waiting", x.ctl, x.run, x.cancel, x.result, x.sent, more)
  <2> HIDE DEF x, more
  <2> QED BY <1>2, <1>4, TurnShows
<1>6. UpTo(r, x.sent) = u
  BY <1>4 DEF UpTo
<1> HIDE DEF y, r, more, u
<1>7. /\ turn' \in [Turns -> TurnSet]
      /\ \A v \in Turns \ {t}: turn'[v] = turn[v] /\ stream'[v] = stream[v]
      /\ turn'[t].pc = "waiting" /\ turn'[t].ctl = x.ctl /\ turn'[t].run = x.run
      /\ turn'[t].cancel = x.cancel /\ turn'[t].result = x.result
      /\ turn'[t].sent = x.sent /\ turn'[t].shown = more
      /\ stream' \in [Turns -> StreamSet] /\ stream'[t] = r
  BY <1>1, <1>2, <1>4, <1>5 DEF TurnIs, Fits
<1>8. EventBook(t)'
  BY <1>4, <1>6, <1>7 DEF EventBook
<1>9. StageBook(t)'
  <2>1. /\ s.open => s.closedAt = 0
        /\ ~s.open => s.closedAt # 0 /\ x.run # "created"
        /\ x.run # "none" /\ ~x.cancel
        /\ x.run = "done" => x.result.turn = t /\ x.result.what # "none"
    BY <1>1, <1>2 DEF StageBook
  <2> HIDE DEF x, s
  <2> QED BY <1>4, <1>7, <2>1 DEF StageBook, Listening
<1>10. Len(stream'[t].queue) <= QueueMax /\ turn'[t].pc \in Streaming /\ turn'[t].pc # "grace"
  BY <1>4, <1>7 DEF Fits, Streaming
<1> QED BY <1>1, <1>2, <1>7, <1>8, <1>9, <1>10, WorkerStepOf

LEMMA StreamStopsKeeps == ASSUME SessionInv, NEW t \in Turns, StreamStops(t) PROVE SessionInv'
<1> DEFINE x == turn[t]
           s == stream[t]
           u == UpTo(s, x.sent)
           y == [x EXCEPT !.pc = "joining"]
           r == [s EXCEPT !.queue = Tail(@)]
<1>1. /\ x.pc \in {"waiting", "grace"} /\ s.queue # << >> /\ Head(s.queue) = End
      /\ turn' = [turn EXCEPT ![t] = y] /\ stream' = [stream EXCEPT ![t] = r]
      /\ UNCHANGED <<mode, using, busy, chat, controller, quitting, aborts>>
  BY DEF StreamStops, NextItem
<1>2. /\ Going(t) /\ Listening(t) /\ Fits(s) /\ x.shown \in Seq(Nat) /\ u \in Nat
      /\ StageBook(t) /\ EventBook(t) /\ x \in TurnSet
      /\ turn \in [Turns -> TurnSet] /\ stream \in [Turns -> StreamSet]
  BY <1>1, SessionBasics DEF Listening, SessionInv, Types
<1>3. QueueRight(s, x.shown, u) /\ ShownRight(x.shown, s.dropped, u)
  BY <1>2 DEF EventBook
<1>4. /\ Fits(r) /\ r.queue = << >> /\ ~s.open /\ ~r.open /\ r.closedAt = s.closedAt
      /\ r.dropped = s.dropped /\ QueueRight(r, x.shown, u)
  <2> DEFINE sh == x.shown
  <2>1. r = [s EXCEPT !.queue = Tail(@)] /\ sh \in Seq(Nat) /\ QueueRight(s, sh, u)
    BY <1>2, <1>3
  <2>2. /\ Fits(r) /\ r.queue = << >> /\ ~s.open /\ ~r.open /\ r.closedAt = s.closedAt
        /\ r.dropped = s.dropped /\ QueueRight(r, sh, u)
    <3> HIDE DEF sh, u, r, s
    <3> QED BY <1>1, <1>2, <2>1, EndingIsRight
  <2> QED BY <2>2
<1>5. TurnIs(y, "joining", x.ctl, x.run, x.cancel, x.result, x.sent, x.shown)
  <2>1. "joining" \in Streaming \cup {"unused", "scheduled", "dropped", "over"}
    BY DEF Streaming
  <2> HIDE DEF x
  <2> QED BY <1>2, <2>1, TurnGoesTo
<1>6. UpTo(r, x.sent) = u
  BY <1>4 DEF UpTo
<1> HIDE DEF y, r, u
<1>7. /\ turn' \in [Turns -> TurnSet]
      /\ \A v \in Turns \ {t}: turn'[v] = turn[v] /\ stream'[v] = stream[v]
      /\ turn'[t].pc = "joining" /\ turn'[t].ctl = x.ctl /\ turn'[t].run = x.run
      /\ turn'[t].cancel = x.cancel /\ turn'[t].result = x.result
      /\ turn'[t].sent = x.sent /\ turn'[t].shown = x.shown
      /\ stream' \in [Turns -> StreamSet] /\ stream'[t] = r
  BY <1>1, <1>2, <1>4, <1>5 DEF TurnIs, Fits
<1>8. EventBook(t)'
  BY <1>3, <1>4, <1>6, <1>7 DEF EventBook
<1>9. StageBook(t)'
  <2>1. /\ s.closedAt # 0 /\ x.run # "created"
        /\ x.run # "none" /\ ~x.cancel
        /\ x.run = "done" => x.result.turn = t /\ x.result.what # "none"
    BY <1>1, <1>2, <1>4 DEF StageBook
  <2> HIDE DEF x, s
  <2> QED BY <1>4, <1>7, <2>1 DEF StageBook, Listening
<1>10. Len(stream'[t].queue) <= QueueMax /\ turn'[t].pc \in Streaming /\ turn'[t].pc # "grace"
  BY <1>4, <1>7 DEF Fits, Streaming
<1> QED BY <1>1, <1>2, <1>7, <1>8, <1>9, <1>10, WorkerStepOf

LEMMA SeesRunKeeps == ASSUME SessionInv, NEW t \in Turns, SeesRun(t) PROVE SessionInv'
<1> DEFINE x == turn[t]
           y == [x EXCEPT !.pc = "grace"]
<1>1. /\ x.pc = "waiting" /\ x.run = "done" /\ turn' = [turn EXCEPT ![t] = y]
      /\ controller' = [controller EXCEPT ![turn[t].ctl].last = turn[t].result]
      /\ UNCHANGED <<mode, using, busy, chat, stream, quitting, aborts>>
  BY DEF SeesRun, RunSeen
<1>2. /\ Going(t) /\ Listening(t) /\ StageBook(t) /\ EventBook(t) /\ x \in TurnSet
      /\ turn \in [Turns -> TurnSet] /\ stream \in [Turns -> StreamSet]
      /\ turn[t].ctl \in 1..Len(controller) /\ controller \in Seq(ControllerSet)
      /\ Len(stream[t].queue) <= QueueMax
  BY <1>1, SessionBasics DEF Listening, SessionInv, Types, Going, Streaming
<1>3. TurnIs(y, "grace", x.ctl, x.run, x.cancel, x.result, x.sent, x.shown)
  <2>1. "grace" \in Streaming \cup {"unused", "scheduled", "dropped", "over"}
    BY DEF Streaming
  <2> HIDE DEF x
  <2> QED BY <1>2, <2>1, TurnGoesTo
<1> HIDE DEF y
<1>4. /\ turn' \in [Turns -> TurnSet]
      /\ \A v \in Turns \ {t}: turn'[v] = turn[v]
      /\ turn'[t].pc = "grace" /\ turn'[t].ctl = x.ctl /\ turn'[t].run = x.run
      /\ turn'[t].cancel = x.cancel /\ turn'[t].result = x.result
      /\ turn'[t].sent = x.sent /\ turn'[t].shown = x.shown
  BY <1>1, <1>2, <1>3 DEF TurnIs
<1>5. EventBook(t)'
  BY <1>1, <1>2, <1>4 DEF EventBook, Listening
<1>6. StageBook(t)'
  BY <1>1, <1>2, <1>4 DEF StageBook, Listening
<1>7. controller'[turn[t].ctl].last = turn[t].result
  BY <1>1, <1>2 DEF ControllerSet
<1>8. turn'[t].pc \in Streaming
  BY <1>4 DEF Streaming
<1> QED BY <1>1, <1>2, <1>4, <1>5, <1>6, <1>7, <1>8, WorkerStepOf
\* The worker begins when nothing goes on.
LEMMA WorkerBeginsKeeps == ASSUME SessionInv, NEW t \in Turns, WorkerBegins(t) PROVE SessionInv'
<1> DEFINE x == turn[t]
           y == [x EXCEPT !.pc = "waiting", !.ctl = using, !.run = "created"]
           r == [NoStream EXCEPT !.open = TRUE]
<1>1. /\ x.pc = "scheduled" /\ busy' = TRUE /\ turn' = [turn EXCEPT ![t] = y]
      /\ stream' = [stream EXCEPT ![t].open = TRUE]
      /\ UNCHANGED <<mode, using, chat, controller, quitting, aborts>>
  BY DEF WorkerBegins
<1>2. /\ x \in TurnSet /\ turn \in [Turns -> TurnSet] /\ stream \in [Turns -> StreamSet]
      /\ StageBook(t) /\ Len(controller) \in Nat /\ using \in Nat /\ OneGoes /\ ChatBook
      /\ controller \in Seq(ControllerSet) /\ chat \in Seq(Message) /\ QueueMax \in Nat
      /\ x.result.what # "user" /\ \A k \in 1..Len(controller): controller[k].last.what # "user"
  BY SessionBasics, SessionAssumption DEF SessionInv, Types, SessionAssumption
<1>3. /\ x.run = "none" /\ x.result = Nothing /\ x.sent = 0 /\ x.shown = << >> /\ ~x.cancel
      /\ stream[t] = NoStream
  BY <1>1, <1>2 DEF StageBook
<1>4. TurnIs(y, "waiting", using, "created", x.cancel, x.result, x.sent, x.shown)
  <2> HIDE DEF x
  <2> QED BY <1>2, TurnBegins
<1>5. /\ r \in StreamSet /\ r.open /\ r.closedAt = 0 /\ r.queue = << >> /\ r.dropped = {}
  <2> DEFINE s == NoStream
  <2>1. << >> \in Seq(Nat)
    OBVIOUS
  <2>2. s \in StreamSet /\ s.closedAt = 0 /\ s.queue = << >> /\ s.dropped = {}
    BY <2>1 DEF NoStream, StreamSet
  <2>3. r = [s EXCEPT !.open = TRUE]
    OBVIOUS
  <2> HIDE DEF s, r
  <2> QED BY <2>2, <2>3 DEF StreamSet
<1>6. stream' = [stream EXCEPT ![t] = r]
  BY <1>1, <1>3
<1> HIDE DEF y, r
<1>7. /\ turn' \in [Turns -> TurnSet]
      /\ \A u \in Turns \ {t}: turn'[u] = turn[u] /\ stream'[u] = stream[u]
      /\ turn'[t].pc = "waiting" /\ turn'[t].ctl = using /\ turn'[t].run = "created"
      /\ ~turn'[t].cancel /\ turn'[t].result = x.result
      /\ turn'[t].sent = 0 /\ turn'[t].shown = << >>
      /\ stream' \in [Turns -> StreamSet] /\ stream'[t] = r
  BY <1>1, <1>2, <1>3, <1>4, <1>5, <1>6 DEF TurnIs
<1>8. Types'
  <2>1. Len(stream'[t].queue) <= QueueMax
    BY <1>2, <1>5, <1>7
  <2> QED BY <1>1, <1>2, <1>7, <2>1, TypesOf, ZenonT(60)
<1>9. /\ Going(t)' /\ ~busy
      /\ \A u \in Turns \ {t}: ~Going(u) /\ ~Going(u)' /\ turn'[u].pc # "scheduled"
  BY <1>1, <1>2, <1>7 DEF OneGoes, Going, Streaming
<1>10. OneGoes'
  BY <1>1, <1>7, <1>9 DEF OneGoes
<1>11. ChatBook'
  <2>1. \A u \in Turns: /\ Going(u)' \/ turn'[u].pc = "scheduled"
                           => Going(u) \/ turn[u].pc = "scheduled"
                        /\ turn[u].pc = "over" => turn'[u].pc = "over" /\ turn'[u].result = turn[u].result
    BY <1>1, <1>7, <1>9
  <2> QED BY <1>1, <1>2, <2>1, ChatKept
<1>12. LastBook'
  BY <1>7, <1>9 DEF LastBook, Going, Streaming
<1>13. SessionBook'
  <2>1. \A u \in Turns: /\ InGraph(u)' <=> InGraph(u)
                        /\ InGraph(u) => turn'[u].ctl = turn[u].ctl
                        /\ turn[u].run = "done" => turn'[u].run = "done" /\ turn'[u].result = turn[u].result
    BY <1>3, <1>7 DEF InGraph
  <2>2. Len(controller) \in Nat /\ controller' = controller
    BY <1>1, <1>2
  <2> QED BY <2>1, <2>2, SessionsKept
<1>14. StageBook(t)'
  BY <1>5, <1>7 DEF StageBook, Listening
<1>15. EventBook(t)'
  <2>1. UpTo(r, 0) = 0
    BY <1>5 DEF UpTo
  <2>2. Len(<< >>) = 0 /\ 1..0 = {}
    OBVIOUS
  <2>3. ShownRight(<< >>, r.dropped, 0) /\ QueueRight(r, << >>, 0)
    BY <1>5, <2>2 DEF ShownRight, QueueRight
  <2> QED BY <1>7, <2>1, <2>3 DEF EventBook
<1>16. ASSUME NEW u \in Turns \ {t} PROVE StageBook(u)' /\ EventBook(u)'
  BY <1>1, <1>7, TurnKept DEF SessionInv, Told
<1> QED BY <1>8, <1>10, <1>11, <1>12, <1>13, <1>14, <1>15, <1>16 DEF SessionInv

\* A turn is over: the app is free.
LEMMA OverOf ==
    ASSUME SessionInv, NEW t \in Turns, Going(t), turn[t].run = "done", NEW r, Fits(r),
           UNCHANGED <<mode, using, quitting, aborts>>, busy' = FALSE,
           turn' = [turn EXCEPT ![t].pc = "over"], stream' = [stream EXCEPT ![t] = r], ~r.open,
           controller' = controller
             \/ controller' = [controller EXCEPT ![turn[t].ctl].last = turn[t].result],
           chat' \in Seq(Message), ChatBook',
           (turn[t].result.turn = t /\ turn[t].result.what # "none") \/ turn[t].cancel,
           \A u \in Turns \ {t}: Told(u)' <=> Told(u),
           quitting \/ turn[t].result.what = "empty" \/ Told(t)',
           ShownRight(turn[t].shown, r.dropped, UpTo(r, turn[t].sent)),
           Told(t)' \/ ~quitting => Complete(turn[t].shown, r.dropped, UpTo(r, turn[t].sent))
    PROVE  SessionInv'
<1> DEFINE x == turn[t]
           y == [x EXCEPT !.pc = "over"]
<1>1. /\ turn[t].ctl \in 1..Len(controller) /\ controller \in Seq(ControllerSet)
      /\ turn[t].result.what # "user" /\ turn[t].result \in Message
      /\ \A k \in 1..Len(controller): controller[k].last.what # "user"
      /\ turn \in [Turns -> TurnSet] /\ stream \in [Turns -> StreamSet] /\ x \in TurnSet
      /\ OneGoes /\ StageBook(t)
  BY SessionBasics DEF SessionInv, Types, TurnSet
<1>2. /\ controller' \in Seq(ControllerSet) /\ Len(controller') = Len(controller)
      /\ \A k \in 1..Len(controller): /\ controller'[k].last.what # "user"
                                      /\ controller'[k].session = controller[k].session
  <2>1. CASE controller' = controller
    BY <1>1, <2>1
  <2>2. CASE controller' = [controller EXCEPT ![turn[t].ctl].last = turn[t].result]
    <3> DEFINE c == controller[turn[t].ctl]
               d == [c EXCEPT !.last = turn[t].result]
    <3>1. controller' = [controller EXCEPT ![turn[t].ctl] = d]
      BY <2>2
    <3>2. c \in ControllerSet
      BY <1>1
    <3>3. d \in ControllerSet /\ d.session = c.session /\ d.last = turn[t].result
      <4> HIDE DEF c
      <4> QED BY <1>1, <3>2, TelledIs
    <3> HIDE DEF d
    <3> QED BY <1>1, <3>1, <3>3, ControllerOf
  <2> QED BY <2>1, <2>2
<1>3. TurnIs(y, "over", x.ctl, x.run, x.cancel, x.result, x.sent, x.shown)
  <2> HIDE DEF x
  <2> QED BY <1>1, TurnGoesTo
<1>4. turn' = [turn EXCEPT ![t] = y]
  OBVIOUS
<1> HIDE DEF y
<1>5. /\ turn' \in [Turns -> TurnSet]
      /\ \A u \in Turns \ {t}: turn'[u] = turn[u] /\ stream'[u] = stream[u]
      /\ turn'[t].pc = "over" /\ turn'[t].ctl = x.ctl /\ turn'[t].run = x.run
      /\ turn'[t].cancel = x.cancel /\ turn'[t].result = x.result
      /\ turn'[t].sent = x.sent /\ turn'[t].shown = x.shown
      /\ stream' \in [Turns -> StreamSet] /\ stream'[t] = r
  BY <1>1, <1>3, <1>4 DEF TurnIs, Fits
<1>6. Types'
  BY <1>1, <1>2, <1>5, TypesOf, ZenonT(60) DEF Fits
<1>7. /\ \A u \in Turns: ~Going(u)' /\ turn'[u].pc # "scheduled" /\ turn'[u].pc # "grace"
  BY <1>1, <1>5 DEF OneGoes, Going, Streaming
<1>8. OneGoes' /\ LastBook'
  BY <1>7 DEF OneGoes, LastBook
<1>9. SessionBook'
  <2>1. \A u \in Turns: /\ InGraph(u)' <=> InGraph(u)
                        /\ InGraph(u) => turn'[u].ctl = turn[u].ctl
                        /\ turn[u].run = "done" => turn'[u].run = "done" /\ turn'[u].result = turn[u].result
    BY <1>5 DEF InGraph
  <2>2. Len(controller) \in Nat /\ Len(controller') = Len(controller)
    BY <1>2 DEF SessionInv, Types
  <2>3. \A k \in 1..Len(controller): controller'[k].session = controller[k].session
    BY <1>2
  <2> QED BY <2>1, <2>2, <2>3, SessionsKept
<1>10. StageBook(t)'
  BY <1>1, <1>5 DEF StageBook, Listening
<1>11. EventBook(t)'
  BY <1>5 DEF EventBook, Listening
<1>12. ASSUME NEW u \in Turns \ {t} PROVE StageBook(u)' /\ EventBook(u)'
  BY <1>5, TurnKept DEF SessionInv
<1> QED BY <1>6, <1>8, <1>9, <1>10, <1>11, <1>12 DEF SessionInv

\* A turn whose stream is empty is told as it ended.
LEMMA TellsKeeps ==
    ASSUME SessionInv, NEW t \in Turns, Listening(t), turn[t].run = "done",
           stream[t].queue = << >>, turn[t].result.turn = t, turn[t].result.what # "none",
           Tell(t, turn[t].result),
           controller' = controller
             \/ controller' = [controller EXCEPT ![turn[t].ctl].last = turn[t].result]
    PROVE  SessionInv'
<1> DEFINE x == turn[t]
           s == stream[t]
           u == UpTo(s, x.sent)
           r == Close(s)
           m == x.result
<1>1. /\ chat' = IF m.what \in {"none", "empty"} THEN chat ELSE Append(chat, Said(t, m.what))
      /\ busy' = FALSE
      /\ turn' = [turn EXCEPT ![t].pc = "over"] /\ stream' = [stream EXCEPT ![t] = r]
      /\ UNCHANGED <<mode, using, quitting, aborts>>
  BY DEF Tell
<1>2. /\ Going(t) /\ Fits(s) /\ x.shown \in Seq(Nat) /\ u \in Nat /\ StageBook(t) /\ EventBook(t)
      /\ OneGoes /\ ChatBook /\ m \in Message /\ m.what # "user" /\ chat \in Seq(Message)
      /\ x.pc # "over"
  BY SessionBasics DEF SessionInv, Types, TurnSet, Listening
<1>3. QueueRight(s, x.shown, u) /\ ShownRight(x.shown, s.dropped, u)
  BY <1>2 DEF EventBook
<1>4. Complete(x.shown, s.dropped, u)
  BY <1>2, <1>3, EmptyIsComplete
<1>5. Fits(r) /\ ~r.open /\ r.closedAt = s.closedAt /\ r.dropped = s.dropped
  <2>1. CASE s.open
    <3> DEFINE sh == x.shown
    <3>1. QueueRight(s, sh, u) /\ ShownRight(sh, s.dropped, u) /\ sh \in Seq(Nat)
      BY <1>2, <1>3
    <3>2. s.queue = << >> /\ r = Close(s)
      OBVIOUS
    <3> HIDE DEF sh, s, r, u
    <3> QED BY <1>2, <2>1, <3>1, <3>2, CloseIsRight
  <2>2. CASE ~s.open
    BY <1>2, <2>2 DEF Close
  <2> QED BY <2>1, <2>2
<1>6. UpTo(r, x.sent) = u
  BY <1>5 DEF UpTo
<1>7. Said(t, m.what) = m
  BY <1>2 DEF Said, Message
<1> HIDE DEF r, u
<1>11. /\ ShownRight(x.shown, r.dropped, UpTo(r, x.sent)) /\ Complete(x.shown, r.dropped, UpTo(r, x.sent))
  BY <1>3, <1>4, <1>5, <1>6
<1>12. CASE m.what = "empty"
  <2>1. chat' = chat
    BY <1>1, <1>12
  <2>2. \A v \in Turns: /\ Going(v)' \/ turn'[v].pc = "scheduled"
                           => Going(v) \/ turn[v].pc = "scheduled"
                        /\ turn[v].pc = "over" => turn'[v].pc = "over" /\ turn'[v].result = turn[v].result
    <3>1. /\ turn'[t].pc = "over" /\ turn'[t].result = m
          /\ \A v \in Turns \ {t}: turn'[v] = turn[v]
      BY <1>1 DEF SessionInv, Types, TurnSet
    <3> QED BY <1>2, <3>1 DEF Going, Streaming
  <2>3. ChatBook' /\ chat' \in Seq(Message)
    BY <1>2, <2>1, <2>2, ChatKept
  <2>4. \A v \in Turns: Told(v)' <=> Told(v)
    BY <2>1 DEF Told
  <2> QED BY <1>1, <1>2, <1>5, <1>11, <1>12, <2>3, <2>4, OverOf
<1>13. CASE m.what # "empty"
  <2>8. /\ chat' \in Seq(Message) /\ Len(chat') = Len(chat) + 1 /\ Len(chat) \in Nat
        /\ chat'[Len(chat) + 1] = m /\ \A i \in 1..Len(chat): chat'[i] = chat[i]
    <3>1. chat' = Append(chat, m)
      BY <1>1, <1>7, <1>13
    <3> QED BY <1>2, <3>1, AppendIs
  <2>9. ChatBook'
    <3>1. /\ Len(chat) > 0 /\ chat[Len(chat)] = Said(t, "user")
      BY <1>2 DEF ChatBook
    <3>2. /\ turn'[t].pc = "over" /\ turn'[t].result = m
          /\ \A v \in Turns \ {t}: turn'[v] = turn[v]
      BY <1>1 DEF SessionInv, Types, TurnSet
    <3>3. \A v \in Turns: ~(Going(v)' \/ turn'[v].pc = "scheduled")
      BY <1>2, <3>2 DEF OneGoes, Going, Streaming
    <3>4. ASSUME NEW i \in 1..Len(chat'), chat'[i].what # "user"
          PROVE  /\ chat'[i].turn \in Turns /\ turn'[chat'[i].turn].pc = "over"
                 /\ chat'[i] = turn'[chat'[i].turn].result
                 /\ i > 1 /\ chat'[i - 1] = Said(chat'[i].turn, "user")
      <4>1. CASE i = Len(chat) + 1
        BY <2>8, <3>1, <3>2, <4>1
      <4>2. CASE i \in 1..Len(chat)
        <5>1. chat'[i] = chat[i] /\ (i > 1 => chat'[i - 1] = chat[i - 1])
          BY <2>8, <4>2
        <5>2. /\ chat[i].turn \in Turns /\ turn[chat[i].turn].pc = "over"
              /\ chat[i] = turn[chat[i].turn].result
              /\ i > 1 /\ chat[i - 1] = Said(chat[i].turn, "user")
          BY <1>2, <3>4, <4>2, <5>1 DEF ChatBook
        <5>3. chat[i].turn # t
          BY <1>2, <5>2
        <5> QED BY <3>2, <5>1, <5>2, <5>3
      <4> QED BY <2>8, <4>1, <4>2
    <3> QED BY <3>3, <3>4 DEF ChatBook, Said
  <2>10. /\ \A v \in Turns \ {t}: Told(v)' <=> Told(v)
         /\ Told(t)'
    <3>1. m.turn = t /\ Len(chat) + 1 \in 1..Len(chat')
      BY <2>8
    <3>2. \A i \in 1..Len(chat'): i \in 1..Len(chat) \/ i = Len(chat) + 1
      BY <2>8
    <3>3. \A i \in 1..Len(chat): i \in 1..Len(chat')
      BY <2>8
    <3> QED BY <1>2, <2>8, <3>1, <3>2, <3>3 DEF Told
  <2> QED BY <1>1, <1>2, <1>5, <1>11, <2>8, <2>9, <2>10, OverOf
<1> QED BY <1>12, <1>13

LEMMA GraceEndsKeeps == ASSUME SessionInv, NEW t \in Turns, GraceEnds(t) PROVE SessionInv'
<1>1. turn[t].pc = "grace" /\ stream[t].queue = << >> /\ Tell(t, controller[using].last)
      /\ controller' = controller
  BY DEF GraceEnds
<1>2. Listening(t) /\ StageBook(t) /\ Going(t) /\ turn[t].ctl = using
  BY <1>1, SessionBasics DEF Listening, Going, Streaming
<1>3. controller[using].last = turn[t].result
  BY <1>1, <1>2 DEF SessionInv, LastBook
<1>4. turn[t].run = "done" /\ turn[t].result.turn = t /\ turn[t].result.what # "none"
  BY <1>1, <1>2 DEF StageBook
<1> QED BY <1>1, <1>2, <1>3, <1>4, TellsKeeps

LEMMA JoinsKeeps == ASSUME SessionInv, NEW t \in Turns, Joins(t) PROVE SessionInv'
<1>1. /\ turn[t].pc = "joining" /\ turn[t].run = "done"
      /\ controller' = [controller EXCEPT ![turn[t].ctl].last = turn[t].result]
      /\ Tell(t, controller'[using].last)
  BY DEF Joins
<1>2. /\ Listening(t) /\ StageBook(t) /\ turn[t].ctl = using /\ using \in 1..Len(controller)
      /\ controller \in Seq(ControllerSet)
  BY <1>1, SessionBasics DEF Listening, Going, Streaming, SessionInv, Types
<1>3. controller'[using].last = turn[t].result
  BY <1>1, <1>2 DEF ControllerSet
<1>4. stream[t].queue = << >> /\ turn[t].result.turn = t /\ turn[t].result.what # "none"
  BY <1>1, <1>2 DEF StageBook
<1> QED BY <1>1, <1>2, <1>3, <1>4, TellsKeeps

LEMMA ClosesKeeps == ASSUME SessionInv, NEW t \in Turns, Closes(t) PROVE SessionInv'
<1> DEFINE r == stream[t]
<1>1. /\ turn[t].pc = "closing" /\ turn[t].run = "done"
      /\ turn' = [turn EXCEPT ![t].pc = "over"] /\ busy' = FALSE
      /\ UNCHANGED <<mode, using, chat, controller, stream, quitting, aborts>>
  BY DEF Closes
<1>2. /\ Going(t) /\ Fits(r) /\ StageBook(t) /\ EventBook(t) /\ OneGoes /\ ChatBook
      /\ turn \in [Turns -> TurnSet] /\ stream \in [Turns -> StreamSet] /\ chat \in Seq(Message)
  BY <1>1, SessionBasics DEF SessionInv, Types, Going, Streaming
<1>3. stream' = [stream EXCEPT ![t] = r]
  BY <1>1, <1>2
<1>4. /\ ~r.open /\ quitting
      /\ (turn[t].result.turn = t /\ turn[t].result.what # "none") \/ turn[t].cancel
  BY <1>1, <1>2 DEF StageBook, EventBook
<1>5. ~Told(t) /\ \A u \in Turns: Told(u)' <=> Told(u)
  BY <1>1, <1>2 DEF Told, ChatBook
<1>6. ShownRight(turn[t].shown, r.dropped, UpTo(r, turn[t].sent))
  BY <1>2 DEF EventBook
<1>7. ChatBook'
  <2>1. \A u \in Turns: /\ Going(u)' \/ turn'[u].pc = "scheduled"
                           => Going(u) \/ turn[u].pc = "scheduled"
                        /\ turn[u].pc = "over" => turn'[u].pc = "over" /\ turn'[u].result = turn[u].result
    BY <1>1, <1>2 DEF Going, TurnSet
  <2> QED BY <1>1, <1>2, <2>1, ChatKept
<1> HIDE DEF r
<1>8. chat' \in Seq(Message) /\ controller' = controller
  BY <1>1, <1>2
<1> QED BY <1>1, <1>2, <1>3, <1>4, <1>5, <1>6, <1>7, <1>8, OverOf
-----------------------------------------------------------------------------
(***************************************************************************)
(* The user.                                                               *)
(***************************************************************************)
LEMMA SubmitKeeps == ASSUME SessionInv, NEW t \in Turns, Submit(t) PROVE SessionInv'
<1> DEFINE n == [NoTurn EXCEPT !.pc = "scheduled"]
<1>1. /\ ~busy /\ turn[t].pc = "unused" /\ chat' = Append(chat, Said(t, "user"))
      /\ turn' = [u \in Turns |->
                    IF u = t THEN n
                    ELSE IF turn[u].pc = "scheduled" THEN [turn[u] EXCEPT !.pc = "dropped"]
                    ELSE turn[u]]
      /\ UNCHANGED <<mode, using, busy, controller, stream, quitting, aborts>>
  BY DEF Submit
<1>2. /\ turn \in [Turns -> TurnSet] /\ OneGoes /\ ChatBook /\ chat \in Seq(Message)
      /\ Len(controller) \in Nat /\ StageBook(t) /\ Types
  BY DEF SessionInv, Types
<1>3. /\ TurnIs(n, "scheduled", 0, "none", FALSE, Nothing, 0, << >>)
      /\ Nothing.what # "user"
  <2>1. Nothing \in Message /\ Nothing.what = "none"
    BY DEF Nothing, Said, Message
  <2>2. << >> \in Seq(Nat)
    OBVIOUS
  <2> DEFINE x == NoTurn
  <2>3. TurnIs(x, "unused", 0, "none", FALSE, Nothing, 0, << >>)
    BY <2>1, <2>2 DEF NoTurn, TurnIs, TurnSet
  <2>4. n = [x EXCEPT !.pc = "scheduled"]
    OBVIOUS
  <2> HIDE DEF x, n
  <2>5. TurnIs(n, "scheduled", x.ctl, x.run, x.cancel, x.result, x.sent, x.shown)
    BY <2>3, <2>4, TurnGoesTo DEF TurnIs
  <2> QED BY <2>1, <2>3, <2>5 DEF TurnIs
<1> HIDE DEF n
<1>4. ASSUME NEW u \in Turns, u # t
      PROVE  \/ turn[u].pc # "scheduled" /\ turn'[u] = turn[u]
             \/ turn[u].pc = "scheduled"
                /\ TurnIs(turn'[u], "dropped", turn[u].ctl, turn[u].run, turn[u].cancel,
                          turn[u].result, turn[u].sent, turn[u].shown)
  <2>1. CASE turn[u].pc # "scheduled"
    BY <1>1, <1>4, <2>1
  <2>2. CASE turn[u].pc = "scheduled"
    <3> DEFINE x == turn[u]
               y == [x EXCEPT !.pc = "dropped"]
    <3>1. turn'[u] = y
      BY <1>1, <1>4, <2>2
    <3>2. TurnIs(y, "dropped", x.ctl, x.run, x.cancel, x.result, x.sent, x.shown)
      <4>1. x \in TurnSet
        BY <1>2
      <4> HIDE DEF x
      <4> QED BY <4>1, TurnGoesTo
    <3> HIDE DEF y
    <3> QED BY <2>2, <3>1, <3>2
  <2> QED BY <2>1, <2>2
<1>5. TurnIs(turn'[t], "scheduled", 0, "none", FALSE, Nothing, 0, << >>)
  BY <1>1, <1>3
<1>6. /\ turn' \in [Turns -> TurnSet]
      /\ \A u \in Turns: turn'[u].result.what # "user"
  <2>1. \A u \in Turns: turn'[u] \in TurnSet /\ turn'[u].result.what # "user"
    BY <1>2, <1>3, <1>4, <1>5 DEF TurnIs, Types
  <2> QED BY <1>1, <2>1
<1>7. /\ turn[t].run = "none" /\ turn[t].result = Nothing /\ stream[t] = NoStream
  BY <1>1, <1>2 DEF StageBook
<1>8. /\ chat' \in Seq(Message) /\ Len(chat') = Len(chat) + 1 /\ Len(chat) \in Nat
      /\ chat'[Len(chat) + 1] = Said(t, "user") /\ \A i \in 1..Len(chat): chat'[i] = chat[i]
      /\ Said(t, "user").what = "user" /\ Said(t, "user").turn = t
  BY <1>1, <1>2, SaysTruly, AppendIs
<1>9. Types'
  BY <1>1, <1>2, <1>6, <1>8 DEF Types
<1>10. /\ \A u \in Turns: ~Going(u) /\ ~Going(u)' /\ (turn'[u].pc = "scheduled" <=> u = t)
  <2>1. \A u \in Turns: ~Going(u)
    BY <1>1, <1>2 DEF OneGoes
  <2>2. \A u \in Turns: ~Going(u)' /\ (turn'[u].pc = "scheduled" <=> u = t)
    BY <1>4, <1>5, <2>1 DEF Going, TurnIs, Streaming
  <2> QED BY <2>1, <2>2
<1>11. OneGoes' /\ LastBook'
  BY <1>1, <1>10 DEF OneGoes, LastBook, Going, Streaming
<1>12. \A u \in Turns: /\ turn[u].run = turn'[u].run /\ turn[u].result = turn'[u].result
                       /\ turn[u].run # "none" => turn[u].ctl = turn'[u].ctl
                       /\ turn[u].pc = "over" => turn'[u].pc = "over"
  BY <1>1, <1>4, <1>5, <1>7 DEF TurnIs
<1>13. ChatBook'
  <2>1. ASSUME NEW i \in 1..Len(chat'), chat'[i].what # "user"
        PROVE  /\ chat'[i].turn \in Turns /\ turn'[chat'[i].turn].pc = "over"
               /\ chat'[i] = turn'[chat'[i].turn].result
               /\ i > 1 /\ chat'[i - 1] = Said(chat'[i].turn, "user")
    <3>1. i \in 1..Len(chat)
      BY <1>8, <2>1
    <3>2. chat'[i] = chat[i] /\ (i > 1 => chat'[i - 1] = chat[i - 1])
      BY <1>8, <3>1
    <3>3. /\ chat[i].turn \in Turns /\ turn[chat[i].turn].pc = "over"
          /\ chat[i] = turn[chat[i].turn].result
          /\ i > 1 /\ chat[i - 1] = Said(chat[i].turn, "user")
      BY <1>2, <2>1, <3>1, <3>2 DEF ChatBook
    <3> QED BY <1>12, <3>2, <3>3
  <2>2. \A u \in Turns: Going(u)' \/ turn'[u].pc = "scheduled" =>
           Len(chat') > 0 /\ chat'[Len(chat')] = Said(u, "user")
    BY <1>8, <1>10
  <2> QED BY <2>1, <2>2 DEF ChatBook, Said
<1>14. SessionBook'
  <2>1. \A u \in Turns: /\ InGraph(u)' <=> InGraph(u)
                        /\ InGraph(u) => turn'[u].ctl = turn[u].ctl
                        /\ turn[u].run = "done" => turn'[u].run = "done" /\ turn'[u].result = turn[u].result
    BY <1>12 DEF InGraph
  <2>2. controller' = controller
    BY <1>1
  <2> QED BY <1>2, <2>1, <2>2, SessionsKept
<1>15. \A u \in Turns: Told(u)' <=> Told(u)
  BY <1>8 DEF Told
<1>16. ASSUME NEW u \in Turns PROVE StageBook(u)' /\ EventBook(u)'
  <2>0. StageBook(u) /\ EventBook(u) /\ stream'[u] = stream[u]
    BY <1>1 DEF SessionInv
  <2>1. CASE u = t
    <3>1. /\ turn'[u].pc = "scheduled" /\ turn'[u].run = "none" /\ ~turn'[u].cancel
          /\ turn'[u].result = Nothing /\ turn'[u].sent = 0 /\ turn'[u].shown = << >>
          /\ stream'[u] = NoStream
      BY <1>5, <1>7, <2>0, <2>1 DEF TurnIs
    <3>2. StageBook(u)'
      BY <3>1 DEF StageBook, Listening, NoStream
    <3>3. ShownRight(<< >>, NoStream.dropped, UpTo(NoStream, 0))
      <4>1. 1..Len(<< >>) = {}
        OBVIOUS
      <4> QED BY <4>1 DEF ShownRight
    <3> QED BY <3>1, <3>2, <3>3 DEF EventBook, Listening
  <2>2. CASE u # t /\ turn[u].pc = "scheduled"
    <3>1. TurnIs(turn'[u], "dropped", turn[u].ctl, turn[u].run, turn[u].cancel,
                 turn[u].result, turn[u].sent, turn[u].shown)
      BY <1>4, <2>2
    <3>2. StageBook(u)'
      BY <2>0, <2>2, <3>1 DEF StageBook, Listening, TurnIs
    <3> QED BY <2>0, <3>1, <3>2 DEF EventBook, Listening, TurnIs
  <2>3. CASE u # t /\ turn[u].pc # "scheduled"
    BY <1>1, <1>4, <1>15, <2>0, <2>3, TurnKept
  <2> QED BY <2>1, <2>2, <2>3
<1> QED BY <1>9, <1>11, <1>13, <1>14, <1>16 DEF SessionInv

LEMMA SwitchModeKeeps == ASSUME SessionInv, NEW m \in Modes, SwitchMode(m) PROVE SessionInv'
<1> DEFINE c == NewController(m)
<1>1. /\ mode' = m /\ UNCHANGED <<busy, chat, turn, stream, quitting, aborts>>
      /\ \/ busy /\ UNCHANGED <<controller, using>>
         \/ /\ ~busy /\ Len(controller) <= MaxSwitches
            /\ controller' = Append(controller, c) /\ using' = Len(controller) + 1
  BY DEF SwitchMode, Replaces
<1>2. Types /\ controller \in Seq(ControllerSet) /\ Len(controller) \in Nat /\ OneGoes /\ ChatBook
      /\ Len(controller) \in 1..(MaxSwitches + 1) /\ MaxSwitches \in Nat
  BY SessionAssumption DEF SessionInv, Types, SessionAssumption
<1>3. c \in ControllerSet /\ c.session = << >> /\ c.last.what # "user"
  <2>1. Nothing \in Message /\ Nothing.what = "none"
    BY DEF Nothing, Said, Message
  <2>2. << >> \in Seq(Message)
    OBVIOUS
  <2>3. c = [mode |-> m, status |-> "ready", abortRequested |-> FALSE, session |-> << >>,
             last |-> Nothing]
    BY DEF NewController
  <2> QED BY <2>1, <2>2, <2>3 DEF ControllerSet
<1> HIDE DEF c
<1>4. /\ controller' \in Seq(ControllerSet) /\ using' = Len(controller') /\ Len(controller') \in Nat
      /\ Len(controller') \in 1..(MaxSwitches + 1) /\ Len(controller) <= Len(controller')
      /\ \A k \in 1..Len(controller): controller'[k] = controller[k]
      /\ \A k \in 1..Len(controller'): k \notin 1..Len(controller) => controller'[k] = c
  <2>1. CASE busy /\ UNCHANGED <<controller, using>>
    BY <1>2, <2>1 DEF Types
  <2>2. CASE /\ ~busy /\ Len(controller) <= MaxSwitches
             /\ controller' = Append(controller, c) /\ using' = Len(controller) + 1
    BY <1>2, <1>3, <2>2
  <2> QED BY <1>1, <2>1, <2>2
<1>5. Types'
  <2>1. \A k \in 1..Len(controller'): controller'[k].last.what # "user"
    BY <1>2, <1>3, <1>4 DEF Types
  <2> QED BY <1>1, <1>2, <1>4, <2>1 DEF Types
<1>6. OneGoes' /\ ChatBook'
  <2>1. \A u \in Turns: /\ Going(u)' <=> Going(u)
                        /\ turn'[u] = turn[u]
    BY <1>1 DEF Going
  <2> QED BY <1>1, <1>2, <2>1, PlacesKept, ChatKept
<1>7. LastBook'
  <2>1. ASSUME NEW t \in Turns, turn[t].pc = "grace"
        PROVE  controller'[turn[t].ctl] = controller[turn[t].ctl]
    <3>1. Going(t)
      BY <2>1 DEF Going, Streaming
    <3> QED BY <1>4, <3>1, SessionBasics
  <2> QED BY <1>1, <2>1 DEF SessionInv, LastBook
<1>8. SessionBook'
  <2>1. \A u \in Turns: InGraph(u)' <=> InGraph(u)
    BY <1>1 DEF InGraph
  <2>2. turn' = turn
    BY <1>1
  <2>3. /\ \A k \in 1..Len(controller): controller'[k].session = controller[k].session
        /\ \A k \in 1..Len(controller'): k \notin 1..Len(controller) => controller'[k].session = << >>
        /\ Len(controller') \in Nat /\ Len(controller) <= Len(controller')
    BY <1>3, <1>4
  <2> QED BY <2>1, <2>2, <2>3, SessionsKept
<1>9. \A u \in Turns: StageBook(u)' /\ EventBook(u)'
  BY <1>1, TurnKept DEF SessionInv, Told
<1> QED BY <1>5, <1>6, <1>7, <1>8, <1>9 DEF SessionInv

LEMMA AbortKeeps == ASSUME SessionInv, AbortRuntime PROVE SessionInv'
<1> DEFINE c == controller[using]
           d == [c EXCEPT !.abortRequested = TRUE, !.status = "aborting"]
<1>1. /\ aborts < MaxAborts /\ aborts' = aborts + 1 /\ controller' = [controller EXCEPT ![using] = d]
      /\ UNCHANGED <<mode, using, busy, chat, turn, stream, quitting>>
  BY DEF AbortRuntime
<1>2. Types /\ controller \in Seq(ControllerSet) /\ Len(controller) \in Nat /\ OneGoes /\ ChatBook
      /\ using \in 1..Len(controller) /\ c \in ControllerSet /\ c.last.what # "user"
      /\ MaxAborts \in Nat /\ aborts \in 0..MaxAborts
  BY SessionAssumption DEF SessionInv, Types, SessionAssumption
<1>3. d \in ControllerSet /\ d.session = c.session /\ d.last = c.last
  <2> HIDE DEF c
  <2> QED BY <1>2 DEF ControllerSet
<1> HIDE DEF d
<1>4. /\ controller' \in Seq(ControllerSet) /\ Len(controller') = Len(controller)
      /\ \A k \in 1..Len(controller): /\ controller'[k].session = controller[k].session
                                      /\ controller'[k].last = controller[k].last
                                      /\ controller'[k].last.what # "user"
  <2>1. /\ controller'[using] = d /\ \A k \in 1..Len(controller) \ {using}: controller'[k] = controller[k]
    BY <1>1, <1>2
  <2>2. controller' \in Seq(ControllerSet) /\ Len(controller') = Len(controller)
    BY <1>1, <1>2, <1>3
  <2> QED BY <1>2, <1>3, <2>1, <2>2 DEF Types
<1>5. Types'
  BY <1>1, <1>2, <1>4 DEF Types
<1>6. OneGoes' /\ ChatBook'
  <2>1. \A u \in Turns: /\ Going(u)' <=> Going(u)
                        /\ turn'[u] = turn[u]
    BY <1>1 DEF Going
  <2> QED BY <1>1, <1>2, <2>1, PlacesKept, ChatKept
<1>7. LastBook'
  <2>1. ASSUME NEW t \in Turns, turn[t].pc = "grace"
        PROVE  controller'[turn[t].ctl].last = controller[turn[t].ctl].last
    <3>1. Going(t)
      BY <2>1 DEF Going, Streaming
    <3> QED BY <1>4, <3>1, SessionBasics
  <2> QED BY <1>1, <2>1 DEF SessionInv, LastBook
<1>8. SessionBook'
  <2>1. \A u \in Turns: InGraph(u)' <=> InGraph(u)
    BY <1>1 DEF InGraph
  <2>2. turn' = turn
    BY <1>1
  <2>3. /\ \A k \in 1..Len(controller): controller'[k].session = controller[k].session
        /\ Len(controller') = Len(controller) /\ Len(controller) \in Nat
    BY <1>2, <1>4
  <2> QED BY <2>1, <2>2, <2>3, SessionsKept
<1>9. \A u \in Turns: StageBook(u)' /\ EventBook(u)'
  BY <1>1, TurnKept DEF SessionInv, Told
<1> QED BY <1>5, <1>6, <1>7, <1>8, <1>9 DEF SessionInv
LEMMA HitIs ==
    ASSUME NEW x \in TurnSet
    PROVE  /\ Hit(x) \in TurnSet /\ Hit(x).ctl = x.ctl /\ Hit(x).run = x.run
           /\ Hit(x).result = x.result /\ Hit(x).sent = x.sent /\ Hit(x).shown = x.shown
           /\ x.pc = "scheduled" => Hit(x).pc = "dropped" /\ Hit(x).cancel = x.cancel
           /\ x.pc \in {"waiting", "grace"} =>
                 Hit(x).pc = "closing" /\ Hit(x).cancel = (x.run # "done")
           /\ x.pc = "joining" => Hit(x).pc = "joining" /\ Hit(x).cancel = (x.run # "done")
           /\ x.pc \notin {"scheduled", "waiting", "grace", "joining"} => Hit(x) = x
<1> DEFINE live == x.run # "done"
<1>1. live \in BOOLEAN /\ "closing" \in Streaming
  BY DEF Streaming
<1>2. CASE x.pc = "scheduled"
  <2>1. Hit(x) = [x EXCEPT !.pc = "dropped"]
    BY <1>2 DEF Hit
  <2> QED BY <1>2, <2>1, TurnGoesTo DEF TurnIs
<1>3. CASE x.pc \in {"waiting", "grace"}
  <2>1. Hit(x) = [x EXCEPT !.pc = "closing", !.cancel = live]
    BY <1>3 DEF Hit
  <2> HIDE DEF live
  <2>2. TurnIs([x EXCEPT !.pc = "closing", !.cancel = live],
               "closing", x.ctl, x.run, live, x.result, x.sent, x.shown)
    BY <1>1 DEF TurnIs, TurnSet
  <2>3. TurnIs(Hit(x), "closing", x.ctl, x.run, live, x.result, x.sent, x.shown)
    BY <2>1, <2>2
  <2> QED BY <1>3, <2>3 DEF TurnIs, live
<1>4. CASE x.pc = "joining"
  <2>1. Hit(x) = [x EXCEPT !.cancel = live]
    BY <1>4 DEF Hit
  <2> HIDE DEF live
  <2>2. TurnIs([x EXCEPT !.cancel = live], x.pc, x.ctl, x.run, live, x.result, x.sent, x.shown)
    BY <1>1 DEF TurnIs, TurnSet
  <2>3. TurnIs(Hit(x), x.pc, x.ctl, x.run, live, x.result, x.sent, x.shown)
    BY <2>1, <2>2
  <2> QED BY <1>4, <2>3 DEF TurnIs, live
<1>5. CASE x.pc \notin {"scheduled", "waiting", "grace", "joining"}
  BY <1>5 DEF Hit
<1> QED BY <1>2, <1>3, <1>4, <1>5

LEMMA QuitKeeps == ASSUME SessionInv, Quit PROVE SessionInv'
<1>1. /\ quitting' = TRUE /\ turn' = [t \in Turns |-> Hit(turn[t])]
      /\ stream' = [t \in Turns |-> IF turn[t].pc \in {"waiting", "grace"} THEN Close(stream[t])
                                    ELSE stream[t]]
      /\ UNCHANGED <<mode, using, busy, chat, controller, aborts>>
  BY DEF Quit
<1>2. /\ Types /\ OneGoes /\ ChatBook /\ Len(controller) \in Nat
      /\ turn \in [Turns -> TurnSet] /\ stream \in [Turns -> StreamSet]
  BY DEF SessionInv, Types
<1>3. ASSUME NEW t \in Turns
      PROVE  LET x == turn[t]
                 y == turn'[t]
             IN  /\ y \in TurnSet /\ y.ctl = x.ctl /\ y.run = x.run
                 /\ y.result = x.result /\ y.sent = x.sent /\ y.shown = x.shown
                 /\ x.pc = "scheduled" => y.pc = "dropped" /\ y.cancel = x.cancel
                 /\ x.pc \in {"waiting", "grace"} => y.pc = "closing" /\ y.cancel = (x.run # "done")
                 /\ x.pc = "joining" => y.pc = "joining" /\ y.cancel = (x.run # "done")
                 /\ x.pc \notin {"scheduled", "waiting", "grace", "joining"} => y = x
  <2>1. turn[t] \in TurnSet /\ turn'[t] = Hit(turn[t])
    BY <1>1, <1>2
  <2> QED BY <2>1, HitIs
<1>4. ASSUME NEW t \in Turns
      PROVE  /\ Fits(stream'[t]) /\ stream'[t].closedAt = stream[t].closedAt
             /\ turn[t].pc \in {"waiting", "grace"} => ~stream'[t].open
             /\ turn[t].pc \notin {"waiting", "grace"} => stream'[t] = stream[t]
             /\ ShownRight(turn[t].shown, stream'[t].dropped, UpTo(stream[t], turn[t].sent))
  <2> DEFINE s == stream[t]
             sh == turn[t].shown
             u == UpTo(s, turn[t].sent)
  <2>1. Fits(s) /\ sh \in Seq(Nat) /\ u \in Nat /\ EventBook(t)
    BY SessionBasics
  <2>2. ShownRight(sh, s.dropped, u) /\ (Listening(t) => QueueRight(s, sh, u))
    BY <2>1 DEF EventBook
  <2>3. CASE turn[t].pc \in {"waiting", "grace"} /\ s.open
    <3>1. QueueRight(s, sh, u) /\ stream'[t] = Close(s)
      BY <1>1, <2>2, <2>3 DEF Listening
    <3>2. turn[t].pc \in {"waiting", "grace"} /\ s.open
      BY <2>3
    <3>3. /\ Fits(stream'[t]) /\ ~stream'[t].open /\ stream'[t].closedAt = s.closedAt
          /\ ShownRight(sh, stream'[t].dropped, u)
      <4> HIDE DEF s, sh, u
      <4> QED BY <2>1, <2>2, <3>1, <3>2, CloseIsRight
    <3> QED BY <3>2, <3>3
  <2>4. CASE ~(turn[t].pc \in {"waiting", "grace"} /\ s.open)
    <3>1. stream'[t] = s
      BY <1>1, <2>4 DEF Close
    <3> QED BY <2>1, <2>2, <2>4, <3>1
  <2> QED BY <2>3, <2>4
<1>5. Types'
  <2>1. turn' \in [Turns -> TurnSet] /\ \A t \in Turns: turn'[t].result.what # "user"
    BY <1>1, <1>2, <1>3 DEF Types
  <2>2. stream' \in [Turns -> StreamSet] /\ \A t \in Turns: Len(stream'[t].queue) <= QueueMax
    BY <1>1, <1>4 DEF Fits
  <2> QED BY <1>1, <1>2, <2>1, <2>2 DEF Types
<1>6. \A u \in Turns: /\ Going(u)' <=> Going(u)
                      /\ turn'[u].pc # "scheduled" /\ turn'[u].pc # "grace"
                      /\ turn[u].pc = "over" => turn'[u].pc = "over"
  BY <1>3 DEF Going, Streaming
<1>7. OneGoes' /\ LastBook'
  BY <1>1, <1>2, <1>3, <1>6, PlacesKept DEF LastBook
<1>8. ChatBook'
  <2>1. \A u \in Turns: /\ Going(u)' \/ turn'[u].pc = "scheduled"
                           => Going(u) \/ turn[u].pc = "scheduled"
                        /\ turn[u].pc = "over" => turn'[u].pc = "over" /\ turn'[u].result = turn[u].result
    BY <1>3, <1>6
  <2> QED BY <1>1, <1>2, <2>1, ChatKept
<1>9. SessionBook'
  <2>1. \A u \in Turns: /\ InGraph(u)' <=> InGraph(u)
                        /\ InGraph(u) => turn'[u].ctl = turn[u].ctl
                        /\ turn[u].run = "done" => turn'[u].run = "done" /\ turn'[u].result = turn[u].result
    BY <1>3 DEF InGraph
  <2>2. controller' = controller
    BY <1>1
  <2> QED BY <1>2, <2>1, <2>2, SessionsKept
<1>10. ASSUME NEW t \in Turns PROVE StageBook(t)' /\ EventBook(t)'
  <2>1. StageBook(t) /\ EventBook(t) /\ turn[t] \in TurnSet
    BY <1>2 DEF SessionInv
  <2>2. UpTo(stream'[t], turn'[t].sent) = UpTo(stream[t], turn[t].sent)
    BY <1>3, <1>4 DEF UpTo
  <2>3. Told(t)' <=> Told(t)
    BY <1>1 DEF Told
  <2>4. CASE turn[t].pc \in {"waiting", "grace"}
    <3>1. /\ turn'[t].pc = "closing" /\ turn'[t].run = turn[t].run /\ turn'[t].result = turn[t].result
          /\ turn'[t].sent = turn[t].sent /\ turn'[t].shown = turn[t].shown
          /\ turn'[t].cancel = (turn[t].run # "done") /\ ~stream'[t].open
      BY <1>3, <1>4, <2>4
    <3>2. /\ turn[t].run # "none"
          /\ turn[t].run = "done" => turn[t].result.turn = t /\ turn[t].result.what # "none"
      BY <2>1, <2>4 DEF StageBook
    <3>3. StageBook(t)'
      BY <3>1, <3>2 DEF StageBook, Listening
    <3>4. EventBook(t)'
      BY <1>1, <1>4, <2>2, <3>1 DEF EventBook, Listening
    <3> QED BY <3>3, <3>4
  <2>5. CASE turn[t].pc = "joining"
    <3>1. /\ turn'[t].pc = "joining" /\ turn'[t].run = turn[t].run /\ turn'[t].result = turn[t].result
          /\ turn'[t].sent = turn[t].sent /\ turn'[t].shown = turn[t].shown
          /\ turn'[t].cancel = (turn[t].run # "done") /\ stream'[t] = stream[t]
      BY <1>3, <1>4, <2>5
    <3>2. /\ turn[t].run # "none"
          /\ turn[t].run = "done" => turn[t].result.turn = t /\ turn[t].result.what # "none"
          /\ ~stream[t].open /\ stream[t].queue = << >> /\ stream[t].closedAt # 0
          /\ turn[t].run # "created"
      BY <2>1, <2>5 DEF StageBook, Listening
    <3>3. StageBook(t)'
      BY <3>1, <3>2 DEF StageBook, Listening
    <3>4. EventBook(t)'
      BY <2>1, <2>5, <3>1 DEF EventBook, Listening
    <3> QED BY <3>3, <3>4
  <2>6. CASE turn[t].pc = "scheduled"
    <3>1. /\ turn'[t].pc = "dropped" /\ turn'[t].run = turn[t].run /\ turn'[t].result = turn[t].result
          /\ turn'[t].sent = turn[t].sent /\ turn'[t].shown = turn[t].shown
          /\ turn'[t].cancel = turn[t].cancel /\ stream'[t] = stream[t]
      BY <1>3, <1>4, <2>6
    <3>2. StageBook(t)'
      BY <2>1, <2>6, <3>1 DEF StageBook, Listening
    <3>3. EventBook(t)'
      BY <2>1, <3>1 DEF EventBook, Listening
    <3> QED BY <3>2, <3>3
  <2>7. CASE turn[t].pc \notin {"scheduled", "waiting", "grace", "joining"}
    <3>1. turn'[t] = turn[t] /\ stream'[t] = stream[t]
      BY <1>3, <1>4, <2>7
    <3> QED BY <1>1, <2>1, <2>3, <3>1, TurnKept
  <2> QED BY <2>4, <2>5, <2>6, <2>7
<1> QED BY <1>5, <1>7, <1>8, <1>9, <1>10 DEF SessionInv

-----------------------------------------------------------------------------
(***************************************************************************)
(* The session.                                                            *)
(***************************************************************************)
LEMMA SessionBegins == SessionInit => SessionInv
<1> SUFFICES ASSUME SessionInit PROVE SessionInv
  OBVIOUS
<1>1. /\ mode \in Modes /\ using = 1 /\ busy = FALSE /\ chat = << >> /\ quitting = FALSE
      /\ aborts = 0 /\ controller = <<NewController(mode)>>
      /\ turn = [t \in Turns |-> NoTurn] /\ stream = [t \in Turns |-> NoStream]
  BY DEF SessionInit
<1>2. Nothing \in Message /\ Nothing.what = "none"
  BY DEF Nothing, Said, Message
<1>3. << >> \in Seq(Message) /\ << >> \in Seq(Nat) /\ 1..Len(<< >>) = {} /\ Len(<< >>) = 0
  OBVIOUS
<1> DEFINE c == NewController(mode)
<1>4. c \in ControllerSet /\ c.session = << >> /\ c.last.what # "user"
  BY <1>1, <1>2, <1>3 DEF NewController, ControllerSet
<1>5. TurnIs(NoTurn, "unused", 0, "none", FALSE, Nothing, 0, << >>)
  BY <1>2, <1>3 DEF NoTurn, TurnIs, TurnSet
<1>6. /\ NoStream \in StreamSet /\ ~NoStream.open /\ NoStream.queue = << >>
      /\ NoStream.dropped = {} /\ NoStream.closedAt = 0
  BY <1>3 DEF NoStream, StreamSet
<1> HIDE DEF c
<1>7. controller \in Seq(ControllerSet) /\ Len(controller) = 1 /\ controller[1] = c
  BY <1>1, <1>4 DEF c
<1>8. /\ \A t \in Turns: turn[t] = NoTurn /\ stream[t] = NoStream
      /\ turn \in [Turns -> TurnSet] /\ stream \in [Turns -> StreamSet]
  BY <1>1, <1>5, <1>6 DEF TurnIs
<1>9. Types
  <2>1. \A t \in Turns: turn[t].result.what # "user" /\ Len(stream[t].queue) <= QueueMax
    BY <1>2, <1>3, <1>5, <1>6, <1>8, SessionAssumption DEF TurnIs, SessionAssumption
  <2>2. /\ aborts \in 0..MaxAborts /\ using = Len(controller)
        /\ Len(controller) \in 1..(MaxSwitches + 1)
        /\ \A k \in 1..Len(controller): controller[k].last.what # "user"
    BY <1>1, <1>4, <1>7, SessionAssumption DEF SessionAssumption
  <2> QED BY <1>1, <1>3, <1>7, <1>8, <2>1, <2>2 DEF Types
<1>10. \A t \in Turns: turn[t].pc = "unused" /\ turn[t].run = "none"
  BY <1>5, <1>8 DEF TurnIs
<1>11. OneGoes /\ LastBook
  BY <1>1, <1>10 DEF OneGoes, LastBook, Going, Streaming
<1>12. ChatBook
  BY <1>1, <1>3, <1>10 DEF ChatBook, Going, Streaming
<1>13. SessionBook
  <2>1. \A k \in 1..Len(controller): controller[k].session = << >>
    BY <1>4, <1>7
  <2>2. \A k \in 1..Len(controller): SessionOf(<< >>, k, turn)
    <3>1. ~(0 > 0)
      OBVIOUS
    <3> QED BY <1>3, <3>1 DEF SessionOf, Paired, Settled
  <2>3. \A t \in Turns: ~InGraph(t)
    BY <1>10 DEF InGraph
  <2> QED BY <2>1, <2>2, <2>3 DEF SessionBook
<1>14. ASSUME NEW t \in Turns PROVE StageBook(t) /\ EventBook(t)
  <2>1. StageBook(t)
    BY <1>5, <1>6, <1>8 DEF StageBook, Listening, TurnIs
  <2>2. ShownRight(<< >>, {}, UpTo(NoStream, 0))
    BY <1>3 DEF ShownRight
  <2>3. EventBook(t)
    BY <1>5, <1>6, <1>8, <2>2 DEF EventBook, Listening, TurnIs
  <2> QED BY <2>1, <2>3
<1> QED BY <1>9, <1>11, <1>12, <1>13, <1>14 DEF SessionInv

LEMMA SessionStep == SessionInv /\ [SessionNext]_sessionVars => SessionInv'
<1> SUFFICES ASSUME SessionInv, [SessionNext]_sessionVars PROVE SessionInv'
  OBVIOUS
<1>1. ASSUME NEW t \in Turns, Submit(t) PROVE SessionInv'
  BY <1>1, SubmitKeeps
<1>2. ASSUME NEW t \in Turns, RunStep(t) PROVE SessionInv'
  <2>1. CASE ArunReturns(t)
    <3> DEFINE outcome == RunOutcome(turn[t].how, controller[turn[t].ctl].abortRequested)
    <3>1. outcome \in Outcomes
      BY DEF RunOutcome, Outcomes
    <3>2. InGraph(t) /\ ArunEnds(t, outcome)
      BY <2>1 DEF ArunReturns, InGraph
    <3> HIDE DEF outcome
    <3> QED BY <3>1, <3>2, ArunEndsKeeps
  <2>2. CASE GraphStops(t)
    BY <2>2, GraphEndsKeeps DEF GraphStops
  <2> QED BY <1>2, <2>1, <2>2, ArunBeginsKeeps, EmitsKeeps, ArunCancelledKeeps DEF RunStep
<1>3. ASSUME NEW t \in Turns, WorkerStep(t) PROVE SessionInv'
  BY <1>3, WorkerBeginsKeeps, TakesEventKeeps, StreamStopsKeeps, SeesRunKeeps, GraceEndsKeeps,
     JoinsKeeps, ClosesKeeps DEF WorkerStep
<1>4. ASSUME NEW m \in Modes, SwitchMode(m) PROVE SessionInv'
  BY <1>4, SwitchModeKeeps
<1>5. ASSUME UNCHANGED sessionVars PROVE SessionInv'
  <2>1. /\ mode' = mode /\ using' = using /\ busy' = busy /\ chat' = chat
        /\ controller' = controller /\ turn' = turn /\ stream' = stream
        /\ quitting' = quitting /\ aborts' = aborts
    BY <1>5 DEF sessionVars
  <2>2. /\ Types' /\ OneGoes' /\ LastBook' /\ ChatBook'
    BY <2>1 DEF SessionInv, Types, OneGoes, LastBook, ChatBook, Going
  <2>3. SessionBook'
    BY <2>1 DEF SessionInv, SessionBook, InGraph
  <2>4. \A t \in Turns: StageBook(t)' /\ EventBook(t)'
    BY <2>1, TurnKept DEF SessionInv, Told
  <2> QED BY <2>2, <2>3, <2>4 DEF SessionInv
<1> QED BY <1>1, <1>2, <1>3, <1>4, <1>5, AbortKeeps, QuitKeeps DEF SessionNext
LEMMA SessionAlways == SessionInit /\ [][SessionNext]_sessionVars => []SessionInv
BY SessionBegins, SessionStep, PTL

-----------------------------------------------------------------------------
(***************************************************************************)
(* What the inductive invariant tells.                                     *)
(***************************************************************************)
LEMMA EventsToldInOrder == SessionInv => EventsInOrder
<1> SUFFICES ASSUME SessionInv, NEW t \in Turns
             PROVE  LET shown == turn[t].shown
                        upTo == IF stream[t].closedAt = 0 THEN turn[t].sent ELSE stream[t].closedAt
                    IN  /\ \A i \in 1..Len(shown): i > 1 => shown[i - 1] < shown[i]
                        /\ \A i \in 1..Len(shown): shown[i] \in 1..upTo /\ shown[i] \notin stream[t].dropped
                        /\ turn[t].pc = "over" =>
                             \/ quitting /\ \A i \in 1..Len(chat): chat[i] # Said(t, turn[t].result.what)
                             \/ 1..upTo = {shown[i]: i \in 1..Len(shown)} \cup stream[t].dropped
  BY DEF EventsInOrder
<1>1. EventBook(t) /\ turn[t].result.what # "user"
  BY DEF SessionInv, Types
<1>2. (\E i \in 1..Len(chat): chat[i] = Said(t, turn[t].result.what)) => Told(t)
  BY <1>1 DEF Told, Said
<1> QED BY <1>1, <1>2 DEF EventBook, ShownRight, Complete, UpTo

LEMMA OneRunGoes == SessionInv => OneRun
<1> SUFFICES ASSUME SessionInv PROVE OneRun
  OBVIOUS
<1>1. \A t \in Turns: InFlight(t) => Going(t)
  BY SessionBasics DEF InFlight
<1>2. \A t, u \in Turns: InFlight(t) /\ InFlight(u) => t = u
  BY <1>1 DEF SessionInv, OneGoes
<1> DEFINE S == {t \in Turns: InFlight(t)}
<1>3. Cardinality(S) <= 1
  <2>1. CASE S = {}
    <3>1. Cardinality(S) = 0
      BY <2>1, FS_EmptySet
    <3> QED BY <3>1
  <2>2. CASE S # {}
    <3>1. PICK t \in Turns: S = {t}
      BY <1>2, <2>2
    <3> HIDE DEF S
    <3>2. Cardinality(S) = 1
      BY <3>1, FS_Singleton
    <3> QED BY <3>2
  <2> QED BY <2>1, <2>2
<1>4. /\ busy <=> \E t \in Turns: turn[t].pc \in Streaming
      /\ \A t \in Turns: InFlight(t) => busy /\ turn[t].ctl = using
  BY <1>1 DEF SessionInv, OneGoes, Going
<1> QED BY <1>3, <1>4 DEF OneRun

LEMMA StoryIsTold == SessionInv => StoryIsTrue
<1> SUFFICES ASSUME SessionInv PROVE StoryIsTrue
  OBVIOUS
<1>1. Answering(chat)
  BY DEF SessionInv, ChatBook, Answering
<1>3. ASSUME NEW t \in Turns, turn[t].pc = "over", ~quitting, turn[t].result.what # "empty"
      PROVE  \E i \in 1..Len(chat): chat[i] = turn[t].result
  <2>1. Told(t)
    BY <1>3 DEF SessionInv, EventBook
  <2> QED BY <2>1 DEF SessionInv, ChatBook, Told
<1>2. ASSUME NEW k \in 1..Len(controller)
      PROVE  LET s == controller[k].session
             IN  /\ Answering(s)
                 /\ \A i \in 1..Len(s):
                      s[i].what = "user" /\ (i < Len(s) => s[i + 1].what = "user") =>
                          \/ turn[s[i].turn].result.what = "empty"
                          \/ i = Len(s) /\ InFlight(s[i].turn)
  <2> DEFINE s == controller[k].session
  <2>1. SessionOf(s, k, turn)
    BY DEF SessionInv, SessionBook
  <2> HIDE DEF s
  <2>2. Answering(s)
    BY <2>1 DEF SessionOf, Paired, Answering
  <2>3. /\ Len(s) > 0 /\ s[Len(s)].what = "user" =>
             turn[s[Len(s)].turn].result.what = "empty" \/ InFlight(s[Len(s)].turn)
        /\ Len(s) \in Nat
    <3>1. Settled(s, turn) \/ \E t \in Turns: turn[t].run \in {"graph", "ended"} /\ AsksLast(s, t)
      BY <2>1 DEF SessionOf
    <3>2. ASSUME NEW t \in Turns, turn[t].run \in {"graph", "ended"}, AsksLast(s, t)
          PROVE  InFlight(s[Len(s)].turn)
      BY <3>2, SaysTruly DEF AsksLast, InFlight, RunStages
    <3>3. Len(s) \in Nat
      BY DEF SessionInv, Types, ControllerSet, s
    <3> QED BY <3>1, <3>2, <3>3 DEF Settled, SilentlyDone
  <2>4. ASSUME NEW i \in 1..Len(s), s[i].what = "user", i < Len(s) => s[i + 1].what = "user"
        PROVE  turn[s[i].turn].result.what = "empty" \/ (i = Len(s) /\ InFlight(s[i].turn))
    <3>1. CASE i < Len(s)
      BY <2>1, <2>4, <3>1 DEF SessionOf, Paired, SilentlyDone
    <3>2. CASE i = Len(s)
      BY <2>3, <2>4, <3>2
    <3> QED BY <2>3, <3>1, <3>2
  <2> QED BY <2>2, <2>4 DEF s
<1> QED BY <1>1, <1>2, <1>3 DEF StoryIsTrue

LEMMA TypesAreKept == SessionInv => SessionTypeOK
<1> SUFFICES ASSUME SessionInv PROVE SessionTypeOK
  OBVIOUS
<1>1. ASSUME NEW k \in 1..Len(controller) PROVE controller[k].last.what \in Outcomes \cup {"none"}
  <2>1. controller[k] \in ControllerSet /\ controller[k].last.what # "user"
    BY DEF SessionInv, Types
  <2> QED BY <2>1 DEF ControllerSet, Message
<1>2. ASSUME NEW t \in Turns
      PROVE  /\ turn[t].pc \in Streaming \cup {"unused", "scheduled", "dropped", "over"}
             /\ turn[t].run \in RunStages \cup {"none", "done"}
             /\ turn[t].result.what \in Outcomes \cup {"none"}
             /\ Len(stream[t].queue) <= QueueMax
  <2>1. turn[t] \in TurnSet /\ turn[t].result.what # "user" /\ Len(stream[t].queue) <= QueueMax
    BY DEF SessionInv, Types
  <2> QED BY <2>1 DEF TurnSet, Message
<1> QED BY <1>1, <1>2 DEF SessionTypeOK, SessionInv, Types
-----------------------------------------------------------------------------
(***************************************************************************)
(* The application: the turns, the engine under every control call, and    *)
(* the engine among aborts.                                                *)
(***************************************************************************)
AmongAborts == INSTANCE RuntimeEngineProofs WITH Controls <- {"abort"}, MaxControls <- 2

Controller == CHOOSE c \in Callers: Callers = {c, Other}

DeskInv ==
    /\ SessionInv
    /\ desk \in {"turns", "controls", "aborts"}
    /\ desk # "aborts" => EngineBook /\ Sole(Controller)
    /\ desk = "aborts" => AmongAborts!EngineInv /\ AmongAborts!EngineBook

LEMMA AbortsAllowed == AmongAborts!EngineAssumption
BY EngineAssumption DEF EngineAssumption, AmongAborts!EngineAssumption

\* The instance whose proofs are used is the one that the application is made of.
LEMMA AbortsGraph ==
    ASSUME NEW g PROVE Aborts!GraphStep(g) <=> AmongAborts!GraphStep(g)
BY DEF
      Aborts!Live, AmongAborts!Live, Aborts!NoRun, AmongAborts!NoRun, Aborts!Done,
      AmongAborts!Done, Aborts!GraphEnters, AmongAborts!GraphEnters, Aborts!GraphReturns,
      AmongAborts!GraphReturns, Aborts!GraphRaises, AmongAborts!GraphRaises,
      Aborts!GraphCancelled, AmongAborts!GraphCancelled, Aborts!GraphIgnoresCancel,
      AmongAborts!GraphIgnoresCancel, Aborts!GraphStep, AmongAborts!GraphStep

LEMMA AbortsOutcome ==
    ASSUME NEW c PROVE Aborts!Outcome(c) <=> AmongAborts!Outcome(c)
BY DEF
      Aborts!Outcome, AmongAborts!Outcome, Aborts!Return, AmongAborts!Return, Aborts!Call,
      AmongAborts!Call

LEMMA AbortsProceed ==
    ASSUME NEW c, NEW hit PROVE Aborts!Proceed(c, hit) <=> AmongAborts!Proceed(c, hit)
BY DEF
      Aborts!Proceed, AmongAborts!Proceed, Aborts!Call, AmongAborts!Call, Aborts!RunIds,
      AmongAborts!RunIds, Aborts!NoRun, AmongAborts!NoRun

LEMMA AbortsCaller ==
    ASSUME NEW c PROVE Aborts!CallerStep(c) <=> AmongAborts!CallerStep(c)
BY AbortsOutcome, AbortsProceed DEF
      Aborts!CallerStep, AmongAborts!CallerStep, Aborts!Wake, AmongAborts!Wake, Aborts!Poll,
      AmongAborts!Poll, Aborts!Await, AmongAborts!Await, Aborts!IsDone, AmongAborts!IsDone,
      Aborts!Done, AmongAborts!Done, Aborts!Cancelled, AmongAborts!Cancelled

LEMMA AbortsArun ==
    ASSUME NEW c PROVE Aborts!Arun(c) <=> AmongAborts!Arun(c)
BY AbortsProceed DEF
      Aborts!Arun, AmongAborts!Arun, Aborts!MayBegin, AmongAborts!MayBegin, Aborts!RunIds,
      AmongAborts!RunIds, Aborts!NoRun, AmongAborts!NoRun, Aborts!Call, AmongAborts!Call

LEMMA AbortsControls ==
    /\ Aborts!Pause <=> AmongAborts!Pause
    /\ Aborts!Resume <=> AmongAborts!Resume
    /\ Aborts!Abort <=> AmongAborts!Abort
    /\ Aborts!Reset <=> AmongAborts!Reset
BY DEF
      Aborts!Pause, AmongAborts!Pause, Aborts!Resume, AmongAborts!Resume, Aborts!Abort,
      AmongAborts!Abort, Aborts!Reset, AmongAborts!Reset, Aborts!Control,
      AmongAborts!Control, Aborts!Cancelled, AmongAborts!Cancelled, Aborts!Done,
      AmongAborts!Done, Aborts!InArun, AmongAborts!InArun

LEMMA AbortsCancel ==
    ASSUME NEW c PROVE Aborts!CancelCaller(c) <=> AmongAborts!CancelCaller(c)
BY DEF
      Aborts!CancelCaller, AmongAborts!CancelCaller, Aborts!Control, AmongAborts!Control

LEMMA AbortStep ==
    ASSUME Aborts!EngineNext
    PROVE  AmongAborts!EngineNext
<1>1. \A g: g \in Aborts!RunIds <=> g \in AmongAborts!RunIds
  BY DEF Aborts!RunIds, AmongAborts!RunIds
<1> QED BY <1>1, AbortsGraph, AbortsCaller, AbortsArun, AbortsControls, AbortsCancel
        DEF Aborts!EngineNext, AmongAborts!EngineNext

LEMMA ControllerIs == Callers = {Controller, Other}
BY DesksAssumption DEF DesksAssumption, Controller

LEMMA DeskInit == Init => DeskInv
<1> SUFFICES ASSUME Init PROVE DeskInv
  OBVIOUS
<1>1. SessionInit /\ EngineInit /\ desk \in {"turns", "controls", "aborts"}
  BY DEF Init
<1>2. SessionInv /\ EngineBook /\ Sole(Controller)
  BY <1>1, SessionBegins, EngineBookInit, SoleInit
<1>3. AmongAborts!EngineInit
  BY <1>1 DEF EngineInit, AmongAborts!EngineInit, RunIds, AmongAborts!RunIds, NoRun,
              AmongAborts!NoRun, Idle, AmongAborts!Idle, Call, AmongAborts!Call
<1>4. AmongAborts!EngineInv /\ AmongAborts!EngineBook
  BY <1>3, AbortsAllowed, AmongAborts!EngineInvInit, AmongAborts!EngineBookInit
<1> QED BY <1>1, <1>2, <1>4 DEF DeskInv

LEMMA DeskNext == DeskInv /\ [Next]_vars => DeskInv'
<1> SUFFICES ASSUME DeskInv, [Next]_vars PROVE DeskInv'
  OBVIOUS
<1> USE DEF DeskInv
<1>1. ASSUME UNCHANGED engineVars, UNCHANGED desk PROVE
         /\ desk # "aborts" => EngineBook' /\ Sole(Controller)'
         /\ desk = "aborts" => AmongAborts!EngineInv' /\ AmongAborts!EngineBook'
  <2>1. desk # "aborts" => EngineBook'
    BY <1>1, EngineBookNext
  <2>2. desk # "aborts" => Sole(Controller)'
    BY <1>1 DEF engineVars, Sole, Hears
  <2>3. UNCHANGED AmongAborts!engineVars
    BY <1>1 DEF engineVars, AmongAborts!engineVars
  <2>4. desk = "aborts" => AmongAborts!EngineInv' /\ AmongAborts!EngineBook'
    BY <2>3, AbortsAllowed, AmongAborts!EngineInvNext, AmongAborts!EngineBookNext
  <2> QED BY <2>1, <2>2, <2>4
<1>2. CASE AtTurns
  <2>1. SessionInv'
    BY <1>2, SessionStep DEF AtTurns
  <2> QED BY <1>1, <1>2, <2>1 DEF AtTurns
<1>3. ASSUME UNCHANGED sessionVars PROVE SessionInv'
  BY <1>3, SessionStep
<1>4. CASE Controlled
  <2>1. desk = "controls" /\ EngineNext /\ call'[Other] = Idle /\ UNCHANGED <<desk, sessionVars>>
    BY <1>4 DEF Controlled
  <2>2. EngineBook'
    BY <2>1, EngineBookNext
  <2>3. \A c \in Callers \ {Controller}: call'[c].pc = "idle"
    BY <2>1, ControllerIs DEF Idle, Call
  <2>4. Sole(Controller)'
    BY <2>1, <2>3, SoleNext
  <2> QED BY <1>3, <2>1, <2>2, <2>4
<1>5. CASE Aborted
  <2>1. desk = "aborts" /\ AmongAborts!EngineNext /\ UNCHANGED <<desk, sessionVars>>
    BY <1>5, AbortStep DEF Aborted
  <2>2. AmongAborts!EngineInv' /\ AmongAborts!EngineBook'
    BY <2>1, AbortsAllowed, AmongAborts!EngineInvNext, AmongAborts!EngineBookNext
  <2> QED BY <1>3, <2>1, <2>2
<1>6. CASE UNCHANGED vars
  BY <1>1, <1>3, <1>6 DEF vars
<1> QED BY <1>2, <1>4, <1>5, <1>6 DEF Next

LEMMA DeskAlways == Spec => []DeskInv
BY DeskInit, DeskNext, PTL DEF Spec

\* What the engine's invariants say, at each desk.
LEMMA EngineTypesKept == DeskInv => EngineTypeOK
<1> SUFFICES ASSUME DeskInv PROVE EngineTypeOK
  OBVIOUS
<1>1. CASE desk # "aborts"
  BY <1>1, EngineBookTypes DEF DeskInv
<1>2. CASE desk = "aborts"
  <2>1. AmongAborts!EngineTypeOK
    BY <1>2, AbortsAllowed, AmongAborts!EngineBookTypes DEF DeskInv
  <2>2. \A n \in 0..2: n \in 0..MaxControls
    BY DesksAssumption, EngineAssumption DEF DesksAssumption, EngineAssumption
  <2> QED BY <2>1, <2>2 DEF AmongAborts!EngineTypeOK, EngineTypeOK, AmongAborts!Status, Status,
           AmongAborts!RunIds, RunIds, AmongAborts!Done, Done, AmongAborts!InArun, InArun
<1> QED BY <1>1, <1>2

LEMMA AbortsAreTold == DeskInv => AbortIsReported
<1> SUFFICES ASSUME DeskInv PROVE AbortIsReported
  OBVIOUS
<1>1. CASE desk # "aborts"
  BY <1>1 DEF DeskInv, Sole, Hears, AbortIsReported
<1>2. CASE desk = "aborts"
  BY <1>2 DEF DeskInv, AmongAborts!EngineInv, AmongAborts!AbortIsReported, AbortIsReported
<1> QED BY <1>1, <1>2

LEMMA OneRunAmongAborts == DeskInv /\ desk = "aborts" => OneGraphRun
<1> SUFFICES ASSUME DeskInv, desk = "aborts", NEW g \in RunIds, NEW h \in RunIds, Live(g), Live(h)
             PROVE  g = h
  BY DEF OneGraphRun
<1> USE DEF DeskInv, AmongAborts!EngineInv
<1>1. AmongAborts!Live(g) /\ AmongAborts!Live(h)
      /\ g \in AmongAborts!RunIds /\ h \in AmongAborts!RunIds
  BY DEF Live, AmongAborts!Live, RunIds, AmongAborts!RunIds
<1>2. PICK c \in Callers: AmongAborts!Watching(c) /\ call[c].run = g
  BY <1>1 DEF AmongAborts!LiveIsWatched
<1>3. PICK d \in Callers: AmongAborts!Watching(d) /\ call[d].run = h
  BY <1>1 DEF AmongAborts!LiveIsWatched
<1> QED BY <1>2, <1>3 DEF AmongAborts!Watched

LEMMA StartsUnpausedAtDesks ==
    ASSUME DeskInv, [Next]_vars, NEW g \in RunIds, graph[g] = NoRun, graph'[g] # NoRun
    PROVE  ~paused
<1>1. CASE Controlled
  BY <1>1, StartsUnpaused DEF DeskInv, Controlled
<1>2. CASE Aborted
  <2>1. AmongAborts!EngineBook /\ AmongAborts!EngineNext
    BY <1>2, AbortStep DEF DeskInv, Aborted
  <2>2. g \in AmongAborts!RunIds /\ graph[g] = AmongAborts!NoRun /\ graph'[g] # AmongAborts!NoRun
    BY DEF RunIds, AmongAborts!RunIds, NoRun, AmongAborts!NoRun
  <2> QED BY <2>1, <2>2, AbortsAllowed, AmongAborts!StartsUnpaused
<1>3. CASE AtTurns \/ UNCHANGED vars
  BY <1>3 DEF AtTurns, vars, engineVars
<1> QED BY <1>1, <1>2, <1>3 DEF Next

\* The values of the application's state: every turn, stream, controller and engine has its
\* kind, a queue of stream events never holds more than QueueMax, and the graph run that
\* an abort would cancel is one that a caller of arun watches.
THEOREM SessionIsTyped == Spec => []TypeOK
<1>1. DeskInv => TypeOK
  BY TypesAreKept, EngineTypesKept DEF DeskInv, TypeOK
<1> QED BY <1>1, DeskAlways, PTL

\* RuntimeAlreadyRunningError: for any number of inputs, however modes are switched and
\* turns aborted, at most one input is in flight, on the controller in use; and any
\* number of callers that abort one another have one graph run at a time.
THEOREM OneRunGoesOn == Spec => []OneRunAtATime
<1>1. DeskInv => OneRunAtATime
  BY OneRunGoes, OneRunAmongAborts DEF DeskInv, OneRunAtATime
<1> QED BY <1>1, DeskAlways, PTL

\* The chat and the sessions of the controllers tell each turn as it ended, question
\* before answer; and an engine that was told to abort never reports a finished run,
\* whatever else is paused, reset or cancelled.
THEOREM OutcomesAreHeld == Spec => []OutcomesAreTold
<1>1. DeskInv => OutcomesAreTold
  BY StoryIsTold, AbortsAreTold DEF DeskInv, OutcomesAreTold
<1> QED BY <1>1, DeskAlways, PTL

\* The events of a run are shown in the order they were emitted, none twice; and once the
\* turn's outcome is in the chat, all of them that were emitted before the stream closed and
\* were not dropped from a full queue.
THEOREM EventsHold == Spec => []EventsInOrder
<1>1. DeskInv => EventsInOrder
  BY EventsToldInOrder DEF DeskInv
<1> QED BY <1>1, DeskAlways, PTL

\* No graph run begins while the engine is paused, at any desk.
THEOREM SessionPausesHold == Spec => NothingStartsPaused
<1>1. DeskInv /\ [Next]_vars =>
         [\A g \in RunIds: graph[g] = NoRun /\ graph'[g] # NoRun => ~paused]_engineVars
  BY StartsUnpausedAtDesks
<1>2. Spec => [][Next]_vars
  BY DEF Spec
<1> QED BY <1>1, <1>2, DeskAlways, PTL DEF NothingStartsPaused
=============================================================================
