----------------------------- MODULE TurnsProofs -----------------------------
(***************************************************************************)
(* The turns of a session for any set of subscriptions and any number of   *)
(* turns: every relay is fed as TurnFeed promises, and none of them sleeps *)
(* through a turn.                                                         *)
(***************************************************************************)
EXTENDS Turns, TLAPS

\* A turn that the daemon has begun and the session has still to publish is in one
\* worker's hand, and is not published.
Begun ==
    /\ \A t \in published : status[t] # "none"
    /\ \A c \in Clients : wpc[c] = "replied" =>
          /\ reply[c] \notin published
          /\ status[reply[c]] # "none"
          /\ \A d \in Clients : wpc[d] = "replied" /\ reply[d] = reply[c] => d = c

\* current, and what a relay knows of turns, was published.
Known ==
    /\ current \in published \cup {0}
    /\ published # {} => current # 0
    /\ \A c \in Clients : /\ turnIn[c] \in published \cup {0}
                          /\ shown[c] \subseteq published
                          /\ last[c] \in shown[c] \cup {0}
                          /\ wpc[c] = "stopping" => reply[c] \in published

\* How far a relay is.
Course ==
    \A c \in Clients :
        /\ wpc[c] = "out" => rpc[c] = "off" /\ ~joined[c]
        /\ ~joined[c] => last[c] = 0
        /\ rpc[c] = "first" => ~joined[c]
        /\ rpc[c] \in {"start", "events", "wait"} => joined[c]
        /\ rpc[c] \in {"start", "events"} => turnIn[c] # 0

\* A relay that has still to decide on a turn has not shown it.
Undecided ==
    \A c \in Clients :
        /\ rpc[c] = "first" /\ ~woken[c] => turnIn[c] = current
        /\ rpc[c] \in {"first", "start"} => turnIn[c] \notin shown[c]

\* If the current turn has been shown, it is the last that was.
LastShown ==
    \A c \in Clients :
        current \in shown[c] => joined[c] /\ last[c] = current /\ rpc[c] # "start"

Inv == TypeOK /\ Begun /\ Known /\ Course /\ Undecided /\ LastShown /\ NoLostTurn

-----------------------------------------------------------------------------
LEMMA TurnFacts == 0 \notin Turns /\ \A t \in Turns : t # 0
BY TurnsAssumption DEF Turns

LEMMA InvStart == Init => Inv
BY TurnFacts
   DEF Init, Inv, TypeOK, Begun, Known, Course, Undecided, LastShown, NoLostTurn

LEMMA WorkerStep ==
    ASSUME NEW c \in Clients, Inv, Worker(c)
    PROVE  Inv'
<1> USE TurnFacts
    DEF Inv, TypeOK, Begun, Known, Course, Undecided, LastShown, NoLostTurn,
        sessionVars, workerVars, relayVars
<1>1. CASE Subscribe(c)
  BY <1>1 DEF Subscribe
<1>2. CASE Unsubscribe(c)
  BY <1>2 DEF Unsubscribe
<1>3. CASE Send(c)
  BY <1>3 DEF Send
<1>4. CASE Publish(c)
  BY <1>4 DEF Publish, Closed
<1>5. CASE StopReads(c)
  BY <1>5 DEF StopReads, HasTurn
<1>6. CASE StopActs(c)
  BY <1>6 DEF StopActs, Done
<1> QED BY <1>1, <1>2, <1>3, <1>4, <1>5, <1>6 DEF Worker

LEMMA RelayStep ==
    ASSUME NEW c \in Clients, Inv, Relay(c)
    PROVE  Inv'
<1> USE TurnFacts
    DEF Inv, TypeOK, Begun, Known, Course, Undecided, LastShown, NoLostTurn,
        sessionVars, workerVars, relayVars
<1>1. CASE Look(c)
  BY <1>1 DEF Look, Turned
<1>2. CASE FirstLook(c)
  BY <1>2 DEF FirstLook, Turned, Skipped
<1>3. CASE Start(c)
  BY <1>3 DEF Start
<1>4. CASE End(c)
  BY <1>4 DEF End
<1>5. CASE Wake(c)
  BY <1>5 DEF Wake
<1>6. CASE Return(c)
  BY <1>6 DEF Return
<1> QED BY <1>1, <1>2, <1>3, <1>4, <1>5, <1>6 DEF Relay

LEMMA InvStep == Inv /\ [Next]_vars => Inv'
<1> SUFFICES ASSUME Inv, [Next]_vars PROVE Inv'
  OBVIOUS
<1>1. ASSUME NEW t \in Turns, Finish(t) PROVE Inv'
  BY <1>1 DEF Finish, Inv, TypeOK, Begun, Known, Course, Undecided, LastShown, NoLostTurn,
              sessionVars, workerVars, relayVars
<1>2. CASE UNCHANGED vars
  BY <1>2 DEF Inv, TypeOK, Begun, Known, Course, Undecided, LastShown, NoLostTurn,
              vars, sessionVars, workerVars, relayVars
<1> QED BY <1>1, <1>2, WorkerStep, RelayStep DEF Next

LEMMA Reached == Spec => []Inv
BY InvStart, InvStep, PTL DEF Spec

-----------------------------------------------------------------------------
\* Every variable has its type.
THEOREM TurnsTyping == Spec => []TypeOK
<1>1. Inv => TypeOK
  BY DEF Inv
<1> QED BY <1>1, Reached, PTL

\* No relay sleeps through a turn: while the channel it waits on is open, it has dealt
\* with the turn that is current.
THEOREM NoneLost == Spec => []NoLostTurn
<1>1. Inv => NoLostTurn
  BY DEF Inv
<1> QED BY <1>1, Reached, PTL

-----------------------------------------------------------------------------
(* The refinement. *)

LEMMA FeedStart == Init => F!FeedInit
BY DEF Init, F!FeedInit, At

\* What a viewer is to TurnFeed, by the names TurnFeed has for it.
Viewer == [c \in Clients |-> At(c)]
Chosen == [c \in Clients |-> IF rpc[c] \in {"first", "start"} THEN turnIn[c] ELSE 0]
Open == [c \in Clients |-> IF rpc[c] = "events" THEN turnIn[c] ELSE 0]
Resting == [c \in Clients |-> rpc[c] = "wait" /\ ~woken[c]]

LEMMA NowWaits ==
    ASSUME TypeOK, NEW c \in Clients, rpc' = [rpc EXCEPT ![c] = "wait"], woken' = woken
    PROVE  IF woken[c] THEN Resting' = [Resting EXCEPT ![c] = FALSE]
                       ELSE Resting' = [Resting EXCEPT ![c] = TRUE]
<1>1. rpc'[c] = "wait" /\ \A d \in Clients : d # c => rpc'[d] = rpc[d]
  BY DEF TypeOK
<1>2. CASE woken[c]
  BY <1>1, <1>2 DEF Resting
<1>3. CASE ~woken[c]
  BY <1>1, <1>3 DEF Resting
<1> QED BY <1>2, <1>3

\* What a step of a relay does to its viewer.
LEMMA RelayFeeds ==
    ASSUME NEW c \in Clients, Inv, Relay(c)
    PROVE  [F!FeedNext]_F!feedVars
<1> USE TurnFacts DEF Inv, TypeOK, Known, Course, Undecided, sessionVars, workerVars
<1>1. CASE Look(c)
  <2> USE <1>1 DEF Look, Turned
  <2>1. CASE joined[c] /\ current # 0 /\ current # last[c]
    <3>1. current \notin shown[c] /\ shown' = shown
      BY <2>1 DEF LastShown
    <3>2. Viewer[c] = "in" /\ Viewer' = Viewer
      BY <2>1 DEF Viewer, At
    <3>3. Chosen[c] = 0 /\ Chosen' = [Chosen EXCEPT ![c] = current]
      BY <2>1 DEF Chosen
    <3>4. Open[c] = 0 /\ Open' = Open
      BY <2>1 DEF Open
    <3>5. ~Resting[c] /\ Resting' = Resting
      BY <2>1 DEF Resting
    <3>6. F!Choose(c)
      BY <2>1, <3>1, <3>2, <3>3, <3>4, <3>5
         DEF F!Choose, F!Free, F!UpToDate, Viewer, Chosen, Open, Resting
    <3> QED BY <3>6 DEF F!FeedNext
  <2>2. CASE joined[c] /\ (current = 0 \/ current = last[c])
    <3>1. current \in shown[c] \cup {0} /\ shown' = shown
      BY <2>2
    <3>2. Viewer[c] = "in" /\ Viewer' = Viewer
      BY <2>2 DEF Viewer, At
    <3>3. Chosen[c] = 0 /\ Chosen' = Chosen
      BY <2>2 DEF Chosen
    <3>4. Open[c] = 0 /\ Open' = Open
      BY <2>2 DEF Open
    <3>5. ~Resting[c] /\ Resting' = [Resting EXCEPT ![c] = TRUE]
      BY <2>2 DEF Resting
    <3>6. F!Rest(c)
      BY <3>1, <3>2, <3>3, <3>4, <3>5
         DEF F!Rest, F!Free, F!UpToDate, Viewer, Chosen, Open, Resting
    <3> QED BY <3>6 DEF F!FeedNext
  <2>3. CASE ~joined[c]
    <3>1. shown' = [shown EXCEPT ![c] = published \ {current}]
      BY <2>3
    <3>2. Viewer[c] = "out" /\ Viewer' = [Viewer EXCEPT ![c] = "arriving"]
      BY <2>3 DEF Viewer, At
    <3>3. Chosen' = [Chosen EXCEPT ![c] = current]
      BY <2>3 DEF Chosen
    <3>4. Open' = Open
      BY <2>3 DEF Open
    <3>5. Resting' = Resting
      BY <2>3 DEF Resting
    <3>6. F!Arrive(c)
      BY <3>1, <3>2, <3>3, <3>4, <3>5 DEF F!Arrive, Viewer, Chosen, Open, Resting
    <3> QED BY <3>6 DEF F!FeedNext
  <2> QED BY <2>1, <2>2, <2>3
<1>2. CASE FirstLook(c)
  <2> USE <1>2 DEF FirstLook, Turned
  <2>1. Viewer[c] = "arriving" /\ Viewer' = [Viewer EXCEPT ![c] = "in"]
    BY DEF Viewer, At
  <2>2. Open' = Open
    BY DEF Open
  <2>3. Chosen[c] = turnIn[c] /\ ~Resting[c]
    BY DEF Chosen, Resting
  <2>4. CASE turnIn[c] # 0 /\ ~Skipped(turnIn[c])
    <3>1. rpc'[c] = "start" /\ shown' = shown
      BY <2>4
    <3>2. Chosen' = Chosen /\ Resting' = Resting
      BY <2>4, <3>1 DEF Chosen, Resting
    <3>3. F!Settle(c)
      BY <2>1, <2>2, <2>3, <2>4, <3>1, <3>2
         DEF F!Settle, Viewer, Chosen, Open, Resting
    <3> QED BY <3>3 DEF F!FeedNext
  <2>5. CASE turnIn[c] = 0 \/ Skipped(turnIn[c])
    <3>1. rpc' = [rpc EXCEPT ![c] = "wait"]
      BY <2>5 DEF Skipped
    <3>2. shown' = [shown EXCEPT ![c] = @ \cup ({Chosen[c]} \ {0})]
      <4>1. CASE Skipped(turnIn[c])
        <5>1. {Chosen[c]} \ {0} = {turnIn[c]}
          BY <2>3, <4>1 DEF Skipped
        <5> QED BY <4>1, <5>1
      <4>2. CASE ~Skipped(turnIn[c])
        <5>1. shown[c] \cup ({Chosen[c]} \ {0}) = shown[c] /\ shown' = shown
          BY <2>3, <2>5, <4>2
        <5> QED BY <5>1
      <4> QED BY <4>1, <4>2
    <3>3. Chosen' = [Chosen EXCEPT ![c] = 0]
      BY <3>1 DEF Chosen
    <3>4. IF woken[c] THEN Resting' = [Resting EXCEPT ![c] = FALSE]
                      ELSE Resting' = [Resting EXCEPT ![c] = TRUE]
      BY <3>1, NowWaits
    <3>6. ~woken[c] => current \in shown'[c] \cup {0}
      BY <2>3, <3>2
    <3>7. \E rests \in BOOLEAN : /\ rests => F!UpToDate(shown'[c])
                                /\ Resting' = [Resting EXCEPT ![c] = rests]
      <4> HIDE DEF Inv, TypeOK, FirstLook
      <4>1. woken[c] => Resting' = [Resting EXCEPT ![c] = FALSE]
        BY <3>4
      <4>2. ~woken[c] => Resting' = [Resting EXCEPT ![c] = TRUE]
        BY <3>4
      <4> QED BY <3>6, <4>1, <4>2 DEF F!UpToDate
    <3>8. F!Settle(c)
      BY <2>1, <2>2, <3>2, <3>3, <3>7 DEF F!Settle, Viewer, Chosen, Open, Resting
    <3> QED BY <3>8 DEF F!FeedNext
  <2> QED BY <2>4, <2>5
<1>3. CASE Start(c)
  <2> USE <1>3 DEF Start
  <2>1. Viewer[c] = "in" /\ Viewer' = Viewer
    BY DEF Viewer, At
  <2>2. Chosen[c] = turnIn[c] /\ Chosen' = [Chosen EXCEPT ![c] = 0]
    BY DEF Chosen
  <2>3. Open[c] = 0 /\ Open' = [Open EXCEPT ![c] = turnIn[c]]
    BY DEF Open
  <2>4. Resting' = Resting
    BY DEF Resting
  <2>5. F!Show(c)
    BY <2>1, <2>2, <2>3, <2>4 DEF F!Show, Viewer, Chosen, Open, Resting
  <2> QED BY <2>5 DEF F!FeedNext
<1>4. CASE End(c)
  <2> USE <1>4 DEF End
  <2>1. Viewer' = Viewer
    BY DEF Viewer, At
  <2>2. Chosen' = Chosen /\ Resting' = Resting
    BY DEF Chosen, Resting
  <2>3. Open[c] # 0 /\ Open' = [Open EXCEPT ![c] = 0]
    BY DEF Open
  <2>4. F!Close(c)
    BY <2>1, <2>2, <2>3 DEF F!Close, Viewer, Chosen, Open, Resting
  <2> QED BY <2>4 DEF F!FeedNext
<1>5. CASE Wake(c)
  <2> USE <1>5 DEF Wake
  <2>1. Viewer' = Viewer
    BY DEF Viewer, At
  <2>2. Chosen' = Chosen /\ Open' = Open /\ Resting' = Resting
    BY DEF Chosen, Open, Resting
  <2> QED BY <2>1, <2>2 DEF F!feedVars, Viewer, Chosen, Open, Resting
<1>6. CASE Return(c)
  <2> USE <1>6 DEF Return
  <2>1. Viewer[c] = "in" /\ Viewer' = [Viewer EXCEPT ![c] = "gone"]
    BY DEF Viewer, At
  <2>2. Chosen' = [Chosen EXCEPT ![c] = 0] /\ Open' = [Open EXCEPT ![c] = 0]
    BY DEF Chosen, Open
  <2>3. Resting' = [Resting EXCEPT ![c] = FALSE]
    BY DEF Resting
  <2>4. F!Leave(c)
    BY <2>1, <2>2, <2>3 DEF F!Leave, Viewer, Chosen, Open, Resting
  <2> QED BY <2>4 DEF F!FeedNext
<1> QED BY <1>1, <1>2, <1>3, <1>4, <1>5, <1>6 DEF Relay

LEMMA WorkerFeeds ==
    ASSUME NEW c \in Clients, Inv, Worker(c)
    PROVE  [F!FeedNext]_F!feedVars
<1> USE DEF Inv, TypeOK, sessionVars, workerVars, relayVars
<1>1. CASE Subscribe(c)
  <2>1. Viewer' = Viewer
    BY <1>1 DEF Subscribe, Course, Viewer, At
  <2>2. Chosen' = Chosen /\ Open' = Open /\ Resting' = Resting
    BY <1>1 DEF Subscribe, Course, Chosen, Open, Resting
  <2> QED BY <1>1, <2>1, <2>2 DEF Subscribe, F!feedVars, Viewer, Chosen, Open, Resting
<1>2. CASE Publish(c)
  <2>1. Viewer' = Viewer
    BY <1>2 DEF Publish, Viewer, At
  <2>2. Chosen' = Chosen /\ Open' = Open
    BY <1>2 DEF Publish, Chosen, Open
  <2>3. Resting' = [d \in Clients |-> FALSE]
    BY <1>2 DEF Publish, Closed, Resting
  <2>4. reply[c] \in Turns /\ reply[c] \notin published
    BY <1>2 DEF Publish, Begun
  <2>5. /\ current' = reply[c] /\ published' = published \cup {reply[c]}
        /\ shown' = shown
    BY <1>2 DEF Publish
  <2> HIDE DEF Inv, TypeOK
  <2>6. PICK t \in Turns : t = reply[c]
    BY <2>4
  <2>7. F!PublishOne(t)
    BY <2>1, <2>2, <2>3, <2>4, <2>5, <2>6
       DEF F!PublishOne, Viewer, Chosen, Open, Resting
  <2> QED BY <2>7 DEF F!FeedNext
<1>3. CASE Unsubscribe(c) \/ Send(c) \/ StopReads(c) \/ StopActs(c)
  BY <1>3 DEF Unsubscribe, Send, StopReads, StopActs, F!feedVars, At, relayVars
<1> QED BY <1>1, <1>2, <1>3 DEF Worker

\* Each viewer is shown published turns only, each at most once, one at a time; it takes
\* the newest whenever it looks, and rests only if that is not new to it.
THEOREM Feeds == Spec => FeedsTurns
<1>1. Init => F!FeedInit
  BY FeedStart
<1>2. Inv /\ [Next]_vars => [F!FeedNext]_F!feedVars
  <2> SUFFICES ASSUME Inv, [Next]_vars PROVE [F!FeedNext]_F!feedVars
    OBVIOUS
  <2>1. ASSUME NEW t \in Turns, Finish(t) PROVE UNCHANGED F!feedVars
    BY <2>1 DEF Finish, F!feedVars, sessionVars, workerVars, relayVars, At
  <2>2. CASE UNCHANGED vars
    BY <2>2 DEF vars, F!feedVars, sessionVars, workerVars, relayVars, At
  <2> QED BY <2>1, <2>2, RelayFeeds, WorkerFeeds DEF Next
<1> QED BY <1>1, <1>2, Reached, PTL DEF Spec, FeedsTurns, F!Feed
=============================================================================
