------------------------------- MODULE Turns -------------------------------
(***************************************************************************)
(* The turns of one session (src/session.go) and the goroutine that relays *)
(* them to a subscription (streamTurns in src/socket.go).                  *)
(*                                                                         *)
(* A client is one subscription: the worker that sends, stops and          *)
(* unsubscribes, and the relaying goroutine.  The daemon runs one turn at  *)
(* a time (a send during a turn is refused as busy and changes nothing).   *)
(* Turns are numbered in the order the daemon begins them.  What a relay   *)
(* emits between a turn's first and last frame is not told apart: the      *)
(* reply, which is the SDK's, replays its events to every relay.           *)
(***************************************************************************)
EXTENDS Naturals, FiniteSets

CONSTANTS
    Clients,    \* subscriptions to the session
    Past,       \* turns of the conversation before this session
    MaxTurns    \* bound on the turns begun

ASSUME TurnsAssumption == MaxTurns \in Nat /\ Past \in 0 .. MaxTurns

Turns == 1 .. MaxTurns

VARIABLES
    status,     \* of each turn: not begun, running, or how it ended
    current,    \* session.current, 0 for nil
    wpc, reply, \* a worker's control point and the reply it has in hand
    live,       \* the subscription's context
    rpc,        \* a relay's control point
    joined,     \* turns: the first look at current is over
    last,       \* turns: the turn yielded last
    turnIn,     \* turns: the turn read from current, and yielded
    woken,      \* turns: the channel read together with it is closed
    published,  \* history: the turns that have been current
    shown       \* history: turns a relay has started, or came too late for

sessionVars == <<current, published>>
workerVars == <<wpc, reply, live>>
relayVars == <<rpc, joined, last, turnIn, woken, shown>>
vars == <<status, sessionVars, workerVars, relayVars>>

Init ==
    /\ status = [t \in Turns |-> IF t <= Past THEN "ok" ELSE "none"]
    /\ current = 0
    /\ wpc = [c \in Clients |-> "out"]
    /\ reply = [c \in Clients |-> 0]
    /\ live = [c \in Clients |-> FALSE]
    /\ rpc = [c \in Clients |-> "off"]
    /\ joined = [c \in Clients |-> FALSE]
    /\ last = [c \in Clients |-> 0]
    /\ turnIn = [c \in Clients |-> 0]
    /\ woken = [c \in Clients |-> FALSE]
    /\ published = {}
    /\ shown = [c \in Clients |-> {}]

-----------------------------------------------------------------------------
(* The daemon. *)

Done(t) == status[t] \in {"ok", "failed"}
Running == {t \in Turns : status[t] = "running"}

Finish(t) ==
    /\ status[t] = "running"
    /\ \E how \in {"ok", "failed"} : status' = [status EXCEPT ![t] = how]
    /\ UNCHANGED <<sessionVars, workerVars, relayVars>>

-----------------------------------------------------------------------------
(* The worker: subscribe, session.send, session.interrupt, unsubscribe. *)

Subscribe(c) ==
    /\ wpc[c] = "out"
    /\ wpc' = [wpc EXCEPT ![c] = "idle"]
    /\ live' = [live EXCEPT ![c] = TRUE]
    /\ rpc' = [rpc EXCEPT ![c] = "look"]
    /\ UNCHANGED <<status, sessionVars, reply, joined, last, turnIn, woken, shown>>

\* conversation.Send, off the session's lock: the turn begins, and may even end,
\* before the session knows of it.
Send(c) ==
    /\ wpc[c] = "idle"
    /\ Running = {}
    /\ \E t \in Turns :
          /\ status[t] = "none"
          /\ \A u \in Turns : u < t => status[u] # "none"
          /\ status' = [status EXCEPT ![t] = "running"]
          /\ reply' = [reply EXCEPT ![c] = t]
    /\ wpc' = [wpc EXCEPT ![c] = "replied"]
    /\ UNCHANGED <<sessionVars, live, relayVars>>

\* Mutant: only a relay that waits already is woken.
ClosedForWaiting == [v \in Clients |-> rpc[v] = "wait"]

\* close(s.turn): the channel in every relay's hand.
Closed == [v \in Clients |-> TRUE]

\* The rest of send, under the lock.
Publish(c) ==
    /\ wpc[c] = "replied"
    /\ wpc' = [wpc EXCEPT ![c] = "idle"]
    /\ current' = reply[c]
    /\ woken' = Closed
    /\ published' = published \cup {reply[c]}
    /\ reply' = [reply EXCEPT ![c] = 0]
    /\ UNCHANGED <<status, live, rpc, joined, last, turnIn, shown>>

\* Mutant: interrupt does not ask whether there was a turn.
HasTurnUnasked == TRUE

HasTurn == current # 0

\* interrupt reads current under the lock, and acts on it after.
StopReads(c) ==
    /\ wpc[c] = "idle"
    /\ HasTurn
    /\ wpc' = [wpc EXCEPT ![c] = "stopping"]
    /\ reply' = [reply EXCEPT ![c] = current]
    /\ UNCHANGED <<status, sessionVars, live, relayVars>>

\* A turn that is over by then is left alone; the daemon ends one that is not.
StopActs(c) ==
    /\ wpc[c] = "stopping"
    /\ wpc' = [wpc EXCEPT ![c] = "idle"]
    /\ reply' = [reply EXCEPT ![c] = 0]
    /\ status' = [status EXCEPT ![reply[c]] = IF Done(reply[c]) THEN @ ELSE "failed"]
    /\ UNCHANGED <<sessionVars, live, relayVars>>

Unsubscribe(c) ==
    /\ wpc[c] = "idle"
    /\ wpc' = [wpc EXCEPT ![c] = "left"]
    /\ live' = [live EXCEPT ![c] = FALSE]
    /\ UNCHANGED <<status, sessionVars, reply, relayVars>>

-----------------------------------------------------------------------------
(* The relay: session.turns as streamTurns ranges over it. *)

\* Mutant: a turn that was yielded is yielded again.
TurnedAgain(c, t, after) == IF t # 0 THEN "start" ELSE "wait"

\* What turns does with the reply it has read: yield it, or wait on the channel.
Turned(c, t, after) == IF t # 0 /\ t # after THEN "start" ELSE "wait"

\* current and the channel are read in one critical section.
Look(c) ==
    /\ rpc[c] = "look"
    /\ turnIn' = [turnIn EXCEPT ![c] = current]
    /\ woken' = [woken EXCEPT ![c] = FALSE]
    /\ rpc' = [rpc EXCEPT ![c] =
                 IF joined[c] THEN Turned(c, current, last[c]) ELSE "first"]
    /\ shown' = [shown EXCEPT ![c] = IF joined[c] THEN @ ELSE published \ {current}]
    /\ UNCHANGED <<status, sessionVars, workerVars, joined, last>>

\* Mutant: the last turn is yielded to everyone who arrives.
SkippedNever(t) == FALSE

\* The first time, a turn that is over by now is not replayed.
Skipped(t) == t # 0 /\ Done(t)

FirstLook(c) ==
    /\ rpc[c] = "first"
    /\ joined' = [joined EXCEPT ![c] = TRUE]
    /\ LET t == turnIn[c]
           skipped == Skipped(t)
       IN  /\ last' = [last EXCEPT ![c] = IF skipped THEN t ELSE @]
           /\ shown' = [shown EXCEPT ![c] = IF skipped THEN @ \cup {t} ELSE @]
           /\ rpc' = [rpc EXCEPT ![c] = Turned(c, t, IF skipped THEN t ELSE last[c])]
    /\ UNCHANGED <<status, sessionVars, workerVars, turnIn, woken>>

\* The frame "turn_started".
Start(c) ==
    /\ live[c]
    /\ rpc[c] = "start"
    /\ rpc' = [rpc EXCEPT ![c] = "events"]
    /\ last' = [last EXCEPT ![c] = turnIn[c]]
    /\ shown' = [shown EXCEPT ![c] = @ \cup {turnIn[c]}]
    /\ UNCHANGED <<status, sessionVars, workerVars, joined, turnIn, woken>>

\* Events ends once the turn has; Wait then tells how: "turn_done" or "error".
End(c) ==
    /\ live[c]
    /\ rpc[c] = "events"
    /\ Done(turnIn[c])
    /\ rpc' = [rpc EXCEPT ![c] = "look"]
    /\ UNCHANGED <<status, sessionVars, workerVars, joined, last, turnIn, woken,
                   shown>>

Wake(c) ==
    /\ rpc[c] = "wait"
    /\ woken[c]
    /\ rpc' = [rpc EXCEPT ![c] = "look"]
    /\ UNCHANGED <<status, sessionVars, workerVars, joined, last, turnIn, woken,
                   shown>>

\* With the context done, an emit returns false and a wait returns.
Return(c) ==
    /\ ~live[c]
    /\ rpc[c] \in {"start", "events", "wait"}
    /\ rpc' = [rpc EXCEPT ![c] = "off"]
    /\ UNCHANGED <<status, sessionVars, workerVars, joined, last, turnIn, woken,
                   shown>>

Relay(c) == \/ Look(c) \/ FirstLook(c)
            \/ Start(c) \/ End(c)
            \/ Wake(c) \/ Return(c)

Worker(c) == \/ Subscribe(c) \/ Unsubscribe(c)
             \/ Send(c) \/ Publish(c)
             \/ StopReads(c) \/ StopActs(c)

Next == \/ \E c \in Clients : Worker(c) \/ Relay(c)
        \/ \E t \in Turns : Finish(t)

Spec == Init /\ [][Next]_vars

-----------------------------------------------------------------------------
(* Properties. *)

\* Every variable has its type.
TypeOK ==
    /\ status \in [Turns -> {"none", "running", "ok", "failed"}]
    /\ current \in Turns \cup {0}
    /\ wpc \in [Clients -> {"out", "idle", "replied", "stopping", "left"}]
    /\ reply \in [Clients -> Turns \cup {0}]
    /\ \A c \in Clients : wpc[c] \in {"replied", "stopping"} => reply[c] \in Turns
    /\ live \in [Clients -> BOOLEAN]
    /\ rpc \in [Clients -> {"off", "look", "first", "start", "events", "wait"}]
    /\ joined \in [Clients -> BOOLEAN]
    /\ last \in [Clients -> Turns \cup {0}]
    /\ turnIn \in [Clients -> Turns \cup {0}]
    /\ woken \in [Clients -> BOOLEAN]
    /\ published \subseteq Turns
    /\ shown \in [Clients -> SUBSET Turns]

\* A relay that would sleep through the next change has nothing left to show: as
\* long as its channel is open, it has dealt with the turn that is current.
NoLostTurn ==
    \A c \in Clients :
        rpc[c] = "wait" /\ ~woken[c] => current = last[c]

\* Turn frames reach a viewer as the abstract feed has it: one turn at a time, each at
\* most once and whole; whenever a viewer looks it takes the newest, and it rests only
\* when that is not new to it, until the next is published.  It is not "every turn that
\* begins while ctx lives" (session.go, turns): one that was published while the viewer
\* was busy and replaced before it looked again is passed over.
At(c) == CASE rpc[c] = "first"                   -> "arriving"
           [] joined[c] /\ rpc[c] # "off"        -> "in"
           [] joined[c] /\ rpc[c] = "off"        -> "gone"
           [] ~joined[c] /\ rpc[c] # "first"     -> "out"
F == INSTANCE TurnFeed WITH
        newest <- current,
        viewer <- [c \in Clients |-> At(c)],
        seen <- shown,
        chosen <- [c \in Clients |-> IF rpc[c] \in {"first", "start"} THEN turnIn[c] ELSE 0],
        open <- [c \in Clients |-> IF rpc[c] = "events" THEN turnIn[c] ELSE 0],
        resting <- [c \in Clients |-> rpc[c] = "wait" /\ ~woken[c]]
FeedsTurns == F!Feed

\* The turn that is current is shown to a viewer that waits for one, unless the
\* viewer leaves or another turn takes its place first.
CurrentShown ==
    \A c \in Clients, t \in Past + 1 .. MaxTurns :
        (rpc[c] = "wait" /\ live[c] /\ current = t)
            ~> (t \in shown[c] \/ ~live[c] \/ current # t)
=============================================================================
