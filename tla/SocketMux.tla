----------------------------- MODULE SocketMux -----------------------------
(***************************************************************************)
(* One browser connection (src/socket.go): the reader that routes frames   *)
(* to a worker per conversation, the workers, the goroutine that relays    *)
(* each subscription's turns, the outbound queue and its writer, and the   *)
(* order in which they stop.                                               *)
(*                                                                         *)
(* A frame is named by the number under which the reader read it, and a    *)
(* subscription by the frame that made it.  What a frame asks of the       *)
(* daemon is one step that may take its time.  A stop is a message here,   *)
(* one that is answered.                                                   *)
(***************************************************************************)
EXTENDS Naturals, Sequences, FiniteSets

CONSTANTS
    Convs,           \* conversations a frame may name
    Slow,            \* those for which the daemon need not answer
    PendingFrames,   \* capacity of a worker's queue (16)
    Outbound,        \* capacity of the outbound queue (128)
    MaxConversations,\* queues one connection may have (64)
    MaxFrames,       \* bound on the frames the browser sends
    MaxEvents        \* bound on the frames a relay emits

ASSUME CapacityAssumption == /\ PendingFrames \in Nat \ {0}
                             /\ Outbound \in Nat \ {0}
                             /\ MaxConversations \in Nat
                             /\ MaxFrames \in Nat
                             /\ MaxEvents \in Nat

Frames == 1 .. MaxFrames
Kinds == {"subscribe", "unsubscribe", "message", "unknown"}

VARIABLES
    conv, kind,      \* of each frame read so far
    count,           \* how many were read
    reader,          \* the reader's control point
    queue,           \* socketConnection.queues; a worker exists for each
    worker,          \* a worker's control point
    cur,             \* the frame a worker has taken, 0 for none
    answer,          \* what it is about to send for it
    sub,             \* socketConnection.subscriptions, 0 for none
    cancelled,       \* subscriptions whose context is cancelled
    relay,           \* the control point of a subscription's relay
    emitted,         \* frames a relay has queued
    outbound,        \* how many frames the outbound channel holds
    writer,          \* the writer's control point
    ctxDone,         \* the connection's context is done
    handled,         \* history: the frames a worker took
    released,        \* history: subscriptions that were acknowledged as ended
    late             \* history: frames a relay queued after that

readVars == <<conv, kind, count>>
workerVars == <<queue, worker, cur, answer, handled>>
subVars == <<sub, cancelled>>
relayVars == <<relay, emitted, late>>
vars == <<readVars, reader, workerVars, subVars, relayVars, outbound, writer,
          ctxDone, released>>

Init ==
    /\ conv = <<>> /\ kind = <<>> /\ count = 0
    /\ reader = "read"
    /\ queue = [c \in Convs |-> <<>>]
    /\ worker = [c \in Convs |-> "none"]
    /\ cur = [c \in Convs |-> 0]
    /\ answer = [c \in Convs |-> "none"]
    /\ sub = [c \in Convs |-> 0]
    /\ cancelled = {}
    /\ relay = [n \in Frames |-> "off"]
    /\ emitted = [n \in Frames |-> 0]
    /\ outbound = 0
    /\ writer = "run"
    /\ ctxDone = FALSE
    /\ handled = {}
    /\ released = {}
    /\ late = [n \in Frames |-> 0]

-----------------------------------------------------------------------------
(* The outbound queue and its writer. *)

\* What a frame says does not matter here, only that it takes up room.
Put == outbound < Outbound /\ outbound' = outbound + 1

Write ==
    /\ writer = "run"
    /\ outbound > 0
    /\ outbound' = outbound - 1
    /\ UNCHANGED <<readVars, reader, workerVars, subVars, relayVars, writer, ctxDone,
                   released>>

\* A write fails, or the context is done: the writer leaves and cancels it.
WriterLeaves ==
    /\ writer = "run"
    /\ writer' = "left"
    /\ ctxDone' = TRUE
    /\ UNCHANGED <<readVars, reader, workerVars, subVars, relayVars, outbound,
                   released>>

-----------------------------------------------------------------------------
(* The reader: ReadJSON and dispatch. *)

Workers == {c \in Convs : worker[c] # "none"}

\* The read loop reads a frame and finds its queue, starting a worker for a
\* conversation that has none; a frame it cannot route is answered by the
\* reader itself.
Read(c, k) ==
    LET routed == k # "unknown" /\ (c \in Workers
                                    \/ Cardinality(Workers) < MaxConversations)
    IN  /\ reader = "read"
        /\ count < MaxFrames
        /\ count' = count + 1
        /\ conv' = Append(conv, c)
        /\ kind' = Append(kind, k)
        /\ reader' = IF routed THEN "queue" ELSE "reject"
        /\ worker' = IF routed /\ c \notin Workers
                     THEN [worker EXCEPT ![c] = "serve"] ELSE worker
        /\ UNCHANGED <<queue, cur, answer, handled, subVars, relayVars, outbound,
                       writer, ctxDone, released>>

\* sendError from the read loop waits for room, as every send does.
Reject ==
    /\ reader = "reject"
    /\ reader' = "read"
    /\ IF ctxDone THEN UNCHANGED outbound
                  ELSE Put
    /\ UNCHANGED <<readVars, workerVars, subVars, relayVars, writer, ctxDone, released>>

\* Mutant: the queue has no bound.
RoomAlways(c) == TRUE

\* Mutant: the workers share one room.
RoomOfAll(c) == \A d \in Convs : Len(queue[d]) < PendingFrames

Room(c) == Len(queue[c]) < PendingFrames

\* The frame goes to its worker's queue once that has room ...
Enqueue ==
    LET c == conv[count]
    IN  /\ reader = "queue"
        /\ Room(c)
        /\ queue' = [queue EXCEPT ![c] = Append(@, count)]
        /\ reader' = "read"
        /\ UNCHANGED <<readVars, worker, cur, answer, handled, subVars, relayVars,
                       outbound, writer, ctxDone, released>>

\* Mutant: a frame that finds no room is dropped.
EnqueueDropped ==
    /\ reader = "queue"
    /\ reader' = "read"
    /\ UNCHANGED <<readVars, workerVars, subVars, relayVars, outbound, writer, ctxDone,
                   released>>

\* ... unless the context is done first.
EnqueueCancelled ==
    /\ reader = "queue"
    /\ ctxDone
    /\ reader' = "read"
    /\ UNCHANGED <<readVars, workerVars, subVars, relayVars, outbound, writer, ctxDone,
                   released>>

\* The browser goes away, or says nothing until the read deadline.
ReadFails ==
    /\ reader = "read"
    /\ reader' = "wait"
    /\ ctxDone' = TRUE
    /\ UNCHANGED <<readVars, workerVars, subVars, relayVars, outbound, writer, released>>

\* Mutant: the cleanup does not wait for the workers.
DrainedAtOnce == TRUE

Drained == \A c \in Workers : worker[c] = "ended"

\* workers.Wait returned: closeSubscriptions, and the connection is closed.
Close ==
    /\ reader = "wait"
    /\ Drained
    /\ reader' = "closed"
    /\ cancelled' = cancelled \cup {sub[c] : c \in {d \in Convs : sub[d] # 0}}
    /\ sub' = [c \in Convs |-> 0]
    /\ UNCHANGED <<readVars, workerVars, relayVars, outbound, writer, ctxDone, released>>

-----------------------------------------------------------------------------
(* A worker: serve and handle. *)

\* serve takes the next frame.  An unsubscribe without a subscription is over at
\* once; anything else may take a while.
Take(c) ==
    /\ worker[c] = "serve"
    /\ queue[c] # <<>>
    /\ queue' = [queue EXCEPT ![c] = Tail(@)]
    /\ handled' = handled \cup {Head(queue[c])}
    /\ LET n == Head(queue[c])
           idle == kind[n] = "unsubscribe" /\ sub[c] = 0
       IN  /\ cur' = [cur EXCEPT ![c] = IF idle THEN 0 ELSE n]
           /\ worker' = [worker EXCEPT ![c] = IF idle THEN "serve" ELSE "handle"]
    /\ UNCHANGED <<readVars, reader, answer, subVars, relayVars, outbound, writer,
                   ctxDone, released>>

ServeEnds(c) ==
    /\ worker[c] = "serve"
    /\ ctxDone
    /\ worker' = [worker EXCEPT ![c] = "ended"]
    /\ UNCHANGED <<readVars, reader, queue, cur, answer, handled, subVars, relayVars,
                   outbound, writer, ctxDone, released>>

Decide(c, what) ==
    /\ worker[c] = "handle"
    /\ worker' = [worker EXCEPT ![c] = "send"]
    /\ answer' = [answer EXCEPT ![c] = what]
    /\ UNCHANGED <<readVars, reader, queue, cur, handled, relayVars, outbound, writer,
                   ctxDone, released>>

\* subscribe: findRecord, attach and join succeeded, the subscription registers.
Registers(c) ==
    /\ worker[c] = "handle" /\ kind[cur[c]] = "subscribe"
    /\ sub[c] = 0
    /\ sub' = [sub EXCEPT ![c] = cur[c]]
    /\ Decide(c, "subscribed")
    /\ UNCHANGED cancelled

\* A subscription that is held is acknowledged again; one that failed is an error;
\* a message, a stop, is answered with its result or its error.
Answers(c) ==
    /\ worker[c] = "handle"
    /\ kind[cur[c]] \in {"subscribe", "message"}
    /\ Decide(c, "other")
    /\ UNCHANGED subVars

\* A message was accepted, but its row cannot be updated, or is gone: nothing is sent.
Unanswered(c) ==
    /\ worker[c] = "handle" /\ kind[cur[c]] = "message"
    /\ sub[c] # 0
    /\ worker' = [worker EXCEPT ![c] = "serve"]
    /\ cur' = [cur EXCEPT ![c] = 0]
    /\ UNCHANGED <<readVars, reader, queue, answer, handled, subVars, relayVars, outbound,
                   writer, ctxDone, released>>

\* Mutant: unsubscribe leaves the subscription's context alone.
CancelSubNot(c) == UNCHANGED cancelled

CancelSub(c) == cancelled' = cancelled \cup {sub[c]}

\* unsubscribe deletes the subscription, then cancels its context.
Unregisters(c) ==
    /\ worker[c] = "handle" /\ kind[cur[c]] = "unsubscribe"
    /\ sub' = [sub EXCEPT ![c] = 0]
    /\ CancelSub(c)
    /\ worker' = [worker EXCEPT ![c] = "send"]
    /\ answer' = [answer EXCEPT ![c] = "unsubscribed"]
    /\ UNCHANGED <<readVars, reader, queue, cur, handled, relayVars, outbound, writer,
                   ctxDone, released>>

\* The answer is queued, or dropped with the context; "subscribed" is followed by
\* the start of the relay.
Answered(c) ==
    /\ worker[c] = "send"
    /\ IF ctxDone THEN UNCHANGED outbound
                  ELSE Put
    /\ worker' = [worker EXCEPT ![c] = "serve"]
    /\ cur' = [cur EXCEPT ![c] = 0]
    /\ answer' = [answer EXCEPT ![c] = "none"]
    /\ relay' = [n \in Frames |-> IF answer[c] = "subscribed" /\ n = cur[c]
                                  THEN "idle" ELSE relay[n]]
    /\ released' = IF answer[c] = "unsubscribed" /\ ~ctxDone
                   THEN released \cup {n \in cancelled : conv[n] = c}
                   ELSE released
    /\ UNCHANGED <<readVars, reader, queue, handled, subVars, emitted, late, writer,
                   ctxDone>>

-----------------------------------------------------------------------------
(* A relay: streamTurns, as far as sendContext is concerned. *)

\* Mutant: a relay asks about the connection only.
OverWithSocket(n) == ctxDone

Over(n) == ctxDone \/ n \in cancelled

\* sendContext's first select finds both contexts alive.
Arm(n) ==
    /\ relay[n] = "idle"
    /\ ~Over(n)
    /\ emitted[n] < MaxEvents
    /\ relay' = [relay EXCEPT ![n] = "armed"]
    /\ UNCHANGED <<readVars, reader, workerVars, subVars, emitted, late, outbound,
                   writer, ctxDone, released>>

\* Its second select queues the frame when there is room, context done or not.
Emit(n) ==
    /\ relay[n] = "armed"
    /\ Put
    /\ relay' = [relay EXCEPT ![n] = "idle"]
    /\ emitted' = [emitted EXCEPT ![n] = @ + 1]
    /\ late' = [late EXCEPT ![n] = IF n \in released /\ ~ctxDone THEN @ + 1 ELSE @]
    /\ UNCHANGED <<readVars, reader, workerVars, subVars, writer, ctxDone, released>>

RelayEnds(n) ==
    /\ relay[n] # "off"
    /\ Over(n)
    /\ relay' = [relay EXCEPT ![n] = "off"]
    /\ UNCHANGED <<readVars, reader, workerVars, subVars, emitted, late, outbound,
                   writer, ctxDone, released>>

-----------------------------------------------------------------------------
Dispatching == Reject \/ Enqueue \/ EnqueueCancelled
Serving(c) == \/ Take(c) \/ ServeEnds(c)
              \/ Registers(c) \/ Answers(c) \/ Unanswered(c) \/ Unregisters(c)
              \/ Answered(c)
Relaying(n) == Arm(n) \/ Emit(n) \/ RelayEnds(n)

Next ==
    \/ \E c \in Convs, k \in Kinds : Read(c, k)
    \/ Dispatching \/ ReadFails \/ Close
    \/ \E c \in Convs : Serving(c)
    \/ \E n \in Frames : Relaying(n)
    \/ Write \/ WriterLeaves

Spec == Init /\ [][Next]_vars

\* The daemon answers, at the latest when the context of the call is done, which for
\* the conversations of Slow may be the only end.
Returns(c) == c \notin Slow \/ ctxDone

\* Go runs every goroutine that can run; the connection takes what is written; a
\* select does not pass over a context that is done for ever; and once the writer has
\* left, nothing answers pings, so the read deadline comes.
FairSpec ==
    /\ Spec
    /\ WF_vars(Dispatching) /\ WF_vars(Close)
    /\ \A c \in Convs : WF_vars((worker[c] = "handle" => Returns(c)) /\ Serving(c))
    /\ \A n \in Frames : WF_vars(Relaying(n))
    /\ WF_vars(Write) /\ WF_vars(ctxDone /\ WriterLeaves)
    /\ WF_vars(ctxDone /\ ReadFails)

-----------------------------------------------------------------------------
(* Properties. *)

\* Every variable has its type.
TypeOK ==
    /\ count \in 0 .. MaxFrames
    /\ conv \in Seq(Convs) /\ Len(conv) = count
    /\ kind \in Seq(Kinds) /\ Len(kind) = count
    /\ reader \in {"read", "queue", "reject", "wait", "closed"}
    /\ queue \in [Convs -> Seq(Frames)]
    /\ \A c \in Convs : Len(queue[c]) <= PendingFrames
    /\ worker \in [Convs -> {"none", "serve", "handle", "send", "ended"}]
    /\ Cardinality(Workers) <= MaxConversations
    /\ cur \in [Convs -> Frames \cup {0}]
    /\ answer \in [Convs -> {"none", "subscribed", "unsubscribed", "other"}]
    /\ sub \in [Convs -> Frames \cup {0}]
    /\ cancelled \subseteq Frames
    /\ relay \in [Frames -> {"off", "idle", "armed"}]
    /\ emitted \in [Frames -> 0 .. MaxEvents]
    /\ outbound \in 0 .. Outbound
    /\ writer \in {"run", "left"}
    /\ ctxDone \in BOOLEAN
    /\ handled \subseteq Frames
    /\ released \subseteq Frames
    /\ late \in [Frames -> Nat]

Pending(c) == queue[c] \o (IF reader = "queue" /\ conv[count] = c
                           THEN <<count>> ELSE <<>>)
\* The frames of one conversation are handled in the order they arrived, whatever
\* the other conversations do, and all of them while the connection lives: no
\* message overtakes the subscribe before it.
InOrder ==
    \A c \in Convs :
        /\ \A i, j \in DOMAIN Pending(c) : i < j => Pending(c)[i] < Pending(c)[j]
        /\ \A n \in handled, i \in DOMAIN Pending(c) :
              conv[n] = c => n < Pending(c)[i]
        /\ ~ctxDone /\ reader # "reject" => \A n \in 1 .. count :
              conv[n] = c /\ kind[n] # "unknown" /\ c \in Workers
              => n \in handled \/ \E i \in DOMAIN Pending(c) : Pending(c)[i] = n

\* One relay at most speaks for a conversation: one whose subscription is not
\* the registered one has a context that is done, or is not started yet.
OneRelay ==
    \A n \in Frames :
        relay[n] # "off" => ctxDone \/ n \in cancelled \/ sub[conv[n]] = n

\* After its end was acknowledged a subscription can add one frame to the socket, the
\* one its relay had in hand, and no second one: the extent of what NoLateFrame denies.
OneLateFrame == \A n \in Frames : late[n] <= 1

\* When the connection is closed its workers are gone and no subscription is
\* registered: one that was still being made cannot slip in after the cleanup.
ClosedClean ==
    reader = "closed" =>
        /\ \A c \in Convs : worker[c] \in {"none", "ended"} /\ sub[c] = 0
        /\ \A n \in Frames : relay[n] # "off" => n \in cancelled

\* A frame that was read is handled, or the connection ends, although the daemon never
\* answers for another conversation: reader, workers, relays and writer do not wait
\* for each other in a circle, and no conversation's worker waits for another's.
FramesHandled ==
    \A n \in Frames : (count = n /\ reader = "queue" /\ conv[n] \notin Slow)
                         ~> (n \in handled \/ ctxDone)

\* However it ends, the connection is cleaned up and its relays return.
CancelledCloses ==
    ctxDone ~> (reader = "closed" /\ \A n \in Frames : relay[n] = "off")

\* What a comment says and the code does not do.

\* "A subscription has its own context, so unsubscribing one conversation cannot leak
\* ... a late event onto the shared socket" (socket.go, sendContext): once the browser
\* has been told that its subscription is over, no event of it follows.
NoLateFrame == \A n \in Frames : late[n] = 0
=============================================================================
