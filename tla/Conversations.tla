---------------------------- MODULE Conversations ----------------------------
(***************************************************************************)
(* The life of the sessions the server holds: how a browser's subscription *)
(* attaches to a conversation, how a conversation that nobody watches is   *)
(* released, and how creating, deleting, shutting down and being killed    *)
(* cut across both (src/server.go, src/session.go, the subscription half   *)
(* of src/socket.go and the exit sequence of src/main.go).                 *)
(*                                                                         *)
(* A worker is the goroutine that runs one conversation's frames on one    *)
(* socket, so it is named by the pair.  A session is an identity: Go       *)
(* collects the ones nothing refers to, and the model reuses them.  Every  *)
(* step of a process is one critical section, or one call of the daemon.   *)
(***************************************************************************)
EXTENDS Integers, FiniteSets

CONSTANTS
    Sockets,    \* browser connections
    Convs,      \* conversation identities
    Sessions,   \* identities of session objects
    Handlers,   \* HTTP requests being served
    None        \* no session, no conversation, no worker

Workers == Sockets \X Convs
SocketOf(w) == w[1]
ConvOf(w) == w[2]

ASSUME NoneAssumption == /\ None \notin Sessions
                         /\ None \notin Convs
                         /\ None \notin Workers
ASSUME FinitenessAssumption == /\ IsFiniteSet(Sockets)
                               /\ IsFiniteSet(Convs)

VARIABLES
    record,    \* the stored index row of a conversation
    ran,       \* the daemon has a run that carries this conversation's labels
    sessions,  \* uiServer.sessions
    gate,      \* uiServer.opening: the worker whose opening is in progress
    viewers,   \* session.viewers
    stale,     \* time.Since(session.idle) > after
    turn,      \* session.running: the turn that is current is in flight
    life,      \* the SDK handle behind the session
    sock,      \* the connection and its context
    sub,       \* socketConnection.subscriptions
    pc, local, seen, waitOn,   \* a worker's control point and local variables
    sweep,     \* what takeIdle returned and release has not closed yet
    closer,    \* what closeAll took and has not closed yet
    hpc, hconv, hsess,         \* an HTTP handler's control point and locals
    server     \* main: serving, signalled, HTTP shut down, closeAll begun

sessVars == <<viewers, stale, turn, life>>
workerVars == <<sub, pc, local, seen, waitOn>>
handlerVars == <<hpc, hconv, hsess>>
diskVars == <<record, ran>>
vars == <<diskVars, sessions, gate, sessVars, sock, workerVars, sweep, closer,
          handlerVars, server>>

(***************************************************************************)
(* A process that has just started holds nothing; the index and the        *)
(* daemon's runs are what is there from before.                            *)
(***************************************************************************)
Booted ==
    /\ sessions' = [c \in Convs |-> None]
    /\ gate' = [c \in Convs |-> None]
    /\ viewers' = [s \in Sessions |-> 0]
    /\ stale' = [s \in Sessions |-> FALSE]
    /\ turn' = [s \in Sessions |-> FALSE]
    /\ life' = [s \in Sessions |-> "free"]
    /\ sock' = [k \in Sockets |-> "gone"]
    /\ sub' = [w \in Workers |-> None]
    /\ pc' = [w \in Workers |-> "exited"]
    /\ local' = [w \in Workers |-> None]
    /\ seen' = [w \in Workers |-> "started"]
    /\ waitOn' = [w \in Workers |-> None]
    /\ sweep' = {}
    /\ closer' = {}
    /\ hpc' = [h \in Handlers |-> "idle"]
    /\ hconv' = [h \in Handlers |-> None]
    /\ hsess' = [h \in Handlers |-> None]
    /\ server' = "up"

\* The index and the runs a first start may find: rows that ran and rows that
\* did not, and runs of conversations the index does not list.
Init ==
    /\ record \in [Convs -> {"absent", "fresh", "started"}]
    /\ ran \in [Convs -> BOOLEAN]
    /\ \A c \in Convs : /\ record[c] = "started" => ran[c]
                        /\ record[c] = "fresh" => ~ran[c]
    /\ sessions = [c \in Convs |-> None]
    /\ gate = [c \in Convs |-> None]
    /\ viewers = [s \in Sessions |-> 0]
    /\ stale = [s \in Sessions |-> FALSE]
    /\ turn = [s \in Sessions |-> FALSE]
    /\ life = [s \in Sessions |-> "free"]
    /\ sock = [k \in Sockets |-> "gone"]
    /\ sub = [w \in Workers |-> None]
    /\ pc = [w \in Workers |-> "exited"]
    /\ local = [w \in Workers |-> None]
    /\ seen = [w \in Workers |-> "started"]
    /\ waitOn = [w \in Workers |-> None]
    /\ sweep = {}
    /\ closer = {}
    /\ hpc = [h \in Handlers |-> "idle"]
    /\ hconv = [h \in Handlers |-> None]
    /\ hsess = [h \in Handlers |-> None]
    /\ server = "up"

-----------------------------------------------------------------------------
(* Session objects. *)

Held == {sessions[c] : c \in Convs} \ {None}

Reachable(s) ==
    \/ \E c \in Convs : sessions[c] = s
    \/ \E w \in Workers : s \in {local[w], sub[w]}
    \/ \E h \in Handlers : hsess[h] = s
    \/ s \in sweep \cup closer

\* Mutant: the sessions taken are not deleted from the map.
WithoutDelete(S) == sessions

\* A session that is in the map is dropped from it: here as a set of them.
Without(S) == [c \in Convs |-> IF sessions[c] \in S THEN None ELSE sessions[c]]

\* newSession: no viewer, no turn, idle since now.
NewSession(s) ==
    /\ ~Reachable(s)
    /\ viewers' = [viewers EXCEPT ![s] = 0]
    /\ stale' = [stale EXCEPT ![s] = FALSE]
    /\ turn' = [turn EXCEPT ![s] = FALSE]
    /\ life' = [life EXCEPT ![s] = "live"]

\* Mutant: releasable does not ask who is watching.
QuietUnasked(s) == ~turn[s]

\* releasable, short of the idle time that has to have passed.
Quiet(s) == viewers[s] = 0 /\ ~turn[s]
Releasable(s) == Quiet(s) /\ stale[s]

\* conversation.Close on one handle: the run and its turn end, or the call fails
\* and leaves them; either way nothing tries again.
CloseHandle(s) ==
    /\ life' = [life EXCEPT ![s] = "closed"]
    /\ turn' \in {turn, [turn EXCEPT ![s] = FALSE]}
    /\ UNCHANGED <<viewers, stale>>

\* Time passes: a session with nobody and nothing on it has been idle for longer
\* than -idle-after (for any other the sweep does not ask).
GrowStale(s) ==
    /\ s \in Held
    /\ Quiet(s)
    /\ ~stale[s]
    /\ stale' = [stale EXCEPT ![s] = TRUE]
    /\ UNCHANGED <<diskVars, sessions, gate, viewers, turn, life, sock,
                   workerVars, sweep, closer, handlerVars, server>>

\* The current turn finishes, fails or is interrupted; or one that has ended
\* already takes its place (module Turns tells the two apart).
TurnEnds(s) ==
    /\ Reachable(s)
    /\ turn[s]
    /\ turn' = [turn EXCEPT ![s] = FALSE]
    /\ UNCHANGED <<diskVars, sessions, gate, viewers, stale, life, sock,
                   workerVars, sweep, closer, handlerVars, server>>

-----------------------------------------------------------------------------
(* A socket: accepted, cancelled, and cleaned up once its workers are done. *)

Goto(w, from, to) ==
    /\ pc[w] = from
    /\ pc' = [pc EXCEPT ![w] = to]

WorkersOf(k) == {w \in Workers : SocketOf(w) = k}

Connect(k) ==
    /\ server \in {"up", "stopping"}
    /\ sock[k] = "gone"
    /\ \A w \in WorkersOf(k) : pc[w] = "exited"
    /\ sock' = [sock EXCEPT ![k] = "up"]
    /\ pc' = [w \in Workers |-> IF SocketOf(w) = k THEN "idle" ELSE pc[w]]
    /\ UNCHANGED <<diskVars, sessions, gate, sessVars, sub, local, seen, waitOn,
                   sweep, closer, handlerVars, server>>

\* The reader or the writer fails: the connection's context is cancelled.
Drop(k) ==
    /\ sock[k] = "up"
    /\ sock' = [sock EXCEPT ![k] = "down"]
    /\ UNCHANGED <<diskVars, sessions, gate, sessVars, workerVars, sweep, closer,
                   handlerVars, server>>

\* Mutant: the workers do not select on the context.
CancelledUnseen(w) == FALSE

\* The connection's context is done.
Cancelled(w) == sock[SocketOf(w)] = "down"

\* serve sees ctx.Done rather than a queued frame.
Exit(w) ==
    /\ Cancelled(w)
    /\ Goto(w, "idle", "exited")
    /\ UNCHANGED <<diskVars, sessions, gate, sessVars, sock, sub, local,
                   seen, waitOn, sweep, closer, handlerVars, server>>

\* Mutant: the subscriptions are dropped without a leave.
SubscribedDropped(k) == {}

\* The workers whose subscription closeSubscriptions has to leave.
Subscribed(k) == {w \in WorkersOf(k) : sub[w] # None}

\* workers.Wait, then closeSubscriptions empties the map and leaves each one.
CloseSubscriptions(k) ==
    /\ sock[k] = "down"
    /\ \A w \in WorkersOf(k) : pc[w] = "exited"
    /\ sock' = [sock EXCEPT ![k] = "gone"]
    /\ local' = [w \in Workers |-> IF w \in Subscribed(k) THEN sub[w] ELSE local[w]]
    /\ pc' = [w \in Workers |-> IF w \in Subscribed(k) THEN "leaving" ELSE pc[w]]
    /\ sub' = [w \in Workers |-> IF SocketOf(w) = k THEN None ELSE sub[w]]
    /\ UNCHANGED <<diskVars, sessions, gate, sessVars, seen, waitOn,
                   sweep, closer, handlerVars, server>>

-----------------------------------------------------------------------------
(* Subscribing: findRecord, attach, join, register. *)

\* serve takes the worker's next frame: also one left in the queue after the
\* cancellation, since its select may prefer either.
Handles(w, to) == Goto(w, "idle", to)

\* Mutant: a miss in the index is taken for an answer.
FoundMissing(c) == record[c]

\* findRecord reads the index: a row that has not started needs no daemon, and
\* a miss is no answer.
Found(c) == IF record[c] = "fresh" THEN "fresh" ELSE "started"

\* Mutant: subscribe does not ask whether it is held already.
SubscribeAgain(w) ==
    /\ Handles(w, "lookup")
    /\ seen' = [seen EXCEPT ![w] = Found(ConvOf(w))]
    /\ UNCHANGED <<diskVars, sessions, gate, sessVars, sock, sub, local, waitOn,
                   sweep, closer, handlerVars, server>>

Subscribe(w) ==
    /\ sub[w] = None
    /\ Handles(w, IF Found(ConvOf(w)) = "fresh" THEN "look" ELSE "lookup")
    /\ seen' = [seen EXCEPT ![w] = Found(ConvOf(w))]
    /\ UNCHANGED <<diskVars, sessions, gate, sessVars, sock, sub, local, waitOn,
                   sweep, closer, handlerVars, server>>

\* findRecord asks the daemon for a run with the owner's labels.
LookupFinds(w) ==
    /\ ran[ConvOf(w)]
    /\ Goto(w, "lookup", "look")
    /\ UNCHANGED <<diskVars, sessions, gate, sessVars, sock, sub, local,
                   seen, waitOn, sweep, closer, handlerVars, server>>

LookupFails(w) ==
    /\ Goto(w, "lookup", "idle")
    /\ UNCHANGED <<diskVars, sessions, gate, sessVars, sock, sub, local,
                   seen, waitOn, sweep, closer, handlerVars, server>>

\* Mutant: attach does not look for an opening in progress.
OpeningUnseen(c) == FALSE

\* uiServer.opening has an entry for the conversation.
Opening(c) == gate[c] # None

\* attach, under the server's lock: the session this process holds already ...
AttachFound(w) ==
    /\ sessions[ConvOf(w)] # None
    /\ Goto(w, "look", "attached")
    /\ local' = [local EXCEPT ![w] = sessions[ConvOf(w)]]
    /\ UNCHANGED <<diskVars, sessions, gate, sessVars, sock, sub, seen,
                   waitOn, sweep, closer, handlerVars, server>>

\* ... or the opening in progress, to wait for ...
AttachWaits(w) ==
    /\ sessions[ConvOf(w)] = None
    /\ Opening(ConvOf(w))
    /\ Goto(w, "look", "waiting")
    /\ waitOn' = [waitOn EXCEPT ![w] = gate[ConvOf(w)]]
    /\ UNCHANGED <<diskVars, sessions, gate, sessVars, sock, sub, local,
                   seen, sweep, closer, handlerVars, server>>

\* ... or the gate is free, and is taken before the lock is dropped.
AttachOpens(w) ==
    /\ sessions[ConvOf(w)] = None
    /\ ~Opening(ConvOf(w))
    /\ Goto(w, "look", "opening")
    /\ gate' = [gate EXCEPT ![ConvOf(w)] = w]
    /\ UNCHANGED <<diskVars, sessions, sessVars, sock, sub, local, seen,
                   waitOn, sweep, closer, handlerVars, server>>

\* A waiter looks again once its gate is closed, or gives up with its socket.
Woken(w) ==
    /\ waitOn[w] = None
    /\ Goto(w, "waiting", "look")
    /\ UNCHANGED <<diskVars, sessions, gate, sessVars, sock, sub, local,
                   seen, waitOn, sweep, closer, handlerVars, server>>

WaitCancelled(w) ==
    /\ Cancelled(w)
    /\ Goto(w, "waiting", "idle")
    /\ waitOn' = [waitOn EXCEPT ![w] = None]
    /\ UNCHANGED <<diskVars, sessions, gate, sessVars, sock, sub, local,
                   seen, sweep, closer, handlerVars, server>>

\* open: Start makes a handle without the daemon; Open resumes, and may fail.
OpenSucceeds(w) ==
    /\ Goto(w, "opening", "opened")
    /\ \E s \in Sessions :
          /\ NewSession(s)
          /\ local' = [local EXCEPT ![w] = s]
    /\ UNCHANGED <<diskVars, sessions, gate, sock, sub, seen, waitOn,
                   sweep, closer, handlerVars, server>>

OpenFails(w) ==
    /\ seen[w] = "started"
    /\ Goto(w, "opening", "opened")
    /\ UNCHANGED <<diskVars, sessions, gate, sessVars, sock, sub, local,
                   seen, waitOn, sweep, closer, handlerVars, server>>

\* Under the lock again: the gate leaves the map, the session enters it.
Publish(w) ==
    /\ Goto(w, "opened", "closing")
    /\ gate' = [gate EXCEPT ![ConvOf(w)] = None]
    /\ sessions' = [sessions EXCEPT ![ConvOf(w)] =
                      IF local[w] # None THEN local[w] ELSE @]
    /\ UNCHANGED <<diskVars, sessVars, sock, sub, local, seen, waitOn,
                   sweep, closer, handlerVars, server>>

\* Mutant: a failed opening returns before it closes its gate.
WaitingOnSuccess(w) == {v \in Workers : waitOn[v] = w /\ local[w] # None}

\* close(opening) wakes everyone who waits on this opening.
Waiting(w) == {v \in Workers : waitOn[v] = w}

CloseGate(w) ==
    /\ Goto(w, "closing", IF local[w] # None THEN "attached" ELSE "idle")
    /\ waitOn' = [v \in Workers |-> IF v \in Waiting(w) THEN None ELSE waitOn[v]]
    /\ UNCHANGED <<diskVars, sessions, gate, sessVars, sock, sub, local,
                   seen, sweep, closer, handlerVars, server>>

Join(w) ==
    /\ Goto(w, "attached", "joined")
    /\ viewers' = [viewers EXCEPT ![local[w]] = @ + 1]
    /\ UNCHANGED <<diskVars, sessions, gate, stale, turn, life, sock, sub,
                   local, seen, waitOn, sweep, closer, handlerVars, server>>

\* The re-check: one that was registered meanwhile keeps its place.
Register(w) ==
    /\ Goto(w, "joined", IF sub[w] = None THEN "idle" ELSE "leaving")
    /\ sub' = [sub EXCEPT ![w] = IF @ = None THEN local[w] ELSE @]
    /\ local' = [local EXCEPT ![w] = IF sub[w] = None THEN None ELSE @]
    /\ UNCHANGED <<diskVars, sessions, gate, sessVars, sock, seen, waitOn,
                   sweep, closer, handlerVars, server>>

-----------------------------------------------------------------------------
(* Unsubscribing and sending.  Frames that change nothing are left out: a      *)
(* subscribe to what is held, which is acknowledged, and a message or an       *)
(* unsubscribe without a subscription.                                         *)

Unsubscribe(w) ==
    /\ sub[w] # None
    /\ Handles(w, "leaving")
    /\ local' = [local EXCEPT ![w] = sub[w]]
    /\ sub' = [sub EXCEPT ![w] = None]
    /\ UNCHANGED <<diskVars, sessions, gate, sessVars, sock, seen, waitOn, sweep,
                   closer, handlerVars, server>>

\* session.leave, by the worker or, for a socket that is gone, by its cleanup.
Leave(w) ==
    /\ Goto(w, "leaving", IF sock[SocketOf(w)] = "gone" THEN "exited" ELSE "idle")
    /\ viewers' = [viewers EXCEPT ![local[w]] = @ - 1]
    /\ stale' = [stale EXCEPT ![local[w]] = FALSE]
    /\ local' = [local EXCEPT ![w] = None]
    /\ UNCHANGED <<diskVars, sessions, gate, turn, life, sock, sub, seen,
                   waitOn, sweep, closer, handlerVars, server>>

\* Send returns a reply: the daemon runs the turn, the session publishes it.
Send(w) ==
    /\ sub[w] # None
    /\ Handles(w, "sent")
    /\ ran' = [ran EXCEPT ![ConvOf(w)] = TRUE]
    /\ turn' = [turn EXCEPT ![sub[w]] = TRUE]
    /\ UNCHANGED <<record, sessions, gate, viewers, stale, life, sock, sub, local,
                   seen, waitOn, sweep, closer, handlerVars, server>>

\* store.touch: the row has started, unless it was forgotten meanwhile.
Touch(w) ==
    /\ Goto(w, "sent", "idle")
    /\ record' = [record EXCEPT ![ConvOf(w)] =
                    IF @ = "fresh" THEN "started" ELSE @]
    /\ UNCHANGED <<ran, sessions, gate, sessVars, sock, sub, local, seen,
                   waitOn, sweep, closer, handlerVars, server>>

-----------------------------------------------------------------------------
(* HTTP handlers: create and remove. *)

HGoto(h, from, to) ==
    /\ hpc[h] = from
    /\ hpc' = [hpc EXCEPT ![h] = to]

\* create: a new identity, its handle, and its row in the index ...
Create(h, c) ==
    /\ server \in {"up", "stopping"}
    /\ HGoto(h, "idle", "created")
    /\ record[c] = "absent" /\ ~ran[c]
    /\ record' = [record EXCEPT ![c] = "fresh"]
    /\ hconv' = [hconv EXCEPT ![h] = c]
    /\ \E s \in Sessions :
          /\ NewSession(s)
          /\ hsess' = [hsess EXCEPT ![h] = s]
    /\ UNCHANGED <<ran, sessions, gate, sock, workerVars, sweep, closer, server>>

\* ... and only then, in a critical section of its own, the live session.
PublishCreated(h) ==
    /\ HGoto(h, "created", "idle")
    /\ sessions' = [sessions EXCEPT ![hconv[h]] = hsess[h]]
    /\ hconv' = [hconv EXCEPT ![h] = None]
    /\ hsess' = [hsess EXCEPT ![h] = None]
    /\ UNCHANGED <<diskVars, gate, sessVars, sock, workerVars, sweep, closer,
                   server>>

\* The row could not be saved: the request fails, the row stays in memory.
CreateFails(h) ==
    /\ HGoto(h, "created", "idle")
    /\ hconv' = [hconv EXCEPT ![h] = None]
    /\ hsess' = [hsess EXCEPT ![h] = None]
    /\ UNCHANGED <<diskVars, sessions, gate, sessVars, sock, workerVars, sweep,
                   closer, server>>

\* remove: the row is found, locally or by the daemon's labels.
Remove(h, c) ==
    /\ server \in {"up", "stopping"}
    /\ HGoto(h, "idle", "removing")
    /\ record[c] = "fresh" \/ ran[c]
    /\ hconv' = [hconv EXCEPT ![h] = c]
    /\ UNCHANGED <<diskVars, sessions, gate, sessVars, sock, workerVars, sweep,
                   closer, hsess, server>>

\* The session is taken out of the map under the lock ...
TakeRemoved(h) ==
    /\ HGoto(h, "removing", IF sessions[hconv[h]] # None THEN "closing"
                                                       ELSE "forgetting")
    /\ hsess' = [hsess EXCEPT ![h] = sessions[hconv[h]]]
    /\ sessions' = [sessions EXCEPT ![hconv[h]] = None]
    /\ UNCHANGED <<diskVars, gate, sessVars, sock, workerVars, sweep, closer,
                   hconv, server>>

\* ... closed off the lock ...
CloseRemoved(h) ==
    /\ HGoto(h, "closing", "forgetting")
    /\ CloseHandle(hsess[h])
    /\ hsess' = [hsess EXCEPT ![h] = None]
    /\ UNCHANGED <<diskVars, sessions, gate, sock, workerVars, sweep, closer,
                   hconv, server>>

\* ... and the row is forgotten, whatever became of the close.
Forget(h) ==
    /\ HGoto(h, "forgetting", "idle")
    /\ record' = [record EXCEPT ![hconv[h]] = "forgotten"]
    /\ hconv' = [hconv EXCEPT ![h] = None]
    /\ UNCHANGED <<ran, sessions, gate, sessVars, sock, workerVars, sweep, closer,
                   hsess, server>>

-----------------------------------------------------------------------------
(* The sweep, the shutdown and the end of the process. *)

\* One tick of release: takeIdle takes every releasable session at once.  The
\* select may still prefer the tick when the context is already done.
TakeIdle ==
    /\ sweep = {}
    /\ \E s \in Held : Releasable(s)
    /\ sweep' = {s \in Held : Releasable(s)}
    /\ sessions' = Without(sweep')
    /\ UNCHANGED <<diskVars, gate, sessVars, sock, workerVars, closer, handlerVars,
                   server>>

\* endSession for one of them; a failure is logged and that is all.
EndIdle(s) ==
    /\ s \in sweep
    /\ CloseHandle(s)
    /\ sweep' = sweep \ {s}
    /\ UNCHANGED <<diskVars, sessions, gate, sock, workerVars, closer, handlerVars,
                   server>>

\* The signal cancels main's context; Shutdown then closes the listener, and
\* ListenAndServe returns at once.
Signal ==
    /\ server = "up"
    /\ server' = "stopping"
    /\ UNCHANGED <<diskVars, sessions, gate, sessVars, sock, workerVars, sweep,
                   closer, handlerVars>>

ShutdownHTTP ==
    /\ server = "stopping"
    /\ server' = "draining"
    /\ UNCHANGED <<diskVars, sessions, gate, sessVars, sock, workerVars, sweep,
                   closer, handlerVars>>

\* closeAll, once Shutdown has drained the handlers or given up on them.
TakeAll ==
    /\ server = "draining"
    /\ server' = "closing"
    /\ closer' = Held
    /\ sessions' = Without(Held)
    /\ UNCHANGED <<diskVars, gate, sessVars, sock, workerVars, sweep, handlerVars>>

EndHeld(s) ==
    /\ s \in closer
    /\ CloseHandle(s)
    /\ closer' = closer \ {s}
    /\ UNCHANGED <<diskVars, sessions, gate, sock, workerVars, sweep, handlerVars,
                   server>>

\* main returns: its last receive is from a context that is already done.
MainReturns ==
    /\ server \in {"draining", "closing"}
    /\ Booted
    /\ UNCHANGED diskVars

\* The process is killed outright, before Shutdown is called.
Kill ==
    /\ server \in {"up", "stopping"}
    /\ Booted
    /\ UNCHANGED diskVars

-----------------------------------------------------------------------------
WorkerStep(w) ==
    \/ Subscribe(w)
    \/ LookupFinds(w) \/ LookupFails(w)
    \/ AttachFound(w) \/ AttachWaits(w) \/ AttachOpens(w)
    \/ Woken(w) \/ WaitCancelled(w)
    \/ OpenSucceeds(w) \/ OpenFails(w)
    \/ Publish(w) \/ CloseGate(w)
    \/ Join(w) \/ Register(w)
    \/ Unsubscribe(w) \/ Leave(w)
    \/ Send(w) \/ Touch(w)
    \/ Exit(w)

HandlerStep(h) ==
    \/ PublishCreated(h) \/ CreateFails(h)
    \/ TakeRemoved(h) \/ CloseRemoved(h) \/ Forget(h)

Next ==
    \/ \E k \in Sockets : Connect(k) \/ Drop(k) \/ CloseSubscriptions(k)
    \/ \E w \in Workers : WorkerStep(w)
    \/ \E h \in Handlers, c \in Convs : Create(h, c) \/ Remove(h, c)
    \/ \E h \in Handlers : HandlerStep(h)
    \/ \E s \in Sessions : GrowStale(s) \/ TurnEnds(s) \/ EndIdle(s) \/ EndHeld(s)
    \/ TakeIdle
    \/ Signal \/ ShutdownHTTP \/ TakeAll
    \/ MainReturns \/ Kill

Spec == Init /\ [][Next]_vars

(***************************************************************************)
(* The scheduler runs every goroutine that can run, the sweep's ticker     *)
(* fires, time passes, and a call of the daemon returns (every one the     *)
(* sweep makes is bounded by releaseTimeout).  A select whose context is   *)
(* done is not passed over for ever.  Nothing is assumed of the browser (a *)
(* worker that has no frame in hand may stay so), of the user's requests,  *)
(* of turns, or of the process's end.                                      *)
(***************************************************************************)
Fairness ==
    /\ \A w \in Workers : WF_vars(pc[w] # "idle" /\ WorkerStep(w))
    /\ \A w \in Workers : SF_vars(WaitCancelled(w)) /\ SF_vars(Exit(w))
    /\ \A k \in Sockets : WF_vars(CloseSubscriptions(k))
    /\ \A h \in Handlers : WF_vars(HandlerStep(h))
    /\ \A s \in Sessions : WF_vars(GrowStale(s)) /\ WF_vars(EndIdle(s) \/ EndHeld(s))
    /\ WF_vars(TakeIdle)

FairSpec == Spec /\ Fairness
-----------------------------------------------------------------------------
(* Properties. *)

PCs == {"exited", "idle", "lookup", "look", "waiting", "opening", "opened",
        "closing", "attached", "joined", "leaving", "sent"}

\* Every variable has its type.
TypeOK ==
    /\ record \in [Convs -> {"absent", "fresh", "started", "forgotten"}]
    /\ ran \in [Convs -> BOOLEAN]
    /\ sessions \in [Convs -> Sessions \cup {None}]
    /\ gate \in [Convs -> Workers \cup {None}]
    /\ viewers \in [Sessions -> Int]
    /\ stale \in [Sessions -> BOOLEAN]
    /\ turn \in [Sessions -> BOOLEAN]
    /\ life \in [Sessions -> {"free", "live", "closed"}]
    /\ sock \in [Sockets -> {"up", "down", "gone"}]
    /\ sub \in [Workers -> Sessions \cup {None}]
    /\ pc \in [Workers -> PCs]
    /\ local \in [Workers -> Sessions \cup {None}]
    /\ seen \in [Workers -> {"fresh", "started"}]
    /\ waitOn \in [Workers -> Workers \cup {None}]
    /\ sweep \subseteq Sessions
    /\ closer \subseteq Sessions
    /\ hpc \in [Handlers -> {"idle", "created", "removing", "closing", "forgetting"}]
    /\ hconv \in [Handlers -> Convs \cup {None}]
    /\ hsess \in [Handlers -> Sessions \cup {None}]
    /\ server \in {"up", "stopping", "draining", "closing"}

\* The gate of attach names the one worker that talks to the daemon for a
\* conversation, from before the call until its result is published.
GateExclusive ==
    \A w \in Workers : pc[w] \in {"opening", "opened"} <=> gate[ConvOf(w)] = w

\* Nobody sleeps on an opening that is over: a waiter's gate is one whose opener
\* has still to close it (attach deletes the gate from the map before it closes
\* the channel, and a new one may be in the map by then).
NoLostWakeup ==
    \A w \in Workers : waitOn[w] # None =>
        /\ pc[w] = "waiting"
        /\ pc[waitOn[w]] \in {"opening", "opened", "closing"}
        /\ ConvOf(waitOn[w]) = ConvOf(w)

\* A worker counts on a session from its join until its leave.
Watching(s) == {w \in Workers : \/ sub[w] = s
                                \/ pc[w] \in {"joined", "leaving"} /\ local[w] = s}

\* session.viewers is exactly the number of workers watching the session, through
\* every cancellation and cleanup: it never leaks a viewer, and never drops one.
ViewersExact == \A s \in Sessions : Reachable(s) => viewers[s] = Cardinality(Watching(s))

\* The registration subscribe re-checks for is never there: the worker is the
\* only one to register its conversation, and cleanup waits for the worker.
SubscribesAlone ==
    \A w \in Workers :
        pc[w] \in {"lookup", "look", "waiting", "opening", "opened", "closing",
                   "attached", "joined"} => sub[w] = None

ClosingBy(h) == IF hpc[h] = "closing" THEN {hsess[h]} ELSE {}
\* Whoever takes a session out of the map (sweep, shutdown, delete) is the only
\* one to close it, and does so once; no one can still find it in the map.
ClosedOnce ==
    /\ sweep \cap closer = {}
    /\ \A h \in Handlers : ClosingBy(h) \cap (sweep \cup closer) = {}
    /\ \A h, g \in Handlers : h # g => ClosingBy(h) \cap ClosingBy(g) = {}
    /\ \A s \in sweep \cup closer \cup UNION {ClosingBy(h) : h \in Handlers} :
          life[s] = "live" /\ s \notin Held

\* A session that a request finds in the map has a handle nobody has closed.
HeldIsLive == \A s \in Held : life[s] = "live"

\* The sweep takes no session that has a registered subscription or a turn.
SweepSpares ==
    [][\A s \in sweep' \ sweep : ~turn[s] /\ \A w \in Workers : sub[w] # s]_vars

\* A worker that waits for another's opening is woken, whether it succeeds or not.
WaitersWoken == \A w \in Workers : pc[w] = "waiting" ~> pc[w] # "waiting"

\* A socket that is cancelled is cleaned up: none of its workers holds it back.
SocketsDrain == \A k \in Sockets : sock[k] = "down" ~> sock[k] = "gone"

\* While the process serves, a session that stays without viewers and without a
\* turn does not stay in the map (README, on -idle-after).
UnattendedReleased ==
    \A c \in Convs, s \in Sessions :
        ~<>[](server = "up" /\ sessions[c] = s /\ Watching(s) = {} /\ ~turn[s])

\* What the README says and the code does not do.

\* "Shutting down does the same for every conversation it still holds" (README).
ShutdownReleases ==
    [][(server \in {"draining", "closing"} /\ server' = "up")
       => Held \cup closer = {} ]_vars
=============================================================================
