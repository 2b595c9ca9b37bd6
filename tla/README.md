# A verification project for ac-chat-app

ac-chat-app is a chat front end for agent-compose: a Go server that signs people
in, keeps a list of their conversations, and relays each conversation between
any number of browser sockets and the agent-compose daemon. This directory holds
TLA+ modules translated from its source, the TLC instances that check them, and
TLAPS proofs.

## The system

| component | source | state it keeps | operations |
|---|---|---|---|
| conversation lifecycle | `server.go`, `session.go`, `socket.go` | `uiServer.sessions` and `opening` under `uiServer.mu`; a session's `viewers`, `idle`, `current` under `session.mu` | `attach`, `open`, `create`, `remove`, `release`/`takeIdle`, `closeAll`, `endSession`, `join`, `leave` |
| turns of a session | `session.go`, `streamTurns` in `socket.go` | `session.current` and the `turn` channel; each relay's `last` and `joined` | `send`, `interrupt`, `turns` |
| socket multiplexer | `socket.go` | `subscriptions`, `queues`, the worker group, the outbound channel, the connection's context | `dispatch`, `serve`, `handle`, `subscribe`, `unsubscribe`, `sendContext`, `writeFrames`, the deferred cleanup |
| store | `store.go`; `findRecord`, `reindex` and the handlers in `server.go` | users and conversation rows in memory; the state file and its temporary file | `remember`, `touch`, `rename`, `forget`, `findRecord`, `save`, `openStore`, `reindex` |
| transcript | `server.go`, `openConversation` in `public/index.html` | none on the server; what the page has drawn | `describe`, `readConversationHistory` |
| authentication | `auth.go` | grants by token digest, failure counters by address | `signIn`, `signOut`, `resolve`, `throttled`, `recordFailure`, `clearFailures`, `sweep` |
| startup and shutdown | `main.go` | main's context, the HTTP server | signal, `Shutdown`, `closeAll`, return |
| account commands | `main.go` | a second process on the same state file | `manageAccount`, `addUser`, `setPassword`, `bootstrap` |
| page | `public/index.html` | views, subscriptions, pending subscriptions, the socket and its reconnect timer | `openConversation`, `subscribe`, `unsubscribe`, `handle`, `resubscribe`, the composer |
| agents catalog, event rendering, settings, static files | `agents.go`, `events.go`, `env.go`, `secret.go`, `server.go` | none | one query, conversions |
| chat SDK and daemon | not in the repository | runs, labels, turns | `Send`, `Open`, `Start`, `Close`, `Lookup`, `Conversations`, `Events`, `Wait` |

**How they interact.** A page opens one WebSocket. The socket's reader routes
each frame to a worker goroutine per conversation. A worker that subscribes
resolves the conversation (store, then daemon), attaches to its session (found in
the server's map, waited for at its gate, or opened through the daemon), joins it
as a viewer, registers the subscription and starts a relay goroutine, which ranges
over the session's turns and puts frames on the socket's one outbound queue. Two
sockets that watch one conversation share the session. HTTP handlers create and
delete sessions in the same map; a ticker's goroutine takes idle ones out of it;
the shutdown goroutine takes all of them. All of these call the daemon off the
lock. The store is shared by handlers and workers and saves under its own lock.
Every request is resolved to a user by the authenticator, whose accounts are the
store's; an account command is another process that reads and saves the same file.

**What is hard.** Every handler holds a lock for a few lines, drops it, calls the
daemon, and takes it again. So the interesting states are the ones between two
critical sections: a session found but not joined, a gate deleted but not closed,
a reply that has been returned but not published, a row remembered before its
session is. Cancellation is a context that is looked at in selects where another
branch may be ready too. Liveness rests on closed channels, a cleanup that waits
for workers, and a writer that everything else waits for. The process can be
killed anywhere, and shutting down is a race between two goroutines. What one
request reads, a transcript say, is used after other requests have changed it.

**What makes each part correct.**

- Lifecycle: one opener per conversation; waiters are always woken; the viewer
  count is the number of workers watching; whoever takes a session out of the map
  is the only one to close it; what the map holds is not closed; an unattended
  conversation is released, and the sweep takes none that is subscribed to.
- Turns: no relay sleeps through a change of the current turn; each viewer takes the
  newest turn whenever it looks and is shown it once, to its end; what was replaced
  before it looked, it does not get.
- Socket: frames of a conversation stay in order and none is lost while the
  connection lives; one relay speaks for a conversation; nothing waits in a
  circle; the cleanup leaves nothing behind.
- Transcript: what is read page by page is whole, and of what is in it only a turn
  that was published after the page's relay had looked is begun again.
- Store: the file is a list that memory held as a whole, whatever fails; when
  nothing failed, it is the list that memory holds; a conversation has one row.
- Accounts: the state file is whole, as long as no two processes write it at once.
- Authentication: whoever is signed in gave the password that the server has loaded; a
  block ends when it should; the sweep takes what is over, all of it, and nothing else.
- Page: without a socket it is about to try for one; nobody waits for an open or an
  answer that is not coming; a turn that was cut off is rebuilt; what works stays
  subscribed and what is left idle is released.

`PROJECT.json` lists the hazards by line with the properties that cover them.

## The modules

| module | models | process and steps |
|---|---|---|
| `Conversations` | lifecycle, startup and shutdown | one process per worker (socket, conversation), per HTTP handler, for the sweep, for the shutdown and for main |
| `HandleLife` | what becomes of the daemon's handles | abstract |
| `TurnFeed` | what a session promises its viewers | abstract |
| `Turns` | `session.send`, `interrupt`, `turns`; `streamTurns` | a worker and a relay per subscription, the daemon |
| `Opening` | a page that reads the transcript and then subscribes; extends `Turns` | one read of the daemon's history per step |
| `Link` | what one connection promises the page | abstract |
| `SocketMux` | one connection | reader, a worker per conversation, a relay per subscription, writer |
| `DurableIndex` | what the store promises about the list | abstract |
| `Store` | the conversation rows and their file | a process per request; a save is two writes and a rename |
| `Accounts` | the accounts in the state file, account commands, bootstrap | the server and a command, each with its copy of the file; a save is two writes and a rename |
| `Auth` | signing in; extends `Accounts` | a process per sign-in request, the sweep, the clock |
| `Page` | the browser's side of the socket, and whether the server still knows the sign-in | a task of the page's event loop per action; the server as `Link` allows |
| `ConversationsProofs`, `OwnershipProofs` | theorems about `Conversations` | |
| `TurnsProofs`, `OpeningProofs`, `MuxProofs`, `StoreProofs`, `PageProofs` | theorems about `Turns`, `Opening`, `SocketMux`, `Store` and `Page` | |
| `AuthProofs` | theorems about `Auth` and the accounts under it | |
| `MCConversations`, `MCOpening`, `MCSocketMux`, `MCStore`, `MCAuth`, `MCPage` | symmetry, views and constraints for TLC | |

An action is one critical section or one call of the daemon, and is named for it.
Inside a process the order of actions is a control point (`pc`, `hpc`, `wpc`,
`rpc`, `reader`), so a path of `attach` reads as
`Subscribe, LookupFinds, AttachOpens, OpenSucceeds, Publish, CloseGate, Join,
Register`, each with the guard of its branch in the source.

- *Sessions are identities.* Go collects a session that nothing refers to.
  `Reachable` says which are referred to; `NewSession` picks one that is not. So a
  finite set of identities stands for any number of sessions, and `Sessions`
  bounds only how many are alive at once.
- *The two levels of a turn.* `Conversations` keeps, per session, what `running`
  reports: that the current turn is in flight. `Turns` refines it: there a send
  and the publication of its reply are two steps, and which turn is current is a
  number. `TurnEnds` of `Conversations` therefore also stands for a finished turn
  that replaces a running one.
- *The index in three places.* `Conversations` sees of a row whether it is absent,
  fresh, started or forgotten; `Store` has the list, the file and the failures;
  `Accounts` has of the list one bit, which the server's requests flip.
- *Files.* A writer keeps the file it opened when another process renames it: `fd`
  says where that file is now. What of a file is half-written reads as `Torn`; two
  processes that write into one file leave either one's copy or a torn one.
- *Time.* `Auth` keeps how much of a sign-in's time is left and how old a count of
  failures is. `Pass` changes all of them alike; beyond what can be told apart they
  stand still. The sweep's tick may be up to `MaxLate` older than the clock, as a
  ticker's is when its goroutine waits for the lock.
- *The password check* of `signIn` reads the process's own copy of the accounts. No
  code of a serving process changes that copy, so the check and the `issue` that
  follows are one step; the block is asked before, and the count cleared after, in
  steps of their own.
- *The same connection in two places.* `Conversations` has of a socket whether it
  is up, cancelled or gone, and its workers; `SocketMux` has the queues and the
  order in which its goroutines end.
- *Selects.* Where a context is done and another branch is ready as well, both are
  possible: a worker may take a queued frame after the cancellation, a relay may
  queue a frame after its subscription's end, the sweep may take a tick after the
  signal.
- *The page's event loop.* JavaScript runs a task to its end, so a task is one
  action and a function of the page is an operator from the page's record to the
  next one. What follows an `await` whose promise is settled runs before the next
  task (`soon`); what waits for the socket to open is `waits`. The server of `Page`
  takes a frame as soon as it is sent and its answers are as slow as they like: the
  page cannot tell a slow way there from a slow way back.
- *The daemon's answers* are non-deterministic: a lookup finds a run or fails, an
  opening fails, a close fails and leaves the turn running, a turn ends either way.

Definitions called mutants in the modules are the plausible mistakes each property
has to notice: replacing the definition that follows by the mutant must make TLC
find the property violated.

### Abstract specifications

`TurnFeed` says what a viewer of a session gets, and what it does not. A viewer that
looks takes the newest published turn and no other, is shown it from start to end, once,
and rests only while nothing is new to it; a publication ends every rest. A turn that was
replaced while a viewer was busy is therefore passed over, and no other turn is.
`Turns` implements it (`FeedsTurns`): the newest turn is `current`, a viewer has chosen a
turn while its relay is between the look and `turn_started`, has it open until the end of
its events, and rests while it waits on a channel that is open.

`DurableIndex` is a list edited one row at a time with a kept copy
that a restart goes back to; `Store` implements it with memory and the state file
(`KeepsIndex`), so a torn file, a file that mixes two saves or a row that returns
from nowhere are ruled out as behaviours and not only as states.

`HandleLife` follows a handle of the daemon from its opening to its close: in one
hand, listed under a conversation, taken out, closed. It names the ways in which one
is left open: its creation fails after the handle was made, another handle is listed
in its place, or the process ends. `Conversations` implements it with the map, with
what workers and handlers have in hand, and with what the sweep, `closeAll` and a
delete took (`KeepsLifecycle`); there is no fourth way.

`Link` is what the two ends of a socket have in common, and what joins `SocketMux` to
`Page`. Per conversation it has the frames that are still to be served, whether the
page is to hear of it, and whether it is subscribed to. `Outcomes` lists what may become
of a frame: a subscribe may fail and is heard of either way, the end of a subscription
that is held is heard of, a message that was accepted may go unanswered when its row
cannot be updated (socket.go:197-200), anything else is answered. `SocketMux` implements it
(`KeepsPromise`): what is still to be served is what the worker asks the daemon about,
then its queue, then the frame the reader waits with. On the other end, every outcome that
`Link` has for a frame the page sent is one that the server in `Page` gives
(`ReadyForLink`), so what is shown of the page does not rest on answers the connection
does not promise. `Link` lets an answer go missing at any moment, as a connection may end;
that the page copes with this is `Page`'s. A frame that is refused at the limit of
conversations is answered with an error, as one that fails is.

## The runs

| run | instance | shows |
|---|---|---|
| `lifecycle` | 2 sockets, 1 conversation, 3 sessions, 1 handler | gate, viewer count, single close, live handles, sweep, under create, delete, signal, closeAll, kill and restart |
| `released` | 2 sockets, 1 conversation, 2 sessions, 1 handler; while the server serves | unattended conversations are released, waiters are woken, sockets drain |
| `shutdown_keeps` | 1 socket | a finding |
| `turns` | 2 subscriptions, of which one is the page's; 2 past turns, 2 more; pages of 1 exchange | transcript whole, what of it is begun again, no lost turn, refinement of `TurnFeed`, liveness |
| `opening_gap` | 1 past turn, 1 more | a finding |
| `socket` | 3 conversations, a limit of 2, a daemon that need not answer for one of them; queues of 1, 3 frames, 2 events per relay | order, one relay, one late frame, clean end; every frame is handled, the cleanup ends |
| `late_frame` | as `socket` | a finding |
| `store` | 2 conversations, 2 requests, 2 rows | durability, refinement of `DurableIndex`, one row each |
| `page` | 2 conversations, 1 frame under way before a turn or a submission, 2 before a click, 1 call waiting for the socket | reconnects, promises, cut-off turns, what may be released |
| `expired_session` | 1 conversation, 1 frame under way | a finding |
| `sign_in` | 2 names, 2 passwords, 1 token, 1 address, 2 requests; a lifetime of 1, a window of 2, a limit of 2, a sweep late by up to 1; one process on the file at a time | blocks, the sweep, the file whole |
| `accounts_beside` | 1 name, 2 passwords, a command beside the server | a finding |

**Why the bounds are enough.** The gate, the count and the close are each
contested by two parties: two sockets give two workers of one conversation (an
opener and a waiter, a viewer that joins and one that leaves), the handler and the
sweep add the third and fourth. Three sessions let one be closed, one be opened
and one be watched at a time; with two, one that is being closed and one that has
taken its place. One conversation is enough for everything that is per conversation.
What takes several sessions at once (the sweep, `closeAll`) is checked with two of
one conversation, one after the other, and proved for any number (see below). Two
turns let a send overtake another's
publication, and a relay be busy with one while the next begins; two more before the
session, read one exchange a page, make a history of several pages that grows while
it is read. Queues of one
element with three frames reach: one frame handled, one queued, one that the
reader waits with, while the relay fills the outbound queue and the worker waits for a
place in it. The page subscribes to both conversations and does everything else with the
first (`OneBusy`): the second is there for its worker, which may wait for its daemon for
ever, and its relay; the third only to be refused. For any capacities the circle is
excluded by proof (`NoCircle`). Two rows let a row be duplicated or moved; two requests make
every pair of critical sections overlap. Two sign-in requests overlap in every step
of `signIn`, and two failures reach the limit, so that one in flight can pass a block
that the other begins; a window longer than the lateness separates a block that
counts, one that is over, and one the sweep sees too late; tokens and addresses do
not affect each other, and with one token a new sign-in needs the old one gone,
which loses nothing since the properties speak of each alone. For the page, two conversations are one
that is left and one that is opened; a click while one answer is still under way
makes a second subscribe overtake the answer to the first; the other bounds only
keep short what waits for delivery.

`MCConversations` collapses states that differ only in fields of sessions nothing
refers to (its `View`), and uses symmetry in the safety run only. Its constraints choose
between two sockets and everything else. In `lifecycle` one connection may meet all of
it: requests, sends, signal, `closeAll`, kill and restart. Two at a time do so while the
server serves and either nothing is being sent or no request is being served: requests
meet two workers while nothing is sent, and sends while there are no requests.
`released` looks at the serving process, with one connection or, for the gate, with two
and a conversation that has run before, with nothing being sent and no request: no step
that takes, waits on or closes a gate reads a turn, and an opening fails only for such a
conversation.

`CHECK_DEADLOCK FALSE` stands where the model ends because a bound is used up (all
turns begun, all frames sent) or a connection is closed for good, and in the runs
that look for one state. `Conversations`, `Store`, `Auth` and `Page` never stop, and
are checked for deadlock.

**Fairness.** Go runs every goroutine that can run: weak fairness per worker that has a
frame in hand, per handler, relay, reader and writer. What an idle worker does next is the
browser's, of which nothing is assumed. In `Conversations` a call of the daemon returns:
the sweep's are bounded by a timeout, the others by the connection. In `SocketMux` it
returns too, but for the conversations of `Slow` perhaps only when the connection's
context is done. A ticker fires and time passes: weak fairness of `GrowStale` and
`TakeIdle`. A select does not pass over a done context for ever: strong fairness of
`WaitCancelled` and `Exit`, since a queued frame may be taken first each time. A
connection whose context is done stops answering pings, so the reader's deadline comes.
For `Auth`: time passes and the sweep's ticker fires, whatever the server does meanwhile;
a killed server is no exception to either, for its table is empty. For `Page`, in
`expired_session` only: timers fire, requests and handshakes end one way or the other, and
the server serves what it got; its counterexample is a loop in which all of that happens.
Nothing is assumed of people, of requests, of turns ending, of failures or of the
process's end.

## Findings

Each is a run in which TLC finds what a comment or the documentation says to be
violated by what the code does.

1. `shutdown_keeps`: main returns when the listener is closed, so conversations
   may be still held, or taken by `closeAll` and not closed (README.md:257,
   main.go:110-117).
2. `opening_gap`: a turn that ends between the page's GET and the relay's first look
   is neither in the transcript nor replayed; the comment at session.go:89-91 and
   README.md:238-240 take it to be in the transcript. The page does not load a view
   again (index.html:753), so the exchange is missing until that view is discarded. Two sends
   that publish in the opposite order of their turns do the same to a turn that still
   runs (session.go:60-66); `MissingOnlySo` says that there is no third way.
3. `accounts_beside`: the temporary file has one name for all processes
   (store.go:99), so a command can rename what the server has emptied and not yet
   written, and a crash of the server then leaves what store.go:87-88 says it cannot:
   a half-written file, which `openStore` refuses.
4. `late_frame`: the comment at socket.go:295-297 says that unsubscribing cannot leak "a
   late event onto the shared socket". A relay that has passed the first select of
   `sendContext` may choose to queue its frame in the second (socket.go:316-323) although
   its subscription was cancelled, and acknowledged as ended, in between. There is one
   such frame at most (`OneLateFrame`). The page ignores a frame for a view it does not
   have, and takes one for a view that it has kept.
5. `expired_session`: index.html:841-842 says that retrying the handshake of an expired
   session for ever would hide it behind a reconnect loop. The page looks for a 401 from
   `/api/me` (index.html:845), which is not guarded (server.go:60) and answers 200 with a
   null user (auth.go:212-217). So close, probe and reconnect repeat, and the form comes
   only when a click makes a request that is answered with 401.

Also seen, and reached by the models or read in the code, but not stated as
properties of a run. In the store: recoveries that overlap list a conversation twice,
and a delete then removes one row (server.go:213-216, 386; `OneRowEach` says there is
no other way); a delete whose `Lookup` fails drops nothing, and a conversation that
another client deleted is not found by open, rename or delete, so that its row stays
for good, where README.md:267 has it stay "until it is opened" (server.go:533-539);
a command beside a running server, which README.md:33-36 shows without a word on it,
changes a file the server does not read again: old sign-ins survive a change of the
password (main.go:142), a new account cannot sign in, and the server's next save undoes
both (store.go:95-103); a save that failed is completed by the next one; sign-ins in
flight when a block begins are not counted by the limit that "bounds guessing"
(auth.go:34, 162); recovered conversations get the time of their recovery
(store.go:200). At the start: the first account is saved before its password is
printed (main.go:161-165); a token for the daemon from `.env` precedes
`AC_DAEMON_TOKEN` from the environment when it has the other name (main.go:204-208).
In the page: a conversation that is left stays subscribed when the next one's
subscription fails, or when its own was still being made (index.html:777-781,
917-922). In the server: the sweep can
take a session between a subscriber's `attach` and its `join` (socket.go:236-242);
two sends can publish in the opposite order of their turns, and a session with a
running turn is then releasable (session.go:60-66, 136); a turn that is over before its
send publishes it is begun again for a page that has it in its transcript
(session.go:60-66, against session.go:88-91 and README.md:238-241;
`DrawnAgainOnlyLate` says that there is no other way); `create` publishes its
session outside the gate (server.go:264-271); a kill between a send and `touch`
leaves a row unstarted (socket.go:190-197); sockets go on attaching while
`closeAll` runs (main.go:106); a viewer that is behind is not given the turns that were
replaced meanwhile, where the comment has "every turn that begins while ctx lives" (session.go:83-84, 97-113); a full
queue of one conversation holds up the whole socket, against socket.go:28-30 and
README.md:231-232 (socket.go:156). In the page: a
message submitted while the socket is down goes out after `resubscribe` has dropped
its view and before the view's new subscribe, or to the conversation that is current
by then (index.html:868-876, 1503-1504); Enter submits a second message while the
first is in hand, and its error ends the turn on screen (index.html:982-987); the
error of a message can be taken for the answer to a subscribe (index.html:971-977).

## What is proved

`ConversationsProofs` and `OwnershipProofs` prove, for every set of sockets, conversations, sessions and
handlers (sockets and conversations finite, `None` none of them), by induction over
the steps of `Conversations`:

| theorem | states |
|---|---|
| `Typing` | `Spec => [](TypeOK /\ Control)` |
| `OneOpener` | `Spec => []GateExclusive` |
| `WaitsOnOpener` | `Spec => []NoLostWakeup` |
| `NeverRegisteredTwice` | `Spec => []SubscribesAlone` |
| `ViewersCounted` | `Spec => []ViewersExact` |
| `TakerCloses` | `Spec => []ClosedOnce` |
| `FoundIsLive` | `Spec => []HeldIsLive` |
| `SweepTakesUnwatched` | `Spec => SweepSpares` |
| `HandlesAccounted` | `Spec => KeepsLifecycle`, the refinement of `HandleLife` |
| `OnlyCreateDisplaces` | `Spec /\ [][NotCreated(c)]_vars => [][NotDisplaced(c)]_vars` |

Types alone are not inductive: `viewers[local[w]]` is a count only if `local[w]` is
a session. `Control` is the strengthening: a worker has a session in hand from its
attach to its leave and at no other time; it has a subscription only while idle or
sending (or, at its end, before its cleanup); a socket that is gone has workers
that have exited or are leaving; a handler has a conversation while it serves and a
session while it publishes or closes. `Control` has one lemma for workers and one
for handlers, each with a step per action.

`GateExclusive` and `NoLostWakeup` are inductive together: that a waiter's opener
has still to close its gate follows from the gate naming exactly the worker that
opens. `SubscribesAlone` is a consequence of `Control` alone. It says that the
re-check in `subscribe` can never find a subscription: a worker is the only one to
register its conversation on its socket, and the cleanup waits for it.

`ViewersExact` needs finiteness of the workers and two lemmas: a step that changes
neither counts nor watchers keeps it, and so does one that makes a session of an
identity nothing referred to, for then nothing watches it. `Join` and `Leave` add
and remove exactly one watcher.

`ClosedOnce` and `HeldIsLive` need an ownership invariant, `OwnInv`: whatever can
still close or publish a session is its only owner. It has a part for each kind of
owner: the map, in which no session stands under two conversations; a worker that has
opened and not published; a handler that is about to publish or close; the sweep and
the shutdown with what they took. Each part says that its session is live and that no
other owner has it. A step moves a session from one owner to the next, or makes one of
an identity nothing refers to.

`SweepTakesUnwatched` is an action property and rests on `ViewersExact`: the sweep
looks at a count and a turn, and a count of zero means no worker is subscribed.

`HandlesAccounted` rests on the same `OwnInv`: where every handle has one owner, a step
that takes it from one removes it from that place altogether. `CloserLate` is needed
beside it: `closeAll` runs once, so what it takes adds to nothing. `OnlyCreateDisplaces`
is about the way of `HandleLife` that loses a handle in the map. Its hypothesis is a
behaviour in which no request creates conversation `c`; then a conversation whose gate is
taken has no session (`Vacant`), so `attach` publishes over none. Without the hypothesis
it is false, as TLC shows with one socket and one request: `create` publishes outside the
gate.

`AuthProofs` proves, for every set of names, passwords, tokens, addresses and requests
and every limit:

| theorem | states | when |
|---|---|---|
| `SignedInForLoaded` | `Spec => []SignedInAsLoaded` | always |
| `SweepTakesOld` | `Spec => SweepSparesCurrent` | always |
| `BlocksEnd` | `Spec => BlockNeverExtended` | always |
| `AuthTyping` | `Spec => []TypeOK` | `~Beside` |
| `TornOnlyByOverlap` | `AccountsSpec => [](file # Torn)` | `[]Apart` |

What the server has loaded is its own, whatever else writes the file: a sign-in is always
for the password it has loaded, and the table and the counts are touched by it alone. The
first three theorems say so, from `Typed`, `Employed` (a process does only the jobs it was
started for) and `Served` (sign-ins and requests exist only while the server is past its
bootstrap). That the loaded password is the one in the file is not so beside commands, and
is not claimed: a command changes the file, the sign-ins stay, and the server's next save
undoes the change.

`TornOnlyByOverlap` gives the exact extent of finding 3. `Apart` says that no two
processes are between emptying the temporary file and renaming it. Any number of
processes may run then, fail and be killed, and the file is whole: `Saved` (what a save
renames is what it wrote) is kept beside them, since what a killed or failing save leaves
behind is read by nobody but a save that empties it first. Without `Apart` the run
`accounts_beside` tears the file. `AuthTyping` is a consequence: `~Beside` says that no
command runs beside the server, so at most one process is up (`Alone`), and `Apart` holds.

The sweep and the blocks need only the types and the limits: the sweep spares
whatever `Throttled` still counts, and recording a failure never makes an entry that is
not yet over younger.

`TurnsProofs` proves of `Turns`, for every set of subscriptions and any number of turns:

| theorem | states |
|---|---|
| `TurnsTyping` | `Spec => []TypeOK` |
| `NoneLost` | `Spec => []NoLostTurn` |
| `Feeds` | `Spec => FeedsTurns`, the refinement as a whole |

`NoLostTurn` is about relays that wait, and is kept by the invariant because of what
relays know before they wait. `Begun`: a reply that is not yet published is in one
worker's hand. `Known`: a relay's turns were all published. `Course` ties a relay's
place in its loop to whether it has joined a turn. `Undecided`: a turn a relay has
still to decide on has not been shown. `LastShown`: if the current turn was shown, it
is the last that was, so that comparing with `last` is enough for "not twice". `Feeds`
needs them for one thing above all: a relay compares `current` with `last`, `TurnFeed`
with everything the viewer has seen, and the two agree. A step of
`Opening` is one of `Turns` with a further guard, or leaves the variables of `Turns`
alone, so all three hold of it too.

`OpeningProofs` proves of `Opening`, for every set of subscriptions, any number of past and
later turns and any size of a page of history:

| theorem | states |
|---|---|
| `OpeningIsSession` | `OpeningSpec => Spec`, so that what holds of `Turns` holds here |
| `WholeTranscript` | `OpeningSpec => []TranscriptWhole` |
| `NoneDrawnAgain` | `OpeningSpec => []DrawnAgainOnlyLate` |
| `MissingOnlySo` | `OpeningSpec /\ [][EndsOutside /\ Orderly]_allVars => NotReplayedIsDrawn` |

Reading page by page backwards from a cursor would leave a gap, or read something twice, if
what was read moved while more turns end. `PageInv` is why it does not. `InTurn(e)`: turns
are begun one after the other, so the exchanges that are over are exactly the first `e` of
them. `ReadTo(e)`: the pages lie side by side, the newest first, each a stretch of exchanges
that ends where the one read before it begins; the cursor stands at the left end, and the
reading is done when that end is the beginning. The right end was fixed by the first page, and has in it all that was
durable when the reading began. Joining adjacent stretches gives one stretch from the first
exchange. That the fold that joins them solves its equation once is an argument by
well-foundedness (`FlattenSolved`).

The last two say how far the comment on `turns` holds (session.go:88-91), by the cases in
which it does not. `NoneDrawnAgain`: the relay does not begin an exchange that is drawn
already, unless the session did not know its turn when the relay first looked, because
the send that began it had still to publish it. Its invariant is `DealtWith`: what is drawn
and was published by that look counts as shown, or is what the relay has in hand to decide
on. `MissingOnlySo`: the exchanges that count as earlier, and are therefore not replayed,
are drawn, unless a turn ends between the first page of history and the relay's first look
(`EndsOutside` excludes that), or two sends publish in the opposite order of their turns
(`Orderly`), so that the later turn counts as an earlier one while it still runs. Its
invariant is `Caught`: from the first page of history on, what is over is what that page
ends with. Each hypothesis is needed: without it TLC finds the statement violated on
`MCOpening`'s instance, with both it holds there.

`MuxProofs` proves of `SocketMux`, for every set of conversations and every capacity:

| theorem | states |
|---|---|
| `MuxTyping` | `Spec => []TypeOK` |
| `HandledInOrder` | `Spec => []InOrder` |
| `OneSpeaks` | `Spec => []OneRelay` |
| `LateOnce` | `Spec => []OneLateFrame` |
| `LeftClean` | `Spec => []ClosedClean` |
| `ReaderNeverStuck` | `Spec => []NoCircle` |
| `PromiseKept` | `Spec => KeepsPromise`, the refinement of `Link` |

`InOrder` has two halves. `Ordered`: a queue holds, in order of arrival, frames that came
after all that were handled. `Complete`: while the context is not done, each frame that
was routed to a worker is handled or queued, and a conversation without a worker was
refused one at the limit of conversations, a limit that stays reached, as workers end
with the connection only. `Relays` says that a relay which is not cancelled is the one
registered, and bounds the late frame; `Working` ties what a worker has in hand to its
conversation; `Cleaned` is the end of the cleanup.

`NoCircle` is the safety half of `FramesHandled`, for any capacities: while the connection
lives and the reader waits for a place in a queue, there is one, or that queue's worker has
a frame to take, a call of the daemon to come back from, or an answer for an outbound queue
that has room or a writer that makes some. It needs `Leaving` (a writer, a reader or a
worker that is gone has cancelled the connection) and `Routable` (a worker is given no frame
it cannot handle). That the step is then taken is fairness, and TLC's.

`PromiseKept` needs one thing more, `Refused`: a conversation without a worker has nothing
queued and is not subscribed to, so that a frame refused at the limit overtakes nothing. What
is still to be served is a concatenation of three parts, and a step moves a frame from one
to the next (a stutter of `Link`), takes the first away (`Serve`, with an outcome of its
kind) or, after the connection's end, the last (`Drop`). A message whose row cannot be
updated is taken away without an answer, as `Link` allows.

`StoreProofs` proves of `Store`, for every set of conversations and requests and any
natural `MaxRows`:

| theorem | states |
|---|---|
| `IndexTyping` | `Spec => []TypeOK` |
| `SettledSaved` | `Spec => []SettledIsSaved` |
| `KeepsDurableIndex` | `Spec => KeepsIndex`, the refinement as a whole |
| `ListedOnce` | `Spec => OneRowEach` |

The refinement rests on `Locked` and `Written`: who saves holds the lock, so what is
renamed is what memory holds. `ListedOnce` needs `Fresh` (the identity of a conversation
that is being created is nobody else's) and `Unhurried` (a recovery that none has
overlapped is the only one, so that what it found missing is still missing). That
`indexOf` finds the first row is an argument about the least of a set of numbers, by
well-foundedness.

`PageProofs` proves of `Page`, for every set of conversations and every bound:

| theorem | states |
|---|---|
| `PageTyping` | `Spec => []TypeOK` |
| `AlwaysComesBack` | `Spec => []ComesBack` |
| `WaitersSettled` | `Spec => []WaitsForOpening` |
| `CutOffNotShown` | `Spec => []CutOffRebuilt` |
| `PendingAnswered` | `Spec => []PendingAsked` |
| `WorkStaysSubscribed` | `Spec => KeepsWorking` |
| `ReadyForLink` | each outcome of `Link` for the frame the page sent next is a step `Serve(c)` |

The functions of the page are operators, and the proofs are about them first. `Sound`
holds of the page at any point of a task, `Settled` between tasks only: while
`resubscribe` runs, the socket is open and cut-off views are not yet rebuilt. `Lesser(p, q)`
says that `q` is `p` with views, subscriptions and promises given up and no view with a
turn unsubscribed; `unsubscribe`, `releaseIfIdle`, `discardView` and the reload each
lead to a lesser page, so does one after the other, and a lesser page is sound if the
page was. `WorkStaysSubscribed` needs one thing more: a conversation with a pending
subscribe is not subscribed, so the error that answers it takes nothing away.

`AlwaysComesBack` says that the page never stops trying. It does not say that an attempt
can succeed, nor that the page notices when none can (finding 5).

`ReadyForLink` joins the two ends: `PromiseKept` says that what a connection does with a
frame is an outcome of `Link`, and `ReadyForLink` that for each of these outcomes the server
in `Page` has a step, which answers accordingly. What is proved of the page is therefore
proved whichever of them comes. What the server may tell unasked (a turn that begins or
ends, one more frame after an unsubscribe) is `TurnBegins`, `TurnEnds` and the late frame of
`ServeUnsubscribe`, read from `streamTurns`.

Every safety and action property that a passing run checks is stated by a theorem. Only
model-checked: all liveness, which is out of the prover's reach (`ENABLED` and fairness
are), that is `UnattendedReleased`, `WaitersWoken`, `SocketsDrain`, `CurrentShown`,
`FramesHandled`, `CancelledCloses` and `SignInsDiscarded`; and the five findings, which are
counterexamples.

## What is not modelled

- Of the page: rendering, the list and the agent picker, and a socket that is told
  of its close before it ends (`CLOSING`): the model's socket goes from open to none
  at once. One GET per conversation is under way at a time.
- `sameOriginOnly`, the agents catalog, event rendering, settings, titles and static
  files: stateless conversions or reads. Rows have no time, so the order of the list
  is not modelled. Of a password's verifier, only whether it matches.
- Two processes on the state file while someone signs in: `Auth` is checked with one
  at a time (its theorems but for `AuthTyping` do not assume it), `Accounts` with both.
- In `Opening`, a conversation that has not run when it is opened (no history is read
  for it), and the page's events, which `Page` has.
- The daemon and the SDK beyond what their calls may answer.
- A request that is accepted in the instant between `Shutdown` and the close of
  the listener's last connection.

## The plan

1. `Conversations`, `Turns`, `SocketMux`, `Store`, `Page`; `Accounts`, `Auth` and
   `Opening` on top of them (all done).
2. Proofs: the safety of `Conversations`, `Turns`, `Opening`, `SocketMux`, `Store`, `Page`
   and `Auth`, and the refinements of `TurnFeed`, `DurableIndex`, `HandleLife` and `Link`
   and the exact extent of findings 2, 3 and 4 (done); left: of the other liveness properties
   the safety half, as `NoCircle` is that of `FramesHandled`.
3. `Page`: the closing handshake; liveness (a promise is settled, a composer is
   freed) under the fairness of the server's answers.
4. Pure operators: `parseEnvLine` and `settingOr`, the order of `conversations`,
   `truncate`, each against a definition of what it returns.
