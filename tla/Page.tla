-------------------------------- MODULE Page --------------------------------
(***************************************************************************)
(* The browser's side of the socket (src/public/index.html): views of      *)
(* conversations, subscriptions that wait for an answer, a socket that     *)
(* comes and goes, the composer, and the sign-in form.                     *)
(*                                                                         *)
(* JavaScript runs one task to its end.  A task is an action here; what it *)
(* leaves behind an await whose promise is settled runs before the next    *)
(* task and is kept in page.soon.  The page's variables are the fields of  *)
(* one record, and a function of the page is an operator from record to    *)
(* record.                                                                 *)
(*                                                                         *)
(* The server is what SocketMux promises: the frames of a conversation are *)
(* handled and answered in their order.  It takes a frame as soon as the   *)
(* page has sent it, and its answers are as slow as they like: the page    *)
(* cannot tell a slow way there from a slow way back.                      *)
(***************************************************************************)
EXTENDS Naturals, Sequences

CONSTANTS
    Convs,       \* conversations in the list
    None,        \* no conversation
    MaxWire,     \* bound on a conversation's frames under way when a turn begins or
                 \* ends, or something is submitted or archived
    MaxAsked,    \* the same bound when it is clicked
    MaxWaits     \* bound on the calls that wait for the socket

ASSUME PageAssumption == None \notin Convs /\ {MaxWire, MaxAsked, MaxWaits} \subseteq Nat \ {0}

VARIABLES
    page,        \* what the page holds
    down,        \* frames on their way to the page, by conversation
    held,        \* conversations the server holds a subscription to
    told,        \* those of them whose turn in flight the page is told of
    known        \* the server still knows the sign-in the page has

vars == <<page, down, held, told, known>>

(* The page's fields.  A view is absent, without turn, with a live turn or  *)
(* with one that was cut off.  A call that waits for a promise is a record: *)
(* what it does next, its conversation, the conversation it left (for a     *)
(* subscribe) and whether the view it has in hand is still the page's.      *)
Subscribing(c, previous) ==
    [what |-> "subscribe", conv |-> c, left |-> {previous} \ {None}, mine |-> TRUE]
Submitting(c) == [what |-> "message", conv |-> c, left |-> {}, mine |-> TRUE]
Calls == [what : {"subscribe", "message"}, conv : Convs, left : SUBSET Convs,
          mine : BOOLEAN]

SignedOut ==
    [app |-> FALSE, current |-> None,
     view |-> [c \in Convs |-> "none"], sending |-> {},
     fetching |-> {},                     \* GETs of openConversation
     socket |-> "none", timer |-> FALSE, probing |-> FALSE,
     subscribed |-> {}, pending |-> {},
     left |-> [c \in Convs |-> {}],       \* what those who wait for c left
     waits |-> <<>>,                      \* listeners of a connecting socket
     soon |-> <<>>,                       \* settled promises
     up |-> [c \in Convs |-> <<>>]]       \* frames on their way to the server

Empty == [c \in Convs |-> <<>>]

Init ==
    /\ page = SignedOut
    /\ down = Empty
    /\ held = {}
    /\ told = {}
    /\ known = FALSE

-----------------------------------------------------------------------------
(* Functions of the page. *)

Busy(p) == {c \in Convs : p.view[c] \in {"live", "frozen"}}

\* socket.send
Sent(p, cs, frame) ==
    [p EXCEPT !.up = [c \in Convs |-> IF c \in cs THEN Append(@[c], frame) ELSE @[c]]]

\* unsubscribe, of several at once
Unsubscribe(p, cs) ==
    LET q == [p EXCEPT !.pending = @ \ cs, !.subscribed = @ \ cs,
                       !.left = [c \in Convs |-> IF c \in cs THEN {} ELSE @[c]]]
    IN  IF p.socket = "open" THEN Sent(q, cs \cap p.subscribed, "unsubscribe") ELSE q

\* discardView, of several at once
Discard(p, cs) ==
    LET disowned(call) == [call EXCEPT !.mine = @ /\ call.conv \notin cs]
    IN  Unsubscribe([p EXCEPT
            !.view = [c \in Convs |-> IF c \in cs THEN "none" ELSE @[c]],
            !.sending = @ \ cs,
            !.waits = [i \in DOMAIN @ |-> disowned(@[i])]], cs)

\* Mutant: a conversation that works is released with the others.
AllIdle(p, cs) == Unsubscribe(p, cs \ {p.current})

\* releaseIfIdle, of several at once
ReleaseIfIdle(p, cs) ==
    Unsubscribe(p, {c \in cs : p.view[c] = "idle" /\ c \notin p.sending /\ p.current # c})

\* connectSocket
Connect(p) ==
    IF p.socket = "none" THEN [p EXCEPT !.socket = "connecting"] ELSE p

\* socketReady: the call goes on at once, or when the socket opens.
WhenReady(p, call) ==
    LET q == Connect(p)
    IN  IF q.socket = "open" THEN [q EXCEPT !.soon = Append(@, call)]
                             ELSE [q EXCEPT !.waits = Append(@, call)]

\* Mutant: the promises of a lost connection are left alone.
PendingLeft(p) == [p EXCEPT !.subscribed = {}]

\* failPending, after subscribed.clear
Unsubscribed(p) ==
    [p EXCEPT !.subscribed = {}, !.pending = {}, !.left = [c \in Convs |-> {}]]

\* Mutant: a lost connection stays lost.
ScheduleNothing(p) == p

\* scheduleReconnect
ScheduleReconnect(p) == [p EXCEPT !.timer = p.app]

\* showSignIn; requests and a probe under way go on.
ShowSignIn(p) ==
    [SignedOut EXCEPT !.fetching = p.fetching, !.probing = p.probing]

\* openConversation with reload, up to its request
Reload(p, cs) == [Discard(p, cs) EXCEPT !.fetching = @ \cup cs]

\* Mutant: only the conversation on screen is looked after.
ResubscribeCurrent(p) ==
    IF p.current # None THEN WhenReady(p, Subscribing(p.current, None)) ELSE p

\* resubscribe
Resubscribe(p) ==
    LET stale == Busy(p) \cup p.sending
        q == Reload(Discard(p, stale \ {p.current}), stale \cap {p.current})
    IN  IF p.current \in stale \/ p.current = None THEN q
        ELSE IF q.view[p.current] = "none" THEN q
        ELSE WhenReady(q, Subscribing(p.current, None))

-----------------------------------------------------------------------------
(* Tasks of the page.  Nothing else runs while a settled promise waits. *)

Idle == page.soon = <<>> /\ page.up = Empty
\* Bound: what the user asks for only while there is room on the wire.
RoomFor(c) == Len(down[c]) < MaxWire
CanWait == Len(page.waits) < MaxWaits
Disconnected == down' = Empty /\ held' = {} /\ told' = {}

\* showApp
SignIn ==
    /\ Idle /\ ~page.app
    /\ page' = Connect([page EXCEPT !.app = TRUE])
    /\ known' = TRUE
    /\ UNCHANGED <<down, held, told>>

\* The server forgets the sign-in: it is too old, or the server starts anew.  It tells
\* nobody, and a socket that is open stays so.
Expires ==
    /\ Idle /\ page.app /\ known
    /\ known' = FALSE
    /\ UNCHANGED <<page, down, held, told>>

\* The sign-out button, or a request that is answered with 401.
SignOut ==
    /\ Idle /\ page.app
    /\ page' = ShowSignIn(page)
    /\ known' = FALSE
    /\ Disconnected

\* A click in the list: openConversation, up to a request that gets through.
Click(c) ==
    /\ Idle /\ page.app /\ known /\ Len(down[c]) < MaxAsked
    /\ c \notin page.fetching
    /\ page' = [page EXCEPT !.fetching = @ \cup {c}]
    /\ UNCHANGED <<down, held, told, known>>

\* The conversation arrived: it is shown, and subscribed to.
Fetched(c) ==
    /\ Idle /\ c \in page.fetching /\ CanWait
    /\ page' = WhenReady([page EXCEPT !.fetching = @ \ {c}, !.current = c,
                                      !.view[c] = IF @ = "none" THEN "idle" ELSE @],
                         Subscribing(c, IF page.current = c THEN None ELSE page.current))
    /\ UNCHANGED <<down, held, told, known>>

\* It did not, or the sign-in was over when the server looked.
FetchFails(c) ==
    LET p == [page EXCEPT !.fetching = @ \ {c}]
    IN  /\ Idle /\ c \in page.fetching
        /\ \/ page' = p /\ UNCHANGED <<down, held, told>>
           \/ ~known /\ page' = ShowSignIn(p) /\ Disconnected
        /\ UNCHANGED known

\* archiveConversation, once the request has returned
Archive(c) ==
    /\ Idle /\ page.app /\ RoomFor(c)
    /\ page' = [Discard(page, {c}) EXCEPT !.current = IF @ = c THEN None ELSE @]
    /\ UNCHANGED <<down, held, told, known>>

\* The composer: a stop for a view with a turn, else a message.  Enter submits
\* whether or not the button is disabled.  While the view is being reloaded there
\* is none, and the handler throws.
Submit ==
    LET c == page.current
    IN  /\ Idle /\ c # None
        /\ page.view[c] # "none" /\ RoomFor(c) /\ CanWait
        /\ page' = IF c \in Busy(page)
                   THEN IF page.socket = "open" THEN Sent(page, {c}, "stop") ELSE page
                   ELSE WhenReady([page EXCEPT !.sending = @ \cup {c}], Submitting(c))
        /\ UNCHANGED <<down, held, told, known>>

\* What follows an await.  subscribe asks once and lets others wait with it; a
\* message goes to the conversation that is current by now.
Continued(p, call) ==
    LET c == call.conv
    IN  IF call.what = "subscribe" THEN
            IF c \in p.subscribed THEN ReleaseIfIdle(p, call.left)
            ELSE LET q == [p EXCEPT !.pending = @ \cup {c},
                                    !.left[c] = @ \cup call.left]
                 IN  IF c \in p.pending THEN q ELSE Sent(q, {c}, "subscribe")
        ELSE IF p.current # None THEN Sent(p, {p.current}, "message")
        ELSE [p EXCEPT !.sending = IF call.mine THEN @ \ {c} ELSE @]

Continue ==
    /\ page.soon # <<>> /\ page.up = Empty
    /\ page' = Continued([page EXCEPT !.soon = Tail(@)], Head(page.soon))
    /\ UNCHANGED <<down, held, told, known>>

-----------------------------------------------------------------------------
(* The socket. *)

\* The handshake needs the sign-in.  onopen: resubscribe runs before those who wait for
\* the socket.
Opens ==
    /\ Idle /\ page.socket = "connecting" /\ known
    /\ LET p == Resubscribe([page EXCEPT !.socket = "open"])
       IN  page' = [p EXCEPT !.soon = @ \o p.waits, !.waits = <<>>]
    /\ UNCHANGED <<down, held, told, known>>

\* Mutant: who waits for the socket goes on waiting.
ClosedOnlyForTurns(p) ==
    LET q == [Unsubscribed(p) EXCEPT
                 !.socket = "none",
                 !.view = [c \in Convs |-> IF @[c] = "live" THEN "frozen" ELSE @[c]]]
    IN  IF p.socket = "connecting" /\ p.app THEN [q EXCEPT !.probing = TRUE]
                                            ELSE ScheduleReconnect(q)

\* onclose: who waits for the socket is rejected; turns are cut off; a handshake
\* that failed asks first whether the session is gone.
Closed(p) ==
    LET failed == {p.waits[i].conv : i \in {j \in DOMAIN p.waits :
                       p.waits[j].what = "message" /\ p.waits[j].mine}}
        q == [Unsubscribed(p) EXCEPT
                 !.socket = "none", !.up = Empty, !.waits = <<>>,
                 !.sending = @ \ failed,
                 !.view = [c \in Convs |-> IF @[c] = "live" THEN "frozen" ELSE @[c]]]
    IN  IF p.socket = "connecting" /\ p.app THEN [q EXCEPT !.probing = TRUE]
                                            ELSE ScheduleReconnect(q)

Closes ==
    /\ Idle /\ page.socket # "none"
    /\ page' = Closed(page)
    /\ Disconnected
    /\ UNCHANGED known

\* /api/me answered.  The page would show the sign-in form for a 401, but whoami has
\* none to give: it answers 200 with no user.
Probed ==
    /\ Idle /\ page.probing
    /\ page' = ScheduleReconnect([page EXCEPT !.probing = FALSE])
    /\ UNCHANGED <<down, held, told, known>>

Reconnect ==
    /\ Idle /\ page.timer
    /\ page' = Connect([page EXCEPT !.timer = FALSE])
    /\ UNCHANGED <<down, held, told, known>>

\* handle and handleError, by the type of the frame
Handled(p, c, type) ==
    LET over == [p EXCEPT !.view[c] = "idle", !.sending = @ \ {c}]
        Seen(q) == IF p.view[c] = "none" THEN p ELSE q
    IN  CASE type = "subscribed" ->
               ReleaseIfIdle([p EXCEPT !.subscribed = @ \cup {c}, !.pending = @ \ {c},
                                       !.left[c] = {}], p.left[c])
          [] type = "error" /\ c \in p.pending ->
               [p EXCEPT !.pending = @ \ {c}, !.left[c] = {}, !.subscribed = @ \ {c}]
          [] type = "error" /\ c \notin p.pending -> Seen(over)
          [] type = "turn_started" -> Seen([over EXCEPT !.view[c] = "live"])
          [] type = "turn_done" -> Seen(ReleaseIfIdle(over, {c}))
          [] type = "other" -> p

Handle(c) ==
    /\ Idle /\ down[c] # <<>>
    /\ page' = Handled(page, c, Head(down[c]))
    /\ down' = [down EXCEPT ![c] = Tail(@)]
    /\ UNCHANGED <<held, told, known>>

-----------------------------------------------------------------------------
(* The server: what a worker answers and a relay tells, in that order. *)

Answers(c, frames) == down' = [down EXCEPT ![c] = @ \o frames]
Takes(c) == page' = [page EXCEPT !.up[c] = Tail(@)]
Asked(c, type) == page.up[c] # <<>> /\ Head(page.up[c]) = type

\* A turn that runs is told from its beginning.
ServeSubscribe(c) ==
    /\ Asked(c, "subscribe") /\ Takes(c)
    /\ \/ Answers(c, <<"subscribed">>) /\ held' = held \cup {c} /\ UNCHANGED told
       \/ /\ c \notin held
          /\ \/ Answers(c, <<"error">>) /\ UNCHANGED <<held, told>>
             \/ /\ Answers(c, <<"subscribed", "turn_started">>)
                /\ held' = held \cup {c} /\ told' = told \cup {c}

\* Mutant: the subscription's context is not cancelled.
ServeUnsubscribeOnly(c) ==
    /\ Asked(c, "unsubscribe") /\ Takes(c)
    /\ held' = held \ {c} /\ UNCHANGED told
    /\ IF c \in held THEN Answers(c, <<"other">>) ELSE UNCHANGED down

\* The relay may have one more frame in hand.
ServeUnsubscribe(c) ==
    /\ Asked(c, "unsubscribe") /\ Takes(c)
    /\ held' = held \ {c} /\ told' = told \ {c}
    /\ \E frames \in {<<>>, <<"turn_started">>, <<"error">>, <<"turn_done">>} :
          IF c \in held THEN Answers(c, <<"other">> \o frames) ELSE UNCHANGED down

\* A message that was accepted is answered with its row, or not at all when the row
\* cannot be updated.  Its turn is the relay's to tell.
ServeMessage(c) ==
    /\ Asked(c, "message") /\ Takes(c)
    /\ \/ Answers(c, <<"error">>)
       \/ c \in held /\ \E frames \in {<<>>, <<"other">>} : Answers(c, frames)
    /\ UNCHANGED <<held, told>>

ServeStop(c) ==
    /\ Asked(c, "stop") /\ Takes(c)
    /\ \/ Answers(c, <<"error">>)
       \/ c \in held /\ Answers(c, <<"other">>)
    /\ UNCHANGED <<held, told>>

Serve(c) ==
    /\ ServeSubscribe(c) \/ ServeUnsubscribe(c) \/ ServeMessage(c) \/ ServeStop(c)
    /\ UNCHANGED known

\* The relay comes to a turn, whoever sent it; one that is over by then it passes by.
TurnBegins(c) ==
    /\ Idle /\ c \in held \ told /\ RoomFor(c)
    /\ told' = told \cup {c}
    /\ Answers(c, <<"turn_started">>)
    /\ UNCHANGED <<page, held, known>>

TurnEnds(c) ==
    /\ Idle /\ c \in told /\ RoomFor(c)
    /\ told' = told \ {c}
    /\ \E end \in {"turn_done", "error"} : Answers(c, <<end>>)
    /\ UNCHANGED <<page, held, known>>

-----------------------------------------------------------------------------
Next ==
    \/ SignIn \/ SignOut \/ Expires \/ Submit \/ Continue
    \/ Opens \/ Closes \/ Probed \/ Reconnect
    \/ \E c \in Convs : \/ Click(c) \/ Fetched(c) \/ FetchFails(c) \/ Archive(c)
                        \/ Handle(c) \/ Serve(c) \/ TurnBegins(c) \/ TurnEnds(c)

Spec == Init /\ [][Next]_vars

\* What is due is done: settled promises, timers, handshakes and requests that end one
\* way or the other, frames the server has got.
FairSpec ==
    /\ Spec
    /\ WF_vars(Continue) /\ WF_vars(Probed) /\ WF_vars(Reconnect)
    /\ WF_vars(page.socket = "connecting" /\ (Opens \/ Closes))
    /\ \A c \in Convs : WF_vars(Serve(c)) /\ WF_vars(Fetched(c) \/ FetchFails(c))

-----------------------------------------------------------------------------
(* Properties. *)

Types == {"subscribed", "turn_started", "turn_done", "error", "other"}
\* Every variable has its type.
TypeOK ==
    /\ page.app \in BOOLEAN /\ page.timer \in BOOLEAN /\ page.probing \in BOOLEAN
    /\ page.current \in Convs \cup {None}
    /\ page.view \in [Convs -> {"none", "idle", "live", "frozen"}]
    /\ page.sending \subseteq {c \in Convs : page.view[c] # "none"}
    /\ page.fetching \subseteq Convs
    /\ page.socket \in {"none", "connecting", "open"}
    /\ page.subscribed \subseteq Convs /\ page.pending \subseteq Convs
    /\ page.left \in [Convs -> SUBSET Convs]
    /\ page.waits \in Seq(Calls) /\ page.soon \in Seq(Calls)
    /\ page.up \in [Convs -> Seq({"subscribe", "unsubscribe", "message", "stop"})]
    /\ down \in [Convs -> Seq(Types)]
    /\ held \subseteq Convs /\ told \subseteq held
    /\ known \in BOOLEAN

\* A page that shows the application and has no socket is about to try for one: whichever
\* way the last one ended, a timer runs or the session is being asked about.  Whether the
\* attempt can succeed is another matter (ExpiryShown).
ComesBack == page.app /\ page.socket = "none" => page.timer \/ page.probing

\* Nobody waits for an open that is not coming, and what was waiting sends only
\* through a socket that is open.
WaitsForOpening ==
    /\ page.waits # <<>> => page.socket = "connecting"
    /\ page.soon # <<>> => page.socket = "open"

\* A turn that was cut off is on screen only until the page is connected again:
\* its view is rebuilt, never resumed.
CutOffRebuilt == page.socket = "open" => \A c \in Convs : page.view[c] # "frozen"

Has(s, types) == \E i \in DOMAIN s : s[i] \in types
\* A page that waits for a subscription has asked for it on the connection it has,
\* and the answer is still to come.
PendingAsked ==
    \A c \in page.pending :
        Has(page.up[c], {"subscribe"}) \/ Has(down[c], {"subscribed", "error"})

\* Whatever the page leaves, and in whatever order the answers come, it does not
\* give up the subscription of a view whose turn goes on.
KeepsWorking ==
    [][\A c \in page.subscribed \ page'.subscribed :
          page.socket = "open" /\ page'.socket = "open" => page'.view[c] # "live"]_page

\* What a comment says and the code does not do.

\* "A handshake that never opened is usually an expired session, and retrying it forever
\* would hide that behind a reconnect loop" (index.html, onclose): a page that asks about
\* a session that has expired comes to the sign-in form.
ExpiryShown == (page.probing /\ ~known) ~> ~page.app
=============================================================================
