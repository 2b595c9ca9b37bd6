----------------------------- MODULE PageProofs -----------------------------
(***************************************************************************)
(* The page, for any conversations and any bounds.                         *)
(***************************************************************************)
EXTENDS Page, SequenceTheorems, TLAPS

Sends == {"subscribe", "unsubscribe", "message", "stop"}
Views == {"none", "idle", "live", "frozen"}

Pages ==
    [app : BOOLEAN, current : Convs \cup {None}, view : [Convs -> Views],
     sending : SUBSET Convs, fetching : SUBSET Convs,
     socket : {"none", "connecting", "open"}, timer : BOOLEAN, probing : BOOLEAN,
     subscribed : SUBSET Convs, pending : SUBSET Convs, left : [Convs -> SUBSET Convs],
     waits : Seq(Calls), soon : Seq(Calls), up : [Convs -> Seq(Sends)]]

Wires == [Convs -> Seq(Types)]
Asks(p, c) == Has(p.up[c], {"subscribe"})
Answered(d, c) == Has(d[c], {"subscribed", "error"})

\* What holds of a page between two tasks ...
Sound(p, d) ==
    /\ p \in Pages
    /\ \A c \in p.sending : p.view[c] # "none"
    /\ p.app /\ p.socket = "none" => p.timer \/ p.probing
    /\ p.soon # <<>> => p.socket = "open"
    /\ \A c \in p.pending : c \notin p.subscribed
    /\ \A c \in p.pending : Asks(p, c) \/ Answered(d, c)

\* ... but not between the opening of its socket and the end of that task.
Settled(p) ==
    /\ p.waits # <<>> => p.socket = "connecting"
    /\ p.socket = "open" => \A c \in Convs : p.view[c] # "frozen"

Inv ==
    /\ Sound(page, down) /\ Settled(page)
    /\ down \in Wires /\ held \subseteq Convs /\ told \subseteq held

\* The page q is p with views, subscriptions and promises given up.
Lesser(p, q) ==
    /\ q \in Pages
    /\ q.app = p.app /\ q.current = p.current /\ q.socket = p.socket
    /\ q.timer = p.timer /\ q.probing = p.probing
    /\ q.soon = p.soon
    /\ p.waits = <<>> => q.waits = <<>>
    /\ \A c \in Convs : q.view[c] \in {p.view[c], "none"}
    /\ q.sending \subseteq p.sending /\ \A c \in q.sending : q.view[c] = p.view[c]
    /\ q.pending \subseteq p.pending /\ q.subscribed \subseteq p.subscribed
    /\ \A c \in Convs : c \in p.subscribed \ q.subscribed => q.view[c] # "live"
    /\ \A c \in Convs : Asks(p, c) => Asks(q, c)

-----------------------------------------------------------------------------
LEMMA LesserSound ==
    ASSUME NEW p, NEW q, NEW d, Sound(p, d), Lesser(p, q)
    PROVE  Sound(q, d) /\ (Settled(p) => Settled(q))
BY DEF Sound, Settled, Lesser, Pages

LEMMA LesserAgain ==
    ASSUME NEW p, NEW q, NEW r, Lesser(p, q), Lesser(q, r)
    PROVE  Lesser(p, r)
BY DEF Lesser, Pages

LEMMA HasLonger ==
    ASSUME NEW S, NEW s \in Seq(S), NEW e \in S, NEW T
    PROVE  /\ Append(s, e) \in Seq(S)
           /\ Has(s, T) => Has(Append(s, e), T)
           /\ e \in T => Has(Append(s, e), T)
<1>1. /\ Append(s, e) \in Seq(S)
      /\ DOMAIN Append(s, e) = DOMAIN s \cup {Len(s) + 1}
      /\ \A i \in DOMAIN s : Append(s, e)[i] = s[i]
      /\ Append(s, e)[Len(s) + 1] = e
  OBVIOUS
<1> QED BY <1>1 DEF Has

LEMMA SentPage ==
    ASSUME NEW p \in Pages, NEW cs \in SUBSET Convs, NEW frame \in Sends
    PROVE  /\ Lesser(p, Sent(p, cs, frame))
           /\ Sent(p, cs, frame).view = p.view /\ Sent(p, cs, frame).waits = p.waits
           /\ Sent(p, cs, frame).pending = p.pending
           /\ Sent(p, cs, frame).sending = p.sending
           /\ Sent(p, cs, frame).subscribed = p.subscribed
           /\ Sent(p, cs, frame).socket = p.socket
           /\ frame = "subscribe" => \A c \in cs : Asks(Sent(p, cs, frame), c)
<1> DEFINE up == [c \in Convs |-> IF c \in cs THEN Append(p.up[c], frame) ELSE p.up[c]]
<1>1. p.up \in [Convs -> Seq(Sends)]
  BY DEF Pages
<1>2. /\ up \in [Convs -> Seq(Sends)]
      /\ \A c \in Convs : Has(p.up[c], {"subscribe"}) => Has(up[c], {"subscribe"})
      /\ frame = "subscribe" => \A c \in cs : Has(up[c], {"subscribe"})
  BY <1>1, HasLonger
<1>3. Sent(p, cs, frame) = [p EXCEPT !.up = up]
  BY DEF Sent
<1> HIDE DEF up
<1> QED BY <1>2, <1>3 DEF Pages, Lesser, Asks

LEMMA UnsubscribePage ==
    ASSUME NEW p \in Pages, NEW cs \in SUBSET Convs, \A c \in cs : p.view[c] # "live"
    PROVE  /\ Lesser(p, Unsubscribe(p, cs))
           /\ Unsubscribe(p, cs).view = p.view
           /\ Unsubscribe(p, cs).sending = p.sending
<1> DEFINE q == [p EXCEPT !.pending = @ \ cs, !.subscribed = @ \ cs,
                          !.left = [c \in Convs |-> IF c \in cs THEN {} ELSE @[c]]]
<1>1. q \in Pages /\ Lesser(p, q) /\ q.view = p.view /\ q.sending = p.sending
  BY DEF Pages, Lesser, Asks
<1>2. Unsubscribe(p, cs) = q \/ Unsubscribe(p, cs) = Sent(q, cs \cap p.subscribed, "unsubscribe")
  BY DEF Unsubscribe
<1> HIDE DEF q
<1>3. Lesser(q, Sent(q, cs \cap p.subscribed, "unsubscribe"))
      /\ Sent(q, cs \cap p.subscribed, "unsubscribe").view = q.view
      /\ Sent(q, cs \cap p.subscribed, "unsubscribe").sending = q.sending
  BY <1>1, SentPage DEF Sends
<1> QED BY <1>1, <1>2, <1>3, LesserAgain

LEMMA ReleasePage ==
    ASSUME NEW p \in Pages, NEW cs \in SUBSET Convs
    PROVE  Lesser(p, ReleaseIfIdle(p, cs))
<1>1. {c \in cs : p.view[c] = "idle" /\ c \notin p.sending /\ p.current # c} \in SUBSET Convs
  OBVIOUS
<1> QED BY <1>1, UnsubscribePage DEF ReleaseIfIdle

LEMMA DiscardPage ==
    ASSUME NEW p \in Pages, NEW cs \in SUBSET Convs
    PROVE  /\ Lesser(p, Discard(p, cs))
           /\ \A c \in cs : Discard(p, cs).view[c] = "none"
           /\ \A c \in Convs \ cs : Discard(p, cs).view[c] = p.view[c]
<1> DEFINE Disowned(call) == [call EXCEPT !.mine = @ /\ call.conv \notin cs]
           waits == [i \in DOMAIN p.waits |-> Disowned(p.waits[i])]
           q == [p EXCEPT !.view = [c \in Convs |-> IF c \in cs THEN "none" ELSE p.view[c]],
                          !.sending = @ \ cs,
                          !.waits = waits]
<1>1. \A call \in Calls : Disowned(call) \in Calls
  <2> TAKE call \in Calls
  <2>1. PICK mine \in BOOLEAN : mine = (call.mine /\ call.conv \notin cs)
    OBVIOUS
  <2>2. Disowned(call) = [call EXCEPT !.mine = mine]
    BY <2>1
  <2>3. [call EXCEPT !.mine = mine] \in Calls
    BY DEF Calls
  <2> QED BY <2>2, <2>3
<1>2. p.waits \in Seq(Calls)
  BY DEF Pages
<1>3. waits \in Seq(Calls) /\ (p.waits = <<>> => waits = <<>>)
  <2> HIDE DEF Disowned
  <2>1. Len(p.waits) \in Nat /\ DOMAIN p.waits = 1 .. Len(p.waits)
    BY <1>2
  <2>2. \A i \in 1 .. Len(p.waits) : Disowned(p.waits[i]) \in Calls
    BY <1>1, <1>2
  <2>3. waits = [i \in 1 .. Len(p.waits) |-> Disowned(p.waits[i])]
    BY <2>1
  <2>4. waits \in [1 .. Len(p.waits) -> Calls]
    BY <2>2, <2>3
  <2>5. waits \in Seq(Calls)
    BY <2>1, <2>4
  <2>6. p.waits = <<>> => Len(waits) = 0
    BY <2>1, <2>3
  <2> QED BY <2>5, <2>6
<1>4. Discard(p, cs) = Unsubscribe(q, cs)
  BY DEF Discard
<1> HIDE DEF waits
<1>5. /\ q \in Pages /\ Lesser(p, q)
      /\ \A c \in cs : q.view[c] = "none"
      /\ \A c \in Convs \ cs : q.view[c] = p.view[c]
  <2> DEFINE view == [c \in Convs |-> IF c \in cs THEN "none" ELSE p.view[c]]
             sending == p.sending \ cs
  <2>1. /\ view \in [Convs -> Views] /\ sending \in SUBSET Convs
        /\ \A c \in Convs : view[c] \in {p.view[c], "none"}
        /\ sending \subseteq p.sending /\ \A c \in sending : view[c] = p.view[c]
        /\ \A c \in cs : view[c] = "none"
        /\ \A c \in Convs \ cs : view[c] = p.view[c]
    BY DEF Pages, Views
  <2>2. q = [p EXCEPT !.view = view, !.sending = sending, !.waits = waits]
    OBVIOUS
  <2> HIDE DEF view, sending, q
  <2>3. /\ q \in Pages /\ q.view = view /\ q.sending = sending /\ q.waits = waits
        /\ q.app = p.app /\ q.current = p.current /\ q.socket = p.socket
        /\ q.timer = p.timer /\ q.probing = p.probing
        /\ q.soon = p.soon /\ q.pending = p.pending /\ q.up = p.up
        /\ q.subscribed = p.subscribed
    BY <1>3, <2>1, <2>2 DEF Pages
  <2> QED BY <1>3, <2>1, <2>3 DEF Lesser, Asks
<1> HIDE DEF q
<1> QED BY <1>5, <1>4, UnsubscribePage, LesserAgain

LEMMA ReloadPage ==
    ASSUME NEW p \in Pages, NEW cs \in SUBSET Convs
    PROVE  /\ Lesser(p, Reload(p, cs))
           /\ \A c \in cs : Reload(p, cs).view[c] = "none"
           /\ \A c \in Convs \ cs : Reload(p, cs).view[c] = p.view[c]
<1> DEFINE q == Discard(p, cs)
<1>1. /\ Lesser(p, q)
      /\ \A c \in cs : q.view[c] = "none"
      /\ \A c \in Convs \ cs : q.view[c] = p.view[c]
  BY DiscardPage
<1> HIDE DEF q
<1>2. q \in Pages
  BY <1>1 DEF Lesser
<1>3. Lesser(q, [q EXCEPT !.fetching = @ \cup cs]) /\ [q EXCEPT !.fetching = @ \cup cs].view = q.view
  BY <1>2 DEF Pages, Lesser, Asks
<1>4. Reload(p, cs) = [q EXCEPT !.fetching = @ \cup cs]
  BY DEF Reload, q
<1> QED BY <1>1, <1>3, <1>4, LesserAgain

\* A call that waits for the socket waits for one that is coming.
LEMMA ReadyPage ==
    ASSUME NEW p, NEW d, Sound(p, d), NEW call \in Calls
    PROVE  /\ Sound(WhenReady(p, call), d)
           /\ Settled(p) => Settled(WhenReady(p, call))
           /\ p.socket = "open" => /\ WhenReady(p, call).waits = p.waits
                                   /\ WhenReady(p, call).socket = "open"
                                   /\ WhenReady(p, call).view = p.view
<1> DEFINE q == Connect(p)
<1>1. /\ Sound(q, d) /\ (Settled(p) => Settled(q))
      /\ q.socket \in {"open", "connecting"}
      /\ p.socket = "open" => q = p
  BY DEF Connect, Sound, Settled, Pages, Asks
<1>2. CASE q.socket = "open"
  <2> DEFINE r == [q EXCEPT !.soon = Append(q.soon, call)]
  <2>1. Append(q.soon, call) \in Seq(Calls)
    BY <1>1 DEF Sound, Pages
  <2>2. WhenReady(p, call) = r
    BY <1>2 DEF WhenReady
  <2> HIDE DEF q
  <2>3. /\ Sound(r, d) /\ (Settled(q) => Settled(r))
        /\ r.waits = q.waits /\ r.socket = "open" /\ r.view = q.view
    BY <1>1, <1>2, <2>1 DEF Sound, Settled, Pages, Asks
  <2> HIDE DEF r
  <2> QED BY <1>1, <2>2, <2>3
<1>3. CASE q.socket # "open"
  <2> DEFINE r == [q EXCEPT !.waits = Append(q.waits, call)]
  <2>1. Append(q.waits, call) \in Seq(Calls)
    BY <1>1 DEF Sound, Pages
  <2>2. WhenReady(p, call) = r
    BY <1>3 DEF WhenReady
  <2> HIDE DEF q
  <2>3. Sound(r, d) /\ (Settled(q) => Settled(r))
    BY <1>1, <1>3, <2>1 DEF Sound, Settled, Pages, Asks
  <2> HIDE DEF r
  <2> QED BY <1>1, <1>3, <2>2, <2>3
<1> QED BY <1>2, <1>3

LEMMA CallsMade ==
    /\ \A c \in Convs, previous \in Convs \cup {None} : Subscribing(c, previous) \in Calls
    /\ \A c \in Convs : Submitting(c) \in Calls
BY DEF Subscribing, Submitting, Calls

\* resubscribe leaves nothing on screen of a turn that was cut off.
LEMMA ResubscribePage ==
    ASSUME NEW p, NEW d, Sound(p, d), p.socket = "open"
    PROVE  /\ Sound(Resubscribe(p), d)
           /\ Resubscribe(p).socket = "open"
           /\ p.waits = <<>> => Resubscribe(p).waits = <<>>
           /\ \A c \in Convs : Resubscribe(p).view[c] # "frozen"
<1> DEFINE stale == Busy(p) \cup p.sending
           others == stale \ {p.current}
           shown == stale \cap {p.current}
           q == Discard(p, others)
           r == Reload(q, shown)
<1>1. /\ p \in Pages /\ p.current \in Convs \cup {None}
      /\ others \in SUBSET Convs /\ shown \in SUBSET Convs
      /\ \A c \in Convs : p.view[c] = "frozen" => c \in others \cup shown
  BY DEF Sound, Pages, Busy
<1>2. \/ Resubscribe(p) = r
      \/ p.current \in Convs /\ Resubscribe(p) = WhenReady(r, Subscribing(p.current, None))
  BY <1>1 DEF Resubscribe
<1> HIDE DEF stale, others, shown
<1>3. Lesser(p, q) /\ \A c \in others : q.view[c] = "none"
  BY <1>1, DiscardPage
<1> HIDE DEF q
<1>4. q \in Pages
  BY <1>3 DEF Lesser
<1>5. Lesser(q, r) /\ \A c \in shown : r.view[c] = "none"
  BY <1>1, <1>4, ReloadPage
<1> HIDE DEF r
<1>6. Lesser(p, r)
  BY <1>3, <1>5, LesserAgain
<1>7. Sound(r, d) /\ r.socket = "open" /\ (p.waits = <<>> => r.waits = <<>>)
  <2>1. Sound(r, d)
    BY <1>6, LesserSound
  <2> QED BY <1>6, <2>1 DEF Lesser
<1>8. ASSUME NEW c \in Convs PROVE r.view[c] # "frozen"
  <2>1. r.view[c] \in {q.view[c], "none"} /\ q.view[c] \in {p.view[c], "none"}
    BY <1>3, <1>5 DEF Lesser
  <2> QED BY <1>1, <1>3, <1>5, <2>1
<1>9. CASE Resubscribe(p) = r
  BY <1>7, <1>8, <1>9
<1>10. CASE p.current \in Convs /\ Resubscribe(p) = WhenReady(r, Subscribing(p.current, None))
  <2>1. Subscribing(p.current, None) \in Calls
    BY <1>10, CallsMade
  <2>2. /\ Sound(Resubscribe(p), d) /\ Resubscribe(p).waits = r.waits
        /\ Resubscribe(p).socket = "open" /\ Resubscribe(p).view = r.view
    BY <1>7, <1>10, <2>1, ReadyPage
  <2> QED BY <1>7, <1>8, <2>2
<1> QED BY <1>2, <1>9, <1>10

LEMMA HasMore ==
    ASSUME NEW S, NEW s \in Seq(S), NEW t \in Seq(S), NEW T
    PROVE  /\ s \o t \in Seq(S)
           /\ Has(s, T) \/ Has(t, T) => Has(s \o t, T)
<1>1. /\ s \o t \in Seq(S)
      /\ DOMAIN s = 1 .. Len(s) /\ DOMAIN t = 1 .. Len(t)
      /\ DOMAIN (s \o t) = 1 .. (Len(s) + Len(t))
      /\ Len(s) \in Nat /\ Len(t) \in Nat
      /\ \A i \in DOMAIN s : (s \o t)[i] = s[i]
      /\ \A i \in DOMAIN t : (s \o t)[Len(s) + i] = t[i]
  OBVIOUS
<1>2. \A i \in DOMAIN s : i \in DOMAIN (s \o t)
  BY <1>1
<1>3. \A i \in DOMAIN t : Len(s) + i \in DOMAIN (s \o t)
  BY <1>1
<1> QED BY <1>1, <1>2, <1>3 DEF Has

LEMMA HasShorter ==
    ASSUME NEW S, NEW s \in Seq(S), s # <<>>, NEW T
    PROVE  /\ Tail(s) \in Seq(S) /\ Head(s) \in S
           /\ Has(s, T) /\ Head(s) \notin T => Has(Tail(s), T)
<1>1. /\ Tail(s) \in Seq(S) /\ Head(s) \in S /\ Head(s) = s[1]
      /\ Len(s) \in Nat \ {0} /\ DOMAIN s = 1 .. Len(s)
      /\ DOMAIN Tail(s) = 1 .. (Len(s) - 1)
      /\ \A i \in 1 .. (Len(s) - 1) : Tail(s)[i] = s[i + 1]
  OBVIOUS
<1>2. ASSUME NEW i \in DOMAIN s, s[i] \in T, Head(s) \notin T
      PROVE  Has(Tail(s), T)
  <2>1. i - 1 \in DOMAIN Tail(s) /\ Tail(s)[i - 1] = s[i]
    BY <1>1, <1>2
  <2> QED BY <1>2, <2>1 DEF Has
<1> QED BY <1>1, <1>2 DEF Has

\* What is on the wire may grow under a page.
LEMMA WiresGrow ==
    ASSUME NEW p, NEW d, NEW e, Sound(p, d), NEW k \in Convs, NEW frames \in Seq(Types),
           d \in Wires, e = [d EXCEPT ![k] = @ \o frames]
    PROVE  Sound(p, e) /\ e \in Wires
<1>1. \A c \in Convs : d[c] \in Seq(Types)
  BY DEF Wires
<1>2. d[k] \o frames \in Seq(Types) /\ (Answered(d, k) => Has(d[k] \o frames, {"subscribed", "error"}))
  BY <1>1, HasMore DEF Answered
<1>3. e \in Wires /\ e[k] = d[k] \o frames /\ \A c \in Convs \ {k} : e[c] = d[c]
  BY <1>2 DEF Wires
<1>4. \A c \in Convs : Answered(d, c) => Answered(e, c)
  BY <1>2, <1>3 DEF Answered
<1> QED BY <1>3, <1>4 DEF Sound, Pages

LEMMA NothingOnWire == Empty \in Wires /\ Empty \in [Convs -> Seq(Sends)]
BY DEF Empty, Wires

LEMMA InvStart == Init => Inv
<1>1. SignedOut \in Pages
  BY NothingOnWire DEF SignedOut, Pages, Views, Empty
<1> QED BY <1>1, NothingOnWire DEF Init, Inv, Sound, Settled, SignedOut

-----------------------------------------------------------------------------
(* One lemma for each task of the page. *)

\* A task that leaves the wires and the server alone.
LEMMA PageOnly ==
    ASSUME Inv, UNCHANGED <<down, held, told>>, Sound(page', down), Settled(page')
    PROVE  Inv'
BY DEF Inv

LEMMA SignInKept == Inv /\ SignIn => Inv'
<1> SUFFICES ASSUME Inv, SignIn PROVE Inv'
  OBVIOUS
<1> DEFINE q == [page EXCEPT !.app = TRUE]
           r == [q EXCEPT !.socket = "connecting"]
<1>1. /\ q \in Pages /\ q.sending = page.sending /\ q.view = page.view
      /\ q.socket = page.socket /\ q.soon = page.soon /\ q.waits = page.waits
      /\ q.pending = page.pending /\ q.up = page.up /\ q.subscribed = page.subscribed
  BY DEF Inv, Sound, Pages
<1>2. page' = (IF q.socket = "none" THEN r ELSE q) /\ UNCHANGED <<down, held, told>>
  BY DEF SignIn, Connect
<1> HIDE DEF q
<1>3. CASE q.socket = "none"
  <2>1. Sound(r, down) /\ Settled(r)
    BY <1>1, <1>3 DEF Inv, Sound, Settled, Pages, Asks
  <2> QED BY <1>2, <1>3, <2>1, PageOnly
<1>4. CASE q.socket # "none"
  <2>1. Sound(q, down) /\ Settled(q)
    BY <1>1, <1>4 DEF Inv, Sound, Settled, Asks
  <2> QED BY <1>2, <1>4, <2>1, PageOnly
<1> QED BY <1>3, <1>4

LEMMA SignedOutPage ==
    ASSUME NEW p \in Pages
    PROVE  Sound(ShowSignIn(p), Empty) /\ Settled(ShowSignIn(p))
<1>1. SignedOut \in Pages
  BY NothingOnWire DEF SignedOut, Pages, Views, Empty
<1> DEFINE q == ShowSignIn(p)
<1>2. q = [SignedOut EXCEPT !.fetching = p.fetching, !.probing = p.probing]
  BY DEF ShowSignIn
<1>3. p.fetching \in SUBSET Convs /\ p.probing \in BOOLEAN
  BY DEF Pages
<1>4. /\ q \in Pages /\ q.app = FALSE /\ q.sending = {} /\ q.soon = <<>> /\ q.waits = <<>>
      /\ q.pending = {} /\ q.socket = "none"
  <2> HIDE DEF q
  <2> QED BY <1>1, <1>2, <1>3 DEF SignedOut, Pages
<1> HIDE DEF q
<1>5. Sound(q, Empty)
  <2>1. \A c \in q.sending : q.view[c] # "none"
    BY <1>4
  <2>2. \A c \in q.pending : Asks(q, c) \/ Answered(Empty, c)
    BY <1>4
  <2>3. ~q.app
    BY <1>4
  <2>4. q.soon # <<>> => q.socket = "open"
    BY <1>4
  <2> QED BY <1>4, <2>1, <2>2, <2>3, <2>4 DEF Sound
<1>6. Settled(q)
  BY <1>4 DEF Settled
<1> QED BY <1>5, <1>6 DEF q

LEMMA SignOutKept == Inv /\ SignOut => Inv'
<1> SUFFICES ASSUME Inv, SignOut PROVE Inv'
  OBVIOUS
<1>1. page \in Pages
  BY DEF Inv, Sound
<1>2. Sound(page', Empty) /\ Settled(page')
  BY <1>1, SignedOutPage DEF SignOut
<1> QED BY <1>2, NothingOnWire DEF Inv, SignOut, Disconnected

\* Requests under way touch nothing else.
LEMMA FetchingPage ==
    ASSUME NEW p, NEW d, Sound(p, d), Settled(p), NEW cs \in SUBSET Convs
    PROVE  Sound([p EXCEPT !.fetching = cs], d) /\ Settled([p EXCEPT !.fetching = cs])
BY DEF Sound, Settled, Pages, Asks

LEMMA ClickKept == Inv /\ (\E c \in Convs : Click(c)) => Inv'
<1> SUFFICES ASSUME Inv, NEW c \in Convs, Click(c) PROVE Inv'
  OBVIOUS
<1>1. /\ page.fetching \cup {c} \in SUBSET Convs
      /\ page' = [page EXCEPT !.fetching = page.fetching \cup {c}]
      /\ UNCHANGED <<down, held, told>>
  BY DEF Inv, Sound, Pages, Click
<1>2. Sound(page', down) /\ Settled(page')
  BY <1>1, FetchingPage DEF Inv
<1> QED BY <1>1, <1>2, PageOnly

LEMMA FetchFailsKept == Inv /\ (\E c \in Convs : FetchFails(c)) => Inv'
<1> SUFFICES ASSUME Inv, NEW c \in Convs, FetchFails(c) PROVE Inv'
  OBVIOUS
<1> DEFINE q == [page EXCEPT !.fetching = page.fetching \ {c}]
<1>1. page.fetching \ {c} \in SUBSET Convs
  BY DEF Inv, Sound, Pages
<1>2. Sound(q, down) /\ Settled(q) /\ q \in Pages
  <2>1. Sound(page, down) /\ Settled(page)
    BY DEF Inv
  <2>2. Sound(q, down) /\ Settled(q)
    BY <1>1, <2>1, FetchingPage
  <2> QED BY <2>2 DEF Sound
<1>3. CASE page' = q /\ UNCHANGED <<down, held, told>>
  BY <1>2, <1>3, PageOnly
<1>4. CASE page' = ShowSignIn(q) /\ Disconnected
  <2>1. Sound(page', Empty) /\ Settled(page')
    BY <1>2, <1>4, SignedOutPage
  <2> QED BY <1>4, <2>1, NothingOnWire DEF Inv, Disconnected
<1> QED BY <1>3, <1>4 DEF FetchFails

LEMMA FetchedKept == Inv /\ (\E c \in Convs : Fetched(c)) => Inv'
<1> SUFFICES ASSUME Inv, NEW c \in Convs, Fetched(c) PROVE Inv'
  OBVIOUS
<1> DEFINE q == [page EXCEPT !.fetching = @ \ {c}, !.current = c,
                             !.view[c] = IF @ = "none" THEN "idle" ELSE @]
           call == Subscribing(c, IF page.current = c THEN None ELSE page.current)
<1>1. page \in Pages
  BY DEF Inv, Sound
<1>2. call \in Calls
  BY <1>1, CallsMade DEF Pages
<1>3. page' = WhenReady(q, call) /\ UNCHANGED <<down, held, told>>
  BY DEF Fetched
<1> HIDE DEF call
<1>4. Sound(q, down) /\ Settled(q)
  BY DEF Inv, Sound, Settled, Pages, Asks, Answered, Views
<1> HIDE DEF q
<1>5. Sound(page', down) /\ Settled(page')
  BY <1>2, <1>3, <1>4, ReadyPage
<1> QED BY <1>3, <1>5, PageOnly

LEMMA ArchiveKept == Inv /\ (\E c \in Convs : Archive(c)) => Inv'
<1> SUFFICES ASSUME Inv, NEW c \in Convs, Archive(c) PROVE Inv'
  OBVIOUS
<1> DEFINE q == Discard(page, {c})
<1>1. page \in Pages
  BY DEF Inv, Sound
<1>2. Lesser(page, q)
  BY <1>1, DiscardPage
<1>3. /\ page' = [q EXCEPT !.current = IF @ = c THEN None ELSE @]
      /\ UNCHANGED <<down, held, told>>
  BY DEF Archive
<1> HIDE DEF q
<1>4. Sound(q, down) /\ Settled(q)
  BY <1>2, LesserSound DEF Inv
<1>5. Sound(page', down) /\ Settled(page')
  BY <1>3, <1>4 DEF Sound, Settled, Pages, Asks
<1> QED BY <1>3, <1>5, PageOnly

LEMMA SubmitKept == Inv /\ Submit => Inv'
<1> SUFFICES ASSUME Inv, Submit PROVE Inv'
  OBVIOUS
<1> DEFINE c == page.current
<1>1. page \in Pages /\ c \in Convs /\ Sound(page, down) /\ Settled(page)
  BY DEF Inv, Sound, Submit, Pages
<1>2. UNCHANGED <<down, held, told>>
  BY DEF Submit
<1>3. Sound(page', down) /\ Settled(page')
  <2>1. CASE c \in Busy(page) /\ page.socket = "open"
    <3>1. page' = Sent(page, {c}, "stop")
      BY <2>1 DEF Submit
    <3>2. Lesser(page, Sent(page, {c}, "stop"))
      BY <1>1, SentPage DEF Sends
    <3> QED BY <1>1, <3>1, <3>2, LesserSound
  <2>2. CASE c \in Busy(page) /\ page.socket # "open"
    BY <1>1, <2>2 DEF Submit
  <2>3. CASE c \notin Busy(page)
    <3> DEFINE q == [page EXCEPT !.sending = @ \cup {c}]
    <3>1. page' = WhenReady(q, Submitting(c))
      BY <2>3 DEF Submit
    <3>2. Sound(q, down) /\ Settled(q)
      BY <1>1 DEF Submit, Sound, Settled, Pages, Asks, Answered
    <3> HIDE DEF q
    <3> QED BY <1>1, <3>1, <3>2, ReadyPage, CallsMade
  <2> QED BY <2>1, <2>2, <2>3
<1> QED BY <1>2, <1>3, PageOnly

\* What follows an await sends through the socket that it waited for.
LEMMA ContinuedPage ==
    ASSUME NEW p, NEW d, Sound(p, d), Settled(p), NEW call \in Calls
    PROVE  Sound(Continued(p, call), d) /\ Settled(Continued(p, call))
<1> DEFINE c == call.conv
           asked == [p EXCEPT !.pending = @ \cup {c}, !.left[c] = @ \cup call.left]
           dropped == [p EXCEPT !.sending = IF call.mine THEN @ \ {c} ELSE @]
<1>1. p \in Pages /\ c \in Convs /\ call.left \in SUBSET Convs
  BY DEF Sound, Calls
<1>2. /\ asked \in Pages /\ asked.app = p.app /\ asked.sending = p.sending
      /\ asked.view = p.view /\ asked.socket = p.socket /\ asked.timer = p.timer
      /\ asked.probing = p.probing /\ asked.soon = p.soon /\ asked.waits = p.waits
      /\ asked.pending = p.pending \cup {c} /\ asked.up = p.up
      /\ asked.subscribed = p.subscribed
  BY <1>1 DEF Pages
<1>3. \/ Continued(p, call) = ReleaseIfIdle(p, call.left)
      \/ c \in p.pending /\ Continued(p, call) = asked
      \/ c \notin p.subscribed /\ Continued(p, call) = Sent(asked, {c}, "subscribe")
      \/ p.current \in Convs /\ Continued(p, call) = Sent(p, {p.current}, "message")
      \/ Continued(p, call) = dropped
  BY <1>1 DEF Continued, Pages
<1>4. CASE Continued(p, call) = ReleaseIfIdle(p, call.left)
  <2>1. Lesser(p, ReleaseIfIdle(p, call.left))
    BY <1>1, ReleasePage
  <2> QED BY <1>4, <2>1, LesserSound
<1> HIDE DEF asked
<1>5. CASE c \in p.pending /\ Continued(p, call) = asked
  BY <1>2, <1>5 DEF Sound, Settled, Asks
<1>6. CASE c \notin p.subscribed /\ Continued(p, call) = Sent(asked, {c}, "subscribe")
  <2> DEFINE q == Sent(asked, {c}, "subscribe")
  <2>1. /\ Lesser(asked, q) /\ Asks(q, c) /\ q.view = asked.view /\ q.waits = asked.waits
        /\ q.pending = asked.pending /\ q.sending = asked.sending
        /\ q.subscribed = asked.subscribed
    BY <1>1, <1>2, SentPage DEF Sends
  <2> HIDE DEF q
  <2>2. \A k \in q.pending : Asks(q, k) \/ Answered(d, k)
    <3> SUFFICES ASSUME NEW k \in q.pending, k # c PROVE Asks(q, k) \/ Answered(d, k)
      BY <2>1
    <3>1. k \in p.pending /\ k \in Convs
      BY <1>1, <1>2, <2>1 DEF Pages
    <3>2. Asks(p, k) \/ Answered(d, k)
      BY <3>1 DEF Sound
    <3>3. Asks(p, k) => Asks(asked, k)
      BY <1>2 DEF Asks
    <3> QED BY <2>1, <3>1, <3>2, <3>3 DEF Lesser
  <2>3. Sound(q, d)
    BY <1>2, <1>6, <2>1, <2>2 DEF Sound, Lesser
  <2>4. Settled(q)
    BY <1>2, <2>1 DEF Settled, Lesser
  <2> QED BY <1>6, <2>3, <2>4 DEF q
<1>7. CASE p.current \in Convs /\ Continued(p, call) = Sent(p, {p.current}, "message")
  <2>1. Lesser(p, Sent(p, {p.current}, "message"))
    BY <1>1, <1>7, SentPage DEF Sends
  <2> QED BY <1>7, <2>1, LesserSound
<1>8. CASE Continued(p, call) = dropped
  <2>1. PICK sending \in SUBSET p.sending : dropped = [p EXCEPT !.sending = sending]
    <3>1. (IF call.mine THEN p.sending \ {c} ELSE p.sending) \in SUBSET p.sending
      BY <1>1 DEF Pages
    <3> QED BY <3>1
  <2>2. /\ Sound([p EXCEPT !.sending = sending], d)
        /\ Settled([p EXCEPT !.sending = sending])
    BY <1>1 DEF Sound, Settled, Pages, Asks
  <2> QED BY <1>8, <2>1, <2>2
<1> QED BY <1>3, <1>4, <1>5, <1>6, <1>7, <1>8

LEMMA ContinueKept == Inv /\ Continue => Inv'
<1> SUFFICES ASSUME Inv, Continue PROVE Inv'
  OBVIOUS
<1> DEFINE q == [page EXCEPT !.soon = Tail(@)]
<1>1. page.soon \in Seq(Calls) /\ page.soon # <<>>
  BY DEF Inv, Sound, Pages, Continue
<1>2. Tail(page.soon) \in Seq(Calls) /\ Head(page.soon) \in Calls
  BY <1>1
<1>3. Sound(q, down) /\ Settled(q)
  BY <1>1, <1>2 DEF Inv, Sound, Settled, Pages, Asks
<1>4. page' = Continued(q, Head(page.soon)) /\ UNCHANGED <<down, held, told>>
  BY DEF Continue
<1> HIDE DEF q
<1>5. Sound(page', down) /\ Settled(page')
  BY <1>2, <1>3, <1>4, ContinuedPage
<1> QED BY <1>4, <1>5, PageOnly

-----------------------------------------------------------------------------
(* The socket. *)

LEMMA OpensKept == Inv /\ Opens => Inv'
<1> SUFFICES ASSUME Inv, Opens PROVE Inv'
  OBVIOUS
<1> DEFINE p == [page EXCEPT !.socket = "open"]
           q == Resubscribe(p)
           r == [q EXCEPT !.soon = @ \o q.waits, !.waits = <<>>]
<1>1. Sound(p, down) /\ p.socket = "open"
  BY DEF Inv, Sound, Pages, Asks
<1>2. page' = r /\ UNCHANGED <<down, held, told>>
  BY DEF Opens
<1> HIDE DEF p
<1>3. Sound(q, down) /\ q.socket = "open" /\ \A c \in Convs : q.view[c] # "frozen"
  BY <1>1, ResubscribePage
<1> HIDE DEF q
<1>4. q \in Pages /\ q.soon \o q.waits \in Seq(Calls)
  BY <1>3 DEF Sound, Pages
<1>5. /\ r \in Pages /\ r.sending = q.sending /\ r.view = q.view /\ r.socket = "open"
      /\ r.waits = <<>> /\ r.pending = q.pending /\ r.up = q.up
      /\ r.subscribed = q.subscribed
  <2> DEFINE soon == q.soon \o q.waits
  <2>1. soon \in Seq(Calls) /\ r = [q EXCEPT !.soon = soon, !.waits = <<>>]
    BY <1>4
  <2>2. <<>> \in Seq(Calls)
    OBVIOUS
  <2> HIDE DEF soon, r
  <2> QED BY <1>3, <1>4, <2>1, <2>2 DEF Pages
<1> HIDE DEF r
<1>6. Sound(r, down)
  BY <1>3, <1>5 DEF Sound, Asks
<1>7. Settled(r)
  BY <1>3, <1>5 DEF Settled
<1> QED BY <1>2, <1>6, <1>7, PageOnly

\* Where a socket has ended another is on its way, and nobody waits for the old one.
LEMMA ClosedPage ==
    ASSUME NEW p, NEW d, Sound(p, d), p.soon = <<>>
    PROVE  Sound(Closed(p), Empty) /\ Settled(Closed(p))
<1> DEFINE failed == {p.waits[i].conv : i \in {j \in DOMAIN p.waits :
                          p.waits[j].what = "message" /\ p.waits[j].mine}}
           view == [c \in Convs |-> IF p.view[c] = "live" THEN "frozen" ELSE p.view[c]]
           sending == p.sending \ failed
           gone == Unsubscribed(p)
           q == [gone EXCEPT !.socket = "none", !.up = Empty, !.waits = <<>>,
                             !.sending = sending, !.view = view]
<1>1. p \in Pages
  BY DEF Sound
<1>2. /\ gone \in Pages /\ gone.app = p.app /\ gone.sending = p.sending
      /\ gone.view = p.view /\ gone.pending = {} /\ gone.soon = <<>>
  BY <1>1 DEF Unsubscribed, Pages
<1>3. /\ view \in [Convs -> Views] /\ sending \in SUBSET Convs
      /\ \A c \in sending : view[c] # "none"
  BY <1>1 DEF Sound, Pages, Views
<1>4. \/ p.app /\ Closed(p) = [q EXCEPT !.probing = TRUE]
      \/ Closed(p) = [q EXCEPT !.timer = q.app]
  BY <1>2 DEF Closed, ScheduleReconnect
<1> HIDE DEF gone, view, sending
<1>5. /\ q \in Pages /\ q.app = p.app /\ q.sending = sending /\ q.view = view
      /\ q.pending = {} /\ q.soon = <<>> /\ q.waits = <<>> /\ q.socket = "none"
  <2>1. Empty \in [Convs -> Seq(Sends)] /\ <<>> \in Seq(Calls)
    BY NothingOnWire
  <2> QED BY <1>2, <1>3, <2>1 DEF Pages
<1> HIDE DEF q
<1> DEFINE r == Closed(p)
<1>6. /\ r \in Pages
      /\ r.app => r.timer \/ r.probing
      /\ r.sending = q.sending /\ r.view = q.view /\ r.pending = {}
      /\ r.soon = <<>> /\ r.waits = <<>> /\ r.socket = "none"
  <2> HIDE DEF r
  <2>1. CASE r = [q EXCEPT !.probing = TRUE]
    BY <1>5, <2>1 DEF Pages
  <2>2. CASE r = [q EXCEPT !.timer = q.app]
    BY <1>5, <2>2 DEF Pages
  <2> QED BY <1>4, <2>1, <2>2 DEF r
<1> HIDE DEF r
<1>7. Sound(r, Empty)
  <2>1. \A c \in r.sending : r.view[c] # "none"
    BY <1>3, <1>5, <1>6
  <2>2. \A c \in r.pending : Asks(r, c) \/ Answered(Empty, c)
    BY <1>6
  <2>3. r.soon # <<>> => r.socket = "open"
    BY <1>6
  <2> QED BY <1>6, <2>1, <2>2, <2>3 DEF Sound
<1>8. Settled(r)
  BY <1>6 DEF Settled
<1> QED BY <1>7, <1>8 DEF r

LEMMA ClosesKept == Inv /\ Closes => Inv'
<1> SUFFICES ASSUME Inv, Closes PROVE Inv'
  OBVIOUS
<1>1. Sound(page', Empty) /\ Settled(page')
  BY ClosedPage DEF Inv, Closes, Idle
<1> QED BY <1>1, NothingOnWire DEF Inv, Closes, Disconnected

LEMMA ProbedKept == Inv /\ Probed => Inv'
<1> SUFFICES ASSUME Inv, Probed PROVE Inv'
  OBVIOUS
<1>1. /\ page' = ScheduleReconnect([page EXCEPT !.probing = FALSE])
      /\ UNCHANGED <<down, held, told>>
  BY DEF Probed
<1>2. Sound(page', down) /\ Settled(page')
  BY <1>1 DEF Inv, ScheduleReconnect, Sound, Settled, Pages, Asks
<1> QED BY <1>1, <1>2, PageOnly

LEMMA ReconnectKept == Inv /\ Reconnect => Inv'
<1> SUFFICES ASSUME Inv, Reconnect PROVE Inv'
  OBVIOUS
<1> DEFINE q == [page EXCEPT !.timer = FALSE]
           r == [q EXCEPT !.socket = "connecting"]
<1>1. /\ q \in Pages /\ q.sending = page.sending /\ q.view = page.view
      /\ q.socket = page.socket /\ q.soon = page.soon /\ q.waits = page.waits
      /\ q.pending = page.pending /\ q.up = page.up /\ q.subscribed = page.subscribed
  BY DEF Inv, Sound, Pages
<1>2. page' = (IF q.socket = "none" THEN r ELSE q) /\ UNCHANGED <<down, held, told>>
  BY DEF Reconnect, Connect
<1> HIDE DEF q
<1>3. CASE q.socket = "none"
  <2>1. Sound(r, down) /\ Settled(r)
    BY <1>1, <1>3 DEF Inv, Sound, Settled, Pages, Asks
  <2> QED BY <1>2, <1>3, <2>1, PageOnly
<1>4. CASE q.socket # "none"
  <2>1. Sound(q, down) /\ Settled(q)
    BY <1>1, <1>4 DEF Inv, Sound, Settled, Asks
  <2> QED BY <1>2, <1>4, <2>1, PageOnly
<1> QED BY <1>3, <1>4

-----------------------------------------------------------------------------
(* Frames. *)

LEMMA ViewChanged ==
    ASSUME NEW p, NEW d, Sound(p, d), Settled(p), NEW c \in Convs,
           NEW v \in {"idle", "live"}, NEW q \in Pages,
           q.view = [p.view EXCEPT ![c] = v], q.sending \subseteq p.sending,
           q.app = p.app, q.socket = p.socket, q.timer = p.timer, q.probing = p.probing,
           q.soon = p.soon, q.waits = p.waits, q.subscribed = p.subscribed,
           q.pending = p.pending, q.up = p.up
    PROVE  Sound(q, d) /\ Settled(q)
<1>1. p.view \in [Convs -> Views] /\ p.sending \subseteq Convs
  BY DEF Sound, Pages
<1>2. q.view[c] = v /\ \A k \in Convs \ {c} : q.view[k] = p.view[k]
  BY <1>1
<1>3. Sound(q, d)
  BY <1>1, <1>2 DEF Sound, Asks
<1>4. Settled(q)
  BY <1>2 DEF Settled
<1> QED BY <1>3, <1>4

\* What the page does with the next frame leaves every promise but the answered
\* one, and that the answer is for.
LEMMA HandledPage ==
    ASSUME NEW p, NEW d, Sound(p, d), Settled(p), NEW c \in Convs, NEW type \in Types
    PROVE  /\ Sound(Handled(p, c, type), d) /\ Settled(Handled(p, c, type))
           /\ \A k \in Handled(p, c, type).pending : k \in p.pending
           /\ type \in {"subscribed", "error"} => c \notin Handled(p, c, type).pending
<1> DEFINE over == [p EXCEPT !.view[c] = "idle", !.sending = @ \ {c}]
           live == [over EXCEPT !.view[c] = "live"]
           answered == [p EXCEPT !.subscribed = @ \cup {c}, !.pending = @ \ {c},
                                 !.left[c] = {}]
           refused == [p EXCEPT !.pending = @ \ {c}, !.left[c] = {}, !.subscribed = @ \ {c}]
<1>1. p \in Pages
  BY DEF Sound
<1>2. /\ p.left[c] \in SUBSET Convs
      /\ Sound(answered, d) /\ Settled(answered) /\ answered.pending = p.pending \ {c}
  BY <1>1 DEF Sound, Settled, Pages, Asks
<1>3. Sound(refused, d) /\ Settled(refused) /\ refused.pending = p.pending \ {c}
  BY <1>1 DEF Sound, Settled, Pages, Asks
<1>4. Sound(over, d) /\ Settled(over) /\ over.pending = p.pending
  <2>1. /\ over \in Pages /\ over.pending = p.pending
        /\ over.view = [p.view EXCEPT ![c] = "idle"] /\ over.sending = p.sending \ {c}
        /\ over.app = p.app /\ over.socket = p.socket /\ over.timer = p.timer
        /\ over.probing = p.probing /\ over.soon = p.soon /\ over.waits = p.waits
        /\ over.subscribed = p.subscribed /\ over.up = p.up
    BY <1>1 DEF Pages, Views
  <2> HIDE DEF over
  <2> QED BY <1>1, <2>1, ViewChanged
<1>5. Sound(live, d) /\ Settled(live) /\ live.pending = p.pending
  <2>1. over \in Pages
    BY <1>4 DEF Sound
  <2> HIDE DEF over
  <2>2. /\ live \in Pages /\ live.pending = over.pending
        /\ live.view = [over.view EXCEPT ![c] = "live"] /\ live.sending = over.sending
        /\ live.app = over.app /\ live.socket = over.socket /\ live.timer = over.timer
        /\ live.probing = over.probing /\ live.soon = over.soon
        /\ live.waits = over.waits
        /\ live.subscribed = over.subscribed /\ live.up = over.up
    BY <2>1 DEF Pages, Views
  <2> HIDE DEF live
  <2> QED BY <1>4, <2>1, <2>2, ViewChanged
<1> HIDE DEF over, live, answered, refused
<1>6. ASSUME NEW q, Sound(q, d), Settled(q), NEW cs \in SUBSET Convs
      PROVE  /\ Sound(ReleaseIfIdle(q, cs), d) /\ Settled(ReleaseIfIdle(q, cs))
             /\ ReleaseIfIdle(q, cs).pending \subseteq q.pending
  <2>1. Lesser(q, ReleaseIfIdle(q, cs))
    BY <1>6, ReleasePage DEF Sound
  <2> QED BY <1>6, <2>1, LesserSound DEF Lesser
<1>7. CASE type = "subscribed"
  <2>1. Handled(p, c, type) = ReleaseIfIdle(answered, p.left[c])
    BY <1>7 DEF Handled, answered
  <2> QED BY <1>2, <1>6, <1>7, <2>1
<1>8. CASE type = "error" /\ c \in p.pending
  <2>1. Handled(p, c, type) = refused
    BY <1>8 DEF Handled, refused
  <2> QED BY <1>3, <1>8, <2>1
<1>9. CASE type = "error" /\ c \notin p.pending
  <2>1. Handled(p, c, type) = p \/ Handled(p, c, type) = over
    BY <1>9 DEF Handled, over
  <2> QED BY <1>4, <1>9, <2>1
<1>10. CASE type = "turn_started"
  <2>1. Handled(p, c, type) = p \/ Handled(p, c, type) = live
    BY <1>10 DEF Handled, over, live
  <2> QED BY <1>5, <1>10, <2>1
<1>11. CASE type = "turn_done"
  <2>1. Handled(p, c, type) = p \/ Handled(p, c, type) = ReleaseIfIdle(over, {c})
    BY <1>11 DEF Handled, over
  <2>2. /\ Sound(ReleaseIfIdle(over, {c}), d) /\ Settled(ReleaseIfIdle(over, {c}))
        /\ ReleaseIfIdle(over, {c}).pending \subseteq over.pending
    BY <1>4, <1>6
  <2> QED BY <1>4, <1>11, <2>1, <2>2
<1>12. CASE type = "other"
  <2>1. Handled(p, c, type) = p
    BY <1>12 DEF Handled
  <2> QED BY <1>12, <2>1
<1> QED BY <1>7, <1>8, <1>9, <1>10, <1>11, <1>12 DEF Types

LEMMA HandleKept == Inv /\ (\E c \in Convs : Handle(c)) => Inv'
<1> SUFFICES ASSUME Inv, NEW c \in Convs, Handle(c) PROVE Inv'
  OBVIOUS
<1> DEFINE type == Head(down[c])
           q == Handled(page, c, type)
           e == [down EXCEPT ![c] = Tail(@)]
<1>1. down \in Wires /\ Sound(page, down) /\ Settled(page)
  BY DEF Inv
<1>2. down[c] \in Seq(Types) /\ down[c] # <<>>
  BY <1>1 DEF Wires, Handle
<1>3. /\ Tail(down[c]) \in Seq(Types) /\ type \in Types
      /\ Answered(down, c) /\ type \notin {"subscribed", "error"}
             => Has(Tail(down[c]), {"subscribed", "error"})
  BY <1>2, HasShorter DEF Answered
<1>4. e \in Wires /\ e[c] = Tail(down[c]) /\ \A k \in Convs \ {c} : e[k] = down[k]
  BY <1>1, <1>3 DEF Wires
<1>5. page' = q /\ down' = e /\ UNCHANGED <<held, told>>
  BY DEF Handle
<1> HIDE DEF type, e
<1>6. /\ Sound(q, down) /\ Settled(q)
      /\ \A k \in q.pending : k \in page.pending
      /\ type \in {"subscribed", "error"} => c \notin q.pending
  BY <1>1, <1>3, HandledPage
<1> HIDE DEF q
<1>7. \A k \in q.pending : Asks(q, k) \/ Answered(e, k)
  <2> SUFFICES ASSUME NEW k \in q.pending PROVE Asks(q, k) \/ Answered(e, k)
    OBVIOUS
  <2>1. k \in Convs /\ (Asks(q, k) \/ Answered(down, k))
    BY <1>6 DEF Sound, Pages
  <2>2. CASE k # c
    BY <1>4, <2>1, <2>2 DEF Answered
  <2>3. CASE k = c
    BY <1>3, <1>4, <1>6, <2>1, <2>3 DEF Answered
  <2> QED BY <2>2, <2>3
<1>8. Sound(q, e)
  BY <1>6, <1>7 DEF Sound
<1> QED BY <1>4, <1>5, <1>6, <1>8 DEF Inv

\* The server takes a request and answers it.  Only a subscribe settles a promise,
\* and it is answered with "subscribed" or with an error.
LEMMA TakenKept ==
    ASSUME Inv, NEW c \in Convs, NEW frames \in Seq(Types), page.up[c] # <<>>, Takes(c),
           down' = [down EXCEPT ![c] = @ \o frames],
           Head(page.up[c]) = "subscribe" => Has(frames, {"subscribed", "error"}),
           held' \subseteq Convs, told' \subseteq held'
    PROVE  Inv'
<1>1. /\ down \in Wires /\ Sound(page, down) /\ Settled(page)
      /\ page \in Pages /\ page.up[c] \in Seq(Sends)
  BY DEF Inv, Sound, Pages
<1>2. /\ Tail(page.up[c]) \in Seq(Sends)
      /\ Asks(page, c) /\ Head(page.up[c]) # "subscribe"
             => Has(Tail(page.up[c]), {"subscribe"})
  BY <1>1, HasShorter DEF Asks
<1>3. Sound(page, down') /\ down' \in Wires
  BY <1>1, WiresGrow
<1>4. Head(page.up[c]) = "subscribe" => Answered(down', c)
  <2>1. down[c] \in Seq(Types)
    BY <1>1 DEF Wires
  <2>2. Has(frames, {"subscribed", "error"}) => Has(down[c] \o frames, {"subscribed", "error"})
    BY <2>1, HasMore
  <2>3. down'[c] = down[c] \o frames
    BY <1>1 DEF Wires
  <2> QED BY <2>2, <2>3 DEF Answered
<1> DEFINE q == page'
<1>5. /\ q \in Pages /\ q.app = page.app /\ q.sending = page.sending /\ q.view = page.view
      /\ q.socket = page.socket /\ q.timer = page.timer /\ q.probing = page.probing
      /\ q.soon = page.soon /\ q.waits = page.waits /\ q.pending = page.pending
      /\ q.subscribed = page.subscribed
      /\ q.up[c] = Tail(page.up[c]) /\ \A k \in Convs \ {c} : q.up[k] = page.up[k]
  <2> DEFINE up == [page.up EXCEPT ![c] = Tail(@)]
  <2>1. /\ up \in [Convs -> Seq(Sends)] /\ up[c] = Tail(page.up[c])
        /\ \A k \in Convs \ {c} : up[k] = page.up[k]
    <3>1. page.up \in [Convs -> Seq(Sends)]
      BY <1>1 DEF Pages
    <3> QED BY <1>2, <3>1
  <2>2. q = [page EXCEPT !.up = up]
    BY DEF Takes
  <2> HIDE DEF q, up
  <2> QED BY <1>1, <2>1, <2>2 DEF Pages
<1>6. \A k \in page.pending : Asks(q, k) \/ Answered(down', k)
  <2> SUFFICES ASSUME NEW k \in page.pending PROVE Asks(q, k) \/ Answered(down', k)
    OBVIOUS
  <2>1. k \in Convs /\ (Asks(page, k) \/ Answered(down', k))
    BY <1>1, <1>3 DEF Sound, Pages
  <2>2. CASE k # c
    BY <1>5, <2>1, <2>2 DEF Asks
  <2>3. CASE k = c
    BY <1>2, <1>4, <1>5, <2>1, <2>3 DEF Asks
  <2> QED BY <2>2, <2>3
<1> HIDE DEF q
<1>7. Sound(q, down') /\ Settled(q)
  BY <1>1, <1>3, <1>5, <1>6 DEF Sound, Settled
<1> QED BY <1>3, <1>7 DEF Inv, q

LEMMA FramesSent ==
    /\ \A type \in Types : <<type>> \in Seq(Types)
    /\ <<"subscribed", "turn_started">> \in Seq(Types)
    /\ <<>> \in Seq(Types)
    /\ \A s, t \in Seq(Types) : s \o t \in Seq(Types)
    /\ "subscribed" \in Types /\ "turn_started" \in Types /\ "turn_done" \in Types
    /\ "error" \in Types /\ "other" \in Types
<1>1. /\ "subscribed" \in Types /\ "turn_started" \in Types /\ "turn_done" \in Types
      /\ "error" \in Types /\ "other" \in Types
  BY DEF Types
<1> HIDE DEF Types
<1> QED BY <1>1

LEMMA ServeSubscribeKept == Inv /\ (\E c \in Convs : ServeSubscribe(c)) => Inv'
<1> SUFFICES ASSUME Inv, NEW c \in Convs, ServeSubscribe(c) PROVE Inv'
  OBVIOUS
<1>1. held \subseteq Convs /\ told \subseteq held /\ page.up[c] # <<>> /\ Takes(c)
  BY DEF Inv, ServeSubscribe, Asked
<1>2. PICK frames \in {<<"subscribed">>, <<"error">>, <<"subscribed", "turn_started">>} :
          Answers(c, frames) /\ held' \subseteq Convs /\ told' \subseteq held'
  BY <1>1 DEF ServeSubscribe
<1>3. frames \in Seq(Types)
  BY <1>2, FramesSent
<1>4. 1 \in DOMAIN frames /\ frames[1] \in {"subscribed", "error"}
  BY <1>2
<1>5. Has(frames, {"subscribed", "error"})
  BY <1>4 DEF Has
<1> QED BY <1>1, <1>2, <1>3, <1>5, TakenKept DEF Answers

LEMMA ServeUnsubscribeKept == Inv /\ (\E c \in Convs : ServeUnsubscribe(c)) => Inv'
<1> SUFFICES ASSUME Inv, NEW c \in Convs, ServeUnsubscribe(c) PROVE Inv'
  OBVIOUS
<1>1. /\ held' \subseteq Convs /\ told' \subseteq held' /\ down \in Wires
      /\ page.up[c] # <<>> /\ Takes(c) /\ Head(page.up[c]) # "subscribe"
  BY DEF Inv, ServeUnsubscribe, Asked
<1>2. PICK frames \in {<<>>, <<"other">> \o <<>>, <<"other">> \o <<"turn_started">>,
                       <<"other">> \o <<"error">>, <<"other">> \o <<"turn_done">>} :
          down' = [down EXCEPT ![c] = @ \o frames]
  <2>1. CASE c \in held
    BY <2>1 DEF ServeUnsubscribe, Answers
  <2>2. CASE c \notin held
    <3>1. down[c] \o <<>> = down[c] /\ down' = down
      BY <1>1, <2>2 DEF ServeUnsubscribe, Wires
    <3>2. down' = [down EXCEPT ![c] = @ \o <<>>]
      BY <1>1, <3>1 DEF Wires
    <3> QED BY <3>2
  <2> QED BY <2>1, <2>2
<1>3. frames \in Seq(Types)
  <2>1. /\ <<"other">> \in Seq(Types) /\ <<"turn_started">> \in Seq(Types)
        /\ <<"error">> \in Seq(Types) /\ <<"turn_done">> \in Seq(Types)
    BY FramesSent
  <2> QED BY <1>2, <2>1, FramesSent
<1> QED BY <1>1, <1>2, <1>3, TakenKept

LEMMA ServeMessageKept == Inv /\ (\E c \in Convs : ServeMessage(c)) => Inv'
<1> SUFFICES ASSUME Inv, NEW c \in Convs, ServeMessage(c) PROVE Inv'
  OBVIOUS
<1>1. /\ held' \subseteq Convs /\ told' \subseteq held'
      /\ page.up[c] # <<>> /\ Takes(c) /\ Head(page.up[c]) # "subscribe"
  BY DEF Inv, ServeMessage, Asked
<1>2. PICK frames \in {<<"error">>, <<>>, <<"other">>} : Answers(c, frames)
  BY DEF ServeMessage
<1>3. frames \in Seq(Types)
  BY <1>2, FramesSent
<1> QED BY <1>1, <1>2, <1>3, TakenKept DEF Answers

LEMMA ServeStopKept == Inv /\ (\E c \in Convs : ServeStop(c)) => Inv'
<1> SUFFICES ASSUME Inv, NEW c \in Convs, ServeStop(c) PROVE Inv'
  OBVIOUS
<1>1. /\ held' \subseteq Convs /\ told' \subseteq held'
      /\ page.up[c] # <<>> /\ Takes(c) /\ Head(page.up[c]) # "subscribe"
  BY DEF Inv, ServeStop, Asked
<1>2. PICK frames \in {<<"error">>, <<"other">>} : Answers(c, frames)
  BY DEF ServeStop
<1>3. frames \in Seq(Types)
  BY <1>2, FramesSent
<1> QED BY <1>1, <1>2, <1>3, TakenKept DEF Answers

\* The relay tells of turns that the page did not ask for.
LEMMA ToldKept ==
    ASSUME Inv, NEW c \in Convs, NEW frames \in Seq(Types), Answers(c, frames),
           UNCHANGED <<page, held>>, told' \subseteq held
    PROVE  Inv'
<1>1. Sound(page, down') /\ down' \in Wires
  BY WiresGrow DEF Inv, Answers
<1> QED BY <1>1 DEF Inv

LEMMA TurnBeginsKept == Inv /\ (\E c \in Convs : TurnBegins(c)) => Inv'
<1> SUFFICES ASSUME Inv, NEW c \in Convs, TurnBegins(c) PROVE Inv'
  OBVIOUS
<1>1. /\ Answers(c, <<"turn_started">>) /\ <<"turn_started">> \in Seq(Types)
      /\ UNCHANGED <<page, held>> /\ told' \subseteq held
  BY DEF Inv, TurnBegins, Types
<1> QED BY <1>1, ToldKept

LEMMA TurnEndsKept == Inv /\ (\E c \in Convs : TurnEnds(c)) => Inv'
<1> SUFFICES ASSUME Inv, NEW c \in Convs, TurnEnds(c) PROVE Inv'
  OBVIOUS
<1>1. PICK end \in {"turn_done", "error"} : Answers(c, <<end>>)
  BY DEF TurnEnds
<1>2. <<end>> \in Seq(Types) /\ UNCHANGED <<page, held>> /\ told' \subseteq held
  BY DEF Inv, TurnEnds, Types
<1> QED BY <1>1, <1>2, ToldKept

-----------------------------------------------------------------------------
LEMMA InvKept == Inv /\ [Next]_vars => Inv'
<1> SUFFICES ASSUME Inv, [Next]_vars PROVE Inv'
  OBVIOUS
<1>1. CASE UNCHANGED vars
  BY <1>1 DEF Inv, vars
<1>7. CASE Expires
  BY <1>7 DEF Inv, Expires
<1>2. CASE SignIn \/ SignOut \/ Submit \/ Continue
  BY <1>2, SignInKept, SignOutKept, SubmitKept, ContinueKept
<1>3. CASE Opens \/ Closes \/ Probed \/ Reconnect
  BY <1>3, OpensKept, ClosesKept, ProbedKept, ReconnectKept
<1>4. ASSUME NEW c \in Convs, Click(c) \/ Fetched(c) \/ FetchFails(c) \/ Archive(c)
      PROVE  Inv'
  BY <1>4, ClickKept, FetchedKept, FetchFailsKept, ArchiveKept
<1>5. ASSUME NEW c \in Convs, Serve(c)
      PROVE  Inv'
  BY <1>5, ServeSubscribeKept, ServeUnsubscribeKept, ServeMessageKept, ServeStopKept DEF Serve
<1>6. ASSUME NEW c \in Convs, Handle(c) \/ TurnBegins(c) \/ TurnEnds(c)
      PROVE  Inv'
  BY <1>6, HandleKept, TurnBeginsKept, TurnEndsKept
<1> QED BY <1>1, <1>2, <1>3, <1>4, <1>5, <1>6, <1>7 DEF Next

LEMMA InvAlways == Spec => []Inv
BY InvStart, InvKept, PTL DEF Spec

-----------------------------------------------------------------------------
(* What a step of an open socket may unsubscribe. *)

Keeping(p, q) ==
    \A c \in p.subscribed \ q.subscribed :
        p.socket = "open" /\ q.socket = "open" => q.view[c] # "live"

LEMMA LesserKeeps ==
    ASSUME NEW p \in Pages, NEW q, Lesser(p, q)
    PROVE  Keeping(p, q)
BY DEF Lesser, Keeping, Pages

LEMMA ReadyKeeps ==
    ASSUME NEW p \in Pages, NEW call
    PROVE  WhenReady(p, call).subscribed = p.subscribed
<1> DEFINE q == Connect(p)
<1>1. q \in Pages /\ q.subscribed = p.subscribed
  BY DEF Connect, Pages
<1>2. WhenReady(p, call) \in {[q EXCEPT !.soon = Append(@, call)],
                             [q EXCEPT !.waits = Append(@, call)]}
  BY DEF WhenReady
<1> HIDE DEF q
<1> QED BY <1>1, <1>2 DEF Pages

\* A conversation is given up when it is idle, when its view goes, or when a
\* subscribe of it is refused; then it was not subscribed.
LEMMA HandledKeeps ==
    ASSUME NEW p, NEW d, Sound(p, d), NEW c \in Convs, NEW type \in Types
    PROVE  Keeping(p, Handled(p, c, type))
<1> DEFINE over == [p EXCEPT !.view[c] = "idle", !.sending = @ \ {c}]
           live == [over EXCEPT !.view[c] = "live"]
           answered == [p EXCEPT !.subscribed = @ \cup {c}, !.pending = @ \ {c},
                                 !.left[c] = {}]
           refused == [p EXCEPT !.pending = @ \ {c}, !.left[c] = {}, !.subscribed = @ \ {c}]
<1>1. /\ p \in Pages /\ p.left[c] \in SUBSET Convs
      /\ answered \in Pages /\ p.subscribed \subseteq answered.subscribed
      /\ answered.socket = p.socket
  BY DEF Sound, Pages
<1>2. /\ over \in Pages /\ over.subscribed = p.subscribed /\ over.socket = p.socket
      /\ live.subscribed = p.subscribed
  BY <1>1 DEF Pages, Views
<1>3. c \in p.pending => refused.subscribed = p.subscribed
  BY <1>1 DEF Sound, Pages
<1>4. ASSUME NEW q \in Pages, p.subscribed \subseteq q.subscribed, q.socket = p.socket,
             NEW cs \in SUBSET Convs
      PROVE  Keeping(p, ReleaseIfIdle(q, cs))
  <2>1. Lesser(q, ReleaseIfIdle(q, cs))
    BY <1>4, ReleasePage
  <2> QED BY <1>1, <1>4, <2>1 DEF Lesser, Keeping, Pages
<1> HIDE DEF over, live, answered, refused
<1>5. CASE type = "subscribed"
  <2>1. Handled(p, c, type) = ReleaseIfIdle(answered, p.left[c])
    BY <1>5 DEF Handled, answered
  <2> QED BY <1>1, <1>4, <2>1
<1>6. CASE type = "error" /\ c \in p.pending
  <2>1. Handled(p, c, type) = refused
    BY <1>6 DEF Handled, refused
  <2> QED BY <1>3, <1>6, <2>1 DEF Keeping
<1>7. CASE type = "turn_done"
  <2>1. Handled(p, c, type) = p \/ Handled(p, c, type) = ReleaseIfIdle(over, {c})
    BY <1>7 DEF Handled, over
  <2>2. Keeping(p, ReleaseIfIdle(over, {c}))
    BY <1>2, <1>4
  <2> QED BY <2>1, <2>2 DEF Keeping
<1>8. CASE \/ type \in {"turn_started", "other"}
           \/ type = "error" /\ c \notin p.pending
  <2>1. Handled(p, c, type) \in {p, over, live}
    BY <1>8 DEF Handled, over, live
  <2> QED BY <1>2, <2>1 DEF Keeping
<1>9. \/ type = "subscribed"
      \/ type = "error" /\ c \in p.pending
      \/ type = "turn_done"
      \/ type \in {"turn_started", "other"}
      \/ type = "error" /\ c \notin p.pending
  BY DEF Types
<1> QED BY <1>5, <1>6, <1>7, <1>8, <1>9

LEMMA ContinuedKeeps ==
    ASSUME NEW p \in Pages, NEW call \in Calls
    PROVE  Keeping(p, Continued(p, call))
<1> DEFINE c == call.conv
           asked == [p EXCEPT !.pending = @ \cup {c}, !.left[c] = @ \cup call.left]
           dropped == [p EXCEPT !.sending = IF call.mine THEN @ \ {c} ELSE @]
<1>1. c \in Convs /\ call.left \in SUBSET Convs
  BY DEF Calls
<1>2. /\ asked \in Pages /\ asked.subscribed = p.subscribed
      /\ dropped.subscribed = p.subscribed
  BY <1>1 DEF Pages
<1>3. \/ Continued(p, call) = ReleaseIfIdle(p, call.left)
      \/ Continued(p, call) \in {asked, dropped}
      \/ Continued(p, call) = Sent(asked, {c}, "subscribe")
      \/ p.current \in Convs /\ Continued(p, call) = Sent(p, {p.current}, "message")
  BY DEF Continued, Pages
<1> HIDE DEF asked, dropped
<1>4. Keeping(p, ReleaseIfIdle(p, call.left))
  BY <1>1, ReleasePage, LesserKeeps
<1>5. Sent(asked, {c}, "subscribe").subscribed = p.subscribed
  BY <1>1, <1>2, SentPage DEF Sends
<1>6. p.current \in Convs => Sent(p, {p.current}, "message").subscribed = p.subscribed
  BY SentPage DEF Sends
<1>7. CASE Continued(p, call) \in {asked, dropped}
  BY <1>2, <1>7 DEF Keeping
<1> QED BY <1>3, <1>4, <1>5, <1>6, <1>7 DEF Keeping

LEMMA WorkKept == Inv /\ [Next]_vars => Keeping(page, page')
<1> SUFFICES ASSUME Inv, [Next]_vars PROVE Keeping(page, page')
  OBVIOUS
<1>1. page \in Pages /\ Sound(page, down)
  BY DEF Inv, Sound
<1>2. ASSUME page'.subscribed = page.subscribed PROVE Keeping(page, page')
  BY <1>2 DEF Keeping
<1>3. CASE UNCHANGED page
  BY <1>3, <1>2
<1>4. CASE page.socket # "open" \/ page'.socket # "open"
  BY <1>4 DEF Keeping
<1>5. CASE SignIn \/ Reconnect
  BY <1>1, <1>2, <1>5 DEF SignIn, Reconnect, Connect, Pages
<1>6. CASE SignOut
  BY <1>4, <1>6 DEF SignOut, ShowSignIn, SignedOut
<1>7. CASE Probed
  <2>1. page' = ScheduleReconnect([page EXCEPT !.probing = FALSE])
    BY <1>7 DEF Probed
  <2> QED BY <1>1, <1>2, <2>1 DEF ScheduleReconnect, Pages
<1>8. CASE Opens
  BY <1>4, <1>8 DEF Opens
<1>9. CASE Closes
  <2>1. page'.socket = "none"
    BY <1>1, <1>9 DEF Closes, Closed, Unsubscribed, ScheduleReconnect, Pages
  <2> QED BY <1>4, <2>1
<1>10. CASE Submit
  <2>1. CASE page.current \in Busy(page)
    <3>1. page' = page \/ page' = Sent(page, {page.current}, "stop")
      BY <1>10, <2>1 DEF Submit
    <3>2. page.current \in Convs
      BY <1>1, <1>10 DEF Submit, Pages
    <3>3. Sent(page, {page.current}, "stop").subscribed = page.subscribed
      BY <1>1, <3>2, SentPage DEF Sends
    <3> QED BY <1>2, <3>1, <3>3
  <2>2. CASE page.current \notin Busy(page)
    <3> DEFINE q == [page EXCEPT !.sending = @ \cup {page.current}]
    <3>1. page' = WhenReady(q, Submitting(page.current))
      BY <1>10, <2>2 DEF Submit
    <3>2. q \in Pages /\ q.subscribed = page.subscribed
      BY <1>1, <1>10 DEF Submit, Pages
    <3> HIDE DEF q
    <3> QED BY <1>2, <3>1, <3>2, ReadyKeeps
  <2> QED BY <2>1, <2>2
<1>11. CASE Continue
  <2> DEFINE q == [page EXCEPT !.soon = Tail(@)]
  <2>1. page.soon \in Seq(Calls) /\ page.soon # <<>>
    BY <1>1, <1>11 DEF Pages, Continue
  <2>2. Tail(page.soon) \in Seq(Calls) /\ Head(page.soon) \in Calls
    BY <2>1
  <2>3. q \in Pages /\ q.subscribed = page.subscribed /\ q.socket = page.socket
    BY <1>1, <2>2 DEF Pages
  <2>4. page' = Continued(q, Head(page.soon))
    BY <1>11 DEF Continue
  <2> HIDE DEF q
  <2>5. Keeping(q, page')
    BY <2>2, <2>3, <2>4, ContinuedKeeps
  <2> QED BY <2>3, <2>5 DEF Keeping
<1>12. ASSUME NEW c \in Convs, Click(c) \/ FetchFails(c) PROVE Keeping(page, page')
  <2>1. CASE Click(c)
    BY <1>1, <1>2, <2>1 DEF Click, Pages
  <2>2. CASE FetchFails(c)
    <3>1. page' = [page EXCEPT !.fetching = @ \ {c}] \/ page'.socket = "none"
      BY <2>2 DEF FetchFails, ShowSignIn, SignedOut
    <3> QED BY <1>1, <1>2, <1>4, <3>1 DEF Pages
  <2> QED BY <1>12, <2>1, <2>2
<1>13. ASSUME NEW c \in Convs, Fetched(c) PROVE Keeping(page, page')
  <2> DEFINE q == [page EXCEPT !.fetching = @ \ {c}, !.current = c,
                               !.view[c] = IF @ = "none" THEN "idle" ELSE @]
             call == Subscribing(c, IF page.current = c THEN None ELSE page.current)
  <2>1. page' = WhenReady(q, call)
    BY <1>13 DEF Fetched
  <2>2. q \in Pages /\ q.subscribed = page.subscribed
    BY <1>1 DEF Pages, Views
  <2> HIDE DEF q, call
  <2> QED BY <1>2, <2>1, <2>2, ReadyKeeps
<1>14. ASSUME NEW c \in Convs, Archive(c) PROVE Keeping(page, page')
  <2> DEFINE q == Discard(page, {c})
  <2>1. Lesser(page, q)
    BY <1>1, DiscardPage
  <2>2. page' = [q EXCEPT !.current = IF @ = c THEN None ELSE @]
    BY <1>14 DEF Archive
  <2> HIDE DEF q
  <2>3. q \in Pages /\ Keeping(page, q)
    BY <1>1, <2>1, LesserKeeps DEF Lesser
  <2>4. page'.subscribed = q.subscribed /\ page'.socket = q.socket /\ page'.view = q.view
    BY <2>2, <2>3 DEF Pages
  <2> QED BY <2>3, <2>4 DEF Keeping
<1>15. ASSUME NEW c \in Convs, Handle(c) PROVE Keeping(page, page')
  <2>1. down[c] \in Seq(Types) /\ down[c] # <<>>
    BY <1>15 DEF Inv, Wires, Handle
  <2>2. Head(down[c]) \in Types
    BY <2>1
  <2> QED BY <1>1, <1>15, <2>2, HandledKeeps DEF Handle
<1>16. ASSUME NEW c \in Convs, Serve(c) \/ TurnBegins(c) \/ TurnEnds(c)
       PROVE  Keeping(page, page')
  <2>1. CASE Serve(c)
    BY <1>1, <1>2, <2>1 DEF Serve, ServeSubscribe, ServeUnsubscribe, ServeMessage,
                            ServeStop, Takes, Pages
  <2>2. CASE TurnBegins(c) \/ TurnEnds(c)
    BY <1>3, <2>2 DEF TurnBegins, TurnEnds
  <2> QED BY <1>16, <2>1, <2>2
<1>17. CASE UNCHANGED vars \/ Expires
  BY <1>3, <1>17 DEF vars, Expires
<1> QED BY <1>5, <1>6, <1>7, <1>8, <1>9, <1>10, <1>11, <1>12, <1>13, <1>14, <1>15,
           <1>16, <1>17 DEF Next

-----------------------------------------------------------------------------
Known == known \in BOOLEAN

LEMMA KnownAlways == Spec => []Known
<1>1. Init => Known
  BY DEF Init, Known
<1>2. Known /\ [Next]_vars => Known'
  BY DEF Known, Next, vars, SignIn, SignOut, Expires, Submit, Continue, Opens, Closes, Probed, Reconnect,
         Click, Fetched, FetchFails, Archive, Handle, Serve, TurnBegins, TurnEnds
<1> QED BY <1>1, <1>2, PTL DEF Spec

LEMMA InvShows ==
    Inv /\ Known =>
        TypeOK /\ ComesBack /\ WaitsForOpening /\ CutOffRebuilt /\ PendingAsked
<1> SUFFICES ASSUME Inv, Known
             PROVE  TypeOK /\ ComesBack /\ WaitsForOpening /\ CutOffRebuilt /\ PendingAsked
  OBVIOUS
<1>1. page \in Pages /\ Sound(page, down) /\ Settled(page)
  BY DEF Inv, Sound
<1>2. TypeOK
  BY <1>1 DEF Inv, Known, TypeOK, Sound, Pages, Views, Wires, Sends
<1>3. ComesBack /\ WaitsForOpening /\ CutOffRebuilt /\ PendingAsked
  BY <1>1 DEF ComesBack, WaitsForOpening, CutOffRebuilt, PendingAsked, Sound, Settled,
              Asks, Answered
<1> QED BY <1>2, <1>3

\* Whatever the user clicks and types, whenever the socket closes and however slow
\* the answers are, the page's fields have their types, a message is in hand only of a
\* view that exists, and only subscriptions that are held tell of turns.
THEOREM PageTyping == Spec => []TypeOK
BY InvAlways, KnownAlways, InvShows, PTL

\* Every way that ends a socket (onclose, the probe of a failed handshake) leaves a page
\* that shows the application with a timer or a probe: it never stops trying.
THEOREM AlwaysComesBack == Spec => []ComesBack
BY InvAlways, KnownAlways, InvShows, PTL

\* socketReady's promises are settled with the socket they wait for: none waits for
\* a socket that is closed, and what goes on finds it open.
THEOREM WaitersSettled == Spec => []WaitsForOpening
BY InvAlways, KnownAlways, InvShows, PTL

\* resubscribe rebuilds every view with a turn that the closed socket cut off.
THEOREM CutOffNotShown == Spec => []CutOffRebuilt
BY InvAlways, KnownAlways, InvShows, PTL

\* A pending subscription has its request or its answer on the wire of the
\* connection the page has: requestSubscribe never waits for nothing.
THEOREM PendingAnswered == Spec => []PendingAsked
BY InvAlways, KnownAlways, InvShows, PTL

\* releaseIfIdle and discardView are the only ways to give up a subscription, and
\* neither takes that of a view whose turn goes on, whatever the order of answers.
THEOREM WorkStaysSubscribed == Spec => KeepsWorking
<1>1. Keeping(page, page') => [\A c \in page.subscribed \ page'.subscribed :
          page.socket = "open" /\ page'.socket = "open" => page'.view[c] # "live"]_page
  BY DEF Keeping
<1> QED BY <1>1, InvAlways, WorkKept, PTL DEF Spec, KeepsWorking

-----------------------------------------------------------------------------
(* What the page is prepared for. *)

\* The end of the link at which the page sits: what is asked and held.
L == INSTANCE Link WITH
        asked <- page.up,
        owed <- {c \in Convs : down[c] # <<>>},
        over <- FALSE

\* How a worker says that a frame was served with this outcome.
Reply(c, what, outcome) ==
    IF ~outcome.heard THEN <<>>
    ELSE CASE what = "subscribe" /\ c \in outcome.held -> <<"subscribed">>
           [] what = "unsubscribe"                      -> <<"other">>
           [] OTHER                                     -> <<"error">>

\* Every outcome that Link has for a frame the page sent, and SocketMux therefore may
\* give it (PromiseKept), is one that Page's server gives: what is proved of the page is
\* proved whichever of them comes.
THEOREM ReadyForLink ==
    ASSUME Inv, NEW c \in Convs, page.up[c] # <<>>,
           NEW outcome \in L!Outcomes(c, Head(page.up[c])),
           Takes(c), Answers(c, Reply(c, Head(page.up[c]), outcome)),
           held' = outcome.held, told' = told \cap held', UNCHANGED known
    PROVE  Serve(c)
<1> DEFINE what == Head(page.up[c])
<1>1. what \in Sends /\ held \subseteq Convs /\ told \subseteq held /\ down \in Wires
  BY DEF Inv, Sound, Pages
<1>2. CASE what = "subscribe"
  <2>1. outcome.held \in {held, held \cup {c}} /\ outcome.heard
    BY <1>2 DEF L!Outcomes
  <2>2. CASE c \in outcome.held
    BY <1>1, <1>2, <2>1, <2>2 DEF Reply, Serve, ServeSubscribe, Asked
  <2>3. CASE c \notin outcome.held
    BY <1>1, <1>2, <2>1, <2>3 DEF Reply, Serve, ServeSubscribe, Asked
  <2> QED BY <2>2, <2>3
<1>3. CASE what = "unsubscribe"
  <2>1. /\ outcome.held = held \ {c}
        /\ c \in held => outcome.heard = TRUE
        /\ c \notin held => outcome.heard = FALSE
    BY <1>3 DEF L!Outcomes
  <2>2. told' = told \ {c}
    BY <1>1, <2>1
  <2>3. CASE c \in held
    <3>1. Answers(c, <<"other">>)
      BY <1>3, <2>1, <2>3 DEF Reply
    <3>2. <<"other">> \o <<>> = <<"other">>
      OBVIOUS
    <3>3. Answers(c, <<"other">> \o <<>>)
      BY <3>1, <3>2
    <3> QED BY <1>3, <2>1, <2>2, <2>3, <3>3 DEF Serve, ServeUnsubscribe, Asked
  <2>4. CASE c \notin held
    <3>1. down' = [down EXCEPT ![c] = down[c] \o <<>>]
      BY <2>1, <2>4 DEF Reply, Answers
    <3>2. down[c] \in Seq(Types)
      BY <1>1 DEF Wires
    <3>3. UNCHANGED down
      BY <1>1, <3>1, <3>2, ConcatEmptySeq DEF Wires
    <3> QED BY <1>3, <2>1, <2>2, <2>4, <3>3 DEF Serve, ServeUnsubscribe, Asked
  <2> QED BY <2>3, <2>4
<1>4. CASE what = "message"
  <2>1. outcome.held = held /\ outcome.heard \in BOOLEAN /\ (~outcome.heard => c \in held)
    BY <1>4 DEF L!Outcomes
  <2>2. told' = told
    BY <1>1, <2>1
  <2>3. IF outcome.heard THEN Answers(c, <<"error">>) ELSE Answers(c, <<>>) /\ c \in held
    BY <1>4, <2>1 DEF Reply
  <2> QED BY <1>4, <2>1, <2>2, <2>3 DEF Serve, ServeMessage, Asked
<1>5. CASE what = "stop"
  <2>1. outcome.held = held /\ outcome.heard
    BY <1>5 DEF L!Outcomes
  <2>2. told' = told
    BY <1>1, <2>1
  <2>3. Answers(c, <<"error">>)
    BY <1>5, <2>1 DEF Reply
  <2> QED BY <1>5, <2>1, <2>2, <2>3 DEF Serve, ServeStop, Asked
<1> QED BY <1>1, <1>2, <1>3, <1>4, <1>5 DEF Sends
=============================================================================
