-------------------------------- MODULE Link --------------------------------
(***************************************************************************)
(* What one connection promises the page at its other end: the frames of a *)
(* conversation are served one after the other in the order in which they  *)
(* were sent, each by one of the outcomes its kind has, which say when the *)
(* page hears of it; a subscription is held by what was served and by      *)
(* nothing else.                                                           *)
(* A connection that is over may leave frames unserved, the latest first,  *)
(* and ends by giving up what it holds; the next starts from nothing.      *)
(***************************************************************************)
EXTENDS SequencesExt

CONSTANTS Convs,   \* conversations
          Sends    \* what a frame may ask

VARIABLES asked,   \* what is still to be served of each conversation, in order
          owed,    \* the conversations the page is still to hear of
          held,    \* the conversations that are subscribed to
          over     \* the connection has ended, or is ending

linkVars == <<asked, owed, held, over>>

Nothing == [c \in Convs |-> <<>>]

LinkInit == asked = Nothing /\ owed = {} /\ held = {} /\ over = FALSE

\* The page hears what it is owed, and asks for more.
HearAndAsk ==
    /\ owed' \subseteq owed
    /\ asked' \in [Convs -> Seq(Sends)]
    /\ \A c \in Convs : IsPrefix(asked[c], asked'[c])
    /\ UNCHANGED <<held, over>>

\* What is held once a frame is served, and whether the page hears of it.  A subscribe
\* may fail, and then leaves what there was; the end of a subscription that is not
\* there is not worth an answer; a message that was accepted may go without one.
Outcomes(c, what) ==
    CASE what = "subscribe"   -> [held : {held, held \cup {c}}, heard : {TRUE}]
      [] what = "unsubscribe" -> [held : {held \ {c}}, heard : IF c \in held THEN {TRUE} ELSE {FALSE}]
      [] what = "message"     -> [held : {held}, heard : IF c \in held THEN BOOLEAN ELSE {TRUE}]
      [] OTHER                -> [held : {held}, heard : {TRUE}]

Serve(c) ==
    /\ asked[c] # <<>>
    /\ asked' = [asked EXCEPT ![c] = Tail(@)]
    /\ \E outcome \in Outcomes(c, Head(asked[c])) :
          /\ held' = outcome.held
          /\ owed' = IF outcome.heard THEN owed \cup {c} ELSE owed
    /\ UNCHANGED over

\* A frame with none before it may be refused on its arrival.
Refuse(c) ==
    /\ asked[c] = <<>>
    /\ owed' = owed \cup {c}
    /\ UNCHANGED <<asked, held, over>>

\* A subscription brings news of its conversation.
Tell(c) ==
    /\ c \in held
    /\ owed' = owed \cup {c}
    /\ UNCHANGED <<asked, held, over>>

End ==
    /\ over' = TRUE
    /\ UNCHANGED <<asked, owed, held>>

Drop(c) ==
    /\ over
    /\ asked[c] # <<>>
    /\ asked' = [asked EXCEPT ![c] = Front(@)]
    /\ UNCHANGED <<owed, held, over>>

GiveUp ==
    /\ over
    /\ held' = {}
    /\ UNCHANGED <<asked, owed, over>>

Renew == asked' = Nothing /\ owed' = {} /\ held' = {} /\ over' = FALSE

LinkNext ==
    \/ HearAndAsk \/ End \/ GiveUp \/ Renew
    \/ \E c \in Convs : Serve(c) \/ Refuse(c) \/ Tell(c) \/ Drop(c)

Promise == LinkInit /\ [][LinkNext]_linkVars
=============================================================================
