------------------------------ MODULE TurnFeed ------------------------------
(***************************************************************************)
(* What the viewers of one session are promised: a turn is published once, *)
(* and a viewer that is in takes the newest one whenever it looks, is      *)
(* shown it from its start to its end, once, and rests only when there is  *)
(* none that is new to it; the next publication ends the rest of all.      *)
(*                                                                         *)
(* What is published while a viewer is busy, and replaced before it looks  *)
(* again, that viewer never gets.  A viewer may leave at any moment.       *)
(***************************************************************************)
EXTENDS Naturals

CONSTANTS Clients,   \* the subscriptions of one session
          Turns      \* identities of turns; 0 is none of them

VARIABLES published, \* the turns the session has made its current one
          newest,    \* the last of them, or 0
          viewer,    \* "out", "arriving", "in" or "gone"
          seen,      \* the turns a viewer has been shown, or came too late for
          chosen,    \* the turn a viewer has taken and is to be shown, or 0
          open,      \* the turn a viewer is being shown, or 0
          resting    \* the viewer waits for a publication

feedVars == <<published, newest, viewer, seen, chosen, open, resting>>

FeedInit ==
    /\ published = {}
    /\ newest = 0
    /\ viewer = [c \in Clients |-> "out"]
    /\ seen = [c \in Clients |-> {}]
    /\ chosen = [c \in Clients |-> 0]
    /\ open = [c \in Clients |-> 0]
    /\ resting = [c \in Clients |-> FALSE]

PublishOne(t) ==
    /\ t \in Turns \ published
    /\ published' = published \cup {t}
    /\ newest' = t
    /\ resting' = [c \in Clients |-> FALSE]
    /\ UNCHANGED <<viewer, seen, chosen, open>>

\* A viewer that arrives takes the newest turn.  Those before it are in the transcript
\* its page has loaded ...
Arrive(c) ==
    /\ viewer[c] = "out"
    /\ viewer' = [viewer EXCEPT ![c] = "arriving"]
    /\ chosen' = [chosen EXCEPT ![c] = newest]
    /\ seen' = [seen EXCEPT ![c] = published \ {newest}]
    /\ UNCHANGED <<published, newest, open, resting>>

\* Nothing is new to a viewer that has this behind it.
UpToDate(behind) == newest \in behind \cup {0}

\* ... and so may this one be.
Settle(c) ==
    /\ viewer[c] = "arriving"
    /\ viewer' = [viewer EXCEPT ![c] = "in"]
    /\ \/ /\ chosen[c] # 0
          /\ UNCHANGED <<seen, chosen, resting>>
       \/ /\ chosen' = [chosen EXCEPT ![c] = 0]
          /\ seen' = [seen EXCEPT ![c] = @ \cup ({chosen[c]} \ {0})]
          /\ \E rests \in BOOLEAN : /\ rests => UpToDate(seen'[c])
                                    /\ resting' = [resting EXCEPT ![c] = rests]
    /\ UNCHANGED <<published, newest, open>>

\* A viewer that is neither shown a turn nor resting looks, and takes what is new.
Free(c) == viewer[c] = "in" /\ chosen[c] = 0 /\ open[c] = 0 /\ ~resting[c]

Choose(c) ==
    /\ Free(c) /\ ~UpToDate(seen[c])
    /\ chosen' = [chosen EXCEPT ![c] = newest]
    /\ UNCHANGED <<published, newest, viewer, seen, open, resting>>

Rest(c) ==
    /\ Free(c) /\ UpToDate(seen[c])
    /\ resting' = [resting EXCEPT ![c] = TRUE]
    /\ UNCHANGED <<published, newest, viewer, seen, chosen, open>>

Show(c) ==
    /\ viewer[c] = "in" /\ open[c] = 0
    /\ chosen[c] \in Turns \ seen[c]
    /\ seen' = [seen EXCEPT ![c] = @ \cup {chosen[c]}]
    /\ open' = [open EXCEPT ![c] = chosen[c]]
    /\ chosen' = [chosen EXCEPT ![c] = 0]
    /\ UNCHANGED <<published, newest, viewer, resting>>

Close(c) ==
    /\ open[c] # 0
    /\ open' = [open EXCEPT ![c] = 0]
    /\ UNCHANGED <<published, newest, viewer, seen, chosen, resting>>

Leave(c) ==
    /\ viewer[c] = "in"
    /\ viewer' = [viewer EXCEPT ![c] = "gone"]
    /\ chosen' = [chosen EXCEPT ![c] = 0]
    /\ open' = [open EXCEPT ![c] = 0]
    /\ resting' = [resting EXCEPT ![c] = FALSE]
    /\ UNCHANGED <<published, newest, seen>>

FeedNext ==
    \/ \E t \in Turns : PublishOne(t)
    \/ \E c \in Clients : \/ Arrive(c) \/ Settle(c) \/ Choose(c) \/ Rest(c)
                          \/ Show(c) \/ Close(c) \/ Leave(c)

Feed == FeedInit /\ [][FeedNext]_feedVars
=============================================================================
