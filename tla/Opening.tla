------------------------------ MODULE Opening ------------------------------
(***************************************************************************)
(* A page that opens a conversation (openConversation in index.html): it   *)
(* loads the transcript (describe and readConversationHistory in           *)
(* src/server.go, page by page from the newest), and only then subscribes  *)
(* to the turns of the session (module Turns), while other clients go on   *)
(* sending and turns end.                                                  *)
(*                                                                         *)
(* Pages do not disturb each other, so the view of one is followed.  The   *)
(* daemon's history, which is not part of this repository, holds the       *)
(* exchanges of the turns that are over, in their order.                   *)
(***************************************************************************)
EXTENDS Turns, SequencesExt

CONSTANTS
    Page,       \* the client whose view is followed
    Limit       \* exchanges in one page of history

\* The conversation has run: of one whose row is not started no history is read.
ASSUME OpeningAssumption == Page \in Clients /\ Limit \in Nat \ {0} /\ Past > 0

VARIABLES
    at,         \* how far the page is: "closed", "reading" or "read"
    cursor,     \* the exchange that the next page of history ends before
    pages,      \* readConversationHistory: the pages read, newest first
    durable,    \* history: the exchanges there were when the first was read
    early       \* history: the turns that were published when the page's relay first looked

pageVars == <<at, cursor, pages, durable>>
allVars == <<vars, pageVars, early>>

OpeningInit ==
    /\ Init
    /\ at = "closed"
    /\ cursor = MaxTurns + 1
    /\ pages = <<>>
    /\ durable = {}
    /\ early = {}

\* HistoryPage, external: the newest exchanges before a cursor, oldest first.
Ended == {t \in Turns : Done(t)}
Before(t) == {u \in Ended : u < t}
HistoryPage(t) ==
    LET newest == {u \in Before(t) : Cardinality({v \in Before(t) : v > u}) < Limit}
    IN  [i \in 1 .. Cardinality(newest) |->
            CHOOSE u \in newest : Cardinality({v \in newest : v < u}) = i - 1]

-----------------------------------------------------------------------------
Load ==
    /\ at = "closed"
    /\ at' = "reading"
    /\ durable' = Ended
    /\ UNCHANGED <<vars, cursor, pages, early>>

\* The pages, until one has no cursor to go on from.
ReadPage ==
    LET page == HistoryPage(cursor)
        more == page # <<>> /\ Before(page[1]) # {}
    IN  /\ at = "reading"
        /\ pages' = IF page = <<>> THEN pages ELSE Append(pages, page)
        /\ cursor' = IF more THEN page[1] ELSE cursor
        /\ at' = IF more THEN "reading" ELSE "read"
        /\ UNCHANGED <<vars, durable, early>>

\* The daemon does not answer, and the page shows the error.
ReadFails ==
    /\ at = "reading"
    /\ at' = "closed"
    /\ cursor' = MaxTurns + 1
    /\ pages' = <<>>
    /\ durable' = {}
    /\ UNCHANGED <<vars, early>>

\* Mutant: the pages are joined as they came.
HistoryAsRead == FlattenSeq(pages)

\* What is drawn: the pages joined in chronological order.
History == FlattenSeq(Reverse(pages))
Drawn == Range(History)

-----------------------------------------------------------------------------
\* The page subscribes when it has loaded, at once or on a later visit: a view
\* that has been loaded is not loaded again.
Aside ==
    /\ early' = IF rpc[Page] = "look" /\ rpc'[Page] = "first" THEN published ELSE early
    /\ UNCHANGED pageVars

SessionNext == /\ Next
               /\ wpc[Page] = "out" /\ wpc'[Page] # "out" => at = "read"
               /\ Aside

OpeningNext == SessionNext \/ Load \/ ReadPage \/ ReadFails

OpeningSpec == OpeningInit /\ [][OpeningNext]_allVars

\* Go runs the relays, and a send that has its reply publishes it.
OpeningFairSpec ==
    /\ OpeningSpec
    /\ \A c \in Clients :
          /\ WF_allVars(Relay(c) /\ Aside)
          /\ WF_allVars(Publish(c) /\ Aside)

-----------------------------------------------------------------------------
(* Properties. *)

\* However many turns end while it is read, page by page from the newest, the
\* transcript is every exchange there was at the start, and any that ended before
\* the first page came, in order, without a gap and none twice.
TranscriptWhole ==
    at = "read" => /\ durable \subseteq Drawn
                   /\ History = [i \in 1 .. Cardinality(Drawn) |-> i]

\* An exchange of the transcript is begun again for the page in one case only: its turn
\* was over before the page had loaded, and the send that began it published it after the
\* page's relay had looked.  "A turn that has already finished is not replayed to a viewer
\* that arrives after it" (session.go, turns) holds of the turns the session knew by then.
DrawnAgainOnlyLate ==
    rpc[Page] = "start" /\ turnIn[Page] \in Drawn => turnIn[Page] \notin early

\* What a comment says and the code does not do.

\* "The last turn ... is also in the transcript the page loads before it subscribes"
\* (session.go): what is not replayed to a viewer that arrives is in its transcript.
NotReplayedIsDrawn ==
    [][rpc[Page] = "first" /\ rpc'[Page] # "first" => shown'[Page] \subseteq Drawn]_allVars
=============================================================================
