------------------------------ MODULE HandleLife ------------------------------
(***************************************************************************)
(* What becomes of the daemon's handles.  One that is opened is in one     *)
(* hand, until it is listed under a conversation; what is listed is found  *)
(* by whoever asks, until somebody takes it; who takes it closes it, once. *)
(* A handle is lost, and left open, in three ways only: the one who holds  *)
(* it gives up before it is listed, another one takes its place in the     *)
(* list, or the process ends.                                              *)
(***************************************************************************)
CONSTANTS Convs,      \* conversations
          Sessions,   \* identities of handles
          None        \* no handle

VARIABLES inHand,     \* the handles that are open and not listed yet
          listed,     \* the handle of each conversation
          taken,      \* the handles that are about to be closed
          closed      \* the handles that have been closed

handleVars == <<inHand, listed, taken, closed>>

Listed == {listed[c] : c \in Convs} \ {None}
Owned == inHand \cup Listed \cup taken

Empty == inHand = {} /\ listed = [c \in Convs |-> None] /\ taken = {} /\ closed = {}

\* A handle that nobody has any more may be one that is opened.
Open(s) ==
    /\ s \notin Owned
    /\ inHand' = inHand \cup {s}
    /\ closed' = closed \ {s}
    /\ UNCHANGED <<listed, taken>>

\* What was listed there, if anything was, is found no more, and not closed.
List(c, s) ==
    /\ s \in inHand
    /\ inHand' = inHand \ {s}
    /\ listed' = [listed EXCEPT ![c] = s]
    /\ UNCHANGED <<taken, closed>>

GiveUp(s) ==
    /\ s \in inHand
    /\ inHand' = inHand \ {s}
    /\ UNCHANGED <<listed, taken, closed>>

Take(S) ==
    /\ S \subseteq Listed
    /\ listed' = [c \in Convs |-> IF listed[c] \in S THEN None ELSE listed[c]]
    /\ taken' = taken \cup S
    /\ UNCHANGED <<inHand, closed>>

Close(s) ==
    /\ s \in taken
    /\ s \notin closed
    /\ taken' = taken \ {s}
    /\ closed' = closed \cup {s}
    /\ UNCHANGED <<inHand, listed>>

ProcessEnds == Empty'

HandlesNext ==
    \/ \E s \in Sessions : Open(s) \/ GiveUp(s) \/ Close(s)
    \/ \E c \in Convs, s \in Sessions : List(c, s)
    \/ \E S \in SUBSET Sessions : Take(S)
    \/ ProcessEnds

Lifecycle == Empty /\ [][HandlesNext]_handleVars
=============================================================================
