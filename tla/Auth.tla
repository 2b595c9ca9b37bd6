-------------------------------- MODULE Auth --------------------------------
(***************************************************************************)
(* Signing in (src/auth.go), on top of the accounts: the table of sign-ins *)
(* and the count of failures per address that the server keeps in memory,  *)
(* the requests that change them, and the sweep that discards what is      *)
(* over.                                                                   *)
(*                                                                         *)
(* A request checks the block, the password, the token and the count each  *)
(* in a step of its own, so requests overlap between them.  Time is what   *)
(* is left of a sign-in and how old a count is.                            *)
(***************************************************************************)
EXTENDS Accounts, Integers

CONSTANTS
    Tokens,       \* what a sign-in may be handed: random, so never in use yet
    Addresses,    \* where requests come from
    Requests,     \* sign-in requests being served
    SessionTTL,   \* how long a sign-in lasts (12h)
    FailureWindow,\* how long failures count (5m)
    MaxFailures,  \* failures that block an address (10)
    MaxLate       \* bound on how late the sweep runs

ASSUME AuthAssumption == /\ {SessionTTL, FailureWindow, MaxFailures} \subseteq Nat \ {0}
                         /\ MaxLate \in Nat
                         /\ None \notin Addresses

VARIABLES
    sessions,   \* authenticator.sessions: who a token stands for, and the
                \* password it was given for (history)
    left,       \* what is left of a sign-in's time; it is over below 0
    failures,   \* authenticator.failures: the count of an address, 0 for none
    age,        \* time since that count began
    rpc, asked  \* a request's control point and what it asks

tableVars == <<sessions, left, failures, age>>
requestVars == <<rpc, asked>>
authVars == <<tableVars, requestVars>>
vars == <<accountVars, authVars>>

NoRequest == [from |-> None, name |-> None, password |-> None]
NoSession == [user |-> None, password |-> None]

AuthInit ==
    /\ sessions = [t \in Tokens |-> NoSession]
    /\ left = [t \in Tokens |-> 0]
    /\ failures = [a \in Addresses |-> 0]
    /\ age = [a \in Addresses |-> 0]
    /\ rpc = [r \in Requests |-> "idle"]
    /\ asked = [r \in Requests |-> NoRequest]

Init == AccountsInit /\ AuthInit

Up == pc["server"] # "off" /\ job["server"].kind # "bootstrap"

Live(t) == sessions[t] # NoSession
Expired(t) == left[t] < 0
Resolves(t) == Live(t) /\ ~Expired(t)

\* throttled.
Throttled(a) == failures[a] >= MaxFailures /\ age[a] < FailureWindow

-----------------------------------------------------------------------------
(* signIn. *)

Goto(r, from, to) == rpc[r] = from /\ rpc' = [rpc EXCEPT ![r] = to]

Done(r) == asked' = [asked EXCEPT ![r] = NoRequest]

\* A blocked address is turned away, which changes nothing.
Admit(r, a, n, word) ==
    /\ Up /\ ~Throttled(a)
    /\ Goto(r, "idle", "check")
    /\ asked' = [asked EXCEPT ![r] = [from |-> a, name |-> n, password |-> word]]
    /\ UNCHANGED tableVars

\* authenticate: the copy this process has of the account, off the table's lock.
Matches(r) == data["server"].users[asked[r].name] = asked[r].password

\* recordFailure begins a count when there is none, or when its window is over.
FirstOfWindow(a) == failures[a] = 0 \/ age[a] > FailureWindow

\* Mutant: every failure starts the window again.
AgeSliding(a) == 0

AgeOf(a) == IF FirstOfWindow(a) THEN 0 ELSE age[a]

\* Counts above the limit are the same to throttled.
Fail(r) ==
    LET a == asked[r].from
        n == IF FirstOfWindow(a) THEN 1 ELSE failures[a] + 1
    IN  /\ Goto(r, "check", "idle")
        /\ ~Matches(r)
        /\ failures' = [failures EXCEPT ![a] = IF n > MaxFailures THEN MaxFailures ELSE n]
        /\ age' = [age EXCEPT ![a] = AgeOf(a)]
        /\ Done(r)
        /\ UNCHANGED <<sessions, left>>

\* issue, then clearFailures.
Issue(r, t) ==
    /\ Goto(r, "check", "issued")
    /\ Matches(r)
    /\ ~Live(t)
    /\ sessions' = [sessions EXCEPT ![t] =
                      [user |-> asked[r].name, password |-> asked[r].password]]
    /\ left' = [left EXCEPT ![t] = SessionTTL]
    /\ asked' = [asked EXCEPT ![r] = [NoRequest EXCEPT !.from = asked[r].from]]
    /\ UNCHANGED <<failures, age>>

\* There was no randomness for a token.
IssueFails(r) ==
    /\ Goto(r, "check", "idle")
    /\ Matches(r)
    /\ Done(r)
    /\ UNCHANGED tableVars

Clear(r) ==
    /\ Goto(r, "issued", "idle")
    /\ failures' = [failures EXCEPT ![asked[r].from] = 0]
    /\ age' = [age EXCEPT ![asked[r].from] = 0]
    /\ Done(r)
    /\ UNCHANGED <<sessions, left>>

-----------------------------------------------------------------------------
(* The table. *)

\* delete, of a set of sign-ins.
Drop(S) ==
    /\ sessions' = [t \in Tokens |-> IF t \in S THEN NoSession ELSE sessions[t]]
    /\ left' = [t \in Tokens |-> IF t \in S THEN 0 ELSE left[t]]

\* resolve finds a sign-in that is over; one that is not it leaves alone.
ResolveExpired(t) ==
    /\ Live(t) /\ Expired(t)
    /\ Drop({t})
    /\ UNCHANGED <<failures, age, requestVars>>

SignOut(t) ==
    /\ Live(t)
    /\ Drop({t})
    /\ UNCHANGED <<failures, age, requestVars>>

\* Mutant: the sweep leaves sign-ins to resolve, which only drops those still used.
OverNever(late) == {}

\* What the sweep of a tick that is late by that much finds to be over.
Over(late) == {t \in Tokens : Live(t) /\ left[t] + late < 0}

\* Mutant: a count is stale as soon as the sweep is later than it.
StaleAtOnce(late) == {a \in Addresses : failures[a] > 0 /\ age[a] > late}

Stale(late) == {a \in Addresses : failures[a] > 0 /\ age[a] - late > FailureWindow}

Sweep ==
    \E late \in 0 .. MaxLate :
        /\ Drop(Over(late))
        /\ failures' = [a \in Addresses |-> IF a \in Stale(late) THEN 0 ELSE failures[a]]
        /\ age' = [a \in Addresses |-> IF a \in Stale(late) THEN 0 ELSE age[a]]
        /\ UNCHANGED requestVars

\* Time passes for all alike; beyond what the sweep tells apart it need not count.
Pass ==
    /\ left' = [t \in Tokens |-> IF Live(t) /\ left[t] + MaxLate >= 0 THEN left[t] - 1
                                                                    ELSE left[t]]
    /\ age' = [a \in Addresses |->
                 IF failures[a] > 0 /\ age[a] - MaxLate <= FailureWindow THEN age[a] + 1
                                                                      ELSE age[a]]
    /\ UNCHANGED <<sessions, failures, requestVars>>

\* A new process has an empty table: a restart signs everyone out.
Forgets ==
    /\ sessions' = [t \in Tokens |-> NoSession]
    /\ left' = [t \in Tokens |-> 0]
    /\ failures' = [a \in Addresses |-> 0]
    /\ age' = [a \in Addresses |-> 0]
    /\ rpc' = [r \in Requests |-> "idle"]
    /\ asked' = [r \in Requests |-> NoRequest]

-----------------------------------------------------------------------------
SignIn(r) == \/ \E a \in Addresses, n \in Names, word \in Passwords : Admit(r, a, n, word)
             \/ Fail(r) \/ IssueFails(r) \/ Clear(r)
             \/ \E t \in Tokens : Issue(r, t)

AuthNext == \/ \E r \in Requests : SignIn(r)
            \/ \E t \in Tokens : ResolveExpired(t) \/ SignOut(t)
            \/ Sweep \/ Pass

ServerEnds == pc["server"] # "off" /\ pc'["server"] = "off"

Next == \/ AuthNext /\ UNCHANGED accountVars
        \/ AccountsNext /\ IF ServerEnds THEN Forgets ELSE UNCHANGED authVars

Spec == Init /\ [][Next]_vars

\* Time passes, and the sweep's ticker fires.
FairSpec == /\ Spec
            /\ WF_vars(Pass /\ UNCHANGED accountVars)
            /\ WF_vars(Sweep /\ UNCHANGED accountVars)

-----------------------------------------------------------------------------
(* Properties. *)

\* Every variable has its type; as long as one process works on it at a time, the
\* state file is whole.
TypeOK ==
    /\ pc \in [Procs -> {"off", "prompt", "serve", "write", "writing", "rename"}]
    /\ job \in [Procs -> Jobs]
    /\ data \in [Procs -> Snapshots]
    /\ file \in Snapshots
    /\ tmp \in Snapshots \cup {Torn, None}
    /\ fd \in [Procs -> {"none", "tmp"}]
    /\ sessions \in [Tokens -> [user : Names \cup {None}, password : Passwords \cup {None}]]
    /\ left \in [Tokens -> -1 - MaxLate .. SessionTTL]
    /\ failures \in [Addresses -> 0 .. MaxFailures]
    /\ age \in [Addresses -> 0 .. FailureWindow + MaxLate + 1]
    /\ rpc \in [Requests -> {"idle", "check", "issued"}]
    /\ asked \in [Requests -> [from : Addresses \cup {None}, name : Names \cup {None},
                              password : Passwords \cup {None}]]

\* However late it runs, the sweep takes no sign-in that would still count, and no
\* count that still blocks its address.
SweepSparesCurrent ==
    [][Sweep => /\ \A t \in Tokens : Resolves(t) => Live(t)'
                /\ \A a \in Addresses : Throttled(a) => Throttled(a)']_vars

\* Failures that were being checked when the block began do not prolong it.
BlockNeverExtended ==
    [][\A a \in Addresses : Throttled(a) /\ Throttled(a)' => age'[a] >= age[a]]_vars

\* Every sign-in is discarded in the end, whether or not anyone uses it again.
SignInsDiscarded == \A t \in Tokens : Live(t) ~> ~Live(t)
=============================================================================
