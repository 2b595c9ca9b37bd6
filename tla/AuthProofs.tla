------------------------------ MODULE AuthProofs ------------------------------
(***************************************************************************)
(* The accounts and the sign-ins, for every set of names, passwords,       *)
(* tokens, addresses and requests and every limit.                         *)
(*                                                                         *)
(* However many processes work on the state file, sign-ins are only made   *)
(* while a server is up, for the accounts it has loaded, and the table and *)
(* the counts keep their limits; and the file is whole while no two of     *)
(* them write.                                                             *)
(***************************************************************************)
EXTENDS Auth, TLAPS

Saves == {"write", "writing", "rename"}

\* What holds whoever else is running.
Typed ==
    /\ pc \in [Procs -> {"off", "prompt", "serve"} \cup Saves]
    /\ job \in [Procs -> Jobs]
    /\ data \in [Procs -> Snapshots]
    /\ file \in Snapshots \cup {Torn}
    /\ tmp \in Snapshots \cup {Torn, None}

\* What a process was started for, by its control point.
Employed ==
    \A p \in Procs :
        /\ job[p].kind \in (IF p = "server" THEN {"none", "index", "bootstrap"}
                                            ELSE {"none", "add", "set"})
        /\ pc[p] \in {"off", "serve"} => job[p] = NoJob
        /\ pc[p] = "serve" => p = "server"
        /\ pc[p] = "prompt" => p = "command"
        /\ pc[p] \in Saves \cup {"prompt"} => job[p].kind # "none"

Base == Typed /\ Employed

\* A save writes the temporary file, and renames what it wrote.
Saved ==
    \A p \in Procs :
        /\ pc[p] = "writing" => tmp = Torn
        /\ pc[p] = "rename" => tmp = data[p]
        /\ fd[p] = IF pc[p] \in {"writing", "rename"} THEN "tmp" ELSE "none"

-----------------------------------------------------------------------------
LEMMA JobFacts ==
    /\ NoJob \in Jobs
    /\ NoJob.kind = "none"
    /\ [kind |-> "index"] \in Jobs
    /\ \A j \in Jobs : j.kind \notin {"none", "index"} =>
          j.name \in Names /\ j.password \in Passwords /\ j.kind \in {"add", "set", "bootstrap"}
    /\ \A j \in Jobs : j.kind = "none" => j = NoJob
BY DEF Jobs, NoJob

LEMMA SnapshotFacts ==
    /\ Blank \in Snapshots
    /\ \A s \in Snapshots :
          /\ s # Torn /\ s # None
          /\ s.users \in [Names -> Passwords \cup {None}]
          /\ \A n \in Names, w \in Passwords :
                /\ [s EXCEPT !.users[n] = w] \in Snapshots
                /\ [s EXCEPT !.users[n] = w].users = [s.users EXCEPT ![n] = w]
          /\ \A b \in BOOLEAN : /\ [s EXCEPT !.rows = b] \in Snapshots
                                /\ [s EXCEPT !.rows = b].users = s.users
          /\ s.rows \in BOOLEAN
BY FilesAssumption DEF Snapshots, Blank

LEMMA BaseStart == AccountsInit => Base
BY JobFacts, SnapshotFacts
   DEF AccountsInit, Base, Typed, Employed, Saves, Procs, Blank, NoJob

LEMMA BaseStep == Base /\ AccountsNext => Base'
<1> SUFFICES ASSUME Base, AccountsNext PROVE Base'
  OBVIOUS
<1> USE JobFacts, SnapshotFacts DEF Procs, Saves, Base, Typed, Employed
<1>1. ASSUME StartServer PROVE Base'
  <2>0. file \in Snapshots
    BY <1>1 DEF StartServer, Opens
  <2>1. CASE \E n \in Names : file.users[n] # None
    BY <1>1, <2>0, <2>1 DEF StartServer, Opens
  <2>2. CASE \A n \in Names : file.users[n] = None
    <3>1. PICK made \in Passwords :
            job' = [job EXCEPT !["server"] =
                      [kind |-> "bootstrap", name |-> Admin, password |-> made]]
      BY <1>1, <2>2 DEF StartServer
    <3>2. job'["server"] = [kind |-> "bootstrap", name |-> Admin, password |-> made]
      BY <3>1
    <3>3. [kind |-> "bootstrap", name |-> Admin, password |-> made] \in Jobs
      BY AccountsAssumption DEF Jobs
    <3>4. data' = [data EXCEPT !["server"] = [file EXCEPT !.users[Admin] = made]]
      BY <1>1, <2>2, <3>2 DEF StartServer
    <3>5. [file EXCEPT !.users[Admin] = made] \in Snapshots
      BY <2>0, AccountsAssumption
    <3>6. pc' = [pc EXCEPT !["server"] = "write"] /\ UNCHANGED <<file, tmp>>
      BY <1>1, <2>2 DEF StartServer
    <3> QED BY <3>1, <3>2, <3>3, <3>4, <3>5, <3>6
  <2> QED BY <2>1, <2>2
<1>2. ASSUME NEW j \in Jobs, StartCommand(j) PROVE Base'
  BY <1>2 DEF StartCommand, Opens
<1>3. ASSUME Answer PROVE Base'
  BY <1>3 DEF Answer, Accepted, Known, Changed
<1>4. ASSUME ChangeIndex PROVE Base'
  BY <1>4 DEF ChangeIndex
<1>5. ASSUME NEW p \in Procs, End(p) PROVE Base'
  BY <1>5 DEF End, Ends, Abandoned
<1>6. ASSUME NEW p \in Procs, WriteStart(p) PROVE Base'
  BY <1>6 DEF WriteStart
<1>7. ASSUME NEW p \in Procs, WriteEnd(p) PROVE Base'
  BY <1>7 DEF WriteEnd, Written
<1>8. ASSUME NEW p \in Procs, Rename(p) PROVE Base'
  BY <1>8 DEF Rename, Returns
<1>9. ASSUME NEW p \in Procs, SaveFails(p) PROVE Base'
  BY <1>9 DEF SaveFails, Returns, Ends, Abandoned
<1> QED BY <1>1, <1>2, <1>3, <1>4, <1>5, <1>6, <1>7, <1>8, <1>9 DEF AccountsNext

\* A server that is up stays so until it ends, with the accounts it has loaded.
LEMMA UpStays ==
    ASSUME Base, AccountsNext, Up, ~ServerEnds
    PROVE  Up' /\ data'["server"].users = data["server"].users
<1> USE JobFacts, SnapshotFacts DEF Procs, Saves, Base, Typed, Employed, Up, ServerEnds
<1>1. ~StartServer
  BY DEF StartServer, Opens
<1>2. ASSUME NEW j \in Jobs, StartCommand(j)
      PROVE  UNCHANGED <<pc["server"], job["server"], data["server"]>>
  BY <1>2 DEF StartCommand
<1>3. ASSUME Answer PROVE UNCHANGED <<pc["server"], job["server"], data["server"]>>
  BY <1>3 DEF Answer, Changed
<1>4. ASSUME ChangeIndex PROVE Up' /\ data'["server"].users = data["server"].users
  BY <1>4 DEF ChangeIndex
<1>5. ASSUME NEW p \in Procs, End(p)
      PROVE  UNCHANGED <<pc["server"], job["server"], data["server"]>>
  BY <1>5 DEF End, Ends
<1>6. ASSUME NEW p \in Procs, WriteStart(p) \/ WriteEnd(p)
      PROVE  Up' /\ data'["server"] = data["server"]
  BY <1>6 DEF WriteStart, WriteEnd
<1>7. ASSUME NEW p \in Procs, Rename(p) PROVE Up' /\ data'["server"] = data["server"]
  BY <1>7 DEF Rename, Returns
<1>8. ASSUME NEW p \in Procs, SaveFails(p) PROVE Up' /\ data'["server"] = data["server"]
  BY <1>8 DEF SaveFails, Returns, Ends
<1> QED BY <1>1, <1>2, <1>3, <1>4, <1>5, <1>6, <1>7, <1>8 DEF AccountsNext

-----------------------------------------------------------------------------
(* Signing in. *)

AuthTypes ==
    /\ sessions \in [Tokens -> [user : Names \cup {None}, password : Passwords \cup {None}]]
    /\ left \in [Tokens -> -1 - MaxLate .. SessionTTL]
    /\ failures \in [Addresses -> 0 .. MaxFailures]
    /\ age \in [Addresses -> 0 .. FailureWindow + MaxLate + 1]
    /\ rpc \in [Requests -> {"idle", "check", "issued"}]
    /\ asked \in [Requests -> [from : Addresses \cup {None}, name : Names \cup {None},
                               password : Passwords \cup {None}]]

\* Nobody is signed in, and no request is served, but by a server that is up; a
\* request has an address and an account in hand until it is answered.
Served ==
    /\ \A t \in Tokens : Live(t) => Up
    /\ \A r \in Requests :
          /\ rpc[r] # "idle" => Up /\ asked[r].from \in Addresses
          /\ rpc[r] = "check" => asked[r].name \in Names /\ asked[r].password \in Passwords

\* Whoever is signed in was given that for the password the server has loaded.
SignedInAsLoaded ==
    \A t \in Tokens :
        Live(t) => data["server"].users[sessions[t].user] = sessions[t].password

Inv == Base /\ AuthTypes /\ Served /\ SignedInAsLoaded

LEMMA Limits ==
    /\ SessionTTL \in Nat /\ SessionTTL > 0
    /\ FailureWindow \in Nat /\ FailureWindow > 0
    /\ MaxFailures \in Nat /\ MaxFailures > 0
    /\ MaxLate \in Nat
    /\ None \notin Addresses
BY AuthAssumption

LEMMA InvStart == Init => Inv
BY BaseStart, Limits
   DEF Init, AuthInit, Inv, AuthTypes, Served, SignedInAsLoaded, Live, NoSession, NoRequest

\* Steps of the server's tables, which leave the accounts alone.
LEMMA AuthTypesStep == AuthTypes /\ Served /\ AuthNext => AuthTypes'
<1> SUFFICES ASSUME AuthTypes, Served, AuthNext PROVE AuthTypes'
  OBVIOUS
<1> USE Limits DEF AuthTypes
<1>1. ASSUME NEW r \in Requests, NEW a \in Addresses, NEW n \in Names, NEW word \in Passwords,
             Admit(r, a, n, word)
      PROVE  AuthTypes'
  BY <1>1 DEF Admit, Goto, tableVars
<1>2. ASSUME NEW r \in Requests, Fail(r) PROVE AuthTypes'
  <2>1. asked[r].from \in Addresses
    BY <1>2 DEF Fail, Goto, Served
  <2>2. AgeOf(asked[r].from) \in 0 .. FailureWindow + MaxLate + 1
    BY <2>1 DEF AgeOf
  <2> QED BY <1>2, <2>1, <2>2 DEF Fail, Goto, Done, NoRequest
<1>3. ASSUME NEW r \in Requests, NEW t \in Tokens, Issue(r, t) PROVE AuthTypes'
  BY <1>3 DEF Issue, Goto, NoRequest
<1>4. ASSUME NEW r \in Requests, IssueFails(r) PROVE AuthTypes'
  BY <1>4 DEF IssueFails, Goto, Done, NoRequest, tableVars
<1>5. ASSUME NEW r \in Requests, Clear(r) PROVE AuthTypes'
  <2>1. asked[r].from \in Addresses
    BY <1>5 DEF Clear, Goto, Served
  <2> QED BY <1>5, <2>1 DEF Clear, Goto, Done, NoRequest
<1>6. ASSUME NEW t \in Tokens, ResolveExpired(t) \/ SignOut(t) PROVE AuthTypes'
  BY <1>6 DEF ResolveExpired, SignOut, Drop, NoSession, requestVars
<1>7. ASSUME Sweep PROVE AuthTypes'
  BY <1>7 DEF Sweep, Drop, NoSession, requestVars
<1>8. ASSUME Pass PROVE AuthTypes'
  <2>1. \A t \in Tokens : left'[t] \in -1 - MaxLate .. SessionTTL
    BY <1>8 DEF Pass
  <2>2. \A a \in Addresses : age'[a] \in 0 .. FailureWindow + MaxLate + 1
    BY <1>8 DEF Pass
  <2> QED BY <1>8, <2>1, <2>2 DEF Pass, requestVars
<1> QED BY <1>1, <1>2, <1>3, <1>4, <1>5, <1>6, <1>7, <1>8 DEF AuthNext, SignIn

LEMMA ServedStep ==
    ASSUME AuthTypes, Served, SignedInAsLoaded, AuthNext, UNCHANGED accountVars
    PROVE  Served' /\ SignedInAsLoaded'
<1> USE DEF AuthTypes, Served, SignedInAsLoaded, Live, Up, accountVars
<1>1. ASSUME NEW r \in Requests, NEW a \in Addresses, NEW n \in Names, NEW word \in Passwords,
             Admit(r, a, n, word)
      PROVE  Served' /\ SignedInAsLoaded'
  BY <1>1 DEF Admit, Goto, tableVars
<1>2. ASSUME NEW r \in Requests, Fail(r) \/ IssueFails(r) \/ Clear(r)
      PROVE  Served' /\ SignedInAsLoaded'
  <2>1. /\ rpc' = [rpc EXCEPT ![r] = "idle"]
        /\ asked' = [asked EXCEPT ![r] = NoRequest]
        /\ sessions' = sessions
    BY <1>2 DEF Fail, IssueFails, Clear, Goto, Done, tableVars
  <2> QED BY <2>1
<1>3. ASSUME NEW r \in Requests, NEW t \in Tokens, Issue(r, t)
      PROVE  Served' /\ SignedInAsLoaded'
  <2>1. Up /\ asked[r].name \in Names /\ asked[r].password \in Passwords
    BY <1>3 DEF Issue, Goto
  <2>3. /\ sessions' = [sessions EXCEPT ![t] = [user |-> asked[r].name,
                                                password |-> asked[r].password]]
        /\ data["server"].users[asked[r].name] = asked[r].password
    BY <1>3 DEF Issue, Matches
  <2>4. SignedInAsLoaded'
    BY <2>3
  <2>5. /\ rpc[r] = "check" /\ rpc' = [rpc EXCEPT ![r] = "issued"]
        /\ asked' = [asked EXCEPT ![r] = [NoRequest EXCEPT !.from = asked[r].from]]
    BY <1>3 DEF Issue, Goto
  <2>6. Served'
    BY <2>1, <2>3, <2>5 DEF NoRequest
  <2> QED BY <2>4, <2>6
<1>4. ASSUME NEW S \in SUBSET Tokens, Drop(S), UNCHANGED requestVars
      PROVE  Served' /\ SignedInAsLoaded'
  BY <1>4 DEF Drop, requestVars
<1>5. ASSUME NEW t \in Tokens, ResolveExpired(t) \/ SignOut(t) PROVE Served' /\ SignedInAsLoaded'
  BY <1>4, <1>5 DEF ResolveExpired, SignOut
<1>6. ASSUME Sweep PROVE Served' /\ SignedInAsLoaded'
  <2>1. \A late : Over(late) \in SUBSET Tokens
    BY DEF Over
  <2> QED BY <1>4, <1>6, <2>1 DEF Sweep
<1>7. ASSUME Pass PROVE Served' /\ SignedInAsLoaded'
  BY <1>7 DEF Pass, requestVars
<1> QED BY <1>1, <1>2, <1>3, <1>5, <1>6, <1>7 DEF AuthNext, SignIn

LEMMA InvStep == Inv /\ [Next]_vars => Inv'
<1> SUFFICES ASSUME Inv, [Next]_vars PROVE Inv'
  OBVIOUS
<1> USE DEF Inv
<1>1. ASSUME AuthNext, UNCHANGED accountVars PROVE Inv'
  <2>1. Base'
    BY <1>1 DEF accountVars, Base, Typed, Employed
  <2> QED BY <1>1, <2>1, AuthTypesStep, ServedStep
<1>2. ASSUME AccountsNext, IF ServerEnds THEN Forgets ELSE UNCHANGED authVars PROVE Inv'
  <2>1. Base'
    BY <1>2, BaseStep
  <2>2. CASE ServerEnds
    <3>1. Forgets
      BY <1>2, <2>2
    <3>2. AuthTypes'
      BY <3>1, Limits DEF Forgets, AuthTypes, NoSession, NoRequest
    <3>3. Served' /\ SignedInAsLoaded'
      BY <3>1 DEF Forgets, Served, SignedInAsLoaded, Live
    <3> QED BY <2>1, <3>2, <3>3
  <2>3. CASE ~ServerEnds
    <3>1. UNCHANGED authVars
      BY <1>2, <2>3
    <3>2. AuthTypes'
      BY <3>1 DEF AuthTypes, authVars, tableVars, requestVars
    <3>3. Up => Up' /\ data'["server"].users = data["server"].users
      BY <1>2, <2>3, UpStays
    <3>4. Served' /\ SignedInAsLoaded'
      BY <3>1, <3>3 DEF Served, SignedInAsLoaded, Live, authVars, tableVars, requestVars
    <3> QED BY <2>1, <3>2, <3>4
  <2> QED BY <2>2, <2>3
<1>3. CASE UNCHANGED vars
  BY <1>3 DEF Base, Typed, Employed, AuthTypes, Served, SignedInAsLoaded, Live, Up,
              vars, accountVars, authVars, tableVars, requestVars
<1> QED BY <1>1, <1>2, <1>3 DEF Next

LEMMA Reached == Spec => []Inv
BY InvStart, InvStep, PTL DEF Spec

-----------------------------------------------------------------------------
(* Whoever else works on the state file. *)

\* A request signs in whoever gives the password that the server has loaded, and that
\* stays so: a password changed by a command beside the server counts from the server's
\* next start, which signs everyone out.
THEOREM SignedInForLoaded == Spec => []SignedInAsLoaded
<1>1. Inv => SignedInAsLoaded
  BY DEF Inv
<1> QED BY <1>1, Reached, PTL

\* The sweep takes no sign-in and no block that still counts, however late its tick.
THEOREM SweepTakesOld == Spec => SweepSparesCurrent
<1>1. Inv /\ [Next]_vars =>
        [Sweep => /\ \A t \in Tokens : Resolves(t) => Live(t)'
                  /\ \A a \in Addresses : Throttled(a) => Throttled(a)']_vars
  <2> SUFFICES ASSUME Inv, Sweep
               PROVE  /\ \A t \in Tokens : Resolves(t) => Live(t)'
                      /\ \A a \in Addresses : Throttled(a) => Throttled(a)'
    OBVIOUS
  <2>1. PICK late \in 0 .. MaxLate :
          /\ Drop(Over(late))
          /\ failures' = [a \in Addresses |-> IF a \in Stale(late) THEN 0 ELSE failures[a]]
          /\ age' = [a \in Addresses |-> IF a \in Stale(late) THEN 0 ELSE age[a]]
    BY DEF Sweep
  <2>2. ASSUME NEW t \in Tokens, Resolves(t) PROVE Live(t)'
    <3>1. left[t] \in Int /\ ~(left[t] < 0)
      BY <2>2, Limits DEF Inv, AuthTypes, Resolves, Expired
    <3>2. t \notin Over(late)
      BY <3>1, Limits DEF Over
    <3> QED BY <2>1, <2>2, <3>2 DEF Drop, Resolves, Live
  <2>3. ASSUME NEW a \in Addresses, Throttled(a) PROVE Throttled(a)'
    <3>1. a \notin Stale(late)
      BY <2>3, Limits DEF Stale, Throttled, Inv, AuthTypes
    <3> QED BY <2>1, <2>3, <3>1 DEF Throttled
  <2> QED BY <2>2, <2>3
<1> QED BY <1>1, Reached, PTL DEF Spec, SweepSparesCurrent

\* A block lasts as long as its first failure says, whatever is recorded meanwhile.
THEOREM BlocksEnd == Spec => BlockNeverExtended
<1>1. ASSUME Inv, AuthNext, NEW a \in Addresses, Throttled(a)
      PROVE  age'[a] >= age[a] \/ ~Throttled(a)'
  <2> USE Limits DEF Inv, AuthTypes
  <2>1. /\ age[a] \in Nat /\ age[a] < FailureWindow
        /\ failures[a] \in Nat /\ failures[a] > 0
    BY <1>1 DEF Throttled
  <2>2. ASSUME NEW r \in Requests, Fail(r) PROVE age'[a] = age[a]
    BY <2>1, <2>2 DEF Fail, AgeOf, FirstOfWindow
  <2>3. ASSUME NEW r \in Requests, Clear(r) PROVE age'[a] = age[a] \/ failures'[a] = 0
    <3>1. asked[r].from \in Addresses
      BY <1>1, <2>3 DEF Clear, Goto, Served
    <3> QED BY <1>1, <2>3, <3>1 DEF Clear
  <2>4. ASSUME Sweep PROVE age'[a] = age[a] \/ failures'[a] = 0
    BY <1>1, <2>4 DEF Sweep
  <2>5. ASSUME Pass PROVE age'[a] >= age[a]
    BY <2>1, <2>5 DEF Pass
  <2>6. ASSUME \/ \E r \in Requests :
                \/ \E b \in Addresses, n \in Names, word \in Passwords : Admit(r, b, n, word)
                \/ IssueFails(r) \/ \E t \in Tokens : Issue(r, t)
             \/ \E t \in Tokens : ResolveExpired(t) \/ SignOut(t)
        PROVE  age'[a] = age[a]
    BY ONLY <2>6 DEF Admit, Issue, IssueFails, ResolveExpired, SignOut, tableVars
  <2>7. failures'[a] = 0 => ~Throttled(a)'
    BY DEF Throttled
  <2>8. age'[a] = age[a] => age'[a] >= age[a]
    BY <2>1
  <2> QED BY ONLY <1>1, <2>2, <2>3, <2>4, <2>5, <2>6, <2>7, <2>8 DEF AuthNext, SignIn
<1>2. ASSUME Inv, AccountsNext, IF ServerEnds THEN Forgets ELSE UNCHANGED authVars,
             NEW a \in Addresses, Throttled(a)
      PROVE  age'[a] >= age[a] \/ ~Throttled(a)'
  <2>1. age[a] \in Nat
    BY <1>2, Limits DEF Inv, AuthTypes
  <2>2. failures'[a] = 0 \/ age'[a] = age[a]
    BY <1>2 DEF Forgets, authVars, tableVars
  <2>3. failures'[a] = 0 => ~Throttled(a)'
    BY Limits DEF Throttled
  <2> QED BY <2>1, <2>2, <2>3
<1>3. Inv /\ [Next]_vars =>
        [\A a \in Addresses : Throttled(a) /\ Throttled(a)' => age'[a] >= age[a]]_vars
  BY <1>1, <1>2 DEF Next
<1> QED BY <1>3, Reached, PTL DEF Spec, BlockNeverExtended

-----------------------------------------------------------------------------
(* The state file. *)

\* No two processes are between emptying the temporary file and renaming it.
Saving(p) == pc[p] \in {"writing", "rename"}
Apart == \A p, q \in Procs : Saving(p) /\ Saving(q) => p = q

WholeInv == Base /\ fd \in [Procs -> {"none", "tmp"}] /\ Saved /\ file # Torn

LEMMA WholeStep == WholeInv /\ Apart /\ Apart' /\ AccountsNext => WholeInv'
<1> SUFFICES ASSUME WholeInv, Apart, Apart', AccountsNext PROVE WholeInv'
  OBVIOUS
<1>0. Base'
  BY BaseStep DEF WholeInv
<1> USE <1>0, SnapshotFacts DEF WholeInv, Base, Typed, Saved, Saves, Procs
<1>1. ASSUME StartServer PROVE WholeInv'
  <2>1. /\ pc["server"] = "off" /\ pc' = [pc EXCEPT !["server"] = pc'["server"]]
        /\ pc'["server"] \notin {"writing", "rename"}
        /\ data' = [data EXCEPT !["server"] = data'["server"]]
        /\ UNCHANGED <<file, tmp, fd>>
    BY <1>1 DEF StartServer, Opens
  <2> QED BY <2>1
<1>2. ASSUME NEW j \in Jobs, StartCommand(j) PROVE WholeInv'
  BY <1>2 DEF StartCommand, Opens
<1>3. ASSUME Answer PROVE WholeInv'
  BY <1>3 DEF Answer, Changed
<1>4. ASSUME ChangeIndex PROVE WholeInv'
  BY <1>4 DEF ChangeIndex
<1>5. ASSUME NEW p \in Procs, End(p) PROVE WholeInv'
  BY <1>5 DEF End, Ends, Abandoned
<1>6. ASSUME NEW p \in Procs, WriteStart(p) PROVE WholeInv'
  BY <1>6 DEF WriteStart, Apart, Saving
<1>7. ASSUME NEW p \in Procs, WriteEnd(p) PROVE WholeInv'
  BY <1>7 DEF WriteEnd, Written, Apart, Saving
<1>8. ASSUME NEW p \in Procs, Rename(p) PROVE WholeInv'
  BY <1>8 DEF Rename, Returns, Apart, Saving
<1>9. ASSUME NEW p \in Procs, SaveFails(p) PROVE WholeInv'
  BY <1>9 DEF SaveFails, Returns, Ends, Abandoned
<1> QED BY <1>1, <1>2, <1>3, <1>4, <1>5, <1>6, <1>7, <1>8, <1>9 DEF AccountsNext

\* The run accounts_beside refutes "a crash mid-write cannot leave a half-written file
\* where the user list used to be" (store.go, save) by two saves that overlap.  There is
\* no other way: however many processes run, however they fail and whenever they are
\* killed, the state file is whole as long as no two are writing at once.
THEOREM TornOnlyByOverlap == AccountsSpec /\ []Apart => [](file # Torn)
<1>1. AccountsInit => WholeInv
  BY BaseStart, SnapshotFacts DEF AccountsInit, WholeInv, Saved
<1>2. WholeInv /\ UNCHANGED accountVars => WholeInv'
  BY DEF WholeInv, Base, Typed, Employed, Saved, accountVars
<1>3. WholeInv /\ Apart /\ Apart' /\ [AccountsNext]_accountVars => WholeInv'
  BY <1>2, WholeStep
<1>4. WholeInv => file # Torn
  BY DEF WholeInv
<1> QED BY <1>1, <1>3, <1>4, PTL DEF AccountsSpec

Alone == \A p, q \in Procs : pc[p] # "off" /\ pc[q] # "off" => p = q

LEMMA AloneStep ==
    ASSUME ~Beside, Base, Alone, AccountsNext
    PROVE  Alone'
<1> USE DEF Procs, Base, Typed, Saves, Alone
<1>1. CASE StartServer
  BY <1>1 DEF StartServer, Opens
<1>2. ASSUME NEW j \in Jobs, StartCommand(j) PROVE Alone'
  BY <1>2 DEF StartCommand, Opens
<1>3. CASE Answer \/ ChangeIndex
  BY <1>3 DEF Answer, ChangeIndex
<1>4. ASSUME NEW p \in Procs,
             End(p) \/ WriteStart(p) \/ WriteEnd(p) \/ Rename(p) \/ SaveFails(p)
      PROVE  Alone'
  BY <1>4 DEF End, Ends, WriteStart, WriteEnd, Rename, SaveFails, Returns
<1> QED BY <1>1, <1>2, <1>3, <1>4 DEF AccountsNext

\* Every variable has its type: where no command runs beside the server, no crash and
\* no failed save leaves a torn state file.
THEOREM AuthTyping == ASSUME ~Beside PROVE Spec => []TypeOK
<1>1. Init => Alone /\ WholeInv
  BY BaseStart, SnapshotFacts DEF Init, AccountsInit, Alone, WholeInv, Saved
<1>2. Inv /\ Alone /\ WholeInv /\ [Next]_vars => Alone' /\ WholeInv'
  <2> SUFFICES ASSUME Inv, Alone, WholeInv, [Next]_vars PROVE Alone' /\ WholeInv'
    OBVIOUS
  <2>1. CASE AccountsNext
    <3>1. Alone'
      BY <2>1, AloneStep DEF Inv
    <3>2. Apart /\ Apart'
      BY <3>1 DEF Alone, Apart, Saving
    <3> QED BY <2>1, <3>1, <3>2, WholeStep
  <2>2. CASE UNCHANGED accountVars
    BY <2>2 DEF Alone, WholeInv, Base, Typed, Employed, Saved, accountVars
  <2> QED BY <2>1, <2>2 DEF Next, vars
<1>3. Inv /\ WholeInv => TypeOK
  BY DEF Inv, WholeInv, Base, Typed, AuthTypes, TypeOK, Saves
<1> QED BY <1>1, <1>2, <1>3, Reached, PTL DEF Spec
=============================================================================
