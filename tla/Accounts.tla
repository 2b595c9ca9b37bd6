------------------------------ MODULE Accounts ------------------------------
(***************************************************************************)
(* The accounts in the state file (src/store.go), and the processes that   *)
(* change them (src/main.go): the server, which makes a first account when *)
(* there is none, and the account commands, which add one or change its    *)
(* password.  Each process reads the file when it starts, works on its own *)
(* copy, and saves the whole of it through one temporary file.             *)
(*                                                                         *)
(* A file is known by its place: a writer keeps the file it opened while   *)
(* another process renames it.                                             *)
(***************************************************************************)
EXTENDS Naturals, FiniteSets

CONSTANTS
    Names,      \* account names
    Admin,      \* the name bootstrap gives the first account
    Passwords,  \* passwords long enough to be accepted
    None,       \* no account, no password, no file
    Torn,       \* the content of a file that is being written
    Beside      \* whether a command may run beside the server

ASSUME AccountsAssumption == /\ Admin \in Names
                             /\ None \notin Passwords \cup Names
                             /\ Beside \in BOOLEAN

Procs == {"server", "command"}

\* store.data: a password per account, and, of the chat list, one bit that the
\* server's requests flip.
Snapshots == [users : [Names -> Passwords \cup {None}], rows : BOOLEAN]
Blank == [users |-> [n \in Names |-> None], rows |-> FALSE]

ASSUME FilesAssumption == {Torn, None} \cap Snapshots = {}

Jobs == [kind : {"add", "set", "bootstrap"}, name : Names, password : Passwords]
        \cup [kind : {"none", "index"}]
NoJob == [kind |-> "none"]

VARIABLES
    pc,         \* a process's control point
    job,        \* what it was started for, or what it is saving
    data,       \* its copy: store.data
    file,       \* what the state file holds; an absent one reads as a blank
    tmp,        \* what the temporary file holds, None when there is none
    fd          \* where the file is now that a process opened for writing

accountVars == <<pc, job, data, file, tmp, fd>>

AccountsInit ==
    /\ pc = [p \in Procs |-> "off"]
    /\ job = [p \in Procs |-> NoJob]
    /\ data = [p \in Procs |-> Blank]
    /\ file = Blank
    /\ tmp = None
    /\ fd = [p \in Procs |-> "none"]

-----------------------------------------------------------------------------
(* A process starts, works and ends. *)

Known(p, n) == data[p].users[n] # None

\* An account's password in a process's copy.
Changed(p, j) == [data EXCEPT ![p].users[j.name] = j.password]

\* main: openStore gives up on a file that it cannot decode.
Opens(p) ==
    /\ pc[p] = "off"
    /\ Beside \/ \A q \in Procs : pc[q] = "off"
    /\ file # Torn

\* bootstrap: with no accounts the server adds the first, of a password it makes.
StartServer ==
    /\ Opens("server")
    /\ \/ /\ \E n \in Names : file.users[n] # None
          /\ data' = [data EXCEPT !["server"] = file]
          /\ pc' = [pc EXCEPT !["server"] = "serve"]
          /\ UNCHANGED job
       \/ /\ \A n \in Names : file.users[n] = None
          /\ \E made \in Passwords :
                job' = [job EXCEPT !["server"] =
                          [kind |-> "bootstrap", name |-> Admin, password |-> made]]
          /\ data' = [data EXCEPT !["server"] =
                        [file EXCEPT !.users[Admin] = job'["server"].password]]
          /\ pc' = [pc EXCEPT !["server"] = "write"]
    /\ UNCHANGED <<file, tmp, fd>>

\* manageAccount asks for the password once the file has been read.
StartCommand(j) ==
    /\ j.kind \in {"add", "set"}
    /\ Opens("command")
    /\ pc' = [pc EXCEPT !["command"] = "prompt"]
    /\ job' = [job EXCEPT !["command"] = j]
    /\ data' = [data EXCEPT !["command"] = file]
    /\ UNCHANGED <<file, tmp, fd>>

\* addUser refuses a name that is taken, setPassword one that is not.
Accepted(p) == (job[p].kind = "set") = Known(p, job[p].name)

Answer ==
    /\ pc["command"] = "prompt"
    /\ Accepted("command")
    /\ data' = Changed("command", job["command"])
    /\ pc' = [pc EXCEPT !["command"] = "write"]
    /\ UNCHANGED <<job, file, tmp, fd>>

\* A request changes the chat list; it holds the store's lock while it saves.
ChangeIndex ==
    /\ pc["server"] = "serve"
    /\ data' = [data EXCEPT !["server"].rows = ~@]
    /\ job' = [job EXCEPT !["server"] = [kind |-> "index"]]
    /\ pc' = [pc EXCEPT !["server"] = "write"]
    /\ UNCHANGED <<file, tmp, fd>>

\* A process ends, with what it had in memory: a command that was refused or is
\* done, a server that could not bootstrap, or one that is stopped or killed.
Ends(p) ==
    /\ pc' = [pc EXCEPT ![p] = "off"]
    /\ job' = [job EXCEPT ![p] = NoJob]
    /\ data' = [data EXCEPT ![p] = Blank]
    /\ fd' = [fd EXCEPT ![p] = "none"]

\* What a save that stopped leaves is read only where another is about to rename
\* it; else the next save empties it, whatever it holds.
Abandoned(p) ==
    IF tmp = None \/ \E q \in Procs \ {p} : pc[q] \in {"writing", "rename"}
    THEN tmp ELSE Torn

End(p) ==
    /\ pc[p] # "off"
    /\ Ends(p)
    /\ tmp' = Abandoned(p)
    /\ UNCHANGED file

-----------------------------------------------------------------------------
(* save: write the temporary file, rename it. *)

\* Mutant: the state file itself is written.
WriteInPlace(p) ==
    /\ pc[p] = "write"
    /\ pc' = [pc EXCEPT ![p] = "writing"]
    /\ fd' = [fd EXCEPT ![p] = "file"]
    /\ file' = Torn
    /\ UNCHANGED <<job, data, tmp>>

\* The temporary file is opened, and emptied if it is there.
WriteStart(p) ==
    /\ pc[p] = "write"
    /\ pc' = [pc EXCEPT ![p] = "writing"]
    /\ fd' = [fd EXCEPT ![p] = "tmp"]
    /\ tmp' = Torn
    /\ UNCHANGED <<job, data, file>>

\* What is in a file once p has written to it: its copy, unless another process
\* wrote to the same file after p emptied it, and wrote more.
Written(p, content) == IF content = Torn THEN {data[p]} ELSE {data[p], Torn}

WriteEnd(p) ==
    /\ pc[p] = "writing"
    /\ pc' = [pc EXCEPT ![p] = "rename"]
    /\ tmp' \in IF fd[p] = "tmp" THEN Written(p, tmp) ELSE {tmp}
    /\ file' \in IF fd[p] = "file" THEN Written(p, file) ELSE {file}
    /\ UNCHANGED <<job, data, fd>>

\* The operation returns: the server serves on, a command has nothing left to do.
Returns(p) ==
    IF p = "server"
    THEN /\ pc' = [pc EXCEPT ![p] = "serve"]
         /\ job' = [job EXCEPT ![p] = NoJob]
         /\ UNCHANGED data
    ELSE /\ pc' = [pc EXCEPT ![p] = "off"]
         /\ job' = [job EXCEPT ![p] = NoJob]
         /\ data' = [data EXCEPT ![p] = Blank]

\* The file called temporary takes the state file's place, whoever wrote it.
Rename(p) ==
    /\ pc[p] = "rename"
    /\ tmp # None
    /\ file' = tmp
    /\ tmp' = None
    /\ fd' = [q \in Procs |-> IF q = p \/ fd[q] = "none" THEN "none"
                              ELSE IF fd[q] = "tmp" THEN "file" ELSE "lost"]
    /\ Returns(p)

\* A save that fails leaves the file and, while the server serves, its memory
\* changed; the other processes give up (log.Fatal).
SaveFails(p) ==
    /\ pc[p] \in {"write", "writing", "rename"}
    /\ IF job[p].kind = "index"
       THEN Returns(p) /\ fd' = [fd EXCEPT ![p] = "none"]
       ELSE Ends(p)
    /\ tmp' = Abandoned(p)
    /\ UNCHANGED file

-----------------------------------------------------------------------------
AccountsNext ==
    \/ StartServer \/ ChangeIndex
    \/ \E j \in Jobs : StartCommand(j)
    \/ Answer
    \/ \E p \in Procs : End(p) \/ WriteStart(p) \/ WriteEnd(p) \/ Rename(p) \/ SaveFails(p)

AccountsSpec == AccountsInit /\ [][AccountsNext]_accountVars

\* What the program says and does not do.

\* "save writes the state file atomically, so a crash mid-write cannot leave a
\* half-written file where the user list used to be" (store.go, save).  With a command
\* beside the server, one process can rename what the other is still writing, and a crash
\* of the other then leaves it so.
LeftWhole == (\A p \in Procs : pc[p] = "off") => file # Torn
=============================================================================
