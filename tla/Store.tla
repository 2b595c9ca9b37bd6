------------------------------- MODULE Store -------------------------------
(***************************************************************************)
(* The local index of conversations and its state file (src/store.go), as  *)
(* the requests of one user reach it (src/server.go): creating, sending    *)
(* to, renaming and deleting a conversation, each once findRecord has      *)
(* settled whose it is, and recovering those only the daemon knows.        *)
(*                                                                         *)
(* Every operation holds the store's lock from its change in memory until  *)
(* its save has returned.  A save writes a temporary file and renames it;  *)
(* either can fail, and the process can be killed between any two steps.   *)
(***************************************************************************)
EXTENDS Naturals, Sequences, SequencesExt

CONSTANTS
    Convs,      \* conversation identities
    Handlers,   \* requests being served
    None,       \* no conversation, no handler
    Torn,       \* the content of a file that is being written
    MaxRows     \* bound on the rows of the index

ASSUME NoneAssumption == None \notin Convs \cup Handlers

ASSUME RowsBound == MaxRows \in Nat

Rows == [id : Convs, started : BOOLEAN, title : {"", "first", "own"}]

ASSUME TornAssumption == Torn \notin Seq(Rows)

VARIABLES
    mem,        \* store.data.Conversations
    disk,       \* what the state file holds
    tmp,        \* what the temporary file holds
    ran,        \* conversations the daemon finds under the user's labels
    lock,       \* who holds store.mu while it saves
    pc, op, id, \* a handler's control point, operation and conversation
    todo,       \* reindex: the conversations it has still to look at
    failed,     \* history: a save has failed since the last that succeeded
    beside      \* history: recoveries that another one has overlapped

fileVars == <<disk, tmp>>
handlerVars == <<pc, op, id, todo, beside>>
vars == <<mem, fileVars, ran, lock, handlerVars, failed>>

Init ==
    /\ mem = <<>>
    /\ disk = <<>>
    /\ tmp = <<>>
    /\ ran = {}
    /\ lock = None
    /\ pc = [h \in Handlers |-> "idle"]
    /\ op = [h \in Handlers |-> "none"]
    /\ id = [h \in Handlers |-> None]
    /\ todo = [h \in Handlers |-> {}]
    /\ failed = FALSE
    /\ beside = {}

\* The operations that find a row before they change it.
Updates == {"touch", "rename", "forget"}

Indices(c) == {i \in DOMAIN mem : mem[i].id = c}
\* indexOf: the first row of the conversation.
Index(c) == CHOOSE i \in Indices(c) : \A j \in Indices(c) : i <= j

Listed(c) == Indices(c) # {}

\* Mutant: the lock is released before the save.
FreeAtOnce == TRUE

Free == lock = None

-----------------------------------------------------------------------------
(* Requests. *)

Goto(h, from, to) ==
    /\ pc[h] = from
    /\ pc' = [pc EXCEPT ![h] = to]

Ended(h) ==
    /\ op' = [op EXCEPT ![h] = "none"]
    /\ id' = [id EXCEPT ![h] = None]

\* create: a conversation with an identity of its own.
Create(h, c) ==
    /\ Goto(h, "idle", "remember")
    /\ c \notin ran /\ ~Listed(c)
    /\ \A g \in Handlers : id[g] # c /\ c \notin todo[g]
    /\ op' = [op EXCEPT ![h] = "create"]
    /\ id' = [id EXCEPT ![h] = c]
    /\ UNCHANGED <<mem, fileVars, ran, lock, todo, beside, failed>>

\* A message was sent, so the daemon has a run, and the row is touched.
Send(h, c) ==
    /\ Goto(h, "idle", "update")
    /\ Listed(c) \/ c \in ran
    /\ op' = [op EXCEPT ![h] = "touch"]
    /\ id' = [id EXCEPT ![h] = c]
    /\ ran' = ran \cup {c}
    /\ UNCHANGED <<mem, fileVars, lock, todo, beside, failed>>

\* findRecord: a row of a conversation that never ran is enough; for any other the
\* daemon is asked.
Find(h, what, c) ==
    /\ Free
    /\ Listed(c) \/ c \in ran
    /\ Goto(h, "idle", IF Listed(c) /\ ~mem[Index(c)].started THEN "update" ELSE "ask")
    /\ op' = [op EXCEPT ![h] = what]
    /\ id' = [id EXCEPT ![h] = c]
    /\ UNCHANGED <<mem, fileVars, ran, lock, todo, beside, failed>>

\* Lookup finds it.  A delete goes on to end its run, and drops the row whether or
\* not that fails.
Found(h) ==
    /\ id[h] \in ran
    /\ Goto(h, "ask", "update")
    /\ UNCHANGED <<mem, fileVars, ran, lock, op, id, todo, beside, failed>>

\* Lookup finds nothing, another client having deleted it, or the daemon cannot be
\* reached: the request ends.
NotFound(h) ==
    /\ Goto(h, "ask", "idle")
    /\ Ended(h)
    /\ UNCHANGED <<mem, fileVars, ran, lock, todo, beside, failed>>

\* reindex: the daemon's list, looked at one conversation after the other.
Recover(h) ==
    LET others == {g \in Handlers \ {h} : op[g] = "recover"}
    IN  /\ ran # {}
        /\ Goto(h, "idle", "check")
        /\ op' = [op EXCEPT ![h] = "recover"]
        /\ todo' = [todo EXCEPT ![h] = ran]
        /\ beside' = IF others = {} THEN beside ELSE beside \cup others \cup {h}
        /\ UNCHANGED <<mem, fileVars, ran, lock, id, failed>>

\* Mutant: reindex remembers whatever it is told of.
NewAlways(c) == TRUE

New(c) == ~Listed(c)

\* One the index lists is left alone; another is remembered, in a critical
\* section of its own.
Check(h, c) ==
    /\ Free
    /\ c \in todo[h]
    /\ Goto(h, "check", IF New(c) THEN "remember" ELSE "check")
    /\ todo' = [todo EXCEPT ![h] = @ \ {c}]
    /\ id' = [id EXCEPT ![h] = IF New(c) THEN c ELSE None]
    /\ UNCHANGED <<mem, fileVars, ran, lock, op, beside, failed>>

Answer(h) ==
    /\ todo[h] = {}
    /\ Goto(h, "check", "idle")
    /\ Ended(h)
    /\ beside' = beside \ {h}
    /\ UNCHANGED <<mem, fileVars, ran, lock, todo, failed>>

-----------------------------------------------------------------------------
(* Critical sections of the store. *)

\* remember appends, whether or not the conversation has a row.
Remember(h) ==
    /\ Free
    /\ Len(mem) < MaxRows
    /\ Goto(h, "remember", "write")
    /\ lock' = h
    /\ mem' = Append(mem, [id |-> id[h], started |-> op[h] = "recover", title |-> ""])
    /\ UNCHANGED <<fileVars, ran, op, id, todo, beside, failed>>

\* touch, rename and forget, once indexOf has found the row.
Updated(h, row) ==
    IF op[h] = "touch"
    THEN [row EXCEPT !.started = TRUE, !.title = IF @ = "" THEN "first" ELSE @]
    ELSE [row EXCEPT !.title = "own"]

Update(h) ==
    /\ Free
    /\ Listed(id[h])
    /\ Goto(h, "update", "write")
    /\ lock' = h
    /\ LET i == Index(id[h])
       IN  mem' = IF op[h] = "forget" THEN RemoveAt(mem, i)
                                      ELSE ReplaceAt(mem, i, Updated(h, mem[i]))
    /\ UNCHANGED <<fileVars, ran, op, id, todo, beside, failed>>

\* errNoSuchConversation: never listed here, or forgotten by another request.
Missing(h) ==
    /\ Free
    /\ ~Listed(id[h])
    /\ Goto(h, "update", "idle")
    /\ Ended(h)
    /\ UNCHANGED <<mem, fileVars, ran, lock, todo, beside, failed>>

\* Mutant: the state file is written in place.
WriteStartInPlace(h) ==
    /\ Goto(h, "write", "writing")
    /\ disk' = Torn
    /\ UNCHANGED <<mem, tmp, ran, lock, op, id, todo, beside, failed>>

\* save: the temporary file is truncated, then holds the whole list ...
WriteStart(h) ==
    /\ Goto(h, "write", "writing")
    /\ tmp' = Torn
    /\ UNCHANGED <<mem, disk, ran, lock, op, id, todo, beside, failed>>

WriteEnd(h) ==
    /\ Goto(h, "writing", "rename")
    /\ tmp' = mem
    /\ UNCHANGED <<mem, disk, ran, lock, op, id, todo, beside, failed>>

\* The operation returns, and reindex goes on unless it failed.
Return(h, ok) ==
    LET more == ok /\ op[h] = "recover"
    IN  /\ lock' = None
        /\ pc' = [pc EXCEPT ![h] = IF more THEN "check" ELSE "idle"]
        /\ op' = [op EXCEPT ![h] = IF more THEN @ ELSE "none"]
        /\ id' = [id EXCEPT ![h] = None]
        /\ todo' = [todo EXCEPT ![h] = IF more THEN @ ELSE {}]
        /\ beside' = IF more THEN beside ELSE beside \ {h}

\* ... and takes the state file's place.
Rename(h) ==
    /\ pc[h] = "rename"
    /\ disk' = tmp
    /\ tmp' = <<>>
    /\ Return(h, TRUE)
    /\ failed' = FALSE
    /\ UNCHANGED <<mem, ran>>

\* A failed save leaves memory changed, the state file as it was, and whatever
\* was written of the temporary file.
SaveFails(h) ==
    /\ pc[h] \in {"write", "writing", "rename"}
    /\ Return(h, FALSE)
    /\ failed' = TRUE
    /\ UNCHANGED <<mem, fileVars, ran>>

\* The process ends anywhere, and the next one reads the state file.
Restart ==
    /\ mem' = disk
    /\ lock' = None
    /\ pc' = [h \in Handlers |-> "idle"]
    /\ op' = [h \in Handlers |-> "none"]
    /\ id' = [h \in Handlers |-> None]
    /\ todo' = [h \in Handlers |-> {}]
    /\ beside' = {}
    /\ failed' = FALSE
    /\ UNCHANGED <<fileVars, ran>>

-----------------------------------------------------------------------------
Step(h) == \/ \E c \in Convs : Check(h, c)
           \/ Answer(h) \/ Found(h) \/ NotFound(h)
           \/ Remember(h) \/ Update(h) \/ Missing(h)
           \/ WriteStart(h) \/ WriteEnd(h) \/ Rename(h) \/ SaveFails(h)

Next ==
    \/ \E h \in Handlers, c \in Convs :
          Create(h, c) \/ Send(h, c) \/ \E what \in {"rename", "forget"} : Find(h, what, c)
    \/ \E h \in Handlers : Recover(h) \/ Step(h)
    \/ Restart

Spec == Init /\ [][Next]_vars

-----------------------------------------------------------------------------
(* Properties. *)

\* Every variable has its type; the state file is never torn.
TypeOK ==
    /\ mem \in Seq(Rows) /\ Len(mem) <= MaxRows
    /\ disk \in Seq(Rows)
    /\ tmp = Torn \/ tmp \in Seq(Rows)
    /\ ran \subseteq Convs
    /\ lock \in Handlers \cup {None}
    /\ pc \in [Handlers -> {"idle", "ask", "update", "check", "remember", "write", "writing",
                            "rename"}]
    /\ op \in [Handlers -> Updates \cup {"none", "create", "recover"}]
    /\ id \in [Handlers -> Convs \cup {None}]
    /\ todo \in [Handlers -> SUBSET Convs]
    /\ failed \in BOOLEAN
    /\ beside \subseteq Handlers

\* The store implements the durable index: through failed saves, crashes and
\* requests that interleave, the file is a list that memory held as a whole.
D == INSTANCE DurableIndex WITH now <- mem, kept <- disk
KeepsIndex == D!Index

\* When no save is under way and none has failed since the last that succeeded,
\* the state file holds exactly what memory does: nothing that was acknowledged
\* can be lost to a crash.
SettledIsSaved == lock = None /\ ~failed => disk = mem

\* A conversation is listed twice only by a recovery that another has overlapped
\* (reindex checks and remembers in two critical sections): no other request, on its
\* own or beside any other, appends a row to one the list holds.
OneRowEach ==
    [][\A h \in Handlers : pc[h] = "remember" /\ pc'[h] = "write" /\ Listed(id[h])
          => op[h] = "recover" /\ h \in beside]_vars
=============================================================================
