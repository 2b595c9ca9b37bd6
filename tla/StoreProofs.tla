----------------------------- MODULE StoreProofs -----------------------------
(***************************************************************************)
(* The index and its file, for any conversations and any number of         *)
(* requests: what is settled is saved, the file is always a list memory    *)
(* held as a whole, and no row is listed twice but by two recoveries.      *)
(***************************************************************************)
EXTENDS Store, SequenceTheorems, WellFoundedInduction, TLAPS

Saves == {"write", "writing", "rename"}

\* Who saves holds the lock, and nobody else does.
Locked == \A h \in Handlers : (pc[h] \in Saves) = (lock = h)

\* What is renamed is what memory holds.
Written == \A h \in Handlers : pc[h] = "rename" => tmp = mem

\* Every list that is kept was memory's, so it is no longer.
Bounded == Len(disk) <= MaxRows

\* What a request is about, by how far it is.
Named ==
    \A h \in Handlers :
        /\ pc[h] \in {"ask", "update", "remember"} \cup Saves => id[h] \in Convs
        /\ pc[h] = "idle" => op[h] = "none"
        /\ pc[h] = "check" => op[h] = "recover"
        /\ pc[h] \in {"ask", "update"} => op[h] \in Updates
        /\ pc[h] = "remember" => op[h] \in {"create", "recover"}

\* The conversations that a list has a row of.
Ids(list) == {list[i].id : i \in DOMAIN list}

\* A conversation that is being created is known to nobody else.
Fresh ==
    \A h \in Handlers : pc[h] = "remember" /\ op[h] = "create" =>
        /\ id[h] \notin ran
        /\ id[h] \notin Ids(mem)
        /\ \A g \in Handlers : id[h] \notin todo[g] /\ (id[g] = id[h] => g = h)

\* A recovery that no other has overlapped is the only one, and what it has found
\* missing is still so.
Unhurried ==
    \A h \in Handlers : op[h] = "recover" /\ h \notin beside =>
        /\ pc[h] = "remember" => id[h] \notin Ids(mem)
        /\ \A g \in Handlers : op[g] = "recover" => g = h

Inv == TypeOK /\ Bounded /\ Locked /\ Written /\ Named /\ SettledIsSaved /\ Fresh /\ Unhurried

-----------------------------------------------------------------------------
LEMMA Constants == Convs \cap {None} = {} /\ None \notin Handlers /\ <<>> \in Seq(Rows)
BY NoneAssumption

LEMMA ListedIds == \A c : Listed(c) <=> c \in Ids(mem)
BY DEF Listed, Indices, Ids

Less == {pair \in Nat \X Nat : pair[1] < pair[2]}

LEMMA LessWellFounded == IsWellFoundedOn(Less, Nat)
BY NatLessThanWellFounded, Zenon DEF Less, OpToRel

\* indexOf finds a row of the conversation, if there is one.
LEMMA IndexFinds ==
    ASSUME mem \in Seq(Rows), NEW c, Listed(c)
    PROVE  \E i \in DOMAIN mem : i = Index(c) /\ mem[i].id = c
<1>1. Indices(c) \subseteq Nat /\ Indices(c) # {}
  BY DEF Indices, Listed
<1>2. PICK i \in Indices(c) : \A j \in Indices(c) : ~(<<j, i>> \in Less)
  BY <1>1, LessWellFounded, WFMin
<1>3. \A j \in Indices(c) : i <= j
  <2> TAKE j \in Indices(c)
  <2>1. ~(j < i)
    BY <1>1, <1>2 DEF Less
  <2> QED BY <1>1, <2>1
<1>4. Index(c) \in Indices(c)
  BY <1>3 DEF Index
<1> QED BY <1>4 DEF Indices

LEMMA Removed ==
    ASSUME NEW S, NEW s \in Seq(S), NEW i \in DOMAIN s
    PROVE  /\ RemoveAt(s, i) \in Seq(S)
           /\ Len(RemoveAt(s, i)) <= Len(s)
           /\ \A j \in DOMAIN RemoveAt(s, i) : \E k \in DOMAIN s : RemoveAt(s, i)[j] = s[k]
<1> DEFINE front == SubSeq(s, 1, i - 1)
           back == SubSeq(s, i + 1, Len(s))
<1>1. i \in 1 .. Len(s) /\ Len(s) \in Nat /\ i \in Nat /\ DOMAIN s = 1 .. Len(s)
  OBVIOUS
<1>2. /\ front \in Seq(S)
      /\ Len(front) = i - 1
      /\ \A j \in 1 .. i - 1 : front[j] = s[j]
  BY <1>1
<1>3. /\ back \in Seq(S)
      /\ Len(back) = Len(s) - i
      /\ \A j \in 1 .. Len(s) - i : back[j] = s[i + j]
  BY <1>1
<1>4. RemoveAt(s, i) = front \o back
  BY DEF RemoveAt
<1> HIDE DEF front, back
<1>5. /\ front \o back \in Seq(S)
      /\ Len(front \o back) = Len(front) + Len(back)
      /\ \A j \in 1 .. Len(front) + Len(back) :
            (front \o back)[j] = IF j <= Len(front) THEN front[j] ELSE back[j - Len(front)]
  BY <1>2, <1>3, ConcatProperties
<1> DEFINE both == front \o back
<1>6. both \in Seq(S) /\ Len(both) = Len(s) - 1
  BY <1>1, <1>2, <1>3, <1>5
<1>7. ASSUME NEW j \in 1 .. Len(s) - 1 PROVE \E k \in 1 .. Len(s) : both[j] = s[k]
  <2>1. both[j] = IF j <= i - 1 THEN front[j] ELSE back[j - (i - 1)]
    BY <1>1, <1>2, <1>3, <1>5
  <2> HIDE DEF both
  <2>2. CASE j <= i - 1
    BY <1>1, <1>2, <2>1, <2>2
  <2>3. CASE ~(j <= i - 1)
    <3> DEFINE m == j - (i - 1)
    <3>1. m \in 1 .. Len(s) - i /\ i + m \in 1 .. Len(s)
      BY <1>1, <2>3
    <3>2. back[m] = s[i + m]
      BY <1>3, <3>1
    <3> QED BY <2>1, <2>3, <3>1, <3>2
  <2> QED BY <2>2, <2>3
<1> HIDE DEF both
<1>8. DOMAIN both = 1 .. Len(s) - 1
  BY <1>1, <1>6
<1>9. RemoveAt(s, i) = both
  BY <1>4 DEF both
<1>10. Len(both) <= Len(s)
  BY <1>1, <1>6
<1>11. \A j \in DOMAIN both : \E k \in DOMAIN s : both[j] = s[k]
  BY <1>1, <1>7, <1>8
<1> QED BY <1>6, <1>9, <1>10, <1>11, Zenon

LEMMA Replaced ==
    ASSUME NEW S, NEW s \in Seq(S), NEW i \in DOMAIN s, NEW e \in S
    PROVE  /\ ReplaceAt(s, i, e) \in Seq(S)
           /\ Len(ReplaceAt(s, i, e)) = Len(s)
           /\ DOMAIN ReplaceAt(s, i, e) = DOMAIN s
           /\ \A j \in DOMAIN s : ReplaceAt(s, i, e)[j] = IF j = i THEN e ELSE s[j]
BY ExceptSeq DEF ReplaceAt

LEMMA UpdatedRow ==
    ASSUME NEW h, NEW row \in Rows
    PROVE  Updated(h, row) \in Rows /\ Updated(h, row).id = row.id
<1>1. CASE op[h] # "touch"
  BY <1>1 DEF Updated, Rows
<1>2. CASE op[h] = "touch"
  <2>1. CASE row.title = ""
    BY <1>2, <2>1 DEF Updated, Rows
  <2>2. CASE row.title # ""
    BY <1>2, <2>2 DEF Updated, Rows
  <2> QED BY <2>1, <2>2
<1> QED BY <1>1, <1>2

\* touch, rename and forget list no conversation that was not listed.
LEMMA UpdateStep ==
    ASSUME NEW h \in Handlers, TypeOK, Named, Update(h)
    PROVE  /\ mem' \in Seq(Rows) /\ Len(mem') <= MaxRows
           /\ Ids(mem') \subseteq Ids(mem)
           /\ D!Edit
<1>1. PICK i \in DOMAIN mem : i = Index(id[h]) /\ mem[i].id = id[h]
  BY IndexFinds DEF Update, TypeOK
<1>2. /\ mem \in Seq(Rows) /\ Len(mem) \in Nat /\ Len(mem) <= MaxRows
      /\ mem[i] \in Rows
      /\ disk' = disk
  BY <1>1 DEF TypeOK, Update, fileVars
<1>3. CASE op[h] = "forget"
  <2>1. mem' = RemoveAt(mem, i)
    BY <1>1, <1>3 DEF Update
  <2>2. /\ mem' \in Seq(Rows) /\ Len(mem') \in Nat
        /\ Len(mem') <= Len(mem)
        /\ \A j \in DOMAIN mem' : \E k \in DOMAIN mem : mem'[j] = mem[k]
    BY <1>2, <2>1, Removed
  <2>3. Ids(mem') \subseteq Ids(mem)
    BY <2>2 DEF Ids
  <2>4. D!Edit
    BY <1>2, <2>1 DEF D!Edit, D!RemoveAt, RemoveAt
  <2> QED BY <1>2, <2>2, <2>3, <2>4, RowsBound
<1>4. CASE op[h] # "forget"
  <2>1. PICK row \in Rows : row = Updated(h, mem[i]) /\ row.id = mem[i].id
    BY <1>2, UpdatedRow
  <2>2. mem' = ReplaceAt(mem, i, row)
    BY <1>1, <1>4, <2>1 DEF Update
  <2>3. /\ mem' \in Seq(Rows)
        /\ Len(mem') = Len(mem)
        /\ DOMAIN mem' = DOMAIN mem
        /\ \A j \in DOMAIN mem : mem'[j] = IF j = i THEN row ELSE mem[j]
    BY <1>2, <2>2, Replaced
  <2>4. Ids(mem') \subseteq Ids(mem)
    BY <2>1, <2>3 DEF Ids
  <2>5. D!Edit
    BY <1>2, <2>2 DEF D!Edit, D!ReplaceAt, ReplaceAt
  <2> QED BY <1>2, <2>3, <2>4, <2>5
<1> QED BY <1>3, <1>4

\* remember lists one conversation more.
LEMMA RememberStep ==
    ASSUME NEW h \in Handlers, TypeOK, Named, Remember(h)
    PROVE  /\ mem' \in Seq(Rows) /\ Len(mem') <= MaxRows
           /\ Ids(mem') \subseteq Ids(mem) \cup {id[h]}
           /\ D!Edit
<1>1. PICK row \in Rows : row.id = id[h] /\ mem' = Append(mem, row)
  <2>1. id[h] \in Convs
    BY DEF Named, Remember, Goto
  <2>2. \A b \in BOOLEAN : [id |-> id[h], started |-> b, title |-> ""] \in Rows
    BY <2>1 DEF Rows
  <2>3. \A b \in BOOLEAN : [id |-> id[h], started |-> b, title |-> ""].id = id[h]
    OBVIOUS
  <2>4. PICK b \in BOOLEAN : b = (op[h] = "recover")
    OBVIOUS
  <2>5. mem' = Append(mem, [id |-> id[h], started |-> b, title |-> ""])
    BY <2>4, Zenon DEF Remember
  <2> QED BY <2>2, <2>3, <2>5
<1>2. mem' = Append(mem, row) /\ disk' = disk
  BY <1>1 DEF Remember, fileVars
<1>3. /\ mem \in Seq(Rows) /\ Len(mem) \in Nat /\ DOMAIN mem = 1 .. Len(mem)
      /\ mem' \in Seq(Rows)
      /\ Len(mem') = Len(mem) + 1 /\ DOMAIN mem' = 1 .. Len(mem) + 1
      /\ \A j \in 1 .. Len(mem) : mem'[j] = mem[j]
      /\ mem'[Len(mem) + 1] = row
  BY <1>2, AppendProperties DEF TypeOK
<1>4. Ids(mem') \subseteq Ids(mem) \cup {id[h]}
  <2>1. \A i \in DOMAIN mem' : i \in DOMAIN mem \/ i = Len(mem) + 1
    BY <1>3
  <2> QED BY <1>1, <1>3, <2>1 DEF Ids
<1>5. Len(mem') <= MaxRows
  <2>1. Len(mem) < MaxRows
    BY DEF Remember
  <2> QED BY <1>3, <2>1, RowsBound
<1> QED BY <1>2, <1>3, <1>4, <1>5 DEF D!Edit

-----------------------------------------------------------------------------
LEMMA InvStart == Init => Inv
<1> SUFFICES ASSUME Init PROVE Inv
  OBVIOUS
<1>1. Len(<<>>) <= MaxRows
  BY RowsBound
<1>2. TypeOK /\ Bounded
  BY <1>1, Constants DEF Init, TypeOK, Bounded
<1>3. Locked /\ Written /\ Named /\ SettledIsSaved
  BY Constants DEF Init, Locked, Written, Named, SettledIsSaved, Saves
<1>4. Fresh /\ Unhurried
  BY DEF Init, Fresh, Unhurried
<1> QED BY <1>2, <1>3, <1>4 DEF Inv

\* Steps of a request that leave the index and its file alone.
LEMMA RequestStep ==
    ASSUME NEW h \in Handlers, Inv,
           \/ \E c \in Convs : \/ Create(h, c) \/ Send(h, c) \/ Check(h, c)
                             \/ \E what \in {"rename", "forget"} : Find(h, what, c)
           \/ Recover(h) \/ Answer(h) \/ Found(h) \/ NotFound(h) \/ Missing(h)
    PROVE  Inv' /\ UNCHANGED <<mem, disk>>
<1> USE Constants, ListedIds
    DEF Inv, TypeOK, Bounded, Locked, Written, Named, SettledIsSaved, Fresh, Unhurried, Saves,
        Updates, Goto, Ended, fileVars
<1>1. ASSUME NEW c \in Convs, Create(h, c)
      PROVE  Inv' /\ UNCHANGED <<mem, disk>>
  BY <1>1 DEF Create
<1>2. ASSUME NEW c \in Convs, Send(h, c)
      PROVE  Inv' /\ UNCHANGED <<mem, disk>>
  BY <1>2 DEF Send
<1>3. ASSUME NEW c \in Convs, NEW what \in {"rename", "forget"}, Find(h, what, c)
      PROVE  Inv' /\ UNCHANGED <<mem, disk>>
  BY <1>3 DEF Find
<1>4. CASE Recover(h)
  BY <1>4 DEF Recover
<1>5. ASSUME NEW c \in Convs, Check(h, c)
      PROVE  Inv' /\ UNCHANGED <<mem, disk>>
  BY <1>5 DEF Check, New
<1>6. CASE Answer(h)
  BY <1>6 DEF Answer
<1>7. CASE Found(h)
  BY <1>7 DEF Found
<1>8. CASE NotFound(h)
  BY <1>8 DEF NotFound
<1>9. CASE Missing(h)
  BY <1>9 DEF Missing
<1> QED BY <1>1, <1>2, <1>3, <1>4, <1>5, <1>6, <1>7, <1>8, <1>9

\* The steps that change the index or its file, as the durable index allows.
LEMMA StoreStep ==
    ASSUME NEW h \in Handlers, Inv,
           \/ Remember(h) \/ Update(h)
           \/ WriteStart(h) \/ WriteEnd(h) \/ Rename(h) \/ SaveFails(h)
    PROVE  Inv' /\ (D!Edit \/ D!Keep \/ UNCHANGED <<mem, disk>>)
<1>1. CASE Remember(h)
  <2>1. /\ mem' \in Seq(Rows) /\ Len(mem') <= MaxRows
        /\ Ids(mem') \subseteq Ids(mem) \cup {id[h]}
        /\ D!Edit
    BY <1>1, RememberStep DEF Inv
  <2>2. TypeOK' /\ Bounded' /\ Locked' /\ Written' /\ Named' /\ SettledIsSaved'
    BY <1>1, <2>1, Constants
       DEF Remember, Goto, Free, fileVars, Inv, TypeOK, Bounded, Locked, Written, Named,
           SettledIsSaved, Saves
  <2>3. Fresh' /\ Unhurried'
    <3>1. /\ pc[h] = "remember" /\ pc'[h] = "write"
          /\ \A g \in Handlers \ {h} : pc'[g] = pc[g]
          /\ UNCHANGED <<ran, op, id, todo, beside>>
      BY <1>1 DEF Remember, Goto, Inv, TypeOK
    <3>2. \A g \in Handlers \ {h} :
             /\ pc[g] = "remember"
             /\ op[g] = "create" \/ (op[g] = "recover" /\ g \notin beside)
             => id[g] # id[h] /\ id[g] \notin Ids(mem)
      BY <3>1 DEF Inv, Named, Fresh, Unhurried
    <3> QED BY <2>1, <3>1, <3>2 DEF Inv, Fresh, Unhurried
  <2> QED BY <2>1, <2>2, <2>3 DEF Inv
<1>2. CASE Update(h)
  <2>1. /\ mem' \in Seq(Rows) /\ Len(mem') <= MaxRows
        /\ Ids(mem') \subseteq Ids(mem)
        /\ D!Edit
    BY <1>2, UpdateStep DEF Inv
  <2>2. pc[h] = "update" /\ Free /\ lock' = h /\ pc' = [pc EXCEPT ![h] = "write"]
    BY <1>2 DEF Update, Goto
  <2>3. UNCHANGED <<disk, tmp, ran, op, id, todo, beside, failed>>
    BY <1>2 DEF Update, fileVars
  <2>4. TypeOK' /\ Bounded' /\ Locked' /\ Written' /\ Named' /\ SettledIsSaved'
    BY <2>1, <2>2, <2>3, Constants
       DEF Free, Inv, TypeOK, Bounded, Locked, Written, Named, SettledIsSaved, Saves
  <2>5. Fresh' /\ Unhurried'
    <3>1. pc'[h] = "write" /\ \A g \in Handlers \ {h} : pc'[g] = pc[g]
      BY <2>2 DEF Inv, TypeOK
    <3> QED BY <2>1, <2>3, <3>1 DEF Inv, Fresh, Unhurried
  <2> QED BY <2>1, <2>4, <2>5 DEF Inv
<1> USE Constants
    DEF Inv, TypeOK, Bounded, Locked, Written, Named, SettledIsSaved, Fresh, Unhurried, Saves,
        Updates, Goto
<1>3. CASE WriteStart(h)
  BY <1>3 DEF WriteStart
<1>4. CASE WriteEnd(h)
  BY <1>4 DEF WriteEnd
<1>5. CASE Rename(h)
  <2>1. disk' = mem /\ mem' = mem /\ tmp' = <<>> /\ failed' = FALSE /\ ran' = ran
    BY <1>5 DEF Rename
  <2>2. D!Keep
    BY <2>1 DEF D!Keep
  <2>3. TypeOK' /\ Bounded'
    BY <1>5, <2>1 DEF Rename, Return
  <2>4. Locked' /\ Written' /\ Named' /\ SettledIsSaved'
    BY <1>5, <2>1 DEF Rename, Return
  <2>5. Fresh'
    BY <1>5, <2>1 DEF Rename, Return
  <2>6. Unhurried'
    BY <1>5, <2>1 DEF Rename, Return
  <2> QED BY <2>2, <2>3, <2>4, <2>5, <2>6
<1>6. CASE SaveFails(h)
  BY <1>6 DEF SaveFails, Return, fileVars
<1> QED BY <1>1, <1>2, <1>3, <1>4, <1>5, <1>6

LEMMA RestartStep ==
    ASSUME Inv, Restart
    PROVE  Inv' /\ D!Restart
<1>1. TypeOK' /\ Bounded'
  BY Constants DEF Restart, fileVars, Inv, TypeOK, Bounded
<1>2. Locked' /\ Written' /\ Named' /\ SettledIsSaved'
  BY Constants DEF Restart, fileVars, Locked, Written, Named, SettledIsSaved, Saves
<1>3. Fresh' /\ Unhurried'
  BY DEF Restart, Fresh, Unhurried
<1>4. D!Restart
  BY DEF Restart, fileVars, D!Restart
<1> QED BY <1>1, <1>2, <1>3, <1>4 DEF Inv

LEMMA InvStep ==
    ASSUME Inv, [Next]_vars
    PROVE  Inv' /\ [D!Edit \/ D!Keep \/ D!Restart]_<<mem, disk>>
<1>1. CASE UNCHANGED vars
  BY <1>1 DEF vars, fileVars, handlerVars, Inv, TypeOK, Bounded, Locked, Written, Named,
              SettledIsSaved, Fresh, Unhurried
<1>2. ASSUME NEW h \in Handlers, Recover(h) \/ Step(h)
      PROVE  Inv' /\ [D!Edit \/ D!Keep]_<<mem, disk>>
  BY <1>2, RequestStep, StoreStep DEF Step
<1> QED BY <1>1, <1>2, RequestStep, RestartStep DEF Next

LEMMA Reached == Spec => []Inv
BY InvStart, InvStep, PTL DEF Spec

-----------------------------------------------------------------------------
\* Every variable has its type; the state file is never torn.
THEOREM IndexTyping == Spec => []TypeOK
<1>1. Inv => TypeOK
  BY DEF Inv
<1> QED BY <1>1, Reached, PTL

\* What a request that saved was told is done, is done: unless a save has failed, the
\* state file holds what memory does whenever nobody is saving.
THEOREM SettledSaved == Spec => []SettledIsSaved
<1>1. Inv => SettledIsSaved
  BY DEF Inv
<1> QED BY <1>1, Reached, PTL

\* The store implements the durable index, through failed saves, crashes and requests
\* that interleave.
THEOREM KeepsDurableIndex == Spec => KeepsIndex
<1>1. Init => D!IndexInit
  BY DEF Init, D!IndexInit
<1>2. Inv /\ [Next]_vars => [D!Edit \/ D!Keep \/ D!Restart]_D!indexVars
  BY InvStep DEF D!indexVars
<1> QED BY <1>1, <1>2, Reached, PTL DEF Spec, KeepsIndex, D!Index

\* Only a recovery that another has overlapped lists a conversation twice.
THEOREM ListedOnce == Spec => OneRowEach
<1>1. ASSUME Inv, [Next]_vars, NEW h \in Handlers,
             pc[h] = "remember", pc'[h] = "write", Listed(id[h])
      PROVE  op[h] = "recover" /\ h \in beside
  BY <1>1, ListedIds DEF Inv, Named, Fresh, Unhurried
<1>2. Inv /\ [Next]_vars =>
         (\A h \in Handlers : pc[h] = "remember" /\ pc'[h] = "write" /\ Listed(id[h])
             => op[h] = "recover" /\ h \in beside)
  BY <1>1
<1> QED BY <1>2, Reached, PTL DEF Spec, OneRowEach
=============================================================================
