---------------------------- MODULE OpeningProofs ----------------------------
(***************************************************************************)
(* A page that opens a conversation, for any clients, any number of turns  *)
(* and any size of a page of history: the transcript it joins is whole,    *)
(* and the turns it is sent afterwards repeat it in one case only.         *)
(***************************************************************************)
EXTENDS Opening, TurnsProofs, FiniteSetTheorems, SequenceTheorems, WellFoundedInduction

\* Turns are begun one after the other: the first e are over, the next one may be
\* running, and the others have not begun.
InTurn(e) ==
    \A t \in Turns : /\ Done(t) <=> t <= e
                     /\ t > e + 1 => status[t] = "none"

\* The exchanges from one that is excluded to one that is not.
Stretch(from, to) == [i \in 1 .. to - from |-> from + i]

\* The pages read lie side by side, the newest, which ends with the exchange top,
\* first: each ends where the one read before it begins.
Adjoin(top, ends) ==
    /\ ends[1] = top
    /\ \A k \in 1 .. Len(pages) : /\ ends[k + 1] < ends[k]
                                  /\ pages[k] = Stretch(ends[k + 1], ends[k])

\* Where the reading is: before the first page, between two, or at the beginning.
Unread ==
    /\ at \in {"closed", "reading"}
    /\ pages = <<>>
    /\ cursor = MaxTurns + 1

ReadTo(e) ==
    /\ at \in {"reading", "read"}
    /\ pages # <<>>
    /\ \E top \in 1 .. e :
          /\ durable \subseteq 1 .. top
          /\ \E ends \in [1 .. Len(pages) + 1 -> 0 .. top] :
                LET left == ends[Len(pages) + 1]
                IN  /\ Adjoin(top, ends)
                    /\ at = "reading" => left > 0 /\ cursor = left + 1
                    /\ at = "read" => left = 0

\* A page subscribes when it has read.
PageInv ==
    /\ pages \in Seq(Seq(Nat))
    /\ wpc[Page] # "out" => at = "read"
    /\ \E e \in Past .. MaxTurns :
          InTurn(e) /\ durable \subseteq 1 .. e /\ (Unread \/ ReadTo(e))

-----------------------------------------------------------------------------
(* Sequences of exchanges. *)

Less == {pair \in Nat \X Nat : pair[1] < pair[2]}

LEMMA LessWellFounded == IsWellFoundedOn(Less, Nat)
BY NatLessThanWellFounded, Zenon DEF Less, OpToRel

\* Two recursive definitions of one function agree: the flattening of sequences is
\* any function that solves its equation.
LEMMA FlattenSolved ==
    ASSUME NEW seqs, NEW g, Len(seqs) \in Nat \ {0},
           g = [i \in 1 .. Len(seqs) |-> IF i = 1 THEN seqs[i] ELSE g[i - 1] \o seqs[i]]
    PROVE  FlattenSeq(seqs) = g[Len(seqs)]
<1> DEFINE n == Len(seqs)
           Solves(f) == f = [i \in 1 .. n |-> IF i = 1 THEN seqs[i] ELSE f[i - 1] \o seqs[i]]
           f == CHOOSE f : Solves(f)
           apart == {i \in Nat : i \in 1 .. n /\ f[i] # g[i]}
<1>1. Solves(f)
  BY Zenon
<1>2. \A i \in 1 .. n : f[i] = IF i = 1 THEN seqs[i] ELSE f[i - 1] \o seqs[i]
  <2> HIDE DEF f
  <2> QED BY <1>1
<1>3. \A i \in 1 .. n : g[i] = IF i = 1 THEN seqs[i] ELSE g[i - 1] \o seqs[i]
  OBVIOUS
<1>4. apart = {}
  <2> HIDE DEF f
  <2> SUFFICES ASSUME apart # {} PROVE FALSE
    OBVIOUS
  <2>1. PICK i \in apart : \A j \in apart : ~(<<j, i>> \in Less)
    BY LessWellFounded, WFMin, Zenon
  <2>2. i \in 1 .. n /\ f[i] # g[i]
    OBVIOUS
  <2>3. i # 1
    BY <1>2, <1>3, <2>2
  <2>4. i - 1 \in 1 .. n /\ i - 1 \in Nat /\ <<i - 1, i>> \in Less
    BY <2>2, <2>3 DEF Less
  <2>5. f[i - 1] = g[i - 1]
    BY <2>1, <2>4
  <2> QED BY <1>2, <1>3, <2>2, <2>3, <2>5
<1>5. FlattenSeq(seqs) = f[n]
  BY DEF FlattenSeq
<1>6. n \in Nat /\ n \in 1 .. n
  OBVIOUS
<1> HIDE DEF f
<1> QED BY <1>4, <1>5, <1>6

LEMMA StretchesJoin ==
    ASSUME NEW a \in Nat, NEW b \in Nat, a <= b
    PROVE  Stretch(0, a) \o Stretch(a, b) = Stretch(0, b)
BY DEF Stretch

LEMMA StretchIsSeq ==
    ASSUME NEW a \in Nat, NEW b \in Nat, a < b
    PROVE  Stretch(a, b) \in Seq(Nat) /\ Stretch(a, b) # <<>> /\ Stretch(a, b)[1] = a + 1
<1>1. b - a \in Nat \ {0} /\ \A i \in 1 .. b - a : a + i \in Nat
  OBVIOUS
<1>2. Stretch(a, b) \in [1 .. b - a -> Nat] /\ Stretch(a, b)[1] = a + 1
  BY <1>1 DEF Stretch
<1>3. Stretch(a, b) \in Seq(Nat) /\ Len(Stretch(a, b)) = b - a
  BY <1>1, <1>2
<1> QED BY <1>1, <1>2, <1>3

\* Pages side by side, down to the first exchange, join to all the exchanges.
LEMMA StretchLast ==
    ASSUME NEW a \in Nat, NEW b \in Nat, a < b
    PROVE  Last(Stretch(a, b)) = b
<1>1. b - a \in Nat \ {0} /\ a + (b - a) = b
  OBVIOUS
<1>2. Len(Stretch(a, b)) = b - a
  BY <1>1, StretchIsSeq DEF Stretch
<1> QED BY <1>1, <1>2 DEF Last, Stretch

LEMMA PagesJoin ==
    ASSUME pages \in Seq(Seq(Nat)), NEW top \in Nat \ {0},
           NEW ends \in [1 .. Len(pages) + 1 -> 0 .. top],
           Adjoin(top, ends), ends[Len(pages) + 1] = 0
    PROVE  History = Stretch(0, top)
<1> PICK n : n = Len(pages)
  OBVIOUS
<1>6. n \in Nat /\ \A k \in 1 .. n + 1 : ends[k] \in Nat
  OBVIOUS
<1> DEFINE seqs == Reverse(pages)
           g == [i \in 1 .. n |-> Stretch(0, ends[n - i + 1])]
<1>1. n \in Nat \ {0}
  BY DEF Adjoin
<1>2. Len(seqs) = n /\ \A i \in 1 .. n : seqs[i] = pages[n - i + 1]
  BY <1>1 DEF Reverse
<1> HIDE DEF seqs
<1>3. ASSUME NEW i \in 1 .. n
      PROVE  g[i] = IF i = 1 THEN seqs[i] ELSE g[i - 1] \o seqs[i]
  <2>1. n - i + 1 \in 1 .. n
    BY <1>1
  <2>2. seqs[i] = Stretch(ends[n - i + 2], ends[n - i + 1])
    <3>1. n - i + 1 + 1 = n - i + 2
      BY <1>1
    <3> QED BY <1>2, <2>1, <3>1 DEF Adjoin
  <2>3. CASE i = 1
    BY <1>1, <2>2, <2>3
  <2>4. CASE i # 1
    <3>1. i - 1 \in 1 .. n /\ n - (i - 1) + 1 = n - i + 2 /\ n - i + 2 \in 1 .. n
      BY <1>1, <2>4
    <3>2. g[i - 1] = Stretch(0, ends[n - i + 2])
      BY <3>1
    <3>3. ends[n - i + 2] \in Nat /\ ends[n - i + 1] \in Nat
      <4>1. n - i + 2 \in 1 .. n + 1 /\ n - i + 1 \in 1 .. n + 1
        BY <1>1, <2>1, <3>1
      <4> QED BY <1>6, <4>1
    <3>4. ends[n - i + 2] <= ends[n - i + 1]
      <4>1. n - i + 1 + 1 = n - i + 2
        BY <1>1
      <4>2. ends[n - i + 2] < ends[n - i + 1]
        BY <2>1, <4>1 DEF Adjoin
      <4> QED BY <3>3, <4>2
    <3> QED BY <2>2, <2>4, <3>2, <3>3, <3>4, StretchesJoin
  <2> QED BY <2>3, <2>4
<1>4. FlattenSeq(seqs) = g[n]
  <2>1. g = [i \in 1 .. Len(seqs) |-> IF i = 1 THEN seqs[i] ELSE g[i - 1] \o seqs[i]]
    BY <1>2, <1>3
  <2> HIDE DEF g
  <2> QED BY <1>1, <1>2, <2>1, FlattenSolved
<1>5. g[n] = Stretch(0, top)
  <2>1. n \in 1 .. n /\ n - n + 1 = 1
    BY <1>1
  <2> QED BY <2>1 DEF Adjoin
<1> QED BY <1>4, <1>5 DEF History, seqs

-----------------------------------------------------------------------------
(* The daemon's history. *)

LEMMA EndedIs ==
    ASSUME NEW e \in Past .. MaxTurns, InTurn(e)
    PROVE  Ended = 1 .. e
BY TurnsAssumption DEF InTurn, Ended, Turns

LEMMA BeforeIs ==
    ASSUME NEW e \in Nat, Ended = 1 .. e, NEW t \in Nat \ {0}
    PROVE  Before(t) = 1 .. IF t <= e THEN t - 1 ELSE e
BY DEF Before

LEMMA StretchSize ==
    ASSUME NEW a \in Nat, NEW b \in Nat, a <= b
    PROVE  Cardinality(a + 1 .. b) = b - a
<1>1. a + 1 \in Int /\ b \in Int
  OBVIOUS
<1>2. Cardinality(a + 1 .. b) = IF a + 1 > b THEN 0 ELSE b - (a + 1) + 1
  BY <1>1, FS_Interval, Zenon
<1> QED BY <1>2

\* A page of history is the end of what is before its cursor, and not empty if that
\* is not.
LEMMA HistoryPageIs ==
    ASSUME NEW t, NEW n \in Nat \ {0}, Before(t) = 1 .. n
    PROVE  \E low \in 0 .. n - 1 : HistoryPage(t) = Stretch(low, n)
<1> DEFINE low == IF n > Limit THEN n - Limit ELSE 0
           newest == {u \in Before(t) : Cardinality({v \in Before(t) : v > u}) < Limit}
<1>1. low \in 0 .. n - 1 /\ low >= n - Limit /\ (low = 0 \/ low = n - Limit)
  BY OpeningAssumption
<1>2. \A u \in 1 .. n : Cardinality({v \in Before(t) : v > u}) = n - u
  <2> SUFFICES ASSUME NEW u \in 1 .. n
               PROVE  Cardinality({v \in Before(t) : v > u}) = n - u
    OBVIOUS
  <2>1. {v \in Before(t) : v > u} = u + 1 .. n
    OBVIOUS
  <2>2. u \in Nat /\ u <= n
    OBVIOUS
  <2> QED BY <2>1, <2>2, StretchSize
<1> HIDE DEF low
<1>3. newest = low + 1 .. n
  <2>1. \A u \in 1 .. n : n - u < Limit <=> u \in low + 1 .. n
    BY <1>1, OpeningAssumption
  <2> QED BY <1>1, <1>2, <2>1
<1> HIDE DEF newest
<1>4. Cardinality(newest) = n - low
  BY <1>1, <1>3, StretchSize
<1>5. \A u \in newest : Cardinality({v \in newest : v < u}) = u - 1 - low
  <2> SUFFICES ASSUME NEW u \in newest
               PROVE  Cardinality({v \in newest : v < u}) = u - 1 - low
    OBVIOUS
  <2>1. {v \in newest : v < u} = low + 1 .. u - 1
    BY <1>1, <1>3
  <2>2. low \in Nat /\ u - 1 \in Nat /\ low <= u - 1
    BY <1>1, <1>3
  <2>3. Cardinality(low + 1 .. u - 1) = u - 1 - low
    BY <2>2, StretchSize
  <2> QED BY <2>1, <2>3
<1>6. ASSUME NEW i \in 1 .. n - low
      PROVE  (CHOOSE u \in newest : Cardinality({v \in newest : v < u}) = i - 1) = low + i
  <2>1. low + i \in newest
    BY <1>1, <1>3
  <2>2. \A u \in newest : u - 1 - low = i - 1 <=> u = low + i
    BY <1>1, <1>3
  <2>3. \A u \in newest : Cardinality({v \in newest : v < u}) = i - 1 <=> u = low + i
    BY <1>5, <2>2
  <2> QED BY <2>1, <2>3
<1>7. HistoryPage(t) = Stretch(low, n)
  BY <1>4, <1>6 DEF HistoryPage, Stretch, newest
<1> QED BY <1>1, <1>7

-----------------------------------------------------------------------------
(* The steps. *)

\* One page more: it ends where the one before begins.
LEMMA PageRead ==
    ASSUME pages \in Seq(Seq(Nat)), NEW e \in Past .. MaxTurns, InTurn(e),
           NEW top \in 1 .. e, NEW ends \in [1 .. Len(pages) + 1 -> 0 .. top],
           Adjoin(top, ends), durable \subseteq 1 .. top,
           NEW left \in 1 .. top, left = ends[Len(pages) + 1], Before(cursor) = 1 .. left,
           ReadPage
    PROVE  pages' \in Seq(Seq(Nat)) /\ ReadTo(e)'
<1> PICK n : n = Len(pages)
  OBVIOUS
<1>0. n \in Nat /\ e \in Nat /\ top \in Nat /\ left \in Nat \ {0}
  BY TurnsAssumption
<1>1. PICK low \in 0 .. left - 1 : HistoryPage(cursor) = Stretch(low, left)
  BY <1>0, HistoryPageIs
<1> PICK more : more = [k \in 1 .. n + 2 |-> IF k = n + 2 THEN low ELSE ends[k]]
  OBVIOUS
<1> PICK page : page = Stretch(low, left)
  OBVIOUS
<1>2. page \in Seq(Nat) /\ page # <<>> /\ page[1] = low + 1
  <2>1. low \in Nat /\ low < left
    BY <1>0
  <2> QED BY <1>0, <2>1, StretchIsSeq
<1>3. Before(low + 1) = 1 .. low
  <2>1. Ended = 1 .. e /\ e \in Nat
    BY <1>0, EndedIs
  <2>2. low + 1 \in Nat \ {0} /\ low <= e
    BY <1>0
  <2>3. low + 1 <= e => low + 1 - 1 = low
    BY <1>0
  <2>4. low + 1 <= e
    BY <1>0
  <2> QED BY <2>1, <2>2, <2>3, <2>4, BeforeIs
<1>4. low = 0 <=> Before(page[1]) = {}
  <2>1. low # 0 => 1 \in 1 .. low
    BY <1>0
  <2>2. low = 0 => 1 .. low = {}
    OBVIOUS
  <2> QED BY <1>2, <1>3, <2>1, <2>2
<1>5. /\ pages' = Append(pages, page)
      /\ IF low = 0 THEN at' = "read" /\ cursor' = cursor
                    ELSE at' = "reading" /\ cursor' = low + 1
      /\ UNCHANGED <<vars, durable>>
  BY <1>1, <1>2, <1>4 DEF ReadPage
<1>6. /\ Len(pages') = n + 1
      /\ \A k \in 1 .. n : pages'[k] = pages[k]
      /\ pages'[n + 1] = page
      /\ pages' \in Seq(Seq(Nat))
  BY <1>2, <1>5
<1>7. n \in Nat
  BY <1>0
<1>8. more \in [1 .. n + 2 -> 0 .. top] /\ more[n + 2] = low
  BY <1>7
<1>9. Adjoin(top, more)'
  <2>1. more[1] = top
    BY <1>7 DEF Adjoin
  <2>2. ASSUME NEW k \in 1 .. n
        PROVE  more[k + 1] < more[k] /\ pages'[k] = Stretch(more[k + 1], more[k])
    <3>1. more[k] = ends[k] /\ more[k + 1] = ends[k + 1]
      BY <1>7
    <3> QED BY <1>6, <3>1 DEF Adjoin
  <2>3. more[n + 2] < more[n + 1] /\ pages'[n + 1] = Stretch(more[n + 2], more[n + 1])
    <3>1. more[n + 1] = left
      BY <1>7
    <3> QED BY <1>0, <1>6, <1>8, <3>1
  <2>4. n + 1 + 1 = n + 2 /\ 1 .. n + 1 = 1 .. n \cup {n + 1}
    BY <1>7
  <2>5. \A k \in 1 .. n + 1 : /\ more[k + 1] < more[k]
                              /\ pages'[k] = Stretch(more[k + 1], more[k])
    BY <2>2, <2>3, <2>4
  <2>6. 1 .. Len(pages)' = 1 .. n + 1
    BY <1>6
  <2> QED BY <1>6, <2>1, <2>5, <2>6 DEF Adjoin
<1>10. Len(pages') + 1 = n + 2
  BY <1>6, <1>7
<1>11. at' \in {"reading", "read"} /\ durable' \subseteq 1 .. top
  BY <1>5
<1>12. /\ more[Len(pages') + 1] = low
       /\ at' = "reading" => low > 0 /\ cursor' = low + 1
       /\ at' = "read" => low = 0
  BY <1>5, <1>8, <1>10
<1>13. more \in [1 .. Len(pages') + 1 -> 0 .. top] /\ pages' # <<>>
  BY <1>6, <1>7, <1>8, <1>10
<1> QED BY <1>6, <1>9, <1>11, <1>12, <1>13 DEF ReadTo

\* Any step of the session keeps the turns in their order.
LEMMA SessionKeepsOrder ==
    ASSUME Inv, Next, NEW e \in Past .. MaxTurns, InTurn(e)
    PROVE  \E d \in e .. MaxTurns : InTurn(d)'
<1> e \in Nat /\ e <= MaxTurns /\ MaxTurns \in Nat
  BY TurnsAssumption
<1>1. ASSUME NEW t \in Turns, status[t] # "none",
             NEW how \in {"ok", "failed"}, status' = [status EXCEPT ![t] = how]
      PROVE  \E d \in e .. MaxTurns : InTurn(d)'
  <2>1. t <= e \/ t = e + 1
    BY <1>1 DEF InTurn, Turns
  <2>2. CASE t <= e
    <3>1. InTurn(e)'
      BY <1>1, <2>2 DEF InTurn, Inv, TypeOK, Done
    <3> QED BY <3>1
  <2>3. CASE t = e + 1
    <3>1. e + 1 \in e .. MaxTurns
      BY <2>3 DEF Turns
    <3>2. InTurn(e + 1)'
      BY <1>1, <2>3 DEF InTurn, Inv, TypeOK, Done, Turns
    <3> QED BY <3>1, <3>2
  <2> QED BY <2>1, <2>2, <2>3
<1>2. ASSUME NEW t \in Turns, Finish(t)
      PROVE  \E d \in e .. MaxTurns : InTurn(d)'
  BY <1>1, <1>2 DEF Finish
<1>3. ASSUME NEW c \in Clients, Send(c)
      PROVE  InTurn(e)'
  <2>1. PICK t \in Turns : /\ status[t] = "none"
                           /\ \A u \in Turns : u < t => status[u] # "none"
                           /\ status' = [status EXCEPT ![t] = "running"]
    BY <1>3 DEF Send
  <2>2. t > e
    BY <2>1 DEF InTurn, Turns, Done
  <2>3. ~(t > e + 1)
    <3> SUFFICES ASSUME t > e + 1 PROVE FALSE
      OBVIOUS
    <3>1. e + 1 \in Turns /\ e + 1 < t
      BY DEF Turns
    <3>2. status[e + 1] = "running"
      BY <2>1, <3>1 DEF InTurn, Inv, TypeOK, Done
    <3> QED BY <1>3, <3>1, <3>2 DEF Send, Running
  <2>4. t = e + 1
    BY <2>2, <2>3 DEF Turns
  <2> QED BY <2>1, <2>4 DEF InTurn, Inv, TypeOK, Done, Turns
<1>4. ASSUME NEW c \in Clients, StopActs(c)
      PROVE  \E d \in e .. MaxTurns : InTurn(d)'
  <2>1. reply[c] \in Turns /\ status[reply[c]] # "none"
    BY <1>4 DEF StopActs, Inv, TypeOK, Known, Begun
  <2>2. CASE Done(reply[c])
    <3>1. status' = status
      BY <1>4, <2>1, <2>2 DEF StopActs, Inv, TypeOK
    <3>2. InTurn(e)'
      BY <3>1 DEF InTurn, Done
    <3> QED BY <3>2
  <2>3. CASE ~Done(reply[c])
    <3>1. status' = [status EXCEPT ![reply[c]] = "failed"]
      BY <1>4, <2>3 DEF StopActs
    <3> QED BY <1>1, <2>1, <3>1
  <2> QED BY <2>2, <2>3
<1>5. ASSUME NEW c \in Clients, Worker(c) \/ Relay(c), ~Send(c), ~StopActs(c)
      PROVE  InTurn(e)'
  <2>1. status' = status
    BY <1>5 DEF Worker, Relay, Subscribe, Unsubscribe, Publish, StopReads,
                Look, FirstLook, Start, End, Wake, Return
  <2> QED BY <2>1 DEF InTurn, Done
<1>6. InTurn(e)' => \E d \in e .. MaxTurns : InTurn(d)'
  OBVIOUS
<1> QED BY <1>2, <1>3, <1>4, <1>5, <1>6 DEF Next

\* What has been read stays where it is while more turns end.
LEMMA ReadingGrows ==
    ASSUME NEW e \in Past .. MaxTurns, NEW d \in e .. MaxTurns, UNCHANGED pageVars,
           durable \subseteq 1 .. e, Unread \/ ReadTo(e)
    PROVE  (durable \subseteq 1 .. d /\ (Unread \/ ReadTo(d)))'
<1>1. e \in Nat /\ d \in Nat /\ 1 .. e \subseteq 1 .. d
  BY TurnsAssumption
<1>2. CASE Unread
  BY <1>1, <1>2 DEF Unread, pageVars
<1>3. CASE ReadTo(e)
  <2>1. ReadTo(d)
    BY <1>1, <1>3 DEF ReadTo
  <2>2. ReadTo(d)'
    BY <2>1 DEF ReadTo, Adjoin, pageVars
  <2> QED BY <1>1, <2>2 DEF pageVars
<1> QED BY <1>2, <1>3

LEMMA PageStart == OpeningInit => PageInv
<1> SUFFICES ASSUME OpeningInit PROVE PageInv
  OBVIOUS
<1>1. Past \in Past .. MaxTurns /\ InTurn(Past)
  BY TurnsAssumption DEF OpeningInit, Init, InTurn, Done, Turns
<1>2. Unread /\ durable = {} /\ pages \in Seq(Seq(Nat))
  BY DEF OpeningInit, Unread
<1>3. wpc[Page] = "out"
  BY OpeningAssumption DEF OpeningInit, Init
<1> QED BY <1>1, <1>2, <1>3 DEF PageInv

LEMMA ReadPageKeeps ==
    ASSUME PageInv, ReadPage
    PROVE  PageInv'
<1>1. PICK e \in Past .. MaxTurns :
          InTurn(e) /\ durable \subseteq 1 .. e /\ (Unread \/ ReadTo(e))
  BY DEF PageInv
<1>2. e \in Nat \ {0} /\ e <= MaxTurns /\ MaxTurns \in Nat
  BY TurnsAssumption, OpeningAssumption
<1>3. UNCHANGED <<vars, durable>> /\ at = "reading"
  BY DEF ReadPage
<1>4. InTurn(e)' /\ durable' \subseteq 1 .. e
  BY <1>1, <1>3 DEF InTurn, Done, vars
<1>5. Ended = 1 .. e
  BY <1>1, EndedIs
<1>6. pages' \in Seq(Seq(Nat)) /\ ReadTo(e)'
  <2>1. CASE Unread
    <3>1. Before(cursor) = 1 .. e
      <4>1. cursor \in Nat \ {0} /\ ~(cursor <= e)
        BY <1>2, <2>1 DEF Unread
      <4> QED BY <1>2, <1>5, <4>1, BeforeIs
    <3>2. PICK ends \in [1 .. Len(pages) + 1 -> 0 .. e] : ends[1] = e
      <4>1. Len(pages) = 0
        BY <2>1 DEF Unread
      <4>2. [k \in 1 .. Len(pages) + 1 |-> e][1] = e
        BY <4>1
      <4> QED BY <1>2, <4>2
    <3>3. Adjoin(e, ends) /\ e = ends[Len(pages) + 1] /\ pages \in Seq(Seq(Nat))
      BY <2>1, <3>2 DEF Unread, Adjoin
    <3>4. e \in 1 .. e
      BY <1>2
    <3> QED BY <1>1, <3>1, <3>2, <3>3, <3>4, PageRead
  <2>2. CASE ReadTo(e)
    <3>0. PICK top \in 1 .. e :
              /\ durable \subseteq 1 .. top
              /\ \E ends \in [1 .. Len(pages) + 1 -> 0 .. top] :
                    /\ Adjoin(top, ends)
                    /\ ends[Len(pages) + 1] > 0
                    /\ cursor = ends[Len(pages) + 1] + 1
      BY <1>3, <2>2 DEF ReadTo
    <3>1. PICK ends \in [1 .. Len(pages) + 1 -> 0 .. top] :
              /\ Adjoin(top, ends)
              /\ ends[Len(pages) + 1] > 0
              /\ cursor = ends[Len(pages) + 1] + 1
      BY <3>0
    <3>2. Len(pages) \in Nat
      BY DEF PageInv
    <3>3. PICK left \in 1 .. top : left = ends[Len(pages) + 1]
      <4>1. ends[Len(pages) + 1] \in 0 .. top
        BY <3>2
      <4> QED BY <1>2, <3>1, <4>1
    <3>4. Before(cursor) = 1 .. left
      <4>1. cursor = left + 1 /\ cursor \in Nat \ {0} /\ left <= e /\ left \in Nat
        BY <1>2, <3>1, <3>3
      <4>2. left = IF cursor <= e THEN cursor - 1 ELSE e
        BY <1>2, <4>1
      <4> QED BY <1>2, <1>5, <4>1, <4>2, BeforeIs
    <3> QED BY <1>1, <3>0, <3>1, <3>3, <3>4, PageRead DEF PageInv
  <2> QED BY <1>1, <2>1, <2>2
<1>7. wpc' = wpc /\ (wpc[Page] # "out" => at = "read")
  BY <1>3 DEF PageInv, vars, workerVars
<1> QED BY <1>3, <1>4, <1>6, <1>7 DEF PageInv

LEMMA PageStep == Inv /\ PageInv /\ [OpeningNext]_allVars => PageInv'
<1> SUFFICES ASSUME Inv, PageInv, [OpeningNext]_allVars PROVE PageInv'
  OBVIOUS
<1>1. PICK e \in Past .. MaxTurns :
          InTurn(e) /\ durable \subseteq 1 .. e /\ (Unread \/ ReadTo(e))
  BY DEF PageInv
<1>2. CASE SessionNext
  <2>1. PICK d \in e .. MaxTurns : InTurn(d)'
    BY <1>1, <1>2, SessionKeepsOrder DEF SessionNext
  <2>2. (durable \subseteq 1 .. d /\ (Unread \/ ReadTo(d)))'
    BY <1>1, <1>2, ReadingGrows DEF SessionNext, Aside
  <2>3. d \in Past .. MaxTurns
    BY TurnsAssumption
  <2>4. wpc'[Page] # "out" => at' = "read"
    BY <1>2 DEF SessionNext, Aside, PageInv, pageVars
  <2> QED BY <1>2, <2>1, <2>2, <2>3, <2>4 DEF PageInv, SessionNext, Aside, pageVars
<1>3. CASE Load
  <2>1. InTurn(e)' /\ durable' = 1 .. e
    BY <1>1, <1>3, EndedIs DEF Load, InTurn, Done, vars
  <2>2. Unread'
    BY <1>1, <1>3 DEF Load, Unread, ReadTo
  <2> QED BY <1>3, <2>1, <2>2 DEF Load, PageInv, vars, workerVars
<1>4. CASE ReadFails
  <2>1. InTurn(e)' /\ Unread' /\ durable' = {}
    BY <1>1, <1>4 DEF ReadFails, Unread, InTurn, Done, vars
  <2> QED BY <1>4, <2>1 DEF ReadFails, PageInv, vars, workerVars
<1>5. CASE UNCHANGED allVars
  <2>1. InTurn(e)'
    BY <1>1, <1>5 DEF InTurn, Done, allVars, vars
  <2>2. (durable \subseteq 1 .. e /\ (Unread \/ ReadTo(e)))'
    <3>1. e \in e .. MaxTurns
      BY TurnsAssumption
    <3> QED BY <1>1, <1>5, <3>1, ReadingGrows DEF allVars
  <2> QED BY <1>5, <2>1, <2>2 DEF PageInv, allVars, pageVars, vars, workerVars
<1> QED BY <1>2, <1>3, <1>4, <1>5, ReadPageKeeps DEF OpeningNext

-----------------------------------------------------------------------------
(* The session. *)

\* Opening a page does nothing to the session, so what module TurnsProofs proves of
\* the session holds while pages open.
THEOREM OpeningIsSession == OpeningSpec => Spec
<1>1. OpeningInit => Init
  BY DEF OpeningInit
<1>2. [OpeningNext]_allVars => [Next]_vars
  BY DEF OpeningNext, SessionNext, Load, ReadPage, ReadFails, allVars
<1> QED BY <1>1, <1>2, PTL DEF OpeningSpec, Spec

LEMMA OpeningReached == OpeningSpec => [](Inv /\ PageInv)
BY OpeningIsSession, Reached, PageStart, PageStep, PTL DEF OpeningSpec

-----------------------------------------------------------------------------
\* What is read to the beginning is a transcript of the exchanges up to one.
LEMMA DrawnIs ==
    ASSUME PageInv, at = "read"
    PROVE  \E top \in Nat : /\ History = Stretch(0, top)
                           /\ Drawn = 1 .. top
                           /\ durable \subseteq Drawn
                           /\ Drawn \subseteq Ended
                           /\ pages # <<>> /\ Last(pages[1]) = top
<1>1. PICK e \in Past .. MaxTurns : InTurn(e) /\ ReadTo(e)
  BY DEF PageInv, Unread
<1>2. PICK top \in 1 .. e :
          /\ durable \subseteq 1 .. top
          /\ \E ends \in [1 .. Len(pages) + 1 -> 0 .. top] :
                Adjoin(top, ends) /\ ends[Len(pages) + 1] = 0
  BY <1>1 DEF ReadTo
<1>3. top \in Nat \ {0} /\ 1 .. top \subseteq 1 .. e
  BY TurnsAssumption
<1>4. History = Stretch(0, top)
  BY <1>2, <1>3, PagesJoin DEF PageInv
<1>5. Drawn = 1 .. top
  BY <1>3, <1>4 DEF Drawn, Range, Stretch
<1>6. Ended = 1 .. e
  BY <1>1, EndedIs
<1>7. pages # <<>> /\ Last(pages[1]) = top
  <2>1. PICK ends \in [1 .. Len(pages) + 1 -> 0 .. top] :
            Adjoin(top, ends) /\ ends[Len(pages) + 1] = 0
    BY <1>2
  <2>2. 1 \in 1 .. Len(pages) /\ Len(pages) \in Nat \ {0} /\ pages # <<>>
    BY <1>3, <2>1 DEF PageInv, Adjoin
  <2>3. ends[2] \in Nat /\ ends[2] < top /\ pages[1] = Stretch(ends[2], top)
    <3>1. ends[1] = top /\ ends[1 + 1] < ends[1] /\ pages[1] = Stretch(ends[1 + 1], ends[1])
      BY <2>1, <2>2 DEF Adjoin
    <3>2. 2 \in 1 .. Len(pages) + 1
      BY <2>2
    <3> QED BY <1>3, <2>1, <3>1, <3>2
  <2> QED BY <1>3, <2>2, <2>3, StretchLast
<1> QED BY <1>2, <1>3, <1>4, <1>5, <1>6, <1>7

\* However many turns end while the pages are read, the transcript has every exchange
\* there was at the start, in order, without a gap and none twice.
THEOREM WholeTranscript == OpeningSpec => []TranscriptWhole
<1>1. PageInv => TranscriptWhole
  <2> SUFFICES ASSUME PageInv, at = "read" PROVE TranscriptWhole
    BY DEF TranscriptWhole
  <2>1. PICK top \in Nat : /\ History = Stretch(0, top)
                           /\ Drawn = 1 .. top
                           /\ durable \subseteq Drawn
    BY DrawnIs
  <2>2. Cardinality(Drawn) = top
    <3>1. Cardinality(0 + 1 .. top) = top - 0
      BY StretchSize
    <3> QED BY <2>1, <3>1
  <2>3. Stretch(0, top) = [i \in 1 .. top |-> i]
    BY DEF Stretch
  <2> QED BY <2>1, <2>2, <2>3 DEF TranscriptWhole
<1> QED BY <1>1, OpeningReached, PTL

-----------------------------------------------------------------------------
(* What the comment on turns takes for granted, and how far it holds. *)

\* The relay has read the session for the first time.
Arrived == rpc[Page] = "first" \/ joined[Page]

\* A turn that is drawn and was published early counts as shown, once the relay has
\* decided.
DealtWith ==
    Arrived => \A t \in early \cap Drawn :
                   t \in shown[Page] \/ (rpc[Page] = "first" /\ turnIn[Page] = t)

LEMMA DrawnStays == UNCHANGED pageVars => Drawn' = Drawn
BY DEF pageVars, Drawn, History

\* A step of the session is another client's, the daemon's, or one of these.
LEMMA SessionStep ==
    ASSUME Inv, Next
    PROVE  \/ Look(Page) \/ FirstLook(Page) \/ (\E c \in Clients : Publish(c))
           \/ /\ rpc'[Page] = "first" <=> rpc[Page] = "first"
              /\ UNCHANGED <<joined[Page], turnIn[Page]>>
              /\ shown[Page] \subseteq shown'[Page]
              /\ rpc[Page] = "first" => shown'[Page] = shown[Page]
<1> USE OpeningAssumption DEF Inv, TypeOK, sessionVars, workerVars, relayVars
<1>1. ASSUME NEW c \in Clients, Worker(c), ~Publish(c)
      PROVE  /\ UNCHANGED <<published, joined, turnIn, shown>>
             /\ rpc'[Page] = "first" <=> rpc[Page] = "first"
  BY <1>1 DEF Worker, Subscribe, Unsubscribe, Send, StopReads, StopActs, Course
<1>2. ASSUME NEW c \in Clients, Relay(c), c # Page
      PROVE  /\ UNCHANGED <<published, joined[Page], turnIn[Page], shown[Page]>>
             /\ rpc'[Page] = rpc[Page]
  BY <1>2 DEF Relay, Look, FirstLook, Start, End, Wake, Return
<1>3. ASSUME Start(Page) \/ End(Page) \/ Wake(Page) \/ Return(Page)
      PROVE  /\ UNCHANGED <<published, joined, turnIn>>
             /\ rpc'[Page] # "first" /\ rpc[Page] # "first"
             /\ shown[Page] \subseteq shown'[Page]
  BY <1>3 DEF Start, End, Wake, Return
<1>4. ASSUME NEW t \in Turns, Finish(t)
      PROVE  UNCHANGED <<published, joined, turnIn, shown, rpc>>
  BY <1>4 DEF Finish
<1> QED BY <1>1, <1>2, <1>3, <1>4 DEF Next, Relay

LEMMA DealtWithStep ==
    ASSUME Inv, PageInv, DealtWith, [OpeningNext]_allVars
    PROVE  DealtWith'
<1> USE OpeningAssumption DEF DealtWith, Arrived
<1>1. CASE UNCHANGED allVars
  BY <1>1, DrawnStays DEF allVars, vars, workerVars, relayVars, sessionVars
<1>2. ASSUME Load \/ ReadPage \/ ReadFails PROVE DealtWith'
  <2>1. wpc[Page] = "out" /\ UNCHANGED vars
    BY <1>2 DEF Load, ReadPage, ReadFails, PageInv
  <2>2. ~joined[Page] /\ rpc[Page] # "first"
    BY <2>1 DEF Inv, Course
  <2> QED BY <2>1, <2>2 DEF vars, workerVars, relayVars
<1>3. ASSUME SessionNext PROVE DealtWith'
  <2>1. Next /\ Drawn' = Drawn
    BY <1>3, DrawnStays DEF SessionNext, Aside
  <2>2. ~(rpc[Page] = "look" /\ rpc'[Page] = "first") => early' = early
    BY <1>3 DEF SessionNext, Aside
  <2>3. SUFFICES ASSUME NEW t \in early', t \in Drawn, Arrived'
                 PROVE  t \in shown'[Page] \/ (rpc'[Page] = "first" /\ turnIn'[Page] = t)
    BY <2>1
  <2>4. CASE Look(Page)
    <3>1. CASE joined[Page]
      BY <2>2, <2>3, <2>4, <3>1 DEF Look, Turned, Inv, TypeOK
    <3>2. CASE ~joined[Page]
      <4>1. early' = published
        BY <1>3, <2>4, <3>2 DEF Look, SessionNext, Aside, Inv, TypeOK
      <4> QED BY <2>3, <2>4, <3>2, <4>1 DEF Look, Inv, TypeOK, sessionVars
    <3> QED BY <3>1, <3>2
  <2>5. CASE FirstLook(Page)
    <3>1. wpc[Page] # "out" /\ rpc[Page] = "first" /\ early' = early
      BY <2>2, <2>5 DEF FirstLook, Inv, Course
    <3>2. Done(t) /\ t # 0
      BY <2>3, <3>1, DrawnIs, TurnFacts DEF PageInv, Ended
    <3>3. t \in shown[Page] \/ turnIn[Page] = t
      BY <2>3, <3>1
    <3> QED BY <2>5, <3>2, <3>3 DEF FirstLook, Skipped, Inv, TypeOK
  <2>6. ASSUME NEW c \in Clients, Publish(c)
        PROVE  t \in shown'[Page] \/ (rpc'[Page] = "first" /\ turnIn'[Page] = t)
    BY <2>2, <2>3, <2>6 DEF Publish
  <2>7. CASE /\ rpc'[Page] = "first" <=> rpc[Page] = "first"
             /\ UNCHANGED <<joined[Page], turnIn[Page]>>
             /\ shown[Page] \subseteq shown'[Page]
    BY <2>2, <2>3, <2>7
  <2> QED BY <2>1, <2>4, <2>5, <2>6, <2>7, SessionStep
<1> QED BY <1>1, <1>2, <1>3 DEF OpeningNext

\* An exchange of the transcript is begun again for the page in one case only: its turn
\* was over before the page had loaded, and the send that began it published it after the
\* page's relay had looked.
THEOREM NoneDrawnAgain == OpeningSpec => []DrawnAgainOnlyLate
<1>1. OpeningInit => DealtWith
  BY OpeningAssumption DEF OpeningInit, Init, DealtWith, Arrived
<1>2. Inv /\ DealtWith => DrawnAgainOnlyLate
  BY OpeningAssumption
     DEF Inv, Course, Undecided, DealtWith, Arrived, DrawnAgainOnlyLate
<1>3. Inv /\ PageInv /\ DealtWith /\ [OpeningNext]_allVars => DealtWith'
  BY DealtWithStep
<1> QED BY <1>1, <1>2, <1>3, OpeningReached, PTL DEF OpeningSpec

\* From the first page of history until the relay has decided, no turn ends ...
Window == pages # <<>> /\ ~joined[Page]
EndsOutside == Window => Ended' = Ended

\* ... and replies are published in the order of their turns.
Orderly == published' # published => current' > current

\* Then what has ended is what the page has drawn, or will have, and what a page that
\* arrives does not count as new is part of that.
Caught ==
    /\ \A t \in published : t <= current
    /\ Window => Ended = 1 .. Last(pages[1])
    /\ rpc[Page] = "first" => shown[Page] \subseteq Drawn

LEMMA FirstPage ==
    ASSUME PageInv, ReadPage, pages = <<>>
    PROVE  Ended' = 1 .. Last(pages'[1])
<1>1. PICK e \in Past .. MaxTurns : InTurn(e) /\ (Unread \/ ReadTo(e))
  BY DEF PageInv
<1>2. e \in Nat \ {0} /\ e <= MaxTurns /\ MaxTurns \in Nat /\ Ended = 1 .. e
  BY <1>1, EndedIs, TurnsAssumption, OpeningAssumption
<1>3. cursor = MaxTurns + 1
  BY <1>1 DEF ReadTo, Unread
<1>4. Before(cursor) = 1 .. e
  <2>1. cursor \in Nat \ {0} /\ ~(cursor <= e)
    BY <1>2, <1>3
  <2> QED BY <1>2, <2>1, BeforeIs
<1>5. PICK low \in 0 .. e - 1 : HistoryPage(cursor) = Stretch(low, e)
  BY <1>2, <1>4, HistoryPageIs
<1>6. low \in Nat /\ low < e
  BY <1>2
<1> PICK page : page = Stretch(low, e)
  OBVIOUS
<1>7. page # <<>> /\ Last(page) = e
  BY <1>2, <1>6, StretchIsSeq, StretchLast
<1>8. pages' = Append(<<>>, page) /\ UNCHANGED vars
  BY <1>5, <1>7 DEF ReadPage
<1>9. pages'[1] = page
  BY <1>8
<1>10. Ended' = Ended
  BY <1>8 DEF vars, Ended, Done
<1> QED BY <1>2, <1>7, <1>9, <1>10

LEMMA CaughtStep ==
    ASSUME Inv, PageInv, Caught, [OpeningNext]_allVars, [EndsOutside /\ Orderly]_allVars
    PROVE  Caught'
<1> USE OpeningAssumption DEF Caught, Window
<1>1. CASE UNCHANGED allVars
  BY <1>1, DrawnStays DEF allVars, vars, pageVars, workerVars, relayVars, sessionVars, Ended, Done
<1>2. CASE Load \/ ReadPage \/ ReadFails
  <2>1. wpc[Page] = "out" /\ UNCHANGED vars
    BY <1>2 DEF Load, ReadPage, ReadFails, PageInv
  <2>2. rpc'[Page] # "first" /\ UNCHANGED <<published, current, joined>> /\ Ended' = Ended
    BY <2>1 DEF Inv, Course, vars, workerVars, relayVars, sessionVars, Ended, Done
  <2>3. Window' => Ended' = 1 .. Last(pages'[1])
    <3>1. CASE ReadPage /\ pages = <<>>
      BY <3>1, FirstPage
    <3>2. CASE ReadPage /\ pages # <<>>
      <4>1. pages \in Seq(Seq(Nat))
        BY DEF PageInv
      <4>2. pages' # <<>> => pages'[1] = pages[1]
        <5>1. PICK page : pages' = pages \/ pages' = Append(pages, page)
          BY <3>2 DEF ReadPage
        <5>2. Append(pages, page)[1] = pages[1]
          BY <3>2, <4>1
        <5> QED BY <5>1, <5>2
      <4> QED BY <2>2, <3>2, <4>2
    <3>3. CASE Load \/ ReadFails
      BY <2>2, <3>3 DEF Load, ReadFails
    <3> QED BY <1>2, <3>1, <3>2, <3>3
  <2> QED BY <2>2, <2>3
<1>3. CASE SessionNext
  <2>1. Next /\ Drawn' = Drawn /\ pages' = pages
    BY <1>3, DrawnStays DEF SessionNext, Aside, pageVars
  <2>2. CASE UNCHANGED vars
    BY <1>1, <1>3, <2>2 DEF SessionNext, Aside, allVars, vars, relayVars
  <2>3. ASSUME ~UNCHANGED vars PROVE Caught'
    <3>0. EndsOutside /\ Orderly
      BY <2>3 DEF allVars
    <3>1. \A t \in published' : t <= current'
      <4>1. ASSUME NEW c \in Clients, Publish(c) PROVE \A t \in published' : t <= current'
        <5>1. /\ current' = reply[c] /\ published' = published \cup {reply[c]}
              /\ reply[c] \notin published /\ reply[c] \in Turns
          BY <4>1 DEF Publish, Inv, Begun, TypeOK
        <5>2. current' > current /\ current \in Nat /\ current' \in Nat
          BY <3>0, <5>1, TurnsAssumption DEF Orderly, Inv, TypeOK, Turns
        <5>3. \A t \in published : t \in Nat
          BY TurnsAssumption DEF Inv, TypeOK, Turns
        <5> QED BY <5>1, <5>2, <5>3
      <4>2. ASSUME \A c \in Clients : ~Publish(c) PROVE UNCHANGED <<published, current>>
        BY <2>1, <4>2 DEF Next, Worker, Relay, Subscribe, Unsubscribe, Send, StopReads, StopActs,
               Look, FirstLook, Start, End, Wake, Return, Finish, sessionVars
      <4> QED BY <4>1, <4>2
    <3>2. Window' => Window
      <4>1. joined[Page] => joined'[Page]
        BY <2>1 DEF Next, Worker, Relay, Subscribe, Unsubscribe, Send, Publish, StopReads, StopActs,
               Look, FirstLook, Start, End, Wake, Return, Finish, relayVars, Inv, TypeOK
      <4> QED BY <2>1, <4>1
    <3>3. Window' => Ended' = 1 .. Last(pages'[1])
      BY <2>1, <3>0, <3>2 DEF EndsOutside
    <3>4. ASSUME rpc'[Page] = "first" PROVE shown'[Page] \subseteq Drawn
      <4>1. CASE Look(Page)
        <5>1. ~joined[Page] /\ shown'[Page] = published \ {current} /\ wpc[Page] # "out"
          BY <3>4, <4>1 DEF Look, Turned, Inv, TypeOK, Course
        <5>2. at = "read"
          BY <5>1 DEF PageInv
        <5>3. Drawn = Ended
          <6>1. pages # <<>> /\ Drawn = 1 .. Last(pages[1])
            BY <5>2, DrawnIs
          <6> QED BY <5>1, <6>1
        <5>4. PICK e \in Past .. MaxTurns : InTurn(e)
          BY DEF PageInv
        <5>5. ASSUME NEW t \in published, t # current PROVE t \in Ended
          <6>1. t <= current /\ t \in Turns /\ current \in Turns
            BY <5>5 DEF Inv, TypeOK, Known
          <6>2. current <= e + 1
            <7>1. status[current] # "none"
              BY <5>5 DEF Inv, Begun, Known
            <7> QED BY <5>4, <6>1, <7>1, TurnsAssumption DEF InTurn, Turns
          <6>3. t <= e
            BY <5>5, <6>1, <6>2, TurnsAssumption DEF Turns
          <6> QED BY <5>4, <6>1, <6>3 DEF InTurn, Ended
        <5> QED BY <5>1, <5>3, <5>5
      <4>2. CASE FirstLook(Page)
        BY <3>4, <4>2 DEF FirstLook, Turned, Inv, TypeOK
      <4>3. ASSUME NEW c \in Clients, Publish(c) PROVE shown'[Page] \subseteq Drawn
        BY <3>4, <4>3 DEF Publish
      <4>4. CASE /\ rpc'[Page] = "first" <=> rpc[Page] = "first"
                 /\ rpc[Page] = "first" => shown'[Page] = shown[Page]
        BY <3>4, <4>4
      <4> QED BY <2>1, <4>1, <4>2, <4>3, <4>4, SessionStep
    <3> QED BY <2>1, <3>1, <3>3, <3>4
  <2> QED BY <2>2, <2>3
<1> QED BY <1>1, <1>2, <1>3 DEF OpeningNext

\* What NotReplayedIsDrawn says, and the run opening_gap refutes, fails for two reasons
\* only: a turn that ends between the first page of history and the relay's first look,
\* and two sends that publish in the opposite order of their turns, of which the later
\* turn then counts as an earlier one while it runs.
THEOREM MissingOnlySo ==
    OpeningSpec /\ [][EndsOutside /\ Orderly]_allVars => NotReplayedIsDrawn
<1> DEFINE Kept == rpc[Page] = "first" /\ rpc'[Page] # "first" => shown'[Page] \subseteq Drawn
<1>1. OpeningInit => Caught
  BY OpeningAssumption DEF OpeningInit, Init, Caught, Window
<1>2. Inv /\ PageInv /\ Caught /\ [OpeningNext]_allVars => [Kept]_allVars
  <2> SUFFICES ASSUME Inv, PageInv, Caught, OpeningNext,
                      rpc[Page] = "first", rpc'[Page] # "first"
               PROVE  shown'[Page] \subseteq Drawn
    BY DEF allVars
  <2> USE OpeningAssumption
  <2>1. Next
    BY DEF OpeningNext, SessionNext, Load, ReadPage, ReadFails, vars, relayVars
  <2>2. FirstLook(Page)
    <3>1. ~Look(Page) /\ \A c \in Clients : ~Publish(c)
      BY DEF Look, Publish
    <3> QED BY <2>1, <3>1, SessionStep
  <2>3. at = "read" /\ ~joined[Page]
    BY DEF PageInv, Inv, Course
  <2>4. Drawn = Ended
    <3>1. pages # <<>> /\ Drawn = 1 .. Last(pages[1])
      BY <2>3, DrawnIs
    <3> QED BY <2>3, <3>1 DEF Caught, Window
  <2> QED BY <2>2, <2>4 DEF FirstLook, Skipped, Caught, Ended, Inv, TypeOK
<1>3. /\ Inv /\ PageInv /\ Caught
      /\ [OpeningNext]_allVars /\ [EndsOutside /\ Orderly]_allVars
      => Caught'
  BY CaughtStep
<1> QED BY <1>1, <1>2, <1>3, OpeningReached, PTL DEF OpeningSpec, NotReplayedIsDrawn
=============================================================================
