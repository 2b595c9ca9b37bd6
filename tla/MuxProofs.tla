------------------------------ MODULE MuxProofs ------------------------------
(***************************************************************************)
(* One connection, for any conversations, any capacity of its queues and   *)
(* any number of frames.                                                   *)
(***************************************************************************)
EXTENDS SocketMux, SequenceTheorems, FiniteSetTheorems, TLAPS

Types == TypeOK /\ IsFiniteSet(Workers)

\* What a worker has in hand is a frame of its conversation, and so is what it has
\* subscribed for; it unsubscribes only from what it is subscribed to.
Working ==
    \A c \in Convs :
        /\ worker[c] \in {"handle", "send"} => cur[c] \in 1 .. count /\ conv[cur[c]] = c
        /\ worker[c] = "handle" /\ kind[cur[c]] = "unsubscribe" => sub[c] # 0
        /\ worker[c] = "send" /\ answer[c] = "subscribed" => sub[c] = cur[c]
        /\ sub[c] # 0 => sub[c] \in 1 .. count /\ conv[sub[c]] = c

\* A relay speaks for the subscription that is registered, or is cancelled; one that is
\* cancelled has at most the frame it had in hand.
Relays ==
    /\ released \subseteq cancelled
    /\ \A n \in Frames :
          /\ relay[n] # "off" => n \in 1 .. count /\ (n \in cancelled \/ sub[conv[n]] = n)
          /\ relay[n] = "armed" => emitted[n] < MaxEvents
          /\ late[n] <= 1
          /\ late[n] = 1 => n \in released /\ relay[n] # "armed"

Cleaned ==
    reader = "closed" => \A c \in Convs : worker[c] \in {"none", "ended"} /\ sub[c] = 0

\* The frames that are no longer in the reader's hand.
Routed == {n \in 1 .. count : reader = "queue" => n # count}

\* What is queued follows what was handled, in the order of arrival ...
Ordered ==
    /\ reader \in {"queue", "reject"} => count > 0
    /\ reader = "queue" => conv[count] \in Workers
    /\ handled \subseteq Routed
    /\ \A c \in Convs :
          /\ \A i \in DOMAIN queue[c] : queue[c][i] \in Routed /\ conv[queue[c][i]] = c
          /\ \A i, j \in DOMAIN queue[c] : i < j => queue[c][i] < queue[c][j]
          /\ \A n \in handled, i \in DOMAIN queue[c] : conv[n] = c => n < queue[c][i]

\* ... and is all there is: a conversation that has no worker will never have one.
Complete ==
    \A n \in 1 .. count : kind[n] # "unknown" =>
        /\ conv[n] \notin Workers => Cardinality(Workers) >= MaxConversations
        /\ ~ctxDone /\ n \in Routed /\ conv[n] \in Workers =>
              n \in handled \/ \E i \in DOMAIN queue[conv[n]] : queue[conv[n]][i] = n

Inv == Types /\ Working /\ Relays /\ Cleaned /\ Ordered /\ Complete

-----------------------------------------------------------------------------
LEMMA Bounds == /\ 0 \notin Frames
                /\ \A n \in Frames : n \in Nat /\ n # 0
                /\ PendingFrames \in Nat /\ PendingFrames > 0
                /\ Outbound \in Nat /\ Outbound > 0
                /\ MaxConversations \in Nat /\ MaxFrames \in Nat /\ MaxEvents \in Nat
BY CapacityAssumption DEF Frames

LEMMA Longer ==
    ASSUME NEW S, NEW s \in Seq(S), NEW e \in S
    PROVE  /\ Append(s, e) \in Seq(S)
           /\ Len(Append(s, e)) = Len(s) + 1
           /\ DOMAIN Append(s, e) = DOMAIN s \cup {Len(s) + 1}
           /\ \A i \in DOMAIN s : Append(s, e)[i] = s[i] /\ i \in Nat /\ i < Len(s) + 1
           /\ Append(s, e)[Len(s) + 1] = e
OBVIOUS

LEMMA Shorter ==
    ASSUME NEW S, NEW s \in Seq(S), s # <<>>
    PROVE  /\ Head(s) \in S /\ Head(s) = s[1] /\ 1 \in DOMAIN s
           /\ Tail(s) \in Seq(S) /\ Len(Tail(s)) <= Len(s)
           /\ \A i \in DOMAIN Tail(s) : /\ i \in Nat /\ 1 < i + 1
                                        /\ i + 1 \in DOMAIN s /\ Tail(s)[i] = s[i + 1]
           /\ \A i \in DOMAIN s : i = 1 \/ \E j \in DOMAIN Tail(s) : i = j + 1
<1>1. Len(s) \in Nat /\ Len(s) > 0 /\ DOMAIN s = 1 .. Len(s)
  OBVIOUS
<1>2. /\ Tail(s) \in Seq(S) /\ Len(Tail(s)) = Len(s) - 1
      /\ \A i \in 1 .. Len(s) - 1 : Tail(s)[i] = s[i + 1]
  BY <1>1
<1>3. DOMAIN Tail(s) = 1 .. Len(s) - 1
  BY <1>2
<1>4. \A i \in DOMAIN s : i = 1 \/ (i - 1 \in DOMAIN Tail(s) /\ i = (i - 1) + 1)
  BY <1>1, <1>3
<1> QED BY <1>1, <1>2, <1>3, <1>4

LEMMA InvStart == Init => Inv
<1> SUFFICES ASSUME Init PROVE Inv
  OBVIOUS
<1>1. Workers = {} /\ IsFiniteSet(Workers) /\ Cardinality(Workers) = 0
  BY FS_EmptySet DEF Init, Workers
<1>2. Types
  <2>1. Len(conv) = 0 /\ Len(kind) = 0 /\ conv \in Seq(Convs) /\ kind \in Seq(Kinds)
    BY DEF Init
  <2>2. queue \in [Convs -> Seq(Frames)] /\ \A c \in Convs : Len(queue[c]) <= PendingFrames
    BY Bounds DEF Init
  <2>3. emitted \in [Frames -> 0 .. MaxEvents] /\ late \in [Frames -> Nat]
    BY Bounds DEF Init
  <2>4. count \in 0 .. MaxFrames /\ outbound \in 0 .. Outbound
    BY Bounds DEF Init
  <2>5. Cardinality(Workers) <= MaxConversations
    BY <1>1, Bounds
  <2>6. Len(conv) = count /\ Len(kind) = count
    BY <2>1 DEF Init
  <2> HIDE DEF Workers
  <2> QED BY <1>1, <2>1, <2>2, <2>3, <2>4, <2>5, <2>6 DEF Init, Types, TypeOK
<1>3. Working /\ Relays /\ Cleaned /\ Ordered /\ Complete
  BY Bounds DEF Init, Working, Relays, Cleaned, Ordered, Complete, Routed
<1> QED BY <1>2, <1>3 DEF Inv

\* The reader reads a frame.
LEMMA ReadStep ==
    ASSUME NEW c \in Convs, NEW k \in Kinds, Inv, Read(c, k)
    PROVE  Inv'
<1>1. /\ count \in Nat /\ count' = count + 1 /\ count' \in 1 .. MaxFrames
      /\ conv \in Seq(Convs) /\ kind \in Seq(Kinds) /\ Len(conv) = count /\ Len(kind) = count
  BY Bounds DEF Read, Inv, Types, TypeOK
<1>2. /\ conv' \in Seq(Convs) /\ kind' \in Seq(Kinds)
      /\ Len(conv') = count' /\ Len(kind') = count'
      /\ conv'[count'] = c /\ kind'[count'] = k
      /\ \A n \in 1 .. count : conv'[n] = conv[n] /\ kind'[n] = kind[n]
  BY <1>1, AppendProperties DEF Read
<1>3. /\ reader = "read"
      /\ UNCHANGED <<queue, cur, answer, handled, sub, cancelled, relay, emitted, late,
                     outbound, writer, ctxDone, released>>
  BY DEF Read, subVars, relayVars
<1>4. \/ /\ reader' = "reject" /\ worker' = worker /\ Workers' = Workers
         /\ k # "unknown" => c \notin Workers /\ ~(Cardinality(Workers) < MaxConversations)
      \/ /\ reader' = "queue" /\ worker' = worker /\ Workers' = Workers /\ c \in Workers
      \/ /\ reader' = "queue" /\ c \notin Workers /\ worker' = [worker EXCEPT ![c] = "serve"]
         /\ Cardinality(Workers) < MaxConversations
         /\ Workers' = Workers \cup {c}
  BY DEF Read, Workers, Inv, Types, TypeOK
<1>5. /\ IsFiniteSet(Workers') /\ Cardinality(Workers') <= MaxConversations
      /\ Cardinality(Workers') \in Nat /\ Cardinality(Workers) \in Nat
      /\ Cardinality(Workers') >= Cardinality(Workers)
  <2>1. IsFiniteSet(Workers) /\ Cardinality(Workers) <= MaxConversations
    BY DEF Inv, Types, TypeOK
  <2>2. Cardinality(Workers) \in Nat
    BY <2>1, FS_CardinalityType
  <2>3. CASE Workers' = Workers
    BY <2>1, <2>2, <2>3
  <2>4. CASE /\ c \notin Workers /\ Workers' = Workers \cup {c}
             /\ Cardinality(Workers) < MaxConversations
    <3>1. IsFiniteSet(Workers') /\ Cardinality(Workers') = Cardinality(Workers) + 1
      BY <2>1, <2>4, FS_AddElement
    <3> QED BY <2>2, <2>4, <3>1, Bounds
  <2> QED BY <1>4, <2>3, <2>4
<1>6. Types'
  BY <1>1, <1>2, <1>3, <1>4, <1>5 DEF Inv, Types, TypeOK
<1>7. Working' /\ Relays' /\ Cleaned'
  BY <1>1, <1>2, <1>3, <1>4, Bounds
     DEF Inv, Types, TypeOK, Working, Relays, Cleaned, Workers
<1>8. Routed' = Routed \cup (IF reader' = "queue" THEN {} ELSE {count'})
  BY <1>1, <1>3, <1>4 DEF Routed
<1>9. Routed = 1 .. count
  BY <1>3 DEF Routed
<1>10. Ordered'
  BY <1>1, <1>2, <1>3, <1>4, <1>8, <1>9 DEF Inv, Types, TypeOK, Ordered
<1>11. Complete'
  BY <1>1, <1>2, <1>3, <1>4, <1>5, <1>8, <1>9, Bounds DEF Inv, Types, TypeOK, Complete
<1> QED BY <1>6, <1>7, <1>10, <1>11 DEF Inv

\* What does not change the frames, the workers or their queues.
LEMMA QueuesKept ==
    ASSUME Inv, UNCHANGED <<readVars, workerVars, reader>>,
           ctxDone' \in {ctxDone, TRUE}
    PROVE  Ordered' /\ Complete' /\ IsFiniteSet(Workers')
           /\ Cardinality(Workers') <= MaxConversations
<1>1. Workers' = Workers /\ Routed' = Routed
  BY DEF Workers, Routed, readVars, workerVars
<1> QED BY <1>1 DEF Inv, Types, TypeOK, Ordered, Complete, readVars, workerVars

LEMMA WriterStep == ASSUME Inv, Write \/ WriterLeaves PROVE Inv'
<1>1. Ordered' /\ Complete' /\ IsFiniteSet(Workers') /\ Cardinality(Workers') <= MaxConversations
  <2>1. UNCHANGED <<readVars, workerVars, reader>> /\ ctxDone' \in {ctxDone, TRUE}
    BY DEF Write, WriterLeaves
  <2> QED BY <2>1, QueuesKept
<1>2. outbound' \in 0 .. Outbound
  BY Bounds DEF Write, WriterLeaves, Inv, Types, TypeOK
<1> USE <1>1, <1>2
    DEF Inv, Types, TypeOK, Working, Relays, Cleaned, readVars, workerVars, subVars, relayVars
<1>3. CASE Write
  BY <1>3 DEF Write
<1>4. CASE WriterLeaves
  BY <1>4 DEF WriterLeaves
<1> QED BY <1>3, <1>4

LEMMA RelayStep == ASSUME NEW n \in Frames, Inv, Relaying(n) PROVE Inv'
<1>1. Ordered' /\ Complete' /\ IsFiniteSet(Workers') /\ Cardinality(Workers') <= MaxConversations
  <2>1. UNCHANGED <<readVars, workerVars, reader>> /\ ctxDone' \in {ctxDone, TRUE}
    BY DEF Relaying, Arm, Emit, RelayEnds
  <2> QED BY <2>1, QueuesKept
<1> USE <1>1, Bounds
    DEF Inv, Types, TypeOK, Working, Relays, Cleaned, readVars, workerVars, subVars, relayVars
<1>2. CASE Arm(n)
  BY <1>2 DEF Arm, Over
<1>3. CASE Emit(n)
  BY <1>3 DEF Emit, Put
<1>4. CASE RelayEnds(n)
  BY <1>4 DEF RelayEnds
<1> QED BY <1>2, <1>3, <1>4 DEF Relaying

\* The reader passes a frame on, or stops.
LEMMA RejectStep == ASSUME Inv, Reject PROVE Inv'
<1>1. UNCHANGED <<readVars, workerVars, subVars, relayVars, writer, ctxDone, released>>
  BY DEF Reject
<1>2. reader = "reject" /\ reader' = "read" /\ outbound' \in 0 .. Outbound
  BY Bounds DEF Reject, Put, Inv, Types, TypeOK
<1>3. Workers' = Workers /\ Routed' = Routed
  BY <1>1, <1>2 DEF Workers, Routed, readVars, workerVars
<1> QED
  BY <1>1, <1>2, <1>3
     DEF Inv, Types, TypeOK, Working, Relays, Cleaned, Ordered, Complete,
         readVars, workerVars, subVars, relayVars

LEMMA EnqueueStep == ASSUME Inv, Enqueue PROVE Inv'
<1>1. PICK c \in Convs : c = conv[count]
  BY Bounds DEF Enqueue, Inv, Types, TypeOK, Ordered
<1>2. /\ reader = "queue" /\ reader' = "read"
      /\ Len(queue[c]) < PendingFrames
      /\ queue' = [queue EXCEPT ![c] = Append(queue[c], count)]
      /\ UNCHANGED <<readVars, worker, cur, answer, handled, subVars, relayVars,
                     outbound, writer, ctxDone, released>>
  BY <1>1 DEF Enqueue, Room
<1>3. count \in Frames /\ count \in Nat /\ queue[c] \in Seq(Frames)
  BY <1>2 DEF Inv, Types, TypeOK, Ordered, Frames
<1> DEFINE longer == Append(queue[c], count)
<1>4. /\ longer \in Seq(Frames)
      /\ Len(longer) = Len(queue[c]) + 1
      /\ DOMAIN longer = DOMAIN queue[c] \cup {Len(queue[c]) + 1}
      /\ \A i \in DOMAIN queue[c] : longer[i] = queue[c][i] /\ i \in Nat /\ i < Len(queue[c]) + 1
      /\ longer[Len(queue[c]) + 1] = count
  BY <1>3, Longer
<1>5. Len(longer) <= PendingFrames
  BY <1>2, <1>3, <1>4, Bounds
<1>6. queue' = [queue EXCEPT ![c] = longer]
  BY <1>2
<1> HIDE DEF longer
<1>7. Workers' = Workers /\ Routed = 1 .. count - 1 /\ Routed' = 1 .. count
  BY <1>2, <1>3 DEF Workers, Routed, readVars
<1>8. Types' /\ Working' /\ Relays' /\ Cleaned'
  BY <1>2, <1>4, <1>5, <1>6, <1>7
     DEF Inv, Types, TypeOK, Working, Relays, Cleaned, readVars, subVars, relayVars
<1>9. Ordered'
  <2>1. \A i \in DOMAIN longer : longer[i] \in 1 .. count /\ conv[longer[i]] = c
    BY <1>1, <1>2, <1>3, <1>4, <1>7 DEF Inv, Ordered
  <2>2. \A i, j \in DOMAIN longer : i < j => longer[i] < longer[j]
    <3>1. \A i \in DOMAIN queue[c] : queue[c][i] \in Nat /\ queue[c][i] < count
      BY <1>3, <1>7 DEF Inv, Ordered
    <3>2. \A i \in DOMAIN queue[c] : ~(Len(queue[c]) + 1 < i)
      BY <1>4
    <3>3. Len(queue[c]) + 1 \in Nat
      BY <1>3
    <3> QED BY <1>4, <3>1, <3>2, <3>3 DEF Inv, Ordered
  <2>3. \A n \in handled, i \in DOMAIN longer : conv[n] = c => n < longer[i]
    BY <1>3, <1>4, <1>7 DEF Inv, Ordered
  <2>4. Routed \subseteq Routed'
    BY <1>3, <1>7
  <2>5. /\ queue'[c] = longer
        /\ \A d \in Convs \ {c} : queue'[d] = queue[d]
    BY <1>6 DEF Inv, Types, TypeOK
  <2>6. UNCHANGED <<conv, count, handled>>
    BY <1>2 DEF readVars
  <2> QED BY <1>2, <1>7, <2>1, <2>2, <2>3, <2>4, <2>5, <2>6 DEF Inv, Ordered
<1>10. Complete'
  BY <1>1, <1>2, <1>3, <1>4, <1>6, <1>7 DEF Inv, Types, TypeOK, Complete, readVars
<1> QED BY <1>8, <1>9, <1>10 DEF Inv

LEMMA StopStep == ASSUME Inv, EnqueueCancelled \/ ReadFails \/ Close PROVE Inv'
<1>1. UNCHANGED <<readVars, workerVars, relayVars, outbound, writer, released>>
  BY DEF EnqueueCancelled, ReadFails, Close
<1>2. Workers' = Workers
  BY <1>1 DEF Workers, workerVars
<1>3. CASE EnqueueCancelled \/ ReadFails
  <2>1. /\ reader \in {"queue", "read"} /\ reader' \in {"read", "wait"}
        /\ reader = "queue" => ctxDone
        /\ ctxDone' \in {ctxDone, TRUE}
        /\ UNCHANGED <<sub, cancelled>>
    BY <1>3 DEF EnqueueCancelled, ReadFails, subVars
  <2>2. Routed \subseteq Routed' /\ Routed' = 1 .. count
    BY <1>1, <2>1 DEF Routed, readVars
  <2>3. Types' /\ Working' /\ Relays' /\ Cleaned'
    BY <1>1, <1>2, <2>1
       DEF Inv, Types, TypeOK, Working, Relays, Cleaned, readVars, workerVars, relayVars
  <2>4. Ordered'
    BY <1>1, <1>2, <2>1, <2>2
       DEF Inv, Types, TypeOK, Ordered, readVars, workerVars
  <2>5. Complete'
    <3>1. CASE reader = "queue"
      <4>1. ctxDone' = TRUE
        BY <2>1, <3>1 DEF Inv, Types, TypeOK
      <4> QED BY <1>1, <1>2, <4>1 DEF Inv, Complete, readVars, workerVars
    <3>2. CASE reader = "read"
      <4>1. Routed = 1 .. count
        BY <3>2 DEF Routed
      <4> QED BY <1>1, <1>2, <2>1, <2>2, <4>1 DEF Inv, Types, TypeOK, Complete, readVars, workerVars
    <3> QED BY <2>1, <3>1, <3>2
  <2> QED BY <2>3, <2>4, <2>5 DEF Inv
<1>4. CASE Close
  <2>1. /\ reader = "wait" /\ reader' = "closed" /\ ctxDone' = ctxDone
        /\ sub' = [c \in Convs |-> 0]
        /\ \A c \in Convs : sub[c] # 0 => sub[c] \in cancelled'
        /\ cancelled \subseteq cancelled'
    BY <1>4 DEF Close
  <2>2. cancelled' \subseteq Frames
    <3>1. \A c \in Convs : sub[c] # 0 => sub[c] \in Frames
      BY DEF Inv, Types, TypeOK
    <3>2. cancelled \subseteq Frames
      BY DEF Inv, Types, TypeOK
    <3> QED BY <1>4, <3>1, <3>2 DEF Close
  <2>3. Cleaned'
    BY <1>1, <1>4, <2>1 DEF Close, Drained, Workers, Cleaned, workerVars
  <2>4. Types'
    BY <1>1, <1>2, <2>1, <2>2
       DEF Inv, Types, TypeOK, readVars, workerVars, relayVars
  <2>5. Working'
    BY <1>1, <1>4, <2>1 DEF Close, Drained, Workers, Working, workerVars
  <2>6. \A n \in 1 .. count : conv[n] \in Convs
    BY DEF Inv, Types, TypeOK
  <2>7. Relays'
    BY <1>1, <2>1, <2>6, Bounds DEF Inv, Relays, readVars, relayVars
  <2>8. Routed' = Routed
    BY <1>1, <2>1 DEF Routed, readVars
  <2>9. Ordered' /\ Complete'
    BY <1>1, <1>2, <2>1, <2>8 DEF Inv, Types, TypeOK, Ordered, Complete, readVars, workerVars
  <2> QED BY <2>3, <2>4, <2>5, <2>7, <2>9 DEF Inv
<1> QED BY <1>3, <1>4

\* A worker takes a frame, asks the daemon and answers.
LEMMA TakeStep == ASSUME NEW c \in Convs, Inv, Take(c) PROVE Inv'
<1> DEFINE n == Head(queue[c])
           rest == Tail(queue[c])
<1>1. /\ queue[c] \in Seq(Frames) /\ queue[c] # <<>>
      /\ Len(queue[c]) \in Nat /\ Len(queue[c]) <= PendingFrames
  BY DEF Take, Inv, Types, TypeOK
<1>2. /\ n \in Frames /\ n = queue[c][1] /\ 1 \in DOMAIN queue[c]
      /\ rest \in Seq(Frames) /\ Len(rest) \in Nat /\ Len(rest) <= Len(queue[c])
      /\ \A i \in DOMAIN rest : /\ i \in Nat /\ 1 < i + 1
                                /\ i + 1 \in DOMAIN queue[c] /\ rest[i] = queue[c][i + 1]
      /\ \A i \in DOMAIN queue[c] : i = 1 \/ \E j \in DOMAIN rest : i = j + 1
  BY <1>1, Shorter
<1>3. Len(rest) <= PendingFrames
  BY <1>1, <1>2, Bounds
<1>4. /\ worker[c] = "serve"
      /\ queue' = [queue EXCEPT ![c] = rest]
      /\ handled' = handled \cup {n}
      /\ UNCHANGED <<readVars, reader, answer, subVars, relayVars, outbound, writer,
                     ctxDone, released>>
  BY DEF Take
<1>5. \/ /\ worker' = worker /\ cur' = [cur EXCEPT ![c] = 0]
      \/ /\ worker' = [worker EXCEPT ![c] = "handle"] /\ cur' = [cur EXCEPT ![c] = n]
         /\ kind[n] = "unsubscribe" => sub[c] # 0
  BY DEF Take, Inv, Types, TypeOK
<1> HIDE DEF n, rest
<1>6. Workers' = Workers /\ Routed' = Routed
  BY <1>4, <1>5 DEF Workers, Routed, Inv, Types, TypeOK, readVars
<1>7. n \in Routed /\ conv[n] = c /\ n \in 1 .. count
  BY <1>2 DEF Inv, Ordered, Routed
<1>8. Types'
  BY <1>2, <1>3, <1>4, <1>5, <1>6, Bounds
     DEF Inv, Types, TypeOK, readVars, subVars, relayVars
<1>9. Relays' /\ Cleaned'
  BY <1>4, <1>5 DEF Inv, Types, TypeOK, Relays, Cleaned, readVars, subVars, relayVars
<1>10. Working'
  <2>1. CASE worker' = worker /\ cur' = [cur EXCEPT ![c] = 0]
    BY <1>4, <2>1 DEF Inv, Types, TypeOK, Working, readVars, subVars
  <2>2. CASE /\ worker' = [worker EXCEPT ![c] = "handle"] /\ cur' = [cur EXCEPT ![c] = n]
             /\ kind[n] = "unsubscribe" => sub[c] # 0
    BY <1>4, <1>7, <2>2 DEF Inv, Types, TypeOK, Working, readVars, subVars
  <2> QED BY <1>5, <2>1, <2>2
<1>11. Ordered'
  <2>1. \A i \in DOMAIN rest : rest[i] \in Routed /\ conv[rest[i]] = c /\ n < rest[i]
    BY <1>2 DEF Inv, Ordered
  <2>2. \A i, j \in DOMAIN rest : i < j => rest[i] < rest[j]
    BY <1>2 DEF Inv, Ordered
  <2>3. \A m \in handled, i \in DOMAIN rest : conv[m] = c => m < rest[i]
    BY <1>2 DEF Inv, Ordered
  <2> QED BY <1>4, <1>6, <1>7, <2>1, <2>2, <2>3 DEF Inv, Types, TypeOK, Ordered, readVars
<1>12. Complete'
  <2>1. \A i \in DOMAIN queue[c] : queue[c][i] = n \/ \E j \in DOMAIN rest : rest[j] = queue[c][i]
    BY <1>2
  <2>2. queue'[c] = rest /\ \A d \in Convs \ {c} : queue'[d] = queue[d]
    BY <1>4 DEF Inv, Types, TypeOK
  <2>3. UNCHANGED <<conv, kind, count, ctxDone>> /\ handled' = handled \cup {n}
    BY <1>4 DEF readVars
  <2>4. \A m \in 1 .. count : conv[m] \in Convs
    BY DEF Inv, Types, TypeOK
  <2> QED BY <1>6, <2>1, <2>2, <2>3, <2>4 DEF Inv, Complete
<1> QED BY <1>8, <1>9, <1>10, <1>11, <1>12 DEF Inv

LEMMA HandleStep ==
    ASSUME NEW c \in Convs, Inv,
           \/ ServeEnds(c) \/ Registers(c) \/ Answers(c) \/ Unanswered(c)
           \/ Unregisters(c) \/ Answered(c)
    PROVE  Inv'
<1>1. /\ UNCHANGED <<readVars, reader, queue, handled, writer, ctxDone>>
      /\ worker[c] \in {"serve", "handle", "send"}
      /\ \E to \in {"serve", "send", "ended"} : worker' = [worker EXCEPT ![c] = to]
  BY DEF ServeEnds, Registers, Answers, Unanswered, Unregisters, Answered, Decide
<1>2. Workers' = Workers /\ Routed' = Routed
  BY <1>1 DEF Workers, Routed, readVars, Inv, Types, TypeOK
<1>3. Ordered' /\ Complete' /\ IsFiniteSet(Workers') /\ Cardinality(Workers') <= MaxConversations
  BY <1>1, <1>2 DEF Inv, Types, TypeOK, Ordered, Complete, readVars
<1>4. conv' = conv /\ kind' = kind /\ count' = count /\ reader' = reader /\ worker[c] # "ended"
      /\ queue' = queue /\ handled' = handled
  BY <1>1 DEF readVars
<1>5. Cleaned'
  BY <1>1, <1>4 DEF Inv, Cleaned
<1> USE <1>4, Bounds DEF Inv, Types, TypeOK, Working, Relays, subVars, relayVars
<1>6. CASE ServeEnds(c)
  BY <1>3, <1>5, <1>6 DEF ServeEnds
<1>7. CASE Registers(c)
  <2>1. /\ worker[c] = "handle" /\ sub[c] = 0
        /\ sub' = [sub EXCEPT ![c] = cur[c]]
        /\ worker' = [worker EXCEPT ![c] = "send"]
        /\ answer' = [answer EXCEPT ![c] = "subscribed"]
        /\ UNCHANGED <<cur, relay, emitted, late, outbound, writer, ctxDone, released, cancelled>>
    BY <1>7 DEF Registers, Decide
  <2>2. Types'
    BY <1>3, <2>1
  <2>3. Working'
    BY <2>1
  <2>4. Relays'
    BY <2>1
  <2> QED BY <1>3, <1>5, <2>2, <2>3, <2>4
<1>8. CASE Answers(c)
  <2>1. /\ worker[c] = "handle"
        /\ worker' = [worker EXCEPT ![c] = "send"]
        /\ answer' = [answer EXCEPT ![c] = "other"]
        /\ UNCHANGED <<sub, cur, relay, emitted, late, outbound, writer, ctxDone, released,
                       cancelled>>
    BY <1>8 DEF Answers, Decide
  <2>2. Types' /\ Working' /\ Relays'
    BY <1>3, <2>1
  <2> QED BY <1>3, <1>5, <2>2
<1>11. CASE Unanswered(c)
  <2>1. /\ worker[c] = "handle"
        /\ worker' = [worker EXCEPT ![c] = "serve"]
        /\ cur' = [cur EXCEPT ![c] = 0]
        /\ UNCHANGED <<sub, answer, relay, emitted, late, outbound, writer, ctxDone, released,
                       cancelled>>
    BY <1>11 DEF Unanswered
  <2>2. Types'
    BY <1>3, <2>1
  <2>3. Working'
    BY <2>1
  <2>4. Relays'
    BY <2>1
  <2> QED BY <1>3, <1>5, <2>2, <2>3, <2>4
<1>9. CASE Unregisters(c)
  <2>1. /\ worker[c] = "handle" /\ kind[cur[c]] = "unsubscribe"
        /\ sub' = [sub EXCEPT ![c] = 0]
        /\ cancelled' = cancelled \cup {sub[c]}
        /\ worker' = [worker EXCEPT ![c] = "send"]
        /\ answer' = [answer EXCEPT ![c] = "unsubscribed"]
        /\ UNCHANGED <<cur, relay, emitted, late, outbound, writer, ctxDone, released>>
    BY <1>9 DEF Unregisters, CancelSub
  <2>2. Types'
    <3>1. sub[c] \in Frames
      BY <2>1
    <3> QED BY <1>3, <2>1, <3>1
  <2>3. Working'
    BY <2>1
  <2>4. Relays'
    BY <2>1
  <2> QED BY <1>3, <1>5, <2>2, <2>3, <2>4
<1>10. CASE Answered(c)
  <2>1. /\ worker[c] = "send"
        /\ worker' = [worker EXCEPT ![c] = "serve"]
        /\ cur' = [cur EXCEPT ![c] = 0]
        /\ answer' = [answer EXCEPT ![c] = "none"]
        /\ outbound' \in 0 .. Outbound
        /\ relay' = [n \in Frames |-> IF answer[c] = "subscribed" /\ n = cur[c]
                                      THEN "idle" ELSE relay[n]]
        /\ released \subseteq released' /\ released' \subseteq released \cup cancelled
        /\ UNCHANGED <<sub, emitted, late, writer, ctxDone, cancelled>>
    BY <1>10 DEF Answered, Put
  <2>2. Types'
    BY <1>3, <2>1
  <2>3. Working'
    BY <2>1
  <2>4. Relays'
    BY <2>1
  <2> QED BY <1>3, <1>5, <2>2, <2>3, <2>4
<1> QED BY <1>6, <1>7, <1>8, <1>9, <1>10, <1>11

LEMMA InvStep == Inv /\ [Next]_vars => Inv'
<1> SUFFICES ASSUME Inv, [Next]_vars PROVE Inv'
  OBVIOUS
<1>1. CASE UNCHANGED vars
  <2>1. UNCHANGED <<readVars, workerVars, reader>> /\ ctxDone' \in {ctxDone, TRUE}
    BY <1>1 DEF vars
  <2> QED
    BY <1>1, <2>1, QueuesKept
       DEF vars, Inv, Types, TypeOK, Working, Relays, Cleaned,
           readVars, workerVars, subVars, relayVars
<1> QED BY <1>1, ReadStep, WriterStep, RelayStep, RejectStep, EnqueueStep, StopStep,
           TakeStep, HandleStep
        DEF Next, Dispatching, Serving

LEMMA Reached == Spec => []Inv
BY InvStart, InvStep, PTL DEF Spec

-----------------------------------------------------------------------------
\* Every variable has its type; no queue holds more than it may.
THEOREM MuxTyping == Spec => []TypeOK
<1>1. Inv => TypeOK
  BY DEF Inv, Types
<1> QED BY <1>1, Reached, PTL

\* Each conversation's frames are handled in their order of arrival, and while the
\* connection lives none of them is lost.
THEOREM HandledInOrder == Spec => []InOrder
<1>1. ASSUME Inv, NEW c \in Convs
      PROVE  /\ \A i, j \in DOMAIN Pending(c) : i < j => Pending(c)[i] < Pending(c)[j]
             /\ \A n \in handled, i \in DOMAIN Pending(c) : conv[n] = c => n < Pending(c)[i]
             /\ \A n \in 1 .. count :
                   ~ctxDone /\ conv[n] = c /\ kind[n] # "unknown" /\ c \in Workers =>
                      n \in handled \/ \E i \in DOMAIN Pending(c) : Pending(c)[i] = n
  <2>1. queue[c] \in Seq(Frames) /\ count \in Nat
    BY <1>1 DEF Inv, Types, TypeOK
  <2>2. \A n \in 1 .. count : ~ctxDone /\ conv[n] = c /\ kind[n] # "unknown" /\ c \in Workers =>
           \/ n \in handled
           \/ \E i \in DOMAIN queue[c] : queue[c][i] = n
           \/ reader = "queue" /\ n = count
    BY <1>1 DEF Inv, Complete, Routed
  <2>3. CASE reader = "queue" /\ conv[count] = c
    <3>1. count \in Frames
      BY <1>1, <2>3 DEF Inv, Types, TypeOK, Ordered, Frames
    <3> DEFINE all == Append(queue[c], count)
    <3>2. Pending(c) = all
      BY <2>1, <2>3, <3>1 DEF Pending
    <3>3. /\ DOMAIN all = DOMAIN queue[c] \cup {Len(queue[c]) + 1}
          /\ \A i \in DOMAIN queue[c] : /\ all[i] = queue[c][i]
                                        /\ i \in Nat /\ i < Len(queue[c]) + 1
          /\ all[Len(queue[c]) + 1] = count
      BY <2>1, <3>1, Longer
    <3> HIDE DEF all
    <3>4. \A n \in Routed : n \in Nat /\ n < count
      BY <2>1, <2>3 DEF Routed
    <3>5. Len(queue[c]) + 1 \in Nat /\ \A i \in DOMAIN queue[c] : ~(Len(queue[c]) + 1 < i)
      BY <2>1, <3>3
    <3>6. \A i, j \in DOMAIN all : i < j => all[i] < all[j]
      BY <1>1, <3>3, <3>4, <3>5 DEF Inv, Ordered
    <3>7. \A n \in handled, i \in DOMAIN all : conv[n] = c => n < all[i]
      BY <1>1, <3>3, <3>4 DEF Inv, Ordered
    <3>8. \A n \in 1 .. count : ~ctxDone /\ conv[n] = c /\ kind[n] # "unknown" /\ c \in Workers =>
             n \in handled \/ \E i \in DOMAIN all : all[i] = n
      BY <2>2, <3>3
    <3> QED BY <3>2, <3>6, <3>7, <3>8, Zenon
  <2>4. CASE ~(reader = "queue" /\ conv[count] = c)
    <3>1. Pending(c) = queue[c]
      BY <2>1, <2>4, ConcatEmptySeq DEF Pending
    <3>2. \A n \in 1 .. count : ~ctxDone /\ conv[n] = c /\ kind[n] # "unknown" /\ c \in Workers =>
             n \in handled \/ \E i \in DOMAIN queue[c] : queue[c][i] = n
      BY <2>2, <2>4
    <3>3. /\ \A i, j \in DOMAIN queue[c] : i < j => queue[c][i] < queue[c][j]
          /\ \A n \in handled, i \in DOMAIN queue[c] : conv[n] = c => n < queue[c][i]
      BY <1>1 DEF Inv, Ordered
    <3> QED BY <3>1, <3>2, <3>3, Zenon
  <2> QED BY <2>3, <2>4
<1>2. Inv => InOrder
  BY <1>1 DEF InOrder
<1> QED BY <1>2, Reached, PTL

\* One relay at most speaks for a conversation.
THEOREM OneSpeaks == Spec => []OneRelay
<1>1. Inv => OneRelay
  BY DEF Inv, Relays, OneRelay
<1> QED BY <1>1, Reached, PTL

\* A subscription that was acknowledged as ended adds one frame at most.
THEOREM LateOnce == Spec => []OneLateFrame
<1>1. Inv => OneLateFrame
  BY DEF Inv, Relays, OneLateFrame
<1> QED BY <1>1, Reached, PTL

\* A closed connection has no worker at work and no subscription, and whatever relay
\* has still to return is cancelled.
THEOREM LeftClean == Spec => []ClosedClean
<1>1. Inv => ClosedClean
  <2> SUFFICES ASSUME Inv, reader = "closed" PROVE ClosedClean
    BY DEF ClosedClean
  <2>1. \A c \in Convs : worker[c] \in {"none", "ended"} /\ sub[c] = 0
    BY DEF Inv, Cleaned
  <2>2. \A n \in Frames : relay[n] # "off" => conv[n] \in Convs /\ n # 0
    BY Bounds DEF Inv, Types, TypeOK, Relays
  <2> QED BY <2>1, <2>2 DEF Inv, Relays, ClosedClean
<1> QED BY <1>1, Reached, PTL
-----------------------------------------------------------------------------
(* Nobody waits in a circle. *)

\* Who has left has cancelled the connection, and a worker is only given what it can
\* handle.
Leaving ==
    /\ writer = "left" \/ reader \in {"wait", "closed"} => ctxDone
    /\ \A c \in Convs : worker[c] = "ended" => ctxDone

Routable ==
    /\ reader = "queue" => kind[count] # "unknown"
    /\ \A c \in Convs :
          /\ \A i \in DOMAIN queue[c] : kind[queue[c][i]] # "unknown"
          /\ worker[c] = "handle" => kind[cur[c]] # "unknown"

\* As long as the connection lives, whoever keeps the reader waiting can take a step,
\* or the writer can take one that makes room: the reader's frame has a place, or
\* its worker has one to take, or is asking the daemon, or has an answer to queue
\* in a channel that has room or is being emptied.
NoCircle ==
    reader = "queue" /\ ~ctxDone =>
        LET c == conv[count]
        IN  \/ Room(c)
            \/ worker[c] = "serve" /\ queue[c] # <<>>
            \/ /\ worker[c] = "handle"
               /\ \/ kind[cur[c]] \in {"subscribe", "message"}
                  \/ kind[cur[c]] = "unsubscribe" /\ sub[c] # 0
            \/ /\ worker[c] = "send"
               /\ outbound < Outbound \/ (writer = "run" /\ outbound > 0)

LEMMA LeavingStep == Inv /\ Leaving /\ [Next]_vars => Leaving'
<1> SUFFICES ASSUME Inv, Leaving, [Next]_vars PROVE Leaving'
  OBVIOUS
<1> USE DEF Leaving, Inv, Types, TypeOK, readVars, workerVars, subVars, relayVars
<1>1. ASSUME NEW c \in Convs, NEW k \in Kinds, Read(c, k) PROVE Leaving'
  BY <1>1 DEF Read
<1>2. CASE Dispatching \/ ReadFails \/ Close
  BY <1>2 DEF Dispatching, Reject, Enqueue, EnqueueCancelled, ReadFails, Close
<1>3. ASSUME NEW c \in Convs, Serving(c) PROVE Leaving'
  BY <1>3 DEF Serving, Take, ServeEnds, Registers, Answers, Unanswered, Unregisters, Answered, Decide
<1>4. ASSUME NEW n \in Frames, Relaying(n) PROVE Leaving'
  BY <1>4 DEF Relaying, Arm, Emit, RelayEnds
<1>5. CASE Write \/ WriterLeaves
  BY <1>5 DEF Write, WriterLeaves
<1>6. CASE UNCHANGED vars
  BY <1>6 DEF vars
<1> QED BY <1>1, <1>2, <1>3, <1>4, <1>5, <1>6 DEF Next

LEMMA RoutableStep == Inv /\ Routable /\ [Next]_vars => Routable'
<1> SUFFICES ASSUME Inv, Routable, [Next]_vars PROVE Routable'
  OBVIOUS
<1> USE DEF Routable, readVars, workerVars, subVars, relayVars
<1>0. /\ \A c \in Convs : /\ queue[c] \in Seq(Frames)
                          /\ \A i \in DOMAIN queue[c] : queue[c][i] \in 1 .. count
                          /\ worker[c] = "handle" => cur[c] \in 1 .. count
      /\ worker \in [Convs -> {"none", "serve", "handle", "send", "ended"}]
      /\ queue \in [Convs -> Seq(Frames)] /\ cur \in [Convs -> Frames \cup {0}]
      /\ count \in Nat /\ kind \in Seq(Kinds) /\ Len(kind) = count
  BY DEF Inv, Types, TypeOK, Working, Ordered, Routed
<1>1. ASSUME NEW c \in Convs, NEW k \in Kinds, Read(c, k) PROVE Routable'
  <2>1. /\ \A n \in 1 .. count : kind'[n] = kind[n]
        /\ count' = count + 1 /\ kind'[count'] = k
    BY <1>0, <1>1, AppendProperties DEF Read
  <2>2. reader' = "queue" => k # "unknown"
    BY <1>1 DEF Read
  <2>3. \A d \in Convs : worker'[d] = "handle" => worker[d] = "handle"
    BY <1>0, <1>1 DEF Read
  <2>4. UNCHANGED <<queue, cur>>
    BY <1>1 DEF Read
  <2> QED BY <1>0, <2>1, <2>2, <2>3, <2>4
<1>2. CASE Enqueue
  <2>1. PICK c \in Convs : c = conv[count]
    BY <1>2, Bounds DEF Enqueue, Inv, Types, TypeOK, Ordered
  <2>2. /\ queue' = [queue EXCEPT ![c] = Append(queue[c], count)]
        /\ reader = "queue" /\ reader' = "read"
        /\ UNCHANGED <<kind, count, worker, cur>>
    BY <1>2, <2>1 DEF Enqueue
  <2>3. count \in Frames
    BY <1>2 DEF Enqueue, Inv, Types, TypeOK, Ordered, Frames
  <2>4. \A i \in DOMAIN Append(queue[c], count) : kind[Append(queue[c], count)[i]] # "unknown"
    BY <1>0, <2>2, <2>3, Longer
  <2> QED BY <1>0, <2>2, <2>4
<1>3. CASE Reject \/ EnqueueCancelled \/ ReadFails \/ Close
  BY <1>3 DEF Reject, EnqueueCancelled, ReadFails, Close
<1>4. ASSUME NEW c \in Convs, Take(c) PROVE Routable'
  <2>1. /\ queue' = [queue EXCEPT ![c] = Tail(queue[c])]
        /\ cur'[c] = Head(queue[c]) \/ worker'[c] = "serve"
        /\ \A d \in Convs \ {c} : cur'[d] = cur[d] /\ worker'[d] = worker[d]
        /\ queue[c] # <<>>
        /\ UNCHANGED <<kind, count, reader>>
    BY <1>0, <1>4 DEF Take
  <2>2. /\ kind[Head(queue[c])] # "unknown"
        /\ \A i \in DOMAIN Tail(queue[c]) : kind[Tail(queue[c])[i]] # "unknown"
    BY <1>0, <2>1, Shorter
  <2> QED BY <1>0, <2>1, <2>2
<1>5. ASSUME NEW c \in Convs,
             \/ ServeEnds(c) \/ Registers(c) \/ Answers(c) \/ Unanswered(c)
           \/ Unregisters(c) \/ Answered(c)
      PROVE  Routable'
  <2>1. /\ UNCHANGED <<kind, count, reader, queue>>
        /\ worker'[c] # "handle"
        /\ \A d \in Convs \ {c} : worker'[d] = worker[d] /\ cur'[d] = cur[d]
    BY <1>0, <1>5 DEF ServeEnds, Registers, Answers, Unanswered, Unregisters, Answered, Decide
  <2> QED BY <2>1
<1>6. ASSUME NEW n \in Frames, Relaying(n) PROVE Routable'
  BY <1>6 DEF Relaying, Arm, Emit, RelayEnds
<1>7. CASE Write \/ WriterLeaves
  BY <1>7 DEF Write, WriterLeaves
<1>8. CASE UNCHANGED vars
  BY <1>8 DEF vars
<1> QED BY <1>1, <1>2, <1>3, <1>4, <1>5, <1>6, <1>7, <1>8 DEF Next, Dispatching, Serving

LEMMA MovingReached == Spec => [](Inv /\ Leaving /\ Routable)
<1>1. Init => Leaving /\ Routable
  BY DEF Init, Leaving, Routable
<1> QED BY <1>1, Reached, LeavingStep, RoutableStep, PTL DEF Spec

LEMMA Handling ==
    ASSUME Inv, Routable, NEW c \in Convs, worker[c] = "handle"
    PROVE  \/ kind[cur[c]] \in {"subscribe", "message"}
           \/ kind[cur[c]] = "unsubscribe" /\ sub[c] # 0
<1>1. cur[c] \in 1 .. count
  BY DEF Inv, Working
<1>2. kind[cur[c]] \in Kinds
  BY <1>1 DEF Inv, Types, TypeOK
<1> QED BY <1>2 DEF Routable, Inv, Working, Kinds

\* Reader, workers and writer do not wait for each other in a circle, whatever the
\* capacity of their queues; that the frame is then handled needs fairness.
THEOREM ReaderNeverStuck == Spec => []NoCircle
<1>1. Inv /\ Leaving /\ Routable => NoCircle
  <2> SUFFICES ASSUME Inv, Leaving, Routable, reader = "queue", ~ctxDone PROVE NoCircle
    BY DEF NoCircle
  <2>1. PICK c \in Convs : c = conv[count]
    BY Bounds DEF Inv, Types, TypeOK, Ordered
  <2>2. worker[c] \in {"serve", "handle", "send"} /\ writer = "run"
    BY <2>1 DEF Inv, Types, TypeOK, Ordered, Workers, Leaving
  <2>3. CASE worker[c] = "serve"
    <3>1. queue[c] = <<>> => Len(queue[c]) = 0
      OBVIOUS
    <3>2. Room(c) \/ queue[c] # <<>>
      BY <3>1, Bounds DEF Room
    <3> QED BY <2>1, <2>3, <3>2 DEF NoCircle
  <2>4. CASE worker[c] = "handle"
    BY <2>1, <2>4, Handling DEF NoCircle
  <2>5. CASE worker[c] = "send"
    <3>1. outbound < Outbound \/ outbound > 0
      BY Bounds DEF Inv, Types, TypeOK
    <3> QED BY <2>1, <2>2, <2>5, <3>1 DEF NoCircle
  <2> QED BY <2>2, <2>3, <2>4, <2>5
<1> QED BY <1>1, MovingReached, PTL
-----------------------------------------------------------------------------
(* What the connection promises the page. *)

\* The frames of a conversation that are still to be served: the one its worker asks the
\* daemon about, those in its queue, and the one the reader waits with.
InHand(c) == IF worker[c] = "handle" THEN <<cur[c]>> ELSE <<>>
AtReader(c) == IF reader = "queue" /\ conv[count] = c THEN <<count>> ELSE <<>>
Waiting(c) == (InHand(c) \o queue[c]) \o AtReader(c)

What(s) == [i \in DOMAIN s |-> kind[s[i]]]

\* Whose answer is to be queued, by a worker or, for a frame without one, by the reader.
Owed ==
    {c \in Convs : \/ worker[c] = "send"
                   \/ reader = "reject" /\ conv[count] = c /\ kind[count] # "unknown"}
Held == {c \in Convs : sub[c] # 0}

L == INSTANCE Link WITH
        Sends <- Kinds \ {"unknown"},
        asked <- [c \in Convs |-> What(Waiting(c))],
        owed <- Owed,
        held <- Held,
        over <- ctxDone
KeepsPromise == L!Promise

\* A conversation that is refused a worker has nothing queued and no subscription.
Refused ==
    /\ reader = "reject" /\ kind[count] # "unknown" => conv[count] \notin Workers
    /\ \A c \in Convs : worker[c] = "none" => queue[c] = <<>> /\ sub[c] = 0

Moving == Inv /\ Leaving /\ Routable /\ Refused

\* The frames that ask for something.
Asking == {n \in 1 .. count : kind[n] # "unknown"}

LEMMA RefusedStep == Inv /\ Routable /\ Refused /\ [Next]_vars => Refused'
<1> SUFFICES ASSUME Inv, Routable, Refused, [Next]_vars PROVE Refused'
  OBVIOUS
<1> USE DEF Refused, readVars, workerVars, subVars, relayVars, Workers
<1>0. /\ worker \in [Convs -> {"none", "serve", "handle", "send", "ended"}]
      /\ queue \in [Convs -> Seq(Frames)] /\ sub \in [Convs -> Frames \cup {0}]
      /\ count \in Nat /\ kind \in Seq(Kinds) /\ Len(kind) = count
      /\ conv \in Seq(Convs) /\ Len(conv) = count
  BY DEF Inv, Types, TypeOK
<1>1. ASSUME NEW c \in Convs, NEW k \in Kinds, Read(c, k) PROVE Refused'
  <2>1. conv'[count'] = c /\ kind'[count'] = k
    BY <1>0, <1>1, AppendProperties DEF Read
  <2>2. UNCHANGED <<queue, sub>> /\ \A d \in Convs : worker'[d] = "none" => worker[d] = "none"
    BY <1>0, <1>1 DEF Read
  <2>3. reader' = "reject" /\ k # "unknown" => worker'[c] = "none"
    BY <1>0, <1>1 DEF Read
  <2> QED BY <1>0, <2>1, <2>2, <2>3
<1>2. CASE Enqueue
  <2>1. conv[count] \in Workers
    BY <1>2 DEF Enqueue, Inv, Ordered
  <2> QED BY <1>0, <1>2, <2>1 DEF Enqueue
<1>3. CASE Reject \/ EnqueueCancelled \/ ReadFails \/ Close
  BY <1>0, <1>3 DEF Reject, EnqueueCancelled, ReadFails, Close
<1>4. ASSUME NEW c \in Convs, Serving(c) PROVE Refused'
  <2>1. /\ UNCHANGED <<conv, kind, count, reader>>
        /\ worker[c] # "none" /\ worker'[c] # "none"
        /\ \A d \in Convs \ {c} : /\ worker'[d] = worker[d] /\ queue'[d] = queue[d]
                                  /\ sub'[d] = sub[d]
    BY <1>0, <1>4
       DEF Serving, Take, ServeEnds, Registers, Answers, Unanswered, Unregisters, Answered, Decide
  <2> QED BY <1>0, <2>1
<1>5. ASSUME NEW n \in Frames, Relaying(n) PROVE Refused'
  BY <1>5 DEF Relaying, Arm, Emit, RelayEnds
<1>6. CASE Write \/ WriterLeaves
  BY <1>6 DEF Write, WriterLeaves
<1>7. CASE UNCHANGED vars
  BY <1>7 DEF vars
<1> QED BY <1>1, <1>2, <1>3, <1>4, <1>5, <1>6, <1>7 DEF Next, Dispatching

LEMMA MovingAlways == Spec => []Moving
<1>1. Init => Refused
  BY DEF Init, Refused
<1> QED BY <1>1, MovingReached, RefusedStep, PTL DEF Spec, Moving

LEMMA Joined ==
    ASSUME NEW S, NEW s \in Seq(S), NEW t \in Seq(S), s # <<>>
    PROVE  /\ s \o t \in Seq(S) /\ s \o t # <<>>
           /\ Head(s \o t) = Head(s)
           /\ Tail(s \o t) = Tail(s) \o t
<1>1. /\ s \o t \in Seq(S) /\ Len(s \o t) = Len(s) + Len(t)
      /\ \A i \in 1 .. Len(s) + Len(t) :
            (s \o t)[i] = IF i <= Len(s) THEN s[i] ELSE t[i - Len(s)]
  BY ConcatProperties
<1>2. Len(s) \in Nat /\ Len(s) > 0 /\ Len(t) \in Nat
  OBVIOUS
<1>3. s \o t # <<>> /\ Head(s \o t) = Head(s)
  BY <1>1, <1>2
<1>4. /\ Tail(s \o t) \in Seq(S) /\ Len(Tail(s \o t)) = Len(s) + Len(t) - 1
      /\ \A i \in 1 .. Len(s) + Len(t) - 1 : Tail(s \o t)[i] = (s \o t)[i + 1]
  BY <1>1, <1>2, <1>3, HeadTailProperties
<1>5. /\ Tail(s) \in Seq(S) /\ Len(Tail(s)) = Len(s) - 1
      /\ \A i \in 1 .. Len(s) - 1 : Tail(s)[i] = s[i + 1]
  BY <1>2, HeadTailProperties
<1>6. /\ Tail(s) \o t \in Seq(S) /\ Len(Tail(s) \o t) = Len(s) - 1 + Len(t)
      /\ \A i \in 1 .. Len(s) - 1 + Len(t) :
            (Tail(s) \o t)[i] = IF i <= Len(s) - 1 THEN Tail(s)[i] ELSE t[i - (Len(s) - 1)]
  BY <1>5, ConcatProperties
<1>7. \A i \in 1 .. Len(s) + Len(t) - 1 : Tail(s \o t)[i] = (Tail(s) \o t)[i]
  BY <1>1, <1>2, <1>4, <1>5, <1>6
<1> QED BY <1>1, <1>2, <1>3, <1>4, <1>6, <1>7, SeqEqual

LEMMA OneFirst ==
    ASSUME NEW S, NEW n \in S, NEW s \in Seq(S)
    PROVE  /\ <<n>> \o s \in Seq(S) /\ <<n>> \o s # <<>>
           /\ Head(<<n>> \o s) = n /\ Tail(<<n>> \o s) = s
           /\ s # <<>> => <<Head(s)>> \o Tail(s) = s
<1>1. <<n>> \in Seq(S) /\ <<n>> # <<>> /\ Head(<<n>>) = n /\ Tail(<<n>>) = <<>>
  OBVIOUS
<1>2. /\ <<n>> \o s \in Seq(S) /\ <<n>> \o s # <<>>
      /\ Head(<<n>> \o s) = n /\ Tail(<<n>> \o s) = s
  BY <1>1, Joined, ConcatEmptySeq
<1>3. ASSUME s # <<>> PROVE <<Head(s)>> \o Tail(s) = s
  <2>1. /\ Head(s) \in S /\ Tail(s) \in Seq(S) /\ Len(Tail(s)) = Len(s) - 1
        /\ \A i \in 1 .. Len(s) - 1 : Tail(s)[i] = s[i + 1]
    BY <1>3, HeadTailProperties
  <2>2. Len(s) \in Nat /\ Len(s) > 0 /\ Head(s) = s[1]
    BY <1>3
  <2>3. <<Head(s)>> \in Seq(S) /\ Len(<<Head(s)>>) = 1 /\ <<Head(s)>>[1] = s[1]
    BY <2>1, <2>2
  <2>4. /\ <<Head(s)>> \o Tail(s) \in Seq(S)
        /\ Len(<<Head(s)>> \o Tail(s)) = 1 + (Len(s) - 1)
        /\ \A i \in 1 .. Len(s) : (<<Head(s)>> \o Tail(s))[i] = IF i <= 1 THEN s[1] ELSE Tail(s)[i - 1]
    BY <2>1, <2>2, <2>3, ConcatProperties
  <2>5. \A i \in 1 .. Len(s) : (<<Head(s)>> \o Tail(s))[i] = s[i]
    BY <2>1, <2>2, <2>4
  <2> QED BY <2>2, <2>4, <2>5, SeqEqual
<1> QED BY <1>2, <1>3

LEMMA OneLast ==
    ASSUME NEW S, NEW s \in Seq(S), NEW n \in S
    PROVE  /\ s \o <<n>> \in Seq(S) /\ s \o <<n>> # <<>>
           /\ s \o <<n>> = Append(s, n)
           /\ L!Front(s \o <<n>>) = s
           /\ L!IsPrefix(s, s \o <<n>>)
<1>1. s \o <<n>> = Append(s, n)
  BY AppendIsConcat
<1>2. /\ Append(s, n) \in Seq(S) /\ Len(Append(s, n)) = Len(s) + 1 /\ Append(s, n) # <<>>
      /\ \A i \in 1 .. Len(s) : Append(s, n)[i] = s[i]
  BY AppendProperties
<1>3. Len(s) \in Nat
  OBVIOUS
<1>4. /\ SubSeq(Append(s, n), 1, Len(s)) \in Seq(S)
      /\ Len(SubSeq(Append(s, n), 1, Len(s))) = Len(s)
      /\ \A i \in 1 .. Len(s) : SubSeq(Append(s, n), 1, Len(s))[i] = s[i]
  BY <1>2, <1>3
<1>5. SubSeq(Append(s, n), 1, Len(s)) = s
  BY <1>4, SeqEqual
<1>6. SubSeq(s, 1, Len(s)) = s
  BY SubSeqFull
<1> QED BY <1>1, <1>2, <1>3, <1>5, <1>6 DEF L!Front, L!IsPrefix

LEMMA Parts ==
    ASSUME Moving, NEW c \in Convs
    PROVE  /\ queue[c] \in Seq(Asking) /\ InHand(c) \in Seq(Asking)
           /\ AtReader(c) \in Seq(Asking)
           /\ InHand(c) \o queue[c] \in Seq(Asking) /\ Waiting(c) \in Seq(Asking)
<1>1. queue[c] \in Seq(Asking)
  <2>1. queue[c] \in Seq(Frames) /\ \A i \in DOMAIN queue[c] : queue[c][i] \in Asking
    BY DEF Moving, Inv, Types, TypeOK, Ordered, Routed, Routable, Asking
  <2>2. \A i \in 1 .. Len(queue[c]) : queue[c][i] \in Asking
    BY <2>1
  <2> QED BY <2>1, <2>2, LenProperties, IsASeq
<1>2. InHand(c) \in Seq(Asking)
  <2>1. worker[c] = "handle" => cur[c] \in Asking
    BY DEF Moving, Inv, Working, Routable, Asking
  <2> QED BY <2>1 DEF InHand
<1>3. AtReader(c) \in Seq(Asking)
  <2>1. reader = "queue" => count \in Asking
    BY DEF Moving, Inv, Types, TypeOK, Ordered, Routable, Asking
  <2>2. CASE AtReader(c) = <<>>
    BY <2>2
  <2>3. CASE AtReader(c) = <<count>> /\ count \in Asking
    BY <2>3
  <2> QED BY <2>1, <2>2, <2>3 DEF AtReader
<1>4. InHand(c) \o queue[c] \in Seq(Asking)
  BY <1>1, <1>2, ConcatProperties
<1>5. Waiting(c) \in Seq(Asking)
  BY <1>3, <1>4, ConcatProperties DEF Waiting
<1> QED BY <1>1, <1>2, <1>3, <1>4, <1>5

LEMMA Whats ==
    ASSUME Moving, NEW s \in Seq(Asking)
    PROVE  /\ What(s) \in Seq(Kinds \ {"unknown"})
           /\ s # <<>> => /\ What(s) # <<>>
                          /\ Head(What(s)) = kind[Head(s)]
                          /\ Tail(What(s)) = What(Tail(s))
           /\ \A n \in Asking : What(s \o <<n>>) = What(s) \o <<kind[n]>>
<1>1. \A n \in Asking : kind[n] \in Kinds \ {"unknown"}
  BY DEF Moving, Inv, Types, TypeOK, Asking
<1>2. /\ Len(s) \in Nat /\ DOMAIN s = 1 .. Len(s)
      /\ \A i \in 1 .. Len(s) : s[i] \in Asking
  BY LenProperties, ElementOfSeq
<1>3. /\ What(s) \in Seq(Kinds \ {"unknown"}) /\ Len(What(s)) = Len(s)
      /\ \A i \in 1 .. Len(s) : What(s)[i] = kind[s[i]]
  BY <1>1, <1>2, IsASeq DEF What
<1>4. ASSUME s # <<>>
      PROVE  /\ What(s) # <<>> /\ Head(What(s)) = kind[Head(s)]
             /\ Tail(What(s)) = What(Tail(s))
  <2>1. Len(s) > 0 /\ Head(s) = s[1] /\ What(s) # <<>> /\ Head(What(s)) = What(s)[1]
    BY <1>2, <1>3, <1>4
  <2>2. /\ Tail(s) \in Seq(Asking) /\ Len(Tail(s)) = Len(s) - 1
        /\ \A i \in 1 .. Len(s) - 1 : Tail(s)[i] = s[i + 1]
    BY <1>4, HeadTailProperties
  <2>3. /\ Tail(What(s)) \in Seq(Kinds \ {"unknown"}) /\ Len(Tail(What(s))) = Len(s) - 1
        /\ \A i \in 1 .. Len(s) - 1 : Tail(What(s))[i] = What(s)[i + 1]
    BY <1>3, <2>1, HeadTailProperties
  <2>4. DOMAIN Tail(s) = 1 .. Len(s) - 1
    BY <1>2, <2>1, <2>2
  <2>5. /\ What(Tail(s)) \in Seq(Kinds \ {"unknown"}) /\ Len(What(Tail(s))) = Len(s) - 1
        /\ \A i \in 1 .. Len(s) - 1 : What(Tail(s))[i] = kind[Tail(s)[i]]
    <3>1. \A i \in 1 .. Len(s) - 1 : Tail(s)[i] \in Asking
      BY <2>2, <2>4, ElementOfSeq
    <3>2. Len(s) - 1 \in Nat
      BY <1>2, <2>1
    <3> QED BY <1>1, <2>4, <3>1, <3>2, IsASeq DEF What
  <2>6. \A i \in 1 .. Len(s) - 1 : Tail(What(s))[i] = What(Tail(s))[i]
    BY <1>2, <1>3, <2>2, <2>3, <2>5
  <2>7. Tail(What(s)) = What(Tail(s))
    BY <2>3, <2>5, <2>6, SeqEqual
  <2> QED BY <1>2, <1>3, <2>1, <2>7
<1>5. ASSUME NEW n \in Asking PROVE What(s \o <<n>>) = What(s) \o <<kind[n]>>
  <2>1. /\ s \o <<n>> \in Seq(Asking) /\ Len(s \o <<n>>) = Len(s) + 1
        /\ (s \o <<n>>)[Len(s) + 1] = n
        /\ \A i \in 1 .. Len(s) : (s \o <<n>>)[i] = s[i]
    BY AppendIsConcat, AppendProperties
  <2>2. DOMAIN (s \o <<n>>) = 1 .. Len(s) + 1
    BY <1>2, <2>1
  <2>3. /\ What(s \o <<n>>) \in Seq(Kinds \ {"unknown"})
        /\ Len(What(s \o <<n>>)) = Len(s) + 1
        /\ \A i \in 1 .. Len(s) + 1 : What(s \o <<n>>)[i] = kind[(s \o <<n>>)[i]]
    <3>1. \A i \in 1 .. Len(s) + 1 : (s \o <<n>>)[i] \in Asking
      BY <2>1, <2>2, ElementOfSeq
    <3>2. Len(s) + 1 \in Nat
      BY <1>2
    <3> QED BY <1>1, <2>2, <3>1, <3>2, IsASeq DEF What
  <2>4. /\ What(s) \o <<kind[n]>> \in Seq(Kinds \ {"unknown"})
        /\ Len(What(s) \o <<kind[n]>>) = Len(s) + 1
        /\ (What(s) \o <<kind[n]>>)[Len(s) + 1] = kind[n]
        /\ \A i \in 1 .. Len(s) : (What(s) \o <<kind[n]>>)[i] = What(s)[i]
    BY <1>1, <1>3, AppendIsConcat, AppendProperties
  <2>5. \A i \in 1 .. Len(s) + 1 : What(s \o <<n>>)[i] = (What(s) \o <<kind[n]>>)[i]
    <3>1. What(s \o <<n>>)[Len(s) + 1] = (What(s) \o <<kind[n]>>)[Len(s) + 1]
      BY <1>2, <2>1, <2>3, <2>4
    <3>2. ASSUME NEW i \in 1 .. Len(s)
          PROVE  What(s \o <<n>>)[i] = (What(s) \o <<kind[n]>>)[i]
      <4>1. i \in 1 .. Len(s) + 1
        BY <1>2
      <4>2. What(s \o <<n>>)[i] = kind[(s \o <<n>>)[i]]
        BY <2>3, <4>1, Zenon
      <4>3. (s \o <<n>>)[i] = s[i] /\ (What(s) \o <<kind[n]>>)[i] = What(s)[i]
        BY <2>1, <2>4, Zenon
      <4> QED BY <1>3, <4>2, <4>3, Zenon
    <3>3. \A i \in 1 .. Len(s) + 1 : i = Len(s) + 1 \/ i \in 1 .. Len(s)
      BY <1>2
    <3> QED BY <3>1, <3>2, <3>3
  <2> QED BY <2>3, <2>4, <2>5, SeqEqual
<1> QED BY <1>3, <1>4, <1>5

LEMMA WhatKept ==
    ASSUME Moving, \A n \in 1 .. count : kind'[n] = kind[n], NEW s \in Seq(Asking)
    PROVE  [i \in DOMAIN s |-> kind'[s[i]]] = What(s)
<1>1. \A i \in DOMAIN s : s[i] \in 1 .. count
  <2>1. DOMAIN s = 1 .. Len(s)
    BY LenProperties
  <2> QED BY <2>1, ElementOfSeq DEF Asking
<1> QED BY <1>1 DEF What

\* What a step may do with the frames that wait.
LEMMA Still ==
    ASSUME Moving, \A n \in 1 .. count : kind'[n] = kind[n],
           NEW d \in Convs, Waiting(d)' = Waiting(d)
    PROVE  What(Waiting(d))' = What(Waiting(d))
<1>1. What(Waiting(d))' = [i \in DOMAIN Waiting(d) |-> kind'[Waiting(d)[i]]]
  BY DEF What
<1> QED BY <1>1, Parts, WhatKept

LEMMA Rests ==
    ASSUME Moving, \A n \in 1 .. count : kind'[n] = kind[n],
           \A d \in Convs : Waiting(d)' = Waiting(d),
           UNCHANGED <<Owed, sub>>, ctxDone' \in {ctxDone, TRUE}
    PROVE  [L!LinkNext]_L!linkVars
<1>1. UNCHANGED [c \in Convs |-> What(Waiting(c))]
  BY Still
<1>2. UNCHANGED Held
  BY DEF Held
<1>3. CASE ctxDone' = ctxDone
  BY <1>1, <1>2, <1>3 DEF L!linkVars
<1>4. CASE ctxDone' = TRUE
  <2>1. L!End
    BY <1>1, <1>2, <1>4 DEF L!End
  <2> QED BY <2>1 DEF L!LinkNext
<1> QED BY <1>3, <1>4

LEMMA AskedTyped ==
    ASSUME Moving, NEW d \in Convs
    PROVE  /\ What(Waiting(d)) \in Seq(Kinds \ {"unknown"})
           /\ L!IsPrefix(What(Waiting(d)), What(Waiting(d)))
<1>1. What(Waiting(d)) \in Seq(Kinds \ {"unknown"})
  BY Parts, Whats
<1> QED BY <1>1, LenProperties DEF L!IsPrefix

LEMMA Heard ==
    ASSUME Moving, \A n \in 1 .. count : kind'[n] = kind[n],
           \A d \in Convs : Waiting(d)' = Waiting(d),
           UNCHANGED <<sub, ctxDone>>, Owed' \subseteq Owed
    PROVE  [L!LinkNext]_L!linkVars
<1>1. [c \in Convs |-> What(Waiting(c))]' = [c \in Convs |-> What(Waiting(c))]
  BY Still
<1>2. UNCHANGED Held
  BY DEF Held
<1>3. L!HearAndAsk
  BY <1>1, <1>2, AskedTyped DEF L!HearAndAsk
<1> QED BY <1>3 DEF L!LinkNext

LEMMA Served ==
    ASSUME Moving, NEW c \in Convs, UNCHANGED <<kind, ctxDone>>,
           Waiting(c) # <<>>, Waiting(c)' = Tail(Waiting(c)),
           \A d \in Convs \ {c} : Waiting(d)' = Waiting(d),
           NEW outcome \in L!Outcomes(c, kind[Head(Waiting(c))]),
           Held' = outcome.held,
           Owed' = IF outcome.heard THEN Owed \cup {c} ELSE Owed
    PROVE  [L!LinkNext]_L!linkVars
<1>1. What(Waiting(c))' = Tail(What(Waiting(c)))
  <2>1. Waiting(c) \in Seq(Asking) /\ Tail(Waiting(c)) \in Seq(Asking)
    BY Parts, HeadTailProperties
  <2>2. What(Waiting(c))' = What(Tail(Waiting(c)))
    BY <2>1 DEF What
  <2> QED BY <2>1, <2>2, Whats
<1>2. \A d \in Convs \ {c} : What(Waiting(d))' = What(Waiting(d))
  BY Still
<1>3. What(Waiting(c)) # <<>> /\ Head(What(Waiting(c))) = kind[Head(Waiting(c))]
  BY Parts, Whats
<1>4. L!Serve(c)
  BY <1>1, <1>2, <1>3 DEF L!Serve
<1> QED BY <1>4 DEF L!LinkNext

LEMMA ReadPromised ==
    ASSUME Moving, NEW c \in Convs, NEW k \in Kinds, Read(c, k)
    PROVE  [L!LinkNext]_L!linkVars
<1>1. /\ count \in Nat /\ count' = count + 1
      /\ conv \in Seq(Convs) /\ kind \in Seq(Kinds) /\ Len(conv) = count /\ Len(kind) = count
      /\ worker \in [Convs -> {"none", "serve", "handle", "send", "ended"}]
  BY DEF Read, Moving, Inv, Types, TypeOK
<1>2. /\ conv'[count'] = c /\ kind'[count'] = k
      /\ \A n \in 1 .. count : conv'[n] = conv[n] /\ kind'[n] = kind[n]
  BY <1>1, AppendProperties DEF Read
<1>3. /\ reader = "read" /\ reader' \in {"queue", "reject"}
      /\ reader' = "reject" /\ k # "unknown" => worker[c] = "none"
      /\ k = "unknown" => reader' = "reject"
      /\ \A d \in Convs : /\ worker'[d] = "handle" <=> worker[d] = "handle"
                          /\ worker'[d] = "send" <=> worker[d] = "send"
      /\ UNCHANGED <<queue, cur, sub, ctxDone>>
  BY <1>1 DEF Read, subVars, Workers
<1>4. \A d \in Convs : InHand(d)' = InHand(d) /\ AtReader(d) = <<>>
  BY <1>3 DEF InHand, AtReader
<1>5. \A d \in Convs : AtReader(d)' = IF d = c /\ reader' = "queue" THEN <<count'>> ELSE <<>>
  BY <1>2, <1>3 DEF AtReader
<1>6. \A d \in Convs : /\ InHand(d) \o queue[d] \in Seq(Asking)
                       /\ Waiting(d) = InHand(d) \o queue[d]
                       /\ Waiting(d) \in Seq(Asking)
  BY <1>4, Parts, ConcatEmptySeq DEF Waiting
<1>7. \A d \in Convs : AtReader(d)' = <<>> => Waiting(d)' = Waiting(d)
  <2> SUFFICES ASSUME NEW d \in Convs, AtReader(d)' = <<>> PROVE Waiting(d)' = Waiting(d)
    OBVIOUS
  <2>1. Waiting(d)' = (InHand(d) \o queue[d]) \o <<>>
    BY <1>3, <1>4 DEF Waiting
  <2> QED BY <1>6, <2>1, ConcatEmptySeq
<1>8. CASE reader' = "reject"
  <2>1. \A d \in Convs : Waiting(d)' = Waiting(d)
    BY <1>5, <1>7, <1>8
  <2>2. CASE k = "unknown"
    <3>1. Owed' = Owed
      BY <1>2, <1>3, <2>2 DEF Owed
    <3> QED BY <1>2, <1>3, <2>1, <3>1, Rests
  <2>3. CASE k # "unknown"
    <3>1. Owed' = Owed \cup {c}
      BY <1>2, <1>3, <1>8, <2>3 DEF Owed
    <3>2. What(Waiting(c)) = <<>>
      <4>1. queue[c] = <<>> /\ InHand(c) = <<>> /\ AtReader(c) = <<>>
        BY <1>3, <1>4, <1>8, <2>3 DEF Moving, Refused, InHand
      <4>2. Waiting(c) = <<>>
        BY <1>6, <4>1
      <4> QED BY <4>2 DEF What
    <3>3. UNCHANGED <<[d \in Convs |-> What(Waiting(d))], Held>>
      BY <1>2, <1>3, <2>1, Still DEF Held
    <3>4. L!Refuse(c)
      BY <1>3, <3>1, <3>2, <3>3 DEF L!Refuse
    <3> QED BY <3>4 DEF L!LinkNext
  <2> QED BY <2>2, <2>3
<1>9. CASE reader' = "queue"
  <2>1. Waiting(c)' = Waiting(c) \o <<count'>>
    BY <1>3, <1>4, <1>5, <1>6, <1>9 DEF Waiting
  <2>2. \A d \in Convs \ {c} : What(Waiting(d))' = What(Waiting(d))
    <3>1. \A d \in Convs \ {c} : Waiting(d)' = Waiting(d)
      BY <1>5, <1>7
    <3> QED BY <1>2, <3>1, Still
  <2>3. What(Waiting(c))' = What(Waiting(c)) \o <<k>>
    <3> DEFINE s == Waiting(c)
    <3>1. PICK t : t = s
      OBVIOUS
    <3>2. /\ t \in Seq(Asking) /\ DOMAIN t = 1 .. Len(t) /\ Len(t) \in Nat
          /\ \A i \in 1 .. Len(t) : t[i] \in 1 .. count
      BY <1>6, <3>1, LenProperties, ElementOfSeq DEF Asking
    <3>3. \A i \in 1 .. Len(t) : t[i] \in Nat /\ count' \in Nat
      BY <1>1, <3>2
    <3>4. /\ t \o <<count'>> \in Seq(Nat) /\ Len(t \o <<count'>>) = Len(t) + 1
          /\ (t \o <<count'>>)[Len(t) + 1] = count'
          /\ \A i \in 1 .. Len(t) : (t \o <<count'>>)[i] = t[i]
          /\ DOMAIN (t \o <<count'>>) = 1 .. Len(t) + 1
      <4>1. t \in Seq(Nat) /\ count' \in Nat
        <5>1. Asking \subseteq Nat
          BY <1>1 DEF Asking
        <5> QED BY <1>1, <3>2, <5>1, SeqMonotonic
      <4>2. t \o <<count'>> = Append(t, count')
        BY <4>1, AppendIsConcat
      <4>3. /\ Append(t, count') \in Seq(Nat) /\ Len(Append(t, count')) = Len(t) + 1
            /\ Append(t, count')[Len(t) + 1] = count'
            /\ \A i \in 1 .. Len(t) : Append(t, count')[i] = t[i]
        BY <4>1, AppendProperties
      <4> QED BY <4>2, <4>3, LenProperties
    <3>5. What(Waiting(c))' = [i \in 1 .. Len(t) + 1 |-> kind'[(t \o <<count'>>)[i]]]
      BY <2>1, <3>1, <3>4 DEF What
    <3>6. /\ What(t) \in Seq(Kinds) /\ Len(What(t)) = Len(t)
          /\ \A i \in 1 .. Len(t) : What(t)[i] = kind[t[i]]
      <4>1. \A i \in 1 .. Len(t) : kind[t[i]] \in Kinds
        BY <1>1, <3>2
      <4> QED BY <3>2, <4>1, IsASeq DEF What
    <3>7. /\ What(t) \o <<k>> \in Seq(Kinds) /\ Len(What(t) \o <<k>>) = Len(t) + 1
          /\ (What(t) \o <<k>>)[Len(t) + 1] = k
          /\ \A i \in 1 .. Len(t) : (What(t) \o <<k>>)[i] = What(t)[i]
      BY <3>6, AppendIsConcat, AppendProperties
    <3>8. DOMAIN (What(t) \o <<k>>) = 1 .. Len(t) + 1
      BY <3>7, LenProperties
    <3>9. \A i \in 1 .. Len(t) : kind'[(t \o <<count'>>)[i]] = (What(t) \o <<k>>)[i]
      BY <1>2, <3>2, <3>4, <3>6, <3>7
    <3>10. kind'[(t \o <<count'>>)[Len(t) + 1]] = (What(t) \o <<k>>)[Len(t) + 1]
      BY <1>2, <3>4, <3>7
    <3>11. \A i \in 1 .. Len(t) + 1 : i = Len(t) + 1 \/ i \in 1 .. Len(t)
      BY <3>2
    <3>12. What(t) \o <<k>> = [i \in 1 .. Len(t) + 1 |-> (What(t) \o <<k>>)[i]]
      BY <3>7, <3>8
    <3> QED BY <3>1, <3>5, <3>9, <3>10, <3>11, <3>12
  <2>4. \A d \in Convs : What(Waiting(d)) \in Seq(Kinds \ {"unknown"})
    BY <1>6, Whats
  <2>5. /\ What(Waiting(c)) \o <<k>> \in Seq(Kinds \ {"unknown"})
        /\ L!IsPrefix(What(Waiting(c)), What(Waiting(c)) \o <<k>>)
    <3>1. k \in Kinds \ {"unknown"}
      BY <1>3, <1>9
    <3> QED BY <2>4, <3>1, OneLast
  <2>6. \A d \in Convs : L!IsPrefix(What(Waiting(d)), What(Waiting(d)))
    BY <2>4, LenProperties DEF L!IsPrefix
  <2>7. Owed' = Owed /\ Held' = Held
    BY <1>3, <1>9 DEF Owed, Held
  <2>8. L!HearAndAsk
    BY <1>3, <2>2, <2>3, <2>4, <2>5, <2>6, <2>7 DEF L!HearAndAsk
  <2> QED BY <2>8 DEF L!LinkNext
<1> QED BY <1>3, <1>8, <1>9

LEMMA ReaderPromised ==
    ASSUME Moving, Reject \/ Enqueue \/ EnqueueCancelled \/ ReadFails
    PROVE  [L!LinkNext]_L!linkVars
<1>1. /\ count \in Nat /\ conv \in Seq(Convs) /\ Len(conv) = count
      /\ queue \in [Convs -> Seq(Frames)] /\ ctxDone \in BOOLEAN
      /\ reader \in {"queue", "reject"} => conv[count] \in Convs
  BY DEF Moving, Inv, Types, TypeOK, Ordered
<1>2. /\ reader' \in {"read", "wait"} /\ ctxDone' \in {ctxDone, TRUE}
      /\ UNCHANGED <<conv, kind, count, worker, cur, sub>>
  BY DEF Reject, Enqueue, EnqueueCancelled, ReadFails, readVars, workerVars, subVars
<1>3. /\ \A d \in Convs : InHand(d)' = InHand(d) /\ AtReader(d)' = <<>>
      /\ Owed' \subseteq Owed /\ (reader # "reject" => Owed' = Owed) /\ Held' = Held
  BY <1>2 DEF InHand, AtReader, Owed, Held
<1>4. \A d \in Convs : InHand(d) \o queue[d] \in Seq(Asking)
  BY Parts
<1>5. ASSUME NEW d \in Convs, AtReader(d) = <<>>, queue'[d] = queue[d]
      PROVE  Waiting(d)' = Waiting(d)
  BY <1>3, <1>5 DEF Waiting
<1>6. CASE ReadFails
  <2>1. \A d \in Convs : AtReader(d) = <<>> /\ queue'[d] = queue[d]
    BY <1>6 DEF ReadFails, AtReader, workerVars
  <2>2. reader # "reject"
    BY <1>6 DEF ReadFails
  <2> QED BY <1>2, <1>3, <1>5, <2>1, <2>2, Rests
<1>7. CASE Reject
  <2>1. reader = "reject" /\ UNCHANGED <<queue, ctxDone>>
    BY <1>7 DEF Reject, workerVars
  <2>2. \A d \in Convs : AtReader(d) = <<>> /\ queue'[d] = queue[d]
    BY <2>1 DEF AtReader
  <2> QED BY <1>2, <1>3, <1>5, <2>1, <2>2, Heard
<1>8. CASE Enqueue
  <2>1. PICK c \in Convs : c = conv[count]
    BY <1>1, <1>8 DEF Enqueue
  <2>2. /\ queue' = [queue EXCEPT ![c] = Append(queue[c], count)]
        /\ reader = "queue" /\ count \in Asking
    BY <1>8, <2>1 DEF Enqueue, Moving, Inv, Types, TypeOK, Ordered, Routable, Asking
  <2>3. \A d \in Convs : AtReader(d) = IF d = c THEN <<count>> ELSE <<>>
    BY <2>1, <2>2 DEF AtReader
  <2>4. \A d \in Convs \ {c} : Waiting(d)' = Waiting(d)
    BY <1>1, <1>5, <2>2, <2>3
  <2>5. Waiting(c)' = Waiting(c)
    <3>1. Waiting(c) = (InHand(c) \o queue[c]) \o <<count>>
      BY <2>3 DEF Waiting
    <3>2. Waiting(c)' = (InHand(c) \o Append(queue[c], count)) \o <<>>
      BY <1>1, <1>3, <2>2 DEF Waiting
    <3>3. /\ queue[c] \in Seq(Asking) /\ InHand(c) \in Seq(Asking)
          /\ <<count>> \in Seq(Asking)
      BY <2>2, Parts
    <3>4. Append(queue[c], count) = queue[c] \o <<count>>
      BY <2>2, <3>3, AppendIsConcat
    <3>5. InHand(c) \o (queue[c] \o <<count>>) = (InHand(c) \o queue[c]) \o <<count>>
      <4>1. \A s, t, u \in Seq(Asking) : (s \o t) \o u = s \o (t \o u)
        BY ConcatAssociative
      <4> QED BY <3>3, <4>1, Zenon
    <3>6. (InHand(c) \o queue[c]) \o <<count>> \in Seq(Asking)
      BY <3>3, ConcatProperties
    <3> QED BY <3>1, <3>2, <3>4, <3>5, <3>6, ConcatEmptySeq
  <2> QED BY <1>2, <1>3, <2>2, <2>4, <2>5, Rests
<1>9. CASE EnqueueCancelled
  <2>1. PICK c \in Convs : c = conv[count]
    BY <1>1, <1>9 DEF EnqueueCancelled
  <2>2. reader = "queue" /\ ctxDone /\ UNCHANGED <<queue, ctxDone>> /\ count \in Asking
    BY <1>9 DEF EnqueueCancelled, workerVars, Moving, Inv, Types, TypeOK, Ordered, Routable, Asking
  <2>3. \A d \in Convs : AtReader(d) = IF d = c THEN <<count>> ELSE <<>>
    BY <2>1, <2>2 DEF AtReader
  <2>4. Waiting(c) = (InHand(c) \o queue[c]) \o <<count>>
    BY <2>3 DEF Waiting
  <2>5. Waiting(c)' = InHand(c) \o queue[c]
    <3>1. Waiting(c)' = (InHand(c) \o queue[c]) \o <<>>
      BY <1>3, <2>2 DEF Waiting
    <3> QED BY <1>4, <3>1, ConcatEmptySeq
  <2>6. /\ What(InHand(c) \o queue[c]) \in Seq(Kinds \ {"unknown"})
        /\ What(Waiting(c)) = What(InHand(c) \o queue[c]) \o <<kind[count]>>
    BY <1>4, <2>2, <2>4, Whats
  <2>7. kind[count] \in Kinds \ {"unknown"}
    BY <2>2 DEF Moving, Inv, Types, TypeOK, Asking
  <2>8. /\ What(Waiting(c)) # <<>>
        /\ L!Front(What(Waiting(c))) = What(InHand(c) \o queue[c])
    BY <2>6, <2>7, OneLast
  <2>9. What(Waiting(c))' = What(InHand(c) \o queue[c])
    BY <1>2, <2>5 DEF What
  <2>10. \A d \in Convs \ {c} : What(Waiting(d))' = What(Waiting(d))
    <3>1. \A d \in Convs \ {c} : Waiting(d)' = Waiting(d)
      BY <1>5, <2>2, <2>3
    <3> QED BY <1>2, <3>1 DEF What
  <2>11. L!Drop(c)
    BY <1>3, <2>2, <2>8, <2>9, <2>10 DEF L!Drop
  <2> QED BY <2>11 DEF L!LinkNext
<1> QED BY <1>6, <1>7, <1>8, <1>9

LEMMA ClosePromised == ASSUME Moving, Close PROVE [L!LinkNext]_L!linkVars
<1>1. /\ reader = "wait" /\ reader' = "closed" /\ ctxDone' = ctxDone
      /\ sub' = [c \in Convs |-> 0]
      /\ UNCHANGED <<conv, kind, count, queue, worker, cur>>
  BY DEF Close, readVars, workerVars
<1>2. ctxDone
  BY <1>1 DEF Moving, Leaving
<1>3. \A d \in Convs : Waiting(d)' = Waiting(d)
  BY <1>1 DEF Waiting, InHand, AtReader
<1>4. UNCHANGED [c \in Convs |-> What(Waiting(c))]
  BY <1>1, <1>3 DEF What
<1>5. Held' = {} /\ Owed' = Owed
  BY <1>1 DEF Held, Owed
<1>6. L!GiveUp
  BY <1>1, <1>2, <1>4, <1>5 DEF L!GiveUp
<1> QED BY <1>6 DEF L!LinkNext

LEMMA TakePromised ==
    ASSUME Moving, NEW c \in Convs, Take(c)
    PROVE  [L!LinkNext]_L!linkVars
<1>1. /\ worker \in [Convs -> {"none", "serve", "handle", "send", "ended"}]
      /\ queue \in [Convs -> Seq(Frames)] /\ cur \in [Convs -> Frames \cup {0}]
  BY DEF Moving, Inv, Types, TypeOK
<1>2. PICK n : n = Head(queue[c])
  OBVIOUS
<1>3. /\ worker[c] = "serve" /\ queue[c] # <<>>
      /\ queue' = [queue EXCEPT ![c] = Tail(queue[c])]
      /\ \/ /\ kind[n] = "unsubscribe" /\ sub[c] = 0
            /\ worker'[c] = "serve"
         \/ worker'[c] = "handle" /\ cur'[c] = n
      /\ Owed' = Owed
      /\ \A d \in Convs \ {c} : worker'[d] = worker[d] /\ cur'[d] = cur[d]
      /\ UNCHANGED <<conv, kind, count, reader, sub, ctxDone>>
  BY <1>1, <1>2 DEF Take, readVars, subVars, Owed
<1>4. \A d \in Convs : AtReader(d)' = AtReader(d)
  BY <1>3 DEF AtReader
<1>5. \A d \in Convs \ {c} : Waiting(d)' = Waiting(d)
  BY <1>1, <1>3, <1>4 DEF Waiting, InHand
<1>6. queue[c] \in Seq(Asking) /\ AtReader(c) \in Seq(Asking) /\ n \in Asking
      /\ Tail(queue[c]) \in Seq(Asking)
  BY <1>2, <1>3, Parts, HeadTailProperties
<1>7. Waiting(c) = queue[c] \o AtReader(c)
  <2>1. InHand(c) = <<>>
    BY <1>3 DEF InHand
  <2>2. <<>> \o queue[c] = queue[c]
    BY <1>6, ConcatEmptySeq
  <2> QED BY <2>1, <2>2 DEF Waiting
<1>8. queue'[c] = Tail(queue[c])
  BY <1>1, <1>3
<1>9. CASE worker'[c] = "handle" /\ cur'[c] = n
  <2>1. InHand(c)' = <<n>>
    BY <1>9 DEF InHand
  <2>2. Waiting(c)' = (<<n>> \o Tail(queue[c])) \o AtReader(c)
    BY <1>4, <1>8, <2>1 DEF Waiting
  <2>3. <<n>> \o Tail(queue[c]) = queue[c]
    BY <1>2, <1>3, <1>6, OneFirst
  <2>4. Waiting(c)' = Waiting(c)
    BY <1>7, <2>2, <2>3
  <2> QED BY <1>3, <1>5, <2>4, Rests
<1>10. CASE kind[n] = "unsubscribe" /\ sub[c] = 0 /\ worker'[c] = "serve"
  <2>1. InHand(c)' = <<>>
    BY <1>10 DEF InHand
  <2>2. <<>> \o Tail(queue[c]) = Tail(queue[c])
    BY <1>6, ConcatEmptySeq
  <2>3. Waiting(c)' = Tail(queue[c]) \o AtReader(c)
    BY <1>4, <1>8, <2>1, <2>2 DEF Waiting
  <2>4. /\ Waiting(c) # <<>> /\ Head(Waiting(c)) = n
        /\ Tail(Waiting(c)) = Tail(queue[c]) \o AtReader(c)
    <3>1. ASSUME NEW s \in Seq(Asking), NEW t \in Seq(Asking), s # <<>>
          PROVE  s \o t # <<>> /\ Head(s \o t) = Head(s) /\ Tail(s \o t) = Tail(s) \o t
      BY <3>1, Joined, Zenon
    <3>2. /\ queue[c] \o AtReader(c) # <<>>
          /\ Head(queue[c] \o AtReader(c)) = Head(queue[c])
          /\ Tail(queue[c] \o AtReader(c)) = Tail(queue[c]) \o AtReader(c)
      BY <1>3, <1>6, <3>1, Zenon
    <3> QED BY <1>2, <1>7, <3>2, Zenon
  <2>5. Held' = Held \ {c} /\ c \notin Held
    BY <1>3, <1>10 DEF Held
  <2>6. [held |-> Held \ {c}, heard |-> FALSE] \in L!Outcomes(c, kind[Head(Waiting(c))])
    BY <1>10, <2>4, <2>5 DEF L!Outcomes
  <2>7. PICK outcome \in L!Outcomes(c, kind[Head(Waiting(c))]) :
           outcome.held = Held \ {c} /\ outcome.heard = FALSE
    BY <2>6
  <2> QED BY <1>3, <1>5, <2>3, <2>4, <2>5, <2>7, Served
<1> QED BY <1>3, <1>9, <1>10

\* A frame is served when the daemon has answered for it, before its answer is queued.
LEMMA ServePromised ==
    ASSUME Moving, NEW c \in Convs,
           Registers(c) \/ Answers(c) \/ Unanswered(c) \/ Unregisters(c)
    PROVE  [L!LinkNext]_L!linkVars
<1>1. /\ worker \in [Convs -> {"none", "serve", "handle", "send", "ended"}]
      /\ sub \in [Convs -> Frames \cup {0}] /\ cur \in [Convs -> Frames \cup {0}]
  BY DEF Moving, Inv, Types, TypeOK
<1>2. /\ worker[c] = "handle" /\ worker'[c] \in {"serve", "send"}
      /\ \A d \in Convs \ {c} : worker'[d] = worker[d] /\ cur'[d] = cur[d]
      /\ UNCHANGED <<conv, kind, count, reader, queue, ctxDone>>
  BY <1>1 DEF Registers, Answers, Unanswered, Unregisters, Decide, readVars
<1>3. \A d \in Convs : AtReader(d)' = AtReader(d)
  BY <1>2 DEF AtReader
<1>4. \A d \in Convs \ {c} : Waiting(d)' = Waiting(d)
  BY <1>1, <1>2, <1>3 DEF Waiting, InHand
<1>5. InHand(c) = <<cur[c]>> /\ InHand(c)' = <<>> /\ cur[c] \in Asking /\ cur[c] \in Frames
  BY <1>1, <1>2, Bounds
     DEF InHand, Moving, Inv, Types, TypeOK, Working, Routable, Asking, Frames
<1>6. queue[c] \in Seq(Asking) /\ AtReader(c) \in Seq(Asking)
  BY Parts
<1>7. /\ <<cur[c]>> \o queue[c] \in Seq(Asking) /\ <<cur[c]>> \o queue[c] # <<>>
      /\ Head(<<cur[c]>> \o queue[c]) = cur[c] /\ Tail(<<cur[c]>> \o queue[c]) = queue[c]
  BY <1>5, <1>6, OneFirst
<1>8. /\ Waiting(c) # <<>> /\ Head(Waiting(c)) = cur[c]
      /\ Tail(Waiting(c)) = queue[c] \o AtReader(c)
  <2>1. PICK first : first = <<cur[c]>> \o queue[c]
    OBVIOUS
  <2>2. first \in Seq(Asking) /\ first # <<>> /\ Head(first) = cur[c] /\ Tail(first) = queue[c]
    BY <1>7, <2>1
  <2>3. Waiting(c) = first \o AtReader(c)
    BY <1>5, <2>1 DEF Waiting
  <2>4. /\ first \o AtReader(c) # <<>> /\ Head(first \o AtReader(c)) = Head(first)
        /\ Tail(first \o AtReader(c)) = Tail(first) \o AtReader(c)
    BY <1>6, <2>2, Joined
  <2> QED BY <2>2, <2>3, <2>4, Zenon
<1>9. Waiting(c)' = Tail(Waiting(c))
  <2>1. Waiting(c)' = (<<>> \o queue[c]) \o AtReader(c)
    BY <1>2, <1>3, <1>5 DEF Waiting
  <2>2. <<>> \o queue[c] = queue[c]
    BY <1>6, ConcatEmptySeq
  <2> QED BY <1>8, <2>1, <2>2
<1>10. PICK outcome \in L!Outcomes(c, kind[cur[c]]) :
          /\ Held' = outcome.held
          /\ Owed' = IF outcome.heard THEN Owed \cup {c} ELSE Owed
  <2> USE <1>1, <1>2 DEF L!Outcomes, Held, Owed
  <2>1. CASE Registers(c)
    <3>1. /\ kind[cur[c]] = "subscribe" /\ sub' = [sub EXCEPT ![c] = cur[c]] /\ cur[c] # 0
          /\ worker'[c] = "send"
      BY <1>5, <2>1, Bounds DEF Registers, Decide
    <3>2. Held' = Held \cup {c} /\ Owed' = Owed \cup {c}
      BY <3>1
    <3>3. [held |-> Held \cup {c}, heard |-> TRUE] \in L!Outcomes(c, kind[cur[c]])
      BY <3>1
    <3> QED BY <3>2, <3>3
  <2>2. CASE Answers(c)
    <3>1. /\ kind[cur[c]] \in {"subscribe", "message"} /\ sub' = sub
          /\ worker'[c] = "send"
      BY <2>2 DEF Answers, Decide, subVars
    <3>2. Held' = Held /\ Owed' = Owed \cup {c}
      BY <3>1
    <3>3. [held |-> Held, heard |-> TRUE] \in L!Outcomes(c, kind[cur[c]])
      BY <3>1
    <3> QED BY <3>2, <3>3
  <2>3. CASE Unanswered(c)
    <3>1. kind[cur[c]] = "message" /\ sub' = sub /\ c \in Held /\ worker'[c] = "serve"
      BY <2>3 DEF Unanswered, subVars
    <3>2. Held' = Held /\ Owed' = Owed
      BY <3>1
    <3>3. [held |-> Held, heard |-> FALSE] \in L!Outcomes(c, kind[cur[c]])
      BY <3>1
    <3> QED BY <3>2, <3>3
  <2>4. CASE Unregisters(c)
    <3>1. /\ kind[cur[c]] = "unsubscribe" /\ sub' = [sub EXCEPT ![c] = 0]
          /\ worker'[c] = "send" /\ c \in Held
      BY <2>4 DEF Unregisters, Moving, Inv, Working
    <3>2. Held' = Held \ {c} /\ Owed' = Owed \cup {c}
      BY <3>1
    <3>3. [held |-> Held \ {c}, heard |-> TRUE] \in L!Outcomes(c, kind[cur[c]])
      BY <3>1
    <3> QED BY <3>2, <3>3
  <2> QED BY <2>1, <2>2, <2>3, <2>4
<1> QED BY <1>2, <1>4, <1>8, <1>9, <1>10, Served

LEMMA OthersPromised ==
    ASSUME Moving,
           \/ \E c \in Convs : ServeEnds(c) \/ Answered(c)
           \/ \E n \in Frames : Relaying(n)
           \/ Write \/ WriterLeaves \/ UNCHANGED vars
    PROVE  [L!LinkNext]_L!linkVars
<1> DEFINE Aside ==
        /\ UNCHANGED <<conv, kind, count, reader, queue, sub>>
        /\ \A d \in Convs : /\ worker'[d] = "handle" <=> worker[d] = "handle"
                            /\ worker[d] = "handle" => cur'[d] = cur[d]
        /\ \/ UNCHANGED Owed /\ ctxDone' \in {ctxDone, TRUE}
           \/ UNCHANGED ctxDone /\ Owed' \subseteq Owed
<1>1. ASSUME NEW c \in Convs, ServeEnds(c) PROVE Aside
  BY <1>1 DEF ServeEnds, readVars, subVars, Moving, Inv, Types, TypeOK, Owed
<1>2. ASSUME NEW c \in Convs, Answered(c) PROVE Aside
  BY <1>2 DEF Answered, readVars, subVars, Moving, Inv, Types, TypeOK, Owed
<1>3. ASSUME NEW n \in Frames, Relaying(n) PROVE Aside
  BY <1>3 DEF Relaying, Arm, Emit, RelayEnds, readVars, workerVars, subVars, Owed
<1>4. ASSUME Write \/ WriterLeaves \/ UNCHANGED vars PROVE Aside
  BY <1>4 DEF Write, WriterLeaves, vars, readVars, workerVars, subVars, Owed
<1>5. ASSUME Aside PROVE [L!LinkNext]_L!linkVars
  <2>1. \A d \in Convs : Waiting(d)' = Waiting(d)
    BY <1>5 DEF Waiting, InHand, AtReader
  <2> QED BY <1>5, <2>1, Rests, Heard
<1> HIDE DEF Aside
<1> QED BY <1>1, <1>2, <1>3, <1>4, <1>5

\* The queues, the workers, their calls of the daemon and the end of the connection,
\* in whatever order they run, are a connection that serves each conversation's frames
\* one by one in order, and answers each subscribe, each end of a subscription there is
\* and each message but one that was accepted and could not be noted: it implements Link.
THEOREM PromiseKept == Spec => KeepsPromise
<1>1. Init => L!LinkInit
  <2> SUFFICES ASSUME Init PROVE L!LinkInit
    OBVIOUS
  <2>1. \A c \in Convs : InHand(c) = <<>> /\ queue[c] = <<>> /\ AtReader(c) = <<>>
    BY DEF Init, InHand, AtReader
  <2>2. \A c \in Convs : Waiting(c) = <<>>
    <3>1. (<<>> \o <<>>) \o <<>> = <<>>
      OBVIOUS
    <3> QED BY <2>1, <3>1 DEF Waiting
  <2>3. \A c \in Convs : What(Waiting(c)) = <<>>
    BY <2>2 DEF What
  <2> QED BY <2>3 DEF Init, Owed, Held, L!LinkInit, L!Nothing
<1>2. Moving /\ [Next]_vars => [L!LinkNext]_L!linkVars
  BY ReadPromised, ReaderPromised, ClosePromised, TakePromised, ServePromised,
     OthersPromised DEF Next, Dispatching, Serving
<1> QED BY <1>1, <1>2, MovingAlways, PTL DEF Spec, KeepsPromise, L!Promise
=============================================================================
