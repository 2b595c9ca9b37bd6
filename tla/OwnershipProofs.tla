---------------------------- MODULE OwnershipProofs ----------------------------
(***************************************************************************)
(* Who may close a session: whoever took it out of the map, alone and      *)
(* once, for every number of sockets, conversations, sessions and          *)
(* requests.  A session is in one place at a time: in the map under one    *)
(* conversation, with the worker that has opened it and has not published  *)
(* it, with the request that created it or took it to close it, with the   *)
(* sweep, or with closeAll.  Wherever it is, nobody has closed it.         *)
(***************************************************************************)
EXTENDS ConversationsProofs

\* In the map, under one conversation.
MapOwns ==
    \A c \in Convs : sessions[c] # None =>
        /\ life[sessions[c]] = "live"
        /\ \A d \in Convs : sessions[d] = sessions[c] => d = c

\* With the worker that opened it, until it is published.
WorkerOwns ==
    \A w \in Workers : pc[w] = "opened" /\ local[w] # None =>
        /\ life[local[w]] = "live"
        /\ local[w] \notin sweep \cup closer
        /\ \A c \in Convs : sessions[c] # local[w]
        /\ \A v \in Workers : pc[v] = "opened" /\ local[v] = local[w] => v = w
        /\ \A h \in Handlers : hpc[h] \in {"created", "closing"} => hsess[h] # local[w]

\* With the request that created it, or is about to close it.
HandlerOwns ==
    \A h \in Handlers : hpc[h] \in {"created", "closing"} =>
        /\ life[hsess[h]] = "live"
        /\ hsess[h] \notin sweep \cup closer
        /\ \A c \in Convs : sessions[c] # hsess[h]
        /\ \A g \in Handlers :
              hpc[g] \in {"created", "closing"} /\ hsess[g] = hsess[h] => g = h

\* With the sweep, or with closeAll.
TakenOwns ==
    /\ sweep \cap closer = {}
    /\ \A s \in sweep \cup closer : /\ life[s] = "live"
                                    /\ \A c \in Convs : sessions[c] # s

OwnInv == MapOwns /\ WorkerOwns /\ HandlerOwns /\ TakenOwns

LEMMA OwnInit == Init => OwnInv
BY DEF Init, OwnInv, MapOwns, WorkerOwns, HandlerOwns, TakenOwns

LEMMA OwnNext == TypeOK /\ Control /\ OwnInv /\ [Next]_vars => OwnInv'
<1> SUFFICES ASSUME TypeOK, Control, OwnInv, [Next]_vars
             PROVE  OwnInv'
    OBVIOUS
<1> USE WorkerParts, NoneAssumption
        DEF TypeOK, PCs, Goto, HGoto, Handles, OwnInv, MapOwns, WorkerOwns, HandlerOwns,
            TakenOwns
<1>1. ASSUME NEW k \in Sockets, Connect(k)
      PROVE  OwnInv'
  BY <1>1 DEF Connect, WorkersOf, Control, WorkerControl, diskVars, sessVars, workerVars, handlerVars
<1>2. ASSUME NEW k \in Sockets, Drop(k)
      PROVE  OwnInv'
  BY <1>2 DEF Drop, diskVars, sessVars, workerVars, handlerVars
<1>3. ASSUME NEW k \in Sockets, CloseSubscriptions(k)
      PROVE  OwnInv'
  BY <1>3 DEF CloseSubscriptions, Subscribed, WorkersOf, diskVars, sessVars, workerVars, handlerVars
<1>4. ASSUME NEW w \in Workers, Subscribe(w)
      PROVE  OwnInv'
  BY <1>4 DEF Subscribe, Found, diskVars, sessVars, workerVars, handlerVars
<1>5. ASSUME NEW w \in Workers, LookupFinds(w)
      PROVE  OwnInv'
  BY <1>5 DEF LookupFinds, diskVars, sessVars, workerVars, handlerVars
<1>6. ASSUME NEW w \in Workers, LookupFails(w)
      PROVE  OwnInv'
  BY <1>6 DEF LookupFails, diskVars, sessVars, workerVars, handlerVars
<1>7. ASSUME NEW w \in Workers, AttachFound(w)
      PROVE  OwnInv'
  BY <1>7 DEF AttachFound, diskVars, sessVars, workerVars, handlerVars
<1>8. ASSUME NEW w \in Workers, AttachWaits(w)
      PROVE  OwnInv'
  BY <1>8 DEF AttachWaits, Opening, diskVars, sessVars, workerVars, handlerVars
<1>9. ASSUME NEW w \in Workers, AttachOpens(w)
      PROVE  OwnInv'
  BY <1>9 DEF AttachOpens, Opening, diskVars, sessVars, workerVars, handlerVars
<1>10. ASSUME NEW w \in Workers, Woken(w)
      PROVE  OwnInv'
  BY <1>10 DEF Woken, diskVars, sessVars, workerVars, handlerVars
<1>11. ASSUME NEW w \in Workers, WaitCancelled(w)
      PROVE  OwnInv'
  BY <1>11 DEF WaitCancelled, Cancelled, diskVars, sessVars, workerVars, handlerVars
<1>12. ASSUME NEW w \in Workers, OpenSucceeds(w)
      PROVE  OwnInv'
  <2>1. PICK s \in Sessions : NewSession(s) /\ local' = [local EXCEPT ![w] = s]
    BY <1>12 DEF OpenSucceeds
  <2>2. /\ s # None
        /\ \A c \in Convs : sessions[c] # s
        /\ \A v \in Workers : local[v] # s
        /\ \A h \in Handlers : hsess[h] # s
        /\ s \notin sweep \cup closer
    BY <2>1 DEF NewSession, Reachable
  <2>3. /\ pc' = [pc EXCEPT ![w] = "opened"]
        /\ life' = [life EXCEPT ![s] = "live"]
        /\ UNCHANGED <<sessions, sweep, closer, hpc, hsess>>
    BY <1>12, <2>1 DEF OpenSucceeds, NewSession, handlerVars
  <2> QED
    BY <2>1, <2>2, <2>3
<1>13. ASSUME NEW w \in Workers, OpenFails(w)
      PROVE  OwnInv'
  BY <1>13 DEF OpenFails, Control, WorkerControl, diskVars, sessVars, workerVars, handlerVars
<1>14. ASSUME NEW w \in Workers, Publish(w)
      PROVE  OwnInv'
  BY <1>14 DEF Publish, diskVars, sessVars, workerVars, handlerVars
<1>15. ASSUME NEW w \in Workers, CloseGate(w)
      PROVE  OwnInv'
  BY <1>15 DEF CloseGate, Waiting, diskVars, sessVars, workerVars, handlerVars
<1>16. ASSUME NEW w \in Workers, Join(w)
      PROVE  OwnInv'
  BY <1>16 DEF Join, diskVars, sessVars, workerVars, handlerVars
<1>17. ASSUME NEW w \in Workers, Register(w)
      PROVE  OwnInv'
  BY <1>17 DEF Register, diskVars, sessVars, workerVars, handlerVars
<1>18. ASSUME NEW w \in Workers, Unsubscribe(w)
      PROVE  OwnInv'
  BY <1>18 DEF Unsubscribe, diskVars, sessVars, workerVars, handlerVars
<1>19. ASSUME NEW w \in Workers, Leave(w)
      PROVE  OwnInv'
  BY <1>19 DEF Leave, diskVars, sessVars, workerVars, handlerVars
<1>20. ASSUME NEW w \in Workers, Send(w)
      PROVE  OwnInv'
  BY <1>20 DEF Send, diskVars, sessVars, workerVars, handlerVars
<1>21. ASSUME NEW w \in Workers, Touch(w)
      PROVE  OwnInv'
  BY <1>21 DEF Touch, diskVars, sessVars, workerVars, handlerVars
<1>22. ASSUME NEW w \in Workers, Exit(w)
      PROVE  OwnInv'
  BY <1>22 DEF Exit, Cancelled, diskVars, sessVars, workerVars, handlerVars
<1>23. ASSUME NEW h \in Handlers, NEW c \in Convs, Create(h, c)
      PROVE  OwnInv'
  <2>1. PICK s \in Sessions : NewSession(s) /\ hsess' = [hsess EXCEPT ![h] = s]
    BY <1>23 DEF Create
  <2>2. /\ s # None
        /\ \A d \in Convs : sessions[d] # s
        /\ \A v \in Workers : local[v] # s
        /\ \A g \in Handlers : hsess[g] # s
        /\ s \notin sweep \cup closer
    BY <2>1 DEF NewSession, Reachable
  <2>3. /\ hpc' = [hpc EXCEPT ![h] = "created"]
        /\ life' = [life EXCEPT ![s] = "live"]
        /\ UNCHANGED <<sessions, sweep, closer, pc, local>>
    BY <1>23, <2>1 DEF Create, NewSession, workerVars
  <2> QED
    BY <2>1, <2>2, <2>3
<1>24. ASSUME NEW h \in Handlers, NEW c \in Convs, Remove(h, c)
      PROVE  OwnInv'
  BY <1>24 DEF Remove, diskVars, sessVars, workerVars, handlerVars
<1>25. ASSUME NEW h \in Handlers, PublishCreated(h)
      PROVE  OwnInv'
  BY <1>25 DEF PublishCreated, diskVars, sessVars, workerVars, handlerVars
<1>25a. ASSUME NEW h \in Handlers, CreateFails(h)
      PROVE  OwnInv'
  BY <1>25a DEF CreateFails, diskVars, sessVars, workerVars, handlerVars
<1>26. ASSUME NEW h \in Handlers, TakeRemoved(h)
      PROVE  OwnInv'
  <2>1. hconv[h] \in Convs
    BY <1>26 DEF TakeRemoved, Control, HandlerControl
  <2>2. /\ hsess' = [hsess EXCEPT ![h] = sessions[hconv[h]]]
        /\ sessions' = [sessions EXCEPT ![hconv[h]] = None]
        /\ hpc' = [hpc EXCEPT ![h] = IF sessions[hconv[h]] # None THEN "closing"
                                                               ELSE "forgetting"]
        /\ UNCHANGED <<life, pc, local, sweep, closer>>
    BY <1>26 DEF TakeRemoved, sessVars, workerVars
  <2>3. MapOwns'
    BY <2>1, <2>2
  <2>4. WorkerOwns'
    BY <2>1, <2>2
  <2>5. HandlerOwns'
    BY <2>1, <2>2 DEF Control, HandlerControl
  <2>6. TakenOwns'
    BY <2>1, <2>2
  <2> QED
    BY <2>3, <2>4, <2>5, <2>6
<1>27. ASSUME NEW h \in Handlers, CloseRemoved(h)
      PROVE  OwnInv'
  BY <1>27 DEF CloseRemoved, CloseHandle, diskVars, sessVars, workerVars, handlerVars
<1>28. ASSUME NEW h \in Handlers, Forget(h)
      PROVE  OwnInv'
  BY <1>28 DEF Forget, diskVars, sessVars, workerVars, handlerVars
<1>29. ASSUME NEW n \in Sessions, GrowStale(n)
      PROVE  OwnInv'
  BY <1>29 DEF GrowStale, Held, diskVars, sessVars, workerVars, handlerVars
<1>30. ASSUME NEW n \in Sessions, TurnEnds(n)
      PROVE  OwnInv'
  BY <1>30 DEF TurnEnds, diskVars, sessVars, workerVars, handlerVars
<1>31. ASSUME NEW n \in Sessions, EndIdle(n)
      PROVE  OwnInv'
  BY <1>31 DEF EndIdle, CloseHandle, diskVars, sessVars, workerVars, handlerVars
<1>32. ASSUME NEW n \in Sessions, EndHeld(n)
      PROVE  OwnInv'
  BY <1>32 DEF EndHeld, CloseHandle, diskVars, sessVars, workerVars, handlerVars
<1>33. ASSUME TakeIdle
      PROVE  OwnInv'
  <2>1. PICK S \in SUBSET Held : sweep' = S /\ sessions' = Without(S)
    BY <1>33 DEF TakeIdle
  <2>2. UNCHANGED <<life, pc, local, closer, hpc, hsess>>
    BY <1>33 DEF TakeIdle, sessVars, workerVars, handlerVars
  <2>3. \A s \in S : s # None /\ \E c \in Convs : sessions[c] = s
    BY DEF Held
  <2>4. \A c \in Convs : sessions'[c] = IF sessions[c] \in S THEN None ELSE sessions[c]
    BY <2>1 DEF Without
  <2>5. MapOwns'
    BY <2>2, <2>4
  <2>6. WorkerOwns'
    BY <2>1, <2>2, <2>3, <2>4
  <2>7. HandlerOwns'
    BY <2>1, <2>2, <2>3, <2>4 DEF Control, HandlerControl
  <2>8. TakenOwns'
    BY <2>1, <2>2, <2>3, <2>4
  <2> QED
    BY <2>5, <2>6, <2>7, <2>8
<1>34. ASSUME Signal
      PROVE  OwnInv'
  BY <1>34 DEF Signal, diskVars, sessVars, workerVars, handlerVars
<1>35. ASSUME ShutdownHTTP
      PROVE  OwnInv'
  BY <1>35 DEF ShutdownHTTP, diskVars, sessVars, workerVars, handlerVars
<1>36. ASSUME TakeAll
      PROVE  OwnInv'
  <2>1. PICK S \in SUBSET Held : closer' = S /\ sessions' = Without(S)
    BY <1>36 DEF TakeAll
  <2>2. UNCHANGED <<life, pc, local, sweep, hpc, hsess>>
    BY <1>36 DEF TakeAll, sessVars, workerVars, handlerVars
  <2>3. \A s \in S : s # None /\ \E c \in Convs : sessions[c] = s
    BY DEF Held
  <2>4. \A c \in Convs : sessions'[c] = IF sessions[c] \in S THEN None ELSE sessions[c]
    BY <2>1 DEF Without
  <2>5. MapOwns'
    BY <2>2, <2>4
  <2>6. WorkerOwns'
    BY <2>1, <2>2, <2>3, <2>4
  <2>7. HandlerOwns'
    BY <2>1, <2>2, <2>3, <2>4 DEF Control, HandlerControl
  <2>8. TakenOwns'
    BY <2>1, <2>2, <2>3, <2>4
  <2> QED
    BY <2>5, <2>6, <2>7, <2>8
<1>37. ASSUME MainReturns
      PROVE  OwnInv'
  BY <1>37 DEF MainReturns, Booted, diskVars, sessVars, workerVars, handlerVars
<1>38. ASSUME Kill
      PROVE  OwnInv'
  BY <1>38 DEF Kill, Booted, diskVars, sessVars, workerVars, handlerVars
<1>39. CASE UNCHANGED vars
  BY <1>39 DEF vars, diskVars, sessVars, workerVars, handlerVars
<1> QED
  BY <1>1, <1>2, <1>3, <1>4, <1>5, <1>6, <1>7, <1>8, <1>9, <1>10, <1>11, <1>12, <1>13, <1>14, <1>15, <1>16, <1>17,
     <1>18, <1>19, <1>20, <1>21, <1>22, <1>23, <1>24, <1>25, <1>25a, <1>26, <1>27, <1>28, <1>29, <1>30, <1>31, <1>32, <1>33, <1>34, <1>35, <1>36, <1>37, <1>38, <1>39
     DEF Next, WorkerStep, HandlerStep

LEMMA OwnIsClosedOnce == TypeOK /\ Control /\ OwnInv => ClosedOnce /\ HeldIsLive
<1> SUFFICES ASSUME TypeOK, Control, OwnInv
             PROVE  ClosedOnce /\ HeldIsLive
    OBVIOUS
<1> USE DEF OwnInv
<1>1. HeldIsLive
  BY DEF HeldIsLive, Held, MapOwns
<1>2. \A h \in Handlers : \A s \in ClosingBy(h) : s = hsess[h] /\ hpc[h] = "closing"
  BY DEF ClosingBy
<1>3. \A h \in Handlers : ClosingBy(h) \cap (sweep \cup closer) = {}
  BY <1>2 DEF HandlerOwns
<1>4. \A h, g \in Handlers : h # g => ClosingBy(h) \cap ClosingBy(g) = {}
  BY <1>2 DEF HandlerOwns
<1>5. \A s \in sweep \cup closer : life[s] = "live" /\ s \notin Held
  BY DEF TakenOwns, Held
<1>6. \A h \in Handlers : \A s \in ClosingBy(h) : life[s] = "live" /\ s \notin Held
  BY <1>2 DEF HandlerOwns, Held
<1> QED
  BY <1>1, <1>3, <1>4, <1>5, <1>6 DEF ClosedOnce, TakenOwns

LEMMA Owned == Spec => [](TypeOK /\ Control /\ OwnInv)
<1>1. Init => TypeOK /\ Control /\ OwnInv
  BY TypeInit, OwnInit
<1>2. TypeOK /\ Control /\ OwnInv /\ [Next]_vars => TypeOK' /\ Control' /\ OwnInv'
  BY TypeNext, WorkerControlNext, HandlerControlNext, OwnNext DEF Control
<1> QED
  BY <1>1, <1>2, PTL DEF Spec

\* The sweep, closeAll and a delete take sessions from one map: whoever takes one is
\* the only one to close it, and it has not been closed before (ClosedOnce).
THEOREM TakerCloses == Spec => []ClosedOnce
<1>1. TypeOK /\ Control /\ OwnInv => ClosedOnce
  BY OwnIsClosedOnce
<1> QED
  BY <1>1, Owned, PTL

\* A session that a request finds in the map has not been closed (HeldIsLive).
THEOREM FoundIsLive == Spec => []HeldIsLive
<1>1. TypeOK /\ Control /\ OwnInv => HeldIsLive
  BY OwnIsClosedOnce
<1> QED
  BY <1>1, Owned, PTL

-----------------------------------------------------------------------------
(* What the sweep takes. *)

LEMMA OnlyTakeIdleTakes == [Next]_vars => TakeIdle \/ sweep' \subseteq sweep
<1> SUFFICES ASSUME [Next]_vars
             PROVE  TakeIdle \/ sweep' \subseteq sweep
    OBVIOUS
<1>1. ASSUME NEW k \in Sockets, Connect(k) \/ Drop(k) \/ CloseSubscriptions(k)
      PROVE  sweep' \subseteq sweep
  BY <1>1 DEF Connect, Drop, CloseSubscriptions
<1>2. ASSUME NEW w \in Workers, WorkerStep(w)
      PROVE  sweep' \subseteq sweep
  BY <1>2 DEF WorkerStep, Subscribe, LookupFinds, LookupFails, AttachFound, AttachWaits,
       AttachOpens, Woken, WaitCancelled, OpenSucceeds, OpenFails, Publish, CloseGate, Join,
       Register, Unsubscribe, Leave, Send, Touch, Exit
<1>3. ASSUME NEW h \in Handlers, NEW c \in Convs, Create(h, c) \/ Remove(h, c)
      PROVE  sweep' \subseteq sweep
  BY <1>3 DEF Create, Remove
<1>4. ASSUME NEW h \in Handlers, HandlerStep(h)
      PROVE  sweep' \subseteq sweep
  BY <1>4 DEF HandlerStep, PublishCreated, CreateFails, TakeRemoved, CloseRemoved, Forget
<1>5. ASSUME NEW s \in Sessions, GrowStale(s) \/ TurnEnds(s) \/ EndIdle(s) \/ EndHeld(s)
      PROVE  sweep' \subseteq sweep
  BY <1>5 DEF GrowStale, TurnEnds, EndIdle, EndHeld
<1>6. ASSUME Signal \/ ShutdownHTTP \/ TakeAll \/ MainReturns \/ Kill
      PROVE  sweep' \subseteq sweep
  BY <1>6 DEF Signal, ShutdownHTTP, TakeAll, MainReturns, Kill, Booted
<1>7. CASE UNCHANGED vars
  BY <1>7 DEF vars
<1> QED
  BY <1>1, <1>2, <1>3, <1>4, <1>5, <1>6, <1>7 DEF Next

\* A session without viewers is one that no worker is subscribed to.
LEMMA UnviewedUnwatched ==
    ASSUME ViewersExact, NEW s \in Held, viewers[s] = 0, s \in Sessions
    PROVE  \A w \in Workers : sub[w] # s
<1>1. Cardinality(Watching(s)) = 0
  BY DEF ViewersExact, Reachable, Held
<1>2. Watching(s) = {}
  BY <1>1, WatchingFinite, FS_EmptySet
<1> QED
  BY <1>2 DEF Watching

\* The sweep takes no session that has a registered subscription or a turn, since
\* the count of its viewers is exact (SweepSpares).
THEOREM SweepTakesUnwatched == Spec => SweepSpares
<1>1. TypeOK /\ Control /\ ViewersExact /\ [Next]_vars
      => [\A s \in sweep' \ sweep : ~turn[s] /\ \A w \in Workers : sub[w] # s]_vars
  <2> SUFFICES ASSUME TypeOK, ViewersExact, [Next]_vars, NEW s \in sweep' \ sweep
               PROVE  ~turn[s] /\ \A w \in Workers : sub[w] # s
      OBVIOUS
  <2>1. TakeIdle
    BY OnlyTakeIdleTakes
  <2>2. s \in Held /\ Releasable(s) /\ s \in Sessions
    BY <2>1 DEF TakeIdle, TypeOK, Held
  <2>3. ~turn[s] /\ viewers[s] = 0
    BY <2>2 DEF Releasable, Quiet
  <2> QED
    BY <2>2, <2>3, UnviewedUnwatched
<1>2. Spec => [](TypeOK /\ Control)
  BY Typing
<1>3. Spec => []ViewersExact
  BY ViewersCounted
<1> QED
  BY <1>1, <1>2, <1>3, PTL DEF Spec, SweepSpares

-----------------------------------------------------------------------------
(* What becomes of the daemon's handles. *)

\* Opened or created, and not published yet.
InHand ==
    {s \in Sessions : \/ \E w \in Workers : pc[w] = "opened" /\ local[w] = s
                      \/ \E h \in Handlers : hpc[h] = "created" /\ hsess[h] = s}

\* Taken out of the map by the sweep, by closeAll or by a delete.
ToClose ==
    {s \in Sessions : \/ s \in sweep \cup closer
                      \/ \E h \in Handlers : hpc[h] = "closing" /\ hsess[h] = s}

Closed == {s \in Sessions : life[s] = "closed"}

H == INSTANCE HandleLife WITH
        inHand <- InHand, listed <- sessions, taken <- ToClose, closed <- Closed
KeepsLifecycle == H!Lifecycle

\* closeAll is called once, when the listener is closed.
CloserLate == server # "closing" => closer = {}

LEMMA CloserLateNext == CloserLate /\ [Next]_vars => CloserLate'
<1> SUFFICES ASSUME CloserLate, [Next]_vars PROVE CloserLate'
  OBVIOUS
<1> USE DEF CloserLate
<1>1. ASSUME NEW k \in Sockets, Connect(k) \/ Drop(k) \/ CloseSubscriptions(k)
      PROVE  CloserLate'
  BY <1>1 DEF Connect, Drop, CloseSubscriptions
<1>2. ASSUME NEW w \in Workers, WorkerStep(w)
      PROVE  CloserLate'
  BY <1>2 DEF WorkerStep, Subscribe, LookupFinds, LookupFails, AttachFound, AttachWaits,
       AttachOpens, Woken, WaitCancelled, OpenSucceeds, OpenFails, Publish, CloseGate, Join,
       Register, Unsubscribe, Leave, Send, Touch, Exit
<1>3. ASSUME NEW h \in Handlers, NEW c \in Convs, Create(h, c) \/ Remove(h, c)
      PROVE  CloserLate'
  BY <1>3 DEF Create, Remove
<1>4. ASSUME NEW h \in Handlers, HandlerStep(h)
      PROVE  CloserLate'
  BY <1>4 DEF HandlerStep, PublishCreated, CreateFails, TakeRemoved, CloseRemoved, Forget
<1>5. ASSUME NEW s \in Sessions, GrowStale(s) \/ TurnEnds(s) \/ EndIdle(s) \/ EndHeld(s)
      PROVE  CloserLate'
  BY <1>5 DEF GrowStale, TurnEnds, EndIdle, EndHeld
<1>6. CASE TakeIdle \/ Signal \/ ShutdownHTTP \/ TakeAll \/ MainReturns \/ Kill
  BY <1>6 DEF TakeIdle, Signal, ShutdownHTTP, TakeAll, MainReturns, Kill, Booted
<1>7. CASE UNCHANGED vars
  BY <1>7 DEF vars
<1> QED BY <1>1, <1>2, <1>3, <1>4, <1>5, <1>6, <1>7 DEF Next

\* A handle that is opened is one that nobody has.
LEMMA OpenedIsNew ==
    ASSUME TypeOK, NEW s \in Sessions, NewSession(s), InHand' = InHand \cup {s},
           UNCHANGED <<sessions, ToClose>>
    PROVE  H!Open(s)
<1>1. /\ \A c \in Convs : sessions[c] # s
      /\ \A w \in Workers : local[w] # s
      /\ \A h \in Handlers : hsess[h] # s
      /\ s \notin sweep \cup closer
      /\ life' = [life EXCEPT ![s] = "live"]
  BY DEF NewSession, Reachable
<1>2. s \notin H!Owned
  BY <1>1 DEF H!Owned, H!Listed, InHand, ToClose
<1>3. Closed' = Closed \ {s}
  BY <1>1 DEF Closed, TypeOK
<1> QED BY <1>2, <1>3 DEF H!Open

LEMMA WorkerHandles ==
    ASSUME TypeOK, Control, OwnInv, NEW w \in Workers, WorkerStep(w)
    PROVE  [H!HandlesNext]_H!handleVars
<1> USE DEF TypeOK, PCs, Goto, sessVars, handlerVars, diskVars
<1>1. CASE OpenSucceeds(w)
  <2>1. PICK s \in Sessions : NewSession(s) /\ local' = [local EXCEPT ![w] = s]
    BY <1>1 DEF OpenSucceeds
  <2>2. /\ pc[w] = "opening" /\ pc' = [pc EXCEPT ![w] = "opened"]
        /\ UNCHANGED <<sessions, sweep, closer, hpc, hsess>>
    BY <1>1 DEF OpenSucceeds
  <2>3. InHand' = InHand \cup {s}
    BY <2>1, <2>2 DEF InHand
  <2>4. ToClose' = ToClose
    BY <2>2 DEF ToClose
  <2>5. H!Open(s)
    BY <2>1, <2>2, <2>3, <2>4, OpenedIsNew
  <2> QED BY <2>5 DEF H!HandlesNext
<1>2. CASE Publish(w)
  <2>1. /\ pc[w] = "opened" /\ pc' = [pc EXCEPT ![w] = "closing"]
        /\ sessions' = [sessions EXCEPT ![ConvOf(w)] =
                          IF local[w] # None THEN local[w] ELSE @]
        /\ UNCHANGED <<local, life, sweep, closer, hpc, hsess>>
    BY <1>2 DEF Publish
  <2>2. ToClose' = ToClose /\ Closed' = Closed /\ ConvOf(w) \in Convs
    BY <2>1, WorkerParts DEF ToClose, Closed
  <2>3. CASE local[w] = None
    <3>1. InHand' = InHand
      BY <2>1, <2>3, NoneAssumption DEF InHand
    <3>2. sessions' = sessions
      BY <2>1, <2>3
    <3> QED BY <2>2, <3>1, <3>2 DEF H!handleVars
  <2>4. CASE local[w] # None
    <3>1. /\ \A v \in Workers : pc[v] = "opened" /\ local[v] = local[w] => v = w
          /\ \A h \in Handlers : hpc[h] = "created" => hsess[h] # local[w]
      BY <2>1, <2>4 DEF OwnInv, WorkerOwns
    <3>2. local[w] \in InHand /\ InHand' = InHand \ {local[w]}
      BY <2>1, <2>4, <3>1 DEF InHand
    <3>3. H!List(ConvOf(w), local[w])
      BY <2>1, <2>2, <2>4, <3>2 DEF H!List
    <3> QED BY <2>2, <2>4, <3>3 DEF H!HandlesNext
  <2> QED BY <2>3, <2>4
<1>3. ASSUME WorkerStep(w), ~OpenSucceeds(w), ~Publish(w)
      PROVE  UNCHANGED H!handleVars
  <2>1. UNCHANGED <<sessions, life, sweep, closer, hpc, hsess>>
    BY <1>3 DEF WorkerStep, Subscribe, LookupFinds, LookupFails, AttachFound, AttachWaits,
         AttachOpens, Woken, WaitCancelled, OpenFails, CloseGate, Join,
         Register, Unsubscribe, Leave, Send, Touch, Exit
  <2>2. /\ \A v \in Workers \ {w} : pc'[v] = pc[v] /\ local'[v] = local[v]
        /\ pc[w] # "opened"
        /\ pc'[w] = "opened" => local'[w] = None
    BY <1>3 DEF WorkerStep, Subscribe, LookupFinds, LookupFails, AttachFound, AttachWaits,
         AttachOpens, Woken, WaitCancelled, OpenFails, CloseGate, Join, Handles, Found,
         Register, Unsubscribe, Leave, Send, Touch, Exit, Control, WorkerControl
  <2>3. InHand' = InHand
    BY <2>1, <2>2, NoneAssumption DEF InHand
  <2> QED BY <2>1, <2>3 DEF H!handleVars, ToClose, Closed
<1> QED BY <1>1, <1>2, <1>3

LEMMA HandlerHandles ==
    ASSUME TypeOK, Control, OwnInv, NEW h \in Handlers,
           HandlerStep(h) \/ \E c \in Convs : Create(h, c) \/ Remove(h, c)
    PROVE  [H!HandlesNext]_H!handleVars
<1> USE DEF TypeOK, HGoto, sessVars, workerVars, diskVars
<1>1. ASSUME NEW c \in Convs, Create(h, c) PROVE H!HandlesNext
  <2>1. PICK s \in Sessions : NewSession(s) /\ hsess' = [hsess EXCEPT ![h] = s]
    BY <1>1 DEF Create
  <2>2. /\ hpc[h] = "idle" /\ hpc' = [hpc EXCEPT ![h] = "created"]
        /\ UNCHANGED <<sessions, sweep, closer, pc, local>>
    BY <1>1 DEF Create
  <2>3. InHand' = InHand \cup {s}
    BY <2>1, <2>2 DEF InHand
  <2>4. ToClose' = ToClose
    BY <2>1, <2>2 DEF ToClose
  <2>5. H!Open(s)
    BY <2>1, <2>2, <2>3, <2>4, OpenedIsNew
  <2> QED BY <2>5 DEF H!HandlesNext
<1>2. ASSUME PublishCreated(h) \/ CreateFails(h) PROVE H!HandlesNext
  <2>1. /\ hpc[h] = "created" /\ hpc' = [hpc EXCEPT ![h] = "idle"]
        /\ hsess' = [hsess EXCEPT ![h] = None]
        /\ UNCHANGED <<life, sweep, closer, pc, local>>
    BY <1>2 DEF PublishCreated, CreateFails
  <2>2. ToClose' = ToClose /\ Closed' = Closed
    BY <2>1 DEF ToClose, Closed
  <2>3. hconv[h] \in Convs /\ hsess[h] \in Sessions
    BY <2>1, NoneAssumption DEF Control, HandlerControl
  <2>4. /\ \A w \in Workers : pc[w] = "opened" => local[w] # hsess[h]
        /\ \A g \in Handlers : hpc[g] = "created" /\ hsess[g] = hsess[h] => g = h
    BY <2>1, <2>3, NoneAssumption DEF OwnInv, WorkerOwns, HandlerOwns
  <2>5. hsess[h] \in InHand /\ InHand' = InHand \ {hsess[h]}
    BY <2>1, <2>3, <2>4 DEF InHand
  <2>6. CASE PublishCreated(h)
    <3>1. H!List(hconv[h], hsess[h])
      BY <2>2, <2>5, <2>6 DEF PublishCreated, H!List
    <3> QED BY <2>3, <3>1 DEF H!HandlesNext
  <2>7. CASE CreateFails(h)
    <3>1. H!GiveUp(hsess[h])
      BY <2>2, <2>5, <2>7 DEF CreateFails, H!GiveUp
    <3> QED BY <2>3, <3>1 DEF H!HandlesNext
  <2> QED BY <1>2, <2>6, <2>7
<1>3. ASSUME TakeRemoved(h) PROVE [H!HandlesNext]_H!handleVars
  <2>1. /\ hpc[h] = "removing"
        /\ hpc' = [hpc EXCEPT ![h] = IF sessions[hconv[h]] # None THEN "closing"
                                                                ELSE "forgetting"]
        /\ hsess' = [hsess EXCEPT ![h] = sessions[hconv[h]]]
        /\ sessions' = [sessions EXCEPT ![hconv[h]] = None]
        /\ UNCHANGED <<life, sweep, closer, pc, local>>
    BY <1>3 DEF TakeRemoved
  <2>2. hconv[h] \in Convs
    BY <2>1, NoneAssumption DEF Control, HandlerControl
  <2>3. InHand' = InHand /\ Closed' = Closed
    BY <2>1 DEF InHand, Closed
  <2>4. CASE sessions[hconv[h]] = None
    <3>1. sessions' = sessions
      BY <2>1, <2>2, <2>4
    <3>2. ToClose' = ToClose
      BY <2>1, <2>4 DEF ToClose
    <3> QED BY <2>3, <3>1, <3>2 DEF H!handleVars
  <2>5. CASE sessions[hconv[h]] # None
    <3> DEFINE s == sessions[hconv[h]]
    <3>1. s \in Sessions /\ \A c \in Convs : sessions[c] = s => c = hconv[h]
      BY <2>2, <2>5 DEF OwnInv, MapOwns
    <3>2. ToClose' = ToClose \cup {s}
      BY <2>1, <2>2, <3>1, <2>5 DEF ToClose
    <3>3. sessions' = [c \in Convs |-> IF sessions[c] \in {s} THEN None ELSE sessions[c]]
      BY <2>1, <2>2, <3>1
    <3>4. {s} \subseteq H!Listed
      BY <2>2, <2>5 DEF H!Listed
    <3>5. H!Take({s})
      BY <2>3, <3>2, <3>3, <3>4 DEF H!Take
    <3> QED BY <3>1, <3>5 DEF H!HandlesNext
  <2> QED BY <2>4, <2>5
<1>4. ASSUME CloseRemoved(h) PROVE H!HandlesNext
  <2>1. /\ hpc[h] = "closing" /\ hpc' = [hpc EXCEPT ![h] = "forgetting"]
        /\ hsess' = [hsess EXCEPT ![h] = None]
        /\ life' = [life EXCEPT ![hsess[h]] = "closed"]
        /\ UNCHANGED <<sessions, sweep, closer, pc, local>>
    BY <1>4 DEF CloseRemoved, CloseHandle
  <2>2. hsess[h] \in Sessions /\ life[hsess[h]] = "live" /\ hsess[h] \notin sweep \cup closer
    BY <2>1, NoneAssumption DEF Control, HandlerControl, OwnInv, HandlerOwns
  <2>3. \A g \in Handlers : hpc[g] = "closing" /\ hsess[g] = hsess[h] => g = h
    BY <2>1 DEF OwnInv, HandlerOwns
  <2>4. InHand' = InHand
    BY <2>1 DEF InHand
  <2>5. hsess[h] \in ToClose /\ ToClose' = ToClose \ {hsess[h]}
    BY <2>1, <2>2, <2>3 DEF ToClose
  <2>6. hsess[h] \notin Closed /\ Closed' = Closed \cup {hsess[h]}
    BY <2>1, <2>2 DEF Closed
  <2>7. H!Close(hsess[h])
    BY <2>1, <2>4, <2>5, <2>6 DEF H!Close
  <2> QED BY <2>2, <2>7 DEF H!HandlesNext
<1>5. ASSUME Forget(h) \/ \E c \in Convs : Remove(h, c)
      PROVE  UNCHANGED H!handleVars
  <2>1. /\ hpc[h] \in {"idle", "forgetting"} /\ hpc'[h] \in {"idle", "removing"}
        /\ \A g \in Handlers \ {h} : hpc'[g] = hpc[g]
        /\ UNCHANGED <<sessions, life, sweep, closer, pc, local, hsess>>
    BY <1>5 DEF Forget, Remove
  <2>2. InHand' = InHand /\ ToClose' = ToClose
    BY <2>1 DEF InHand, ToClose
  <2> QED BY <2>1, <2>2 DEF H!handleVars, Closed
<1> QED BY <1>1, <1>2, <1>3, <1>4, <1>5 DEF HandlerStep

LEMMA SessionHandles ==
    ASSUME TypeOK, OwnInv, NEW s \in Sessions,
           GrowStale(s) \/ TurnEnds(s) \/ EndIdle(s) \/ EndHeld(s)
    PROVE  [H!HandlesNext]_H!handleVars
<1> USE DEF TypeOK, workerVars, handlerVars
<1>1. ASSUME EndIdle(s) \/ EndHeld(s) PROVE H!HandlesNext
  <2>1. /\ s \in sweep \cup closer
        /\ sweep' \cup closer' = (sweep \cup closer) \ {s}
        /\ life[s] = "live"
    BY <1>1 DEF EndIdle, EndHeld, OwnInv, TakenOwns
  <2>2. /\ life' = [life EXCEPT ![s] = "closed"]
        /\ UNCHANGED <<sessions, pc, local, hpc, hsess>>
    BY <1>1 DEF EndIdle, EndHeld, CloseHandle
  <2>3. \A h \in Handlers : hpc[h] = "closing" => hsess[h] # s
    BY <2>1 DEF OwnInv, HandlerOwns
  <2>4. InHand' = InHand
    BY <2>2 DEF InHand
  <2>5. s \in ToClose /\ ToClose' = ToClose \ {s}
    BY <2>1, <2>2, <2>3 DEF ToClose
  <2>6. s \notin Closed /\ Closed' = Closed \cup {s}
    BY <2>1, <2>2 DEF Closed
  <2>7. H!Close(s)
    BY <2>2, <2>4, <2>5, <2>6 DEF H!Close
  <2> QED BY <2>7 DEF H!HandlesNext
<1>2. ASSUME GrowStale(s) \/ TurnEnds(s) PROVE UNCHANGED H!handleVars
  BY <1>2 DEF GrowStale, TurnEnds, H!handleVars, InHand, ToClose, Closed
<1> QED BY <1>1, <1>2

LEMMA TakingHandles ==
    ASSUME TypeOK, CloserLate, TakeIdle \/ TakeAll
    PROVE  H!HandlesNext
<1> USE DEF TypeOK, sessVars, workerVars, handlerVars
<1>1. PICK S \in SUBSET Held : /\ sweep' \cup closer' = (sweep \cup closer) \cup S
                               /\ sessions' = Without(S)
  <2>1. CASE TakeIdle
    BY <2>1 DEF TakeIdle
  <2>2. CASE TakeAll
    <3>1. closer' = Held /\ sessions' = Without(Held) /\ sweep' = sweep /\ closer = {}
      BY <2>2 DEF TakeAll, CloserLate
    <3> QED BY <3>1
  <2> QED BY <2>1, <2>2
<1>2. UNCHANGED <<life, pc, local, hpc, hsess>>
  BY DEF TakeIdle, TakeAll
<1>3. S \subseteq H!Listed /\ S \subseteq Sessions
  BY DEF Held, H!Listed
<1>4. ToClose' = ToClose \cup S
  BY <1>1, <1>2, <1>3 DEF ToClose
<1>5. InHand' = InHand /\ Closed' = Closed
  BY <1>2 DEF InHand, Closed
<1>6. H!Take(S)
  BY <1>1, <1>3, <1>4, <1>5 DEF H!Take, Without
<1> QED BY <1>3, <1>6 DEF H!HandlesNext

LEMMA OthersHandles ==
    ASSUME TypeOK, Control,
           \/ \E k \in Sockets : Connect(k) \/ Drop(k) \/ CloseSubscriptions(k)
           \/ Signal \/ ShutdownHTTP \/ MainReturns \/ Kill \/ UNCHANGED vars
    PROVE  [H!HandlesNext]_H!handleVars
<1> USE DEF TypeOK, diskVars, sessVars, workerVars, handlerVars
<1>1. ASSUME MainReturns \/ Kill PROVE H!HandlesNext
  <2>1. Booted
    BY <1>1 DEF MainReturns, Kill
  <2>2. InHand' = {} /\ ToClose' = {} /\ Closed' = {}
    BY <2>1 DEF Booted, InHand, ToClose, Closed
  <2>3. H!ProcessEnds
    BY <2>1, <2>2 DEF Booted, H!ProcessEnds, H!Empty
  <2> QED BY <2>3 DEF H!HandlesNext
<1>2. ASSUME NEW k \in Sockets, Connect(k) \/ CloseSubscriptions(k)
      PROVE  UNCHANGED H!handleVars
  <2>1. /\ UNCHANGED <<sessions, life, sweep, closer, hpc, hsess>>
        /\ \A w \in Workers :
              \/ pc'[w] = pc[w] /\ local'[w] = local[w]
              \/ pc[w] \in {"exited", "leaving"} /\ pc'[w] \in {"idle", "exited", "leaving"}
    BY <1>2 DEF Connect, CloseSubscriptions, Subscribed, WorkersOf
  <2>2. InHand' = InHand
    BY <2>1 DEF InHand
  <2> QED BY <2>1, <2>2 DEF H!handleVars, ToClose, Closed
<1>3. ASSUME \/ \E k \in Sockets : Drop(k)
             \/ Signal \/ ShutdownHTTP \/ UNCHANGED vars
      PROVE  UNCHANGED H!handleVars
  BY <1>3 DEF Drop, Signal, ShutdownHTTP, vars, H!handleVars, InHand, ToClose, Closed
<1> QED BY <1>1, <1>2, <1>3

\* Requests, workers, the sweep, closeAll and the end of the process, in whatever order
\* they run, implement HandleLife: a handle that is opened is listed, found, taken and
\* closed once by who took it, and is left open in the three ways named there only.
THEOREM HandlesAccounted == Spec => KeepsLifecycle
<1>1. Init => H!Empty /\ CloserLate
  BY DEF Init, H!Empty, InHand, ToClose, Closed, CloserLate
<1>2. TypeOK /\ Control /\ OwnInv /\ CloserLate /\ [Next]_vars
      => [H!HandlesNext]_H!handleVars
  BY WorkerHandles, HandlerHandles, SessionHandles, TakingHandles, OthersHandles DEF Next
<1> QED BY <1>1, <1>2, Owned, CloserLateNext, PTL DEF Spec, KeepsLifecycle, H!Lifecycle

-----------------------------------------------------------------------------
(* When one handle takes another's place. *)

NotCreated(c) == \A h \in Handlers : ~Create(h, c)

\* Nobody is about to publish a conversation's session while another is in the map.
Vacant(c) ==
    /\ \A h \in Handlers : hpc[h] = "created" => hconv[h] # c
    /\ gate[c] # None => sessions[c] = None

\* A session leaves the map to be closed, not for another one.
NotDisplaced(c) == sessions[c] # None => sessions'[c] \in {None, sessions[c]}

LEMMA VacantNext ==
    ASSUME NEW c \in Convs, TypeOK, Control, GateExclusive, Vacant(c),
           [NotCreated(c)]_vars, [Next]_vars
    PROVE  Vacant(c)' /\ NotDisplaced(c)
<1> USE WorkerParts, NoneAssumption DEF Vacant, NotDisplaced, TypeOK, PCs, Goto, HGoto
<1>1. ASSUME NEW w \in Workers, AttachOpens(w) \/ Publish(w)
      PROVE  Vacant(c)' /\ NotDisplaced(c)
  BY <1>1 DEF AttachOpens, Publish, Opening, GateExclusive, handlerVars
<1>2. ASSUME NEW w \in Workers, WorkerStep(w), ~AttachOpens(w), ~Publish(w)
      PROVE  UNCHANGED <<sessions, gate, handlerVars>>
  BY <1>2 DEF WorkerStep, Subscribe, LookupFinds, LookupFails, AttachFound, AttachWaits,
       Woken, WaitCancelled, OpenSucceeds, OpenFails, CloseGate, Join,
       Register, Unsubscribe, Leave, Send, Touch, Exit
<1>3. ASSUME NEW h \in Handlers, NEW d \in Convs, Create(h, d)
      PROVE  Vacant(c)' /\ NotDisplaced(c)
  <2>1. d # c
    <3>1. hpc[h] # hpc'[h]
      BY <1>3 DEF Create
    <3>2. NotCreated(c)
      BY <3>1 DEF vars, handlerVars
    <3> QED BY <1>3, <3>2 DEF NotCreated
  <2> QED BY <1>3, <2>1 DEF Create
<1>4. ASSUME NEW h \in Handlers, NEW d \in Convs, Remove(h, d)
      PROVE  Vacant(c)' /\ NotDisplaced(c)
  BY <1>4 DEF Remove
<1>5. ASSUME NEW h \in Handlers, HandlerStep(h)
      PROVE  Vacant(c)' /\ NotDisplaced(c)
  BY <1>5 DEF HandlerStep, PublishCreated, CreateFails, TakeRemoved, CloseRemoved, Forget
<1>6. ASSUME TakeIdle \/ TakeAll PROVE Vacant(c)' /\ NotDisplaced(c)
  BY <1>6 DEF TakeIdle, TakeAll, Without, handlerVars
<1>7. ASSUME MainReturns \/ Kill PROVE Vacant(c)' /\ NotDisplaced(c)
  BY <1>7 DEF MainReturns, Kill, Booted
<1>8. ASSUME \/ \E k \in Sockets : Connect(k) \/ Drop(k) \/ CloseSubscriptions(k)
             \/ \E s \in Sessions : GrowStale(s) \/ TurnEnds(s) \/ EndIdle(s) \/ EndHeld(s)
             \/ Signal \/ ShutdownHTTP \/ UNCHANGED vars
      PROVE  UNCHANGED <<sessions, gate, handlerVars>>
  BY <1>8 DEF Connect, Drop, CloseSubscriptions, GrowStale, TurnEnds, EndIdle, EndHeld,
              Signal, ShutdownHTTP, vars
<1>9. ASSUME UNCHANGED <<sessions, gate, handlerVars>>
      PROVE  Vacant(c)' /\ NotDisplaced(c)
  BY <1>9 DEF handlerVars
<1> QED BY <1>1, <1>2, <1>3, <1>4, <1>5, <1>6, <1>7, <1>8, <1>9 DEF Next

\* The gate is enough to keep attach from opening a conversation that is held, and from
\* publishing over one: of a conversation that is not being created, no session takes
\* another's place.  Only create, which publishes without the gate, can lose one so.
THEOREM OnlyCreateDisplaces ==
    ASSUME NEW c \in Convs
    PROVE  Spec /\ [][NotCreated(c)]_vars => [][NotDisplaced(c)]_vars
<1>1. Init => Vacant(c)
  BY DEF Init, Vacant
<1>2. /\ TypeOK /\ Control /\ GateExclusive /\ Vacant(c)
      /\ [Next]_vars /\ [NotCreated(c)]_vars
      => Vacant(c)' /\ [NotDisplaced(c)]_vars
  BY VacantNext
<1> QED BY <1>1, <1>2, Typing, OneOpener, PTL DEF Spec
=============================================================================
