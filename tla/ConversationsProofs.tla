------------------------- MODULE ConversationsProofs -------------------------
(***************************************************************************)
(* What Conversations keeps true for every number of sockets,              *)
(* conversations, sessions and requests.                                   *)
(***************************************************************************)
EXTENDS Conversations, FiniteSetTheorems, TLAPS

LEMMA WorkerParts ==
    \A w \in Workers : SocketOf(w) \in Sockets /\ ConvOf(w) \in Convs
BY DEF Workers, SocketOf, ConvOf

-----------------------------------------------------------------------------
(***************************************************************************)
(* Where a worker has a session in hand, and where it has a subscription:  *)
(* never both while it subscribes or leaves, and neither once its socket   *)
(* is gone, save for the session it has still to leave.                    *)
(***************************************************************************)
WorkerControl ==
    \A w \in Workers :
        /\ pc[w] \in {"attached", "joined", "leaving"} => local[w] # None
        /\ pc[w] \in {"exited", "idle", "lookup", "look", "waiting", "opening", "sent"}
              => local[w] = None
        /\ pc[w] \notin {"exited", "idle", "sent"} => sub[w] = None
        /\ sock[SocketOf(w)] = "gone" =>
              pc[w] \in {"exited", "leaving"} /\ sub[w] = None

\* A request in progress has a conversation, and one that closes has a session.
HandlerControl ==
    \A h \in Handlers :
        /\ hpc[h] # "idle" => hconv[h] # None
        /\ hpc[h] \in {"created", "closing"} => hsess[h] # None
        /\ hpc[h] \in {"idle", "removing", "forgetting"} => hsess[h] = None

Control == WorkerControl /\ HandlerControl

-----------------------------------------------------------------------------
(* Types and control. *)

LEMMA TypeInit == Init => TypeOK /\ Control
BY DEF Init, TypeOK, PCs, Control, WorkerControl, HandlerControl

LEMMA TypeNext == TypeOK /\ Control /\ [Next]_vars => TypeOK'
<1> SUFFICES ASSUME TypeOK, Control, [Next]_vars
             PROVE  TypeOK'
    OBVIOUS
<1> USE WorkerParts, NoneAssumption DEF TypeOK, PCs, Goto, HGoto, Handles
<1>1. ASSUME NEW k \in Sockets, Connect(k)
      PROVE  TypeOK'
  BY <1>1 DEF Connect, WorkersOf, diskVars, sessVars, workerVars, handlerVars
<1>2. ASSUME NEW k \in Sockets, Drop(k)
      PROVE  TypeOK'
  BY <1>2 DEF Drop, diskVars, sessVars, workerVars, handlerVars
<1>3. ASSUME NEW k \in Sockets, CloseSubscriptions(k)
      PROVE  TypeOK'
  BY <1>3 DEF CloseSubscriptions, Subscribed, WorkersOf, diskVars, sessVars, workerVars, handlerVars
<1>4. ASSUME NEW w \in Workers, Subscribe(w)
      PROVE  TypeOK'
  BY <1>4 DEF Subscribe, Found, diskVars, sessVars, workerVars, handlerVars
<1>5. ASSUME NEW w \in Workers, LookupFinds(w)
      PROVE  TypeOK'
  BY <1>5 DEF LookupFinds, diskVars, sessVars, workerVars, handlerVars
<1>6. ASSUME NEW w \in Workers, LookupFails(w)
      PROVE  TypeOK'
  BY <1>6 DEF LookupFails, diskVars, sessVars, workerVars, handlerVars
<1>7. ASSUME NEW w \in Workers, AttachFound(w)
      PROVE  TypeOK'
  BY <1>7 DEF AttachFound, diskVars, sessVars, workerVars, handlerVars
<1>8. ASSUME NEW w \in Workers, AttachWaits(w)
      PROVE  TypeOK'
  BY <1>8 DEF AttachWaits, Opening, diskVars, sessVars, workerVars, handlerVars
<1>9. ASSUME NEW w \in Workers, AttachOpens(w)
      PROVE  TypeOK'
  BY <1>9 DEF AttachOpens, Opening, diskVars, sessVars, workerVars, handlerVars
<1>10. ASSUME NEW w \in Workers, Woken(w)
      PROVE  TypeOK'
  BY <1>10 DEF Woken, diskVars, sessVars, workerVars, handlerVars
<1>11. ASSUME NEW w \in Workers, WaitCancelled(w)
      PROVE  TypeOK'
  BY <1>11 DEF WaitCancelled, Cancelled, diskVars, sessVars, workerVars, handlerVars
<1>12. ASSUME NEW w \in Workers, OpenSucceeds(w)
      PROVE  TypeOK'
  BY <1>12 DEF OpenSucceeds, NewSession, diskVars, sessVars, workerVars, handlerVars
<1>13. ASSUME NEW w \in Workers, OpenFails(w)
      PROVE  TypeOK'
  BY <1>13 DEF OpenFails, diskVars, sessVars, workerVars, handlerVars
<1>14. ASSUME NEW w \in Workers, Publish(w)
      PROVE  TypeOK'
  BY <1>14 DEF Publish, diskVars, sessVars, workerVars, handlerVars
<1>15. ASSUME NEW w \in Workers, CloseGate(w)
      PROVE  TypeOK'
  BY <1>15 DEF CloseGate, Waiting, diskVars, sessVars, workerVars, handlerVars
<1>16. ASSUME NEW w \in Workers, Join(w)
      PROVE  TypeOK'
  BY <1>16 DEF Join, Control, WorkerControl, diskVars, sessVars, workerVars, handlerVars
<1>17. ASSUME NEW w \in Workers, Register(w)
      PROVE  TypeOK'
  BY <1>17 DEF Register, diskVars, sessVars, workerVars, handlerVars
<1>18. ASSUME NEW w \in Workers, Unsubscribe(w)
      PROVE  TypeOK'
  BY <1>18 DEF Unsubscribe, diskVars, sessVars, workerVars, handlerVars
<1>19. ASSUME NEW w \in Workers, Leave(w)
      PROVE  TypeOK'
  BY <1>19 DEF Leave, Control, WorkerControl, diskVars, sessVars, workerVars, handlerVars
<1>20. ASSUME NEW w \in Workers, Send(w)
      PROVE  TypeOK'
  BY <1>20 DEF Send, diskVars, sessVars, workerVars, handlerVars
<1>21. ASSUME NEW w \in Workers, Touch(w)
      PROVE  TypeOK'
  BY <1>21 DEF Touch, diskVars, sessVars, workerVars, handlerVars
<1>22. ASSUME NEW w \in Workers, Exit(w)
      PROVE  TypeOK'
  BY <1>22 DEF Exit, Cancelled, diskVars, sessVars, workerVars, handlerVars
<1>23. ASSUME NEW h \in Handlers, NEW c \in Convs, Create(h, c)
      PROVE  TypeOK'
  BY <1>23 DEF Create, NewSession, diskVars, sessVars, workerVars, handlerVars
<1>24. ASSUME NEW h \in Handlers, NEW c \in Convs, Remove(h, c)
      PROVE  TypeOK'
  BY <1>24 DEF Remove, diskVars, sessVars, workerVars, handlerVars
<1>25. ASSUME NEW h \in Handlers, PublishCreated(h)
      PROVE  TypeOK'
  BY <1>25 DEF PublishCreated, diskVars, sessVars, workerVars, handlerVars
<1>25a. ASSUME NEW h \in Handlers, CreateFails(h)
      PROVE  TypeOK'
  BY <1>25a DEF CreateFails, diskVars, sessVars, workerVars, handlerVars
<1>26. ASSUME NEW h \in Handlers, TakeRemoved(h)
      PROVE  TypeOK'
  BY <1>26 DEF TakeRemoved, Control, HandlerControl, diskVars, sessVars, workerVars, handlerVars
<1>27. ASSUME NEW h \in Handlers, CloseRemoved(h)
      PROVE  TypeOK'
  BY <1>27 DEF CloseRemoved, CloseHandle, diskVars, sessVars, workerVars, handlerVars
<1>28. ASSUME NEW h \in Handlers, Forget(h)
      PROVE  TypeOK'
  BY <1>28 DEF Forget, diskVars, sessVars, workerVars, handlerVars
<1>29. ASSUME NEW n \in Sessions, GrowStale(n)
      PROVE  TypeOK'
  BY <1>29 DEF GrowStale, Held, diskVars, sessVars, workerVars, handlerVars
<1>30. ASSUME NEW n \in Sessions, TurnEnds(n)
      PROVE  TypeOK'
  BY <1>30 DEF TurnEnds, diskVars, sessVars, workerVars, handlerVars
<1>31. ASSUME NEW n \in Sessions, EndIdle(n)
      PROVE  TypeOK'
  BY <1>31 DEF EndIdle, CloseHandle, diskVars, sessVars, workerVars, handlerVars
<1>32. ASSUME NEW n \in Sessions, EndHeld(n)
      PROVE  TypeOK'
  BY <1>32 DEF EndHeld, CloseHandle, diskVars, sessVars, workerVars, handlerVars
<1>33. ASSUME TakeIdle
      PROVE  TypeOK'
  BY <1>33 DEF TakeIdle, Without, Held, diskVars, sessVars, workerVars, handlerVars
<1>34. ASSUME Signal
      PROVE  TypeOK'
  BY <1>34 DEF Signal, diskVars, sessVars, workerVars, handlerVars
<1>35. ASSUME ShutdownHTTP
      PROVE  TypeOK'
  BY <1>35 DEF ShutdownHTTP, diskVars, sessVars, workerVars, handlerVars
<1>36. ASSUME TakeAll
      PROVE  TypeOK'
  BY <1>36 DEF TakeAll, Without, Held, diskVars, sessVars, workerVars, handlerVars
<1>37. ASSUME MainReturns
      PROVE  TypeOK'
  BY <1>37 DEF MainReturns, Booted, diskVars, sessVars, workerVars, handlerVars
<1>38. ASSUME Kill
      PROVE  TypeOK'
  BY <1>38 DEF Kill, Booted, diskVars, sessVars, workerVars, handlerVars
<1>39. CASE UNCHANGED vars
  BY <1>39 DEF vars, diskVars, sessVars, workerVars, handlerVars
<1> QED
  BY <1>1, <1>2, <1>3, <1>4, <1>5, <1>6, <1>7, <1>8, <1>9, <1>10, <1>11, <1>12, <1>13, <1>14, <1>15, <1>16, <1>17,
     <1>18, <1>19, <1>20, <1>21, <1>22, <1>23, <1>24, <1>25, <1>25a, <1>26, <1>27, <1>28, <1>29, <1>30, <1>31, <1>32, <1>33, <1>34, <1>35, <1>36, <1>37, <1>38, <1>39
     DEF Next, WorkerStep, HandlerStep

LEMMA WorkerControlNext == TypeOK /\ Control /\ [Next]_vars => WorkerControl'
<1> SUFFICES ASSUME TypeOK, Control, [Next]_vars
             PROVE  WorkerControl'
    OBVIOUS
<1> USE WorkerParts, NoneAssumption
        DEF TypeOK, PCs, Goto, HGoto, Handles, Control, WorkerControl
<1>1. ASSUME NEW k \in Sockets, Connect(k)
      PROVE  WorkerControl'
  BY <1>1 DEF Connect, WorkersOf, diskVars, sessVars, workerVars, handlerVars
<1>2. ASSUME NEW k \in Sockets, Drop(k)
      PROVE  WorkerControl'
  BY <1>2 DEF Drop, diskVars, sessVars, workerVars, handlerVars
<1>3. ASSUME NEW k \in Sockets, CloseSubscriptions(k)
      PROVE  WorkerControl'
  BY <1>3 DEF CloseSubscriptions, Subscribed, WorkersOf, diskVars, sessVars, workerVars, handlerVars
<1>4. ASSUME NEW w \in Workers, Subscribe(w)
      PROVE  WorkerControl'
  BY <1>4 DEF Subscribe, Found, diskVars, sessVars, workerVars, handlerVars
<1>5. ASSUME NEW w \in Workers, LookupFinds(w)
      PROVE  WorkerControl'
  BY <1>5 DEF LookupFinds, diskVars, sessVars, workerVars, handlerVars
<1>6. ASSUME NEW w \in Workers, LookupFails(w)
      PROVE  WorkerControl'
  BY <1>6 DEF LookupFails, diskVars, sessVars, workerVars, handlerVars
<1>7. ASSUME NEW w \in Workers, AttachFound(w)
      PROVE  WorkerControl'
  BY <1>7 DEF AttachFound, diskVars, sessVars, workerVars, handlerVars
<1>8. ASSUME NEW w \in Workers, AttachWaits(w)
      PROVE  WorkerControl'
  BY <1>8 DEF AttachWaits, Opening, diskVars, sessVars, workerVars, handlerVars
<1>9. ASSUME NEW w \in Workers, AttachOpens(w)
      PROVE  WorkerControl'
  BY <1>9 DEF AttachOpens, Opening, diskVars, sessVars, workerVars, handlerVars
<1>10. ASSUME NEW w \in Workers, Woken(w)
      PROVE  WorkerControl'
  BY <1>10 DEF Woken, diskVars, sessVars, workerVars, handlerVars
<1>11. ASSUME NEW w \in Workers, WaitCancelled(w)
      PROVE  WorkerControl'
  BY <1>11 DEF WaitCancelled, Cancelled, diskVars, sessVars, workerVars, handlerVars
<1>12. ASSUME NEW w \in Workers, OpenSucceeds(w)
      PROVE  WorkerControl'
  BY <1>12 DEF OpenSucceeds, NewSession, diskVars, sessVars, workerVars, handlerVars
<1>13. ASSUME NEW w \in Workers, OpenFails(w)
      PROVE  WorkerControl'
  BY <1>13 DEF OpenFails, diskVars, sessVars, workerVars, handlerVars
<1>14. ASSUME NEW w \in Workers, Publish(w)
      PROVE  WorkerControl'
  BY <1>14 DEF Publish, diskVars, sessVars, workerVars, handlerVars
<1>15. ASSUME NEW w \in Workers, CloseGate(w)
      PROVE  WorkerControl'
  BY <1>15 DEF CloseGate, Waiting, diskVars, sessVars, workerVars, handlerVars
<1>16. ASSUME NEW w \in Workers, Join(w)
      PROVE  WorkerControl'
  BY <1>16 DEF Join, diskVars, sessVars, workerVars, handlerVars
<1>17. ASSUME NEW w \in Workers, Register(w)
      PROVE  WorkerControl'
  BY <1>17 DEF Register, diskVars, sessVars, workerVars, handlerVars
<1>18. ASSUME NEW w \in Workers, Unsubscribe(w)
      PROVE  WorkerControl'
  BY <1>18 DEF Unsubscribe, diskVars, sessVars, workerVars, handlerVars
<1>19. ASSUME NEW w \in Workers, Leave(w)
      PROVE  WorkerControl'
  BY <1>19 DEF Leave, diskVars, sessVars, workerVars, handlerVars
<1>20. ASSUME NEW w \in Workers, Send(w)
      PROVE  WorkerControl'
  BY <1>20 DEF Send, diskVars, sessVars, workerVars, handlerVars
<1>21. ASSUME NEW w \in Workers, Touch(w)
      PROVE  WorkerControl'
  BY <1>21 DEF Touch, diskVars, sessVars, workerVars, handlerVars
<1>22. ASSUME NEW w \in Workers, Exit(w)
      PROVE  WorkerControl'
  BY <1>22 DEF Exit, Cancelled, diskVars, sessVars, workerVars, handlerVars
<1>23. ASSUME NEW h \in Handlers, NEW c \in Convs, Create(h, c)
      PROVE  WorkerControl'
  BY <1>23 DEF Create, NewSession, diskVars, sessVars, workerVars, handlerVars
<1>24. ASSUME NEW h \in Handlers, NEW c \in Convs, Remove(h, c)
      PROVE  WorkerControl'
  BY <1>24 DEF Remove, diskVars, sessVars, workerVars, handlerVars
<1>25. ASSUME NEW h \in Handlers, PublishCreated(h)
      PROVE  WorkerControl'
  BY <1>25 DEF PublishCreated, diskVars, sessVars, workerVars, handlerVars
<1>25a. ASSUME NEW h \in Handlers, CreateFails(h)
      PROVE  WorkerControl'
  BY <1>25a DEF CreateFails, diskVars, sessVars, workerVars, handlerVars
<1>26. ASSUME NEW h \in Handlers, TakeRemoved(h)
      PROVE  WorkerControl'
  BY <1>26 DEF TakeRemoved, diskVars, sessVars, workerVars, handlerVars
<1>27. ASSUME NEW h \in Handlers, CloseRemoved(h)
      PROVE  WorkerControl'
  BY <1>27 DEF CloseRemoved, CloseHandle, diskVars, sessVars, workerVars, handlerVars
<1>28. ASSUME NEW h \in Handlers, Forget(h)
      PROVE  WorkerControl'
  BY <1>28 DEF Forget, diskVars, sessVars, workerVars, handlerVars
<1>29. ASSUME NEW n \in Sessions, GrowStale(n)
      PROVE  WorkerControl'
  BY <1>29 DEF GrowStale, Held, diskVars, sessVars, workerVars, handlerVars
<1>30. ASSUME NEW n \in Sessions, TurnEnds(n)
      PROVE  WorkerControl'
  BY <1>30 DEF TurnEnds, diskVars, sessVars, workerVars, handlerVars
<1>31. ASSUME NEW n \in Sessions, EndIdle(n)
      PROVE  WorkerControl'
  BY <1>31 DEF EndIdle, CloseHandle, diskVars, sessVars, workerVars, handlerVars
<1>32. ASSUME NEW n \in Sessions, EndHeld(n)
      PROVE  WorkerControl'
  BY <1>32 DEF EndHeld, CloseHandle, diskVars, sessVars, workerVars, handlerVars
<1>33. ASSUME TakeIdle
      PROVE  WorkerControl'
  BY <1>33 DEF TakeIdle, Without, Held, diskVars, sessVars, workerVars, handlerVars
<1>34. ASSUME Signal
      PROVE  WorkerControl'
  BY <1>34 DEF Signal, diskVars, sessVars, workerVars, handlerVars
<1>35. ASSUME ShutdownHTTP
      PROVE  WorkerControl'
  BY <1>35 DEF ShutdownHTTP, diskVars, sessVars, workerVars, handlerVars
<1>36. ASSUME TakeAll
      PROVE  WorkerControl'
  BY <1>36 DEF TakeAll, Without, Held, diskVars, sessVars, workerVars, handlerVars
<1>37. ASSUME MainReturns
      PROVE  WorkerControl'
  BY <1>37 DEF MainReturns, Booted, diskVars, sessVars, workerVars, handlerVars
<1>38. ASSUME Kill
      PROVE  WorkerControl'
  BY <1>38 DEF Kill, Booted, diskVars, sessVars, workerVars, handlerVars
<1>39. CASE UNCHANGED vars
  BY <1>39 DEF vars, diskVars, sessVars, workerVars, handlerVars
<1> QED
  BY <1>1, <1>2, <1>3, <1>4, <1>5, <1>6, <1>7, <1>8, <1>9, <1>10, <1>11, <1>12, <1>13, <1>14, <1>15, <1>16, <1>17,
     <1>18, <1>19, <1>20, <1>21, <1>22, <1>23, <1>24, <1>25, <1>25a, <1>26, <1>27, <1>28, <1>29, <1>30, <1>31, <1>32, <1>33, <1>34, <1>35, <1>36, <1>37, <1>38, <1>39
     DEF Next, WorkerStep, HandlerStep

LEMMA HandlerControlNext == TypeOK /\ Control /\ [Next]_vars => HandlerControl'
<1> SUFFICES ASSUME TypeOK, Control, [Next]_vars
             PROVE  HandlerControl'
    OBVIOUS
<1> USE NoneAssumption DEF TypeOK, Goto, HGoto, Handles, Control, HandlerControl
<1>1. ASSUME NEW k \in Sockets, Connect(k)
      PROVE  HandlerControl'
  BY <1>1 DEF Connect, WorkersOf, diskVars, sessVars, workerVars, handlerVars
<1>2. ASSUME NEW k \in Sockets, Drop(k)
      PROVE  HandlerControl'
  BY <1>2 DEF Drop, diskVars, sessVars, workerVars, handlerVars
<1>3. ASSUME NEW k \in Sockets, CloseSubscriptions(k)
      PROVE  HandlerControl'
  BY <1>3 DEF CloseSubscriptions, Subscribed, WorkersOf, diskVars, sessVars, workerVars, handlerVars
<1>4. ASSUME NEW w \in Workers, Subscribe(w)
      PROVE  HandlerControl'
  BY <1>4 DEF Subscribe, Found, diskVars, sessVars, workerVars, handlerVars
<1>5. ASSUME NEW w \in Workers, LookupFinds(w)
      PROVE  HandlerControl'
  BY <1>5 DEF LookupFinds, diskVars, sessVars, workerVars, handlerVars
<1>6. ASSUME NEW w \in Workers, LookupFails(w)
      PROVE  HandlerControl'
  BY <1>6 DEF LookupFails, diskVars, sessVars, workerVars, handlerVars
<1>7. ASSUME NEW w \in Workers, AttachFound(w)
      PROVE  HandlerControl'
  BY <1>7 DEF AttachFound, diskVars, sessVars, workerVars, handlerVars
<1>8. ASSUME NEW w \in Workers, AttachWaits(w)
      PROVE  HandlerControl'
  BY <1>8 DEF AttachWaits, Opening, diskVars, sessVars, workerVars, handlerVars
<1>9. ASSUME NEW w \in Workers, AttachOpens(w)
      PROVE  HandlerControl'
  BY <1>9 DEF AttachOpens, Opening, diskVars, sessVars, workerVars, handlerVars
<1>10. ASSUME NEW w \in Workers, Woken(w)
      PROVE  HandlerControl'
  BY <1>10 DEF Woken, diskVars, sessVars, workerVars, handlerVars
<1>11. ASSUME NEW w \in Workers, WaitCancelled(w)
      PROVE  HandlerControl'
  BY <1>11 DEF WaitCancelled, Cancelled, diskVars, sessVars, workerVars, handlerVars
<1>12. ASSUME NEW w \in Workers, OpenSucceeds(w)
      PROVE  HandlerControl'
  BY <1>12 DEF OpenSucceeds, NewSession, diskVars, sessVars, workerVars, handlerVars
<1>13. ASSUME NEW w \in Workers, OpenFails(w)
      PROVE  HandlerControl'
  BY <1>13 DEF OpenFails, diskVars, sessVars, workerVars, handlerVars
<1>14. ASSUME NEW w \in Workers, Publish(w)
      PROVE  HandlerControl'
  BY <1>14 DEF Publish, diskVars, sessVars, workerVars, handlerVars
<1>15. ASSUME NEW w \in Workers, CloseGate(w)
      PROVE  HandlerControl'
  BY <1>15 DEF CloseGate, Waiting, diskVars, sessVars, workerVars, handlerVars
<1>16. ASSUME NEW w \in Workers, Join(w)
      PROVE  HandlerControl'
  BY <1>16 DEF Join, diskVars, sessVars, workerVars, handlerVars
<1>17. ASSUME NEW w \in Workers, Register(w)
      PROVE  HandlerControl'
  BY <1>17 DEF Register, diskVars, sessVars, workerVars, handlerVars
<1>18. ASSUME NEW w \in Workers, Unsubscribe(w)
      PROVE  HandlerControl'
  BY <1>18 DEF Unsubscribe, diskVars, sessVars, workerVars, handlerVars
<1>19. ASSUME NEW w \in Workers, Leave(w)
      PROVE  HandlerControl'
  BY <1>19 DEF Leave, diskVars, sessVars, workerVars, handlerVars
<1>20. ASSUME NEW w \in Workers, Send(w)
      PROVE  HandlerControl'
  BY <1>20 DEF Send, diskVars, sessVars, workerVars, handlerVars
<1>21. ASSUME NEW w \in Workers, Touch(w)
      PROVE  HandlerControl'
  BY <1>21 DEF Touch, diskVars, sessVars, workerVars, handlerVars
<1>22. ASSUME NEW w \in Workers, Exit(w)
      PROVE  HandlerControl'
  BY <1>22 DEF Exit, Cancelled, diskVars, sessVars, workerVars, handlerVars
<1>23. ASSUME NEW h \in Handlers, NEW c \in Convs, Create(h, c)
      PROVE  HandlerControl'
  BY <1>23 DEF Create, NewSession, diskVars, sessVars, workerVars, handlerVars
<1>24. ASSUME NEW h \in Handlers, NEW c \in Convs, Remove(h, c)
      PROVE  HandlerControl'
  BY <1>24 DEF Remove, diskVars, sessVars, workerVars, handlerVars
<1>25. ASSUME NEW h \in Handlers, PublishCreated(h)
      PROVE  HandlerControl'
  BY <1>25 DEF PublishCreated, diskVars, sessVars, workerVars, handlerVars
<1>25a. ASSUME NEW h \in Handlers, CreateFails(h)
      PROVE  HandlerControl'
  BY <1>25a DEF CreateFails, diskVars, sessVars, workerVars, handlerVars
<1>26. ASSUME NEW h \in Handlers, TakeRemoved(h)
      PROVE  HandlerControl'
  BY <1>26 DEF TakeRemoved, diskVars, sessVars, workerVars, handlerVars
<1>27. ASSUME NEW h \in Handlers, CloseRemoved(h)
      PROVE  HandlerControl'
  BY <1>27 DEF CloseRemoved, CloseHandle, diskVars, sessVars, workerVars, handlerVars
<1>28. ASSUME NEW h \in Handlers, Forget(h)
      PROVE  HandlerControl'
  BY <1>28 DEF Forget, diskVars, sessVars, workerVars, handlerVars
<1>29. ASSUME NEW n \in Sessions, GrowStale(n)
      PROVE  HandlerControl'
  BY <1>29 DEF GrowStale, Held, diskVars, sessVars, workerVars, handlerVars
<1>30. ASSUME NEW n \in Sessions, TurnEnds(n)
      PROVE  HandlerControl'
  BY <1>30 DEF TurnEnds, diskVars, sessVars, workerVars, handlerVars
<1>31. ASSUME NEW n \in Sessions, EndIdle(n)
      PROVE  HandlerControl'
  BY <1>31 DEF EndIdle, CloseHandle, diskVars, sessVars, workerVars, handlerVars
<1>32. ASSUME NEW n \in Sessions, EndHeld(n)
      PROVE  HandlerControl'
  BY <1>32 DEF EndHeld, CloseHandle, diskVars, sessVars, workerVars, handlerVars
<1>33. ASSUME TakeIdle
      PROVE  HandlerControl'
  BY <1>33 DEF TakeIdle, Without, Held, diskVars, sessVars, workerVars, handlerVars
<1>34. ASSUME Signal
      PROVE  HandlerControl'
  BY <1>34 DEF Signal, diskVars, sessVars, workerVars, handlerVars
<1>35. ASSUME ShutdownHTTP
      PROVE  HandlerControl'
  BY <1>35 DEF ShutdownHTTP, diskVars, sessVars, workerVars, handlerVars
<1>36. ASSUME TakeAll
      PROVE  HandlerControl'
  BY <1>36 DEF TakeAll, Without, Held, diskVars, sessVars, workerVars, handlerVars
<1>37. ASSUME MainReturns
      PROVE  HandlerControl'
  BY <1>37 DEF MainReturns, Booted, diskVars, sessVars, workerVars, handlerVars
<1>38. ASSUME Kill
      PROVE  HandlerControl'
  BY <1>38 DEF Kill, Booted, diskVars, sessVars, workerVars, handlerVars
<1>39. CASE UNCHANGED vars
  BY <1>39 DEF vars, diskVars, sessVars, workerVars, handlerVars
<1> QED
  BY <1>1, <1>2, <1>3, <1>4, <1>5, <1>6, <1>7, <1>8, <1>9, <1>10, <1>11, <1>12, <1>13, <1>14, <1>15, <1>16, <1>17,
     <1>18, <1>19, <1>20, <1>21, <1>22, <1>23, <1>24, <1>25, <1>25a, <1>26, <1>27, <1>28, <1>29, <1>30, <1>31, <1>32, <1>33, <1>34, <1>35, <1>36, <1>37, <1>38, <1>39
     DEF Next, WorkerStep, HandlerStep

\* Every variable keeps its type (TypeOK), whatever the instance.
THEOREM Typing == Spec => [](TypeOK /\ Control)
<1>1. Init => TypeOK /\ Control
  BY TypeInit
<1>2. TypeOK /\ Control /\ [Next]_vars => TypeOK' /\ Control'
  BY TypeNext, WorkerControlNext, HandlerControlNext DEF Control
<1> QED
  BY <1>1, <1>2, PTL DEF Spec

-----------------------------------------------------------------------------
(***************************************************************************)
(* The gate of attach.  GateExclusive alone is not inductive: a waiter     *)
(* copies the gate it finds, so who the gate names has to be a worker of   *)
(* that very conversation.                                                 *)
(***************************************************************************)
GateOfConv == \A c \in Convs : gate[c] # None => ConvOf(gate[c]) = c

GateInv == GateOfConv /\ GateExclusive /\ NoLostWakeup

LEMMA GateInit == Init => GateInv
BY NoneAssumption, WorkerParts DEF Init, GateInv, GateOfConv, GateExclusive, NoLostWakeup

LEMMA GateNext == TypeOK /\ Control /\ GateInv /\ [Next]_vars => GateInv'
<1> SUFFICES ASSUME TypeOK, Control, GateInv, [Next]_vars
             PROVE  GateInv'
    OBVIOUS
<1> USE WorkerParts, NoneAssumption
        DEF TypeOK, PCs, Goto, HGoto, Handles, GateInv, GateOfConv, GateExclusive,
            NoLostWakeup
<1>1. ASSUME NEW k \in Sockets, Connect(k)
      PROVE  GateInv'
  BY <1>1 DEF Connect, WorkersOf, Control, WorkerControl, diskVars, sessVars, workerVars, handlerVars
<1>2. ASSUME NEW k \in Sockets, Drop(k)
      PROVE  GateInv'
  BY <1>2 DEF Drop, diskVars, sessVars, workerVars, handlerVars
<1>3. ASSUME NEW k \in Sockets, CloseSubscriptions(k)
      PROVE  GateInv'
  BY <1>3 DEF CloseSubscriptions, Subscribed, WorkersOf, diskVars, sessVars, workerVars, handlerVars
<1>4. ASSUME NEW w \in Workers, Subscribe(w)
      PROVE  GateInv'
  BY <1>4 DEF Subscribe, Found, diskVars, sessVars, workerVars, handlerVars
<1>5. ASSUME NEW w \in Workers, LookupFinds(w)
      PROVE  GateInv'
  BY <1>5 DEF LookupFinds, diskVars, sessVars, workerVars, handlerVars
<1>6. ASSUME NEW w \in Workers, LookupFails(w)
      PROVE  GateInv'
  BY <1>6 DEF LookupFails, diskVars, sessVars, workerVars, handlerVars
<1>7. ASSUME NEW w \in Workers, AttachFound(w)
      PROVE  GateInv'
  BY <1>7 DEF AttachFound, diskVars, sessVars, workerVars, handlerVars
<1>8. ASSUME NEW w \in Workers, AttachWaits(w)
      PROVE  GateInv'
  BY <1>8 DEF AttachWaits, Opening, diskVars, sessVars, workerVars, handlerVars
<1>9. ASSUME NEW w \in Workers, AttachOpens(w)
      PROVE  GateInv'
  BY <1>9 DEF AttachOpens, Opening, diskVars, sessVars, workerVars, handlerVars
<1>10. ASSUME NEW w \in Workers, Woken(w)
      PROVE  GateInv'
  BY <1>10 DEF Woken, diskVars, sessVars, workerVars, handlerVars
<1>11. ASSUME NEW w \in Workers, WaitCancelled(w)
      PROVE  GateInv'
  BY <1>11 DEF WaitCancelled, Cancelled, diskVars, sessVars, workerVars, handlerVars
<1>12. ASSUME NEW w \in Workers, OpenSucceeds(w)
      PROVE  GateInv'
  BY <1>12 DEF OpenSucceeds, NewSession, diskVars, sessVars, workerVars, handlerVars
<1>13. ASSUME NEW w \in Workers, OpenFails(w)
      PROVE  GateInv'
  BY <1>13 DEF OpenFails, diskVars, sessVars, workerVars, handlerVars
<1>14. ASSUME NEW w \in Workers, Publish(w)
      PROVE  GateInv'
  BY <1>14 DEF Publish, diskVars, sessVars, workerVars, handlerVars
<1>15. ASSUME NEW w \in Workers, CloseGate(w)
      PROVE  GateInv'
  BY <1>15 DEF CloseGate, Waiting, diskVars, sessVars, workerVars, handlerVars
<1>16. ASSUME NEW w \in Workers, Join(w)
      PROVE  GateInv'
  BY <1>16 DEF Join, diskVars, sessVars, workerVars, handlerVars
<1>17. ASSUME NEW w \in Workers, Register(w)
      PROVE  GateInv'
  BY <1>17 DEF Register, diskVars, sessVars, workerVars, handlerVars
<1>18. ASSUME NEW w \in Workers, Unsubscribe(w)
      PROVE  GateInv'
  BY <1>18 DEF Unsubscribe, diskVars, sessVars, workerVars, handlerVars
<1>19. ASSUME NEW w \in Workers, Leave(w)
      PROVE  GateInv'
  BY <1>19 DEF Leave, diskVars, sessVars, workerVars, handlerVars
<1>20. ASSUME NEW w \in Workers, Send(w)
      PROVE  GateInv'
  BY <1>20 DEF Send, diskVars, sessVars, workerVars, handlerVars
<1>21. ASSUME NEW w \in Workers, Touch(w)
      PROVE  GateInv'
  BY <1>21 DEF Touch, diskVars, sessVars, workerVars, handlerVars
<1>22. ASSUME NEW w \in Workers, Exit(w)
      PROVE  GateInv'
  BY <1>22 DEF Exit, Cancelled, diskVars, sessVars, workerVars, handlerVars
<1>23. ASSUME NEW h \in Handlers, NEW c \in Convs, Create(h, c)
      PROVE  GateInv'
  BY <1>23 DEF Create, NewSession, diskVars, sessVars, workerVars, handlerVars
<1>24. ASSUME NEW h \in Handlers, NEW c \in Convs, Remove(h, c)
      PROVE  GateInv'
  BY <1>24 DEF Remove, diskVars, sessVars, workerVars, handlerVars
<1>25. ASSUME NEW h \in Handlers, PublishCreated(h)
      PROVE  GateInv'
  BY <1>25 DEF PublishCreated, diskVars, sessVars, workerVars, handlerVars
<1>25a. ASSUME NEW h \in Handlers, CreateFails(h)
      PROVE  GateInv'
  BY <1>25a DEF CreateFails, diskVars, sessVars, workerVars, handlerVars
<1>26. ASSUME NEW h \in Handlers, TakeRemoved(h)
      PROVE  GateInv'
  BY <1>26 DEF TakeRemoved, diskVars, sessVars, workerVars, handlerVars
<1>27. ASSUME NEW h \in Handlers, CloseRemoved(h)
      PROVE  GateInv'
  BY <1>27 DEF CloseRemoved, CloseHandle, diskVars, sessVars, workerVars, handlerVars
<1>28. ASSUME NEW h \in Handlers, Forget(h)
      PROVE  GateInv'
  BY <1>28 DEF Forget, diskVars, sessVars, workerVars, handlerVars
<1>29. ASSUME NEW n \in Sessions, GrowStale(n)
      PROVE  GateInv'
  BY <1>29 DEF GrowStale, Held, diskVars, sessVars, workerVars, handlerVars
<1>30. ASSUME NEW n \in Sessions, TurnEnds(n)
      PROVE  GateInv'
  BY <1>30 DEF TurnEnds, diskVars, sessVars, workerVars, handlerVars
<1>31. ASSUME NEW n \in Sessions, EndIdle(n)
      PROVE  GateInv'
  BY <1>31 DEF EndIdle, CloseHandle, diskVars, sessVars, workerVars, handlerVars
<1>32. ASSUME NEW n \in Sessions, EndHeld(n)
      PROVE  GateInv'
  BY <1>32 DEF EndHeld, CloseHandle, diskVars, sessVars, workerVars, handlerVars
<1>33. ASSUME TakeIdle
      PROVE  GateInv'
  BY <1>33 DEF TakeIdle, Without, Held, diskVars, sessVars, workerVars, handlerVars
<1>34. ASSUME Signal
      PROVE  GateInv'
  BY <1>34 DEF Signal, diskVars, sessVars, workerVars, handlerVars
<1>35. ASSUME ShutdownHTTP
      PROVE  GateInv'
  BY <1>35 DEF ShutdownHTTP, diskVars, sessVars, workerVars, handlerVars
<1>36. ASSUME TakeAll
      PROVE  GateInv'
  BY <1>36 DEF TakeAll, Without, Held, diskVars, sessVars, workerVars, handlerVars
<1>37. ASSUME MainReturns
      PROVE  GateInv'
  BY <1>37 DEF MainReturns, Booted, diskVars, sessVars, workerVars, handlerVars
<1>38. ASSUME Kill
      PROVE  GateInv'
  BY <1>38 DEF Kill, Booted, diskVars, sessVars, workerVars, handlerVars
<1>39. CASE UNCHANGED vars
  BY <1>39 DEF vars, diskVars, sessVars, workerVars, handlerVars
<1> QED
  BY <1>1, <1>2, <1>3, <1>4, <1>5, <1>6, <1>7, <1>8, <1>9, <1>10, <1>11, <1>12, <1>13, <1>14, <1>15, <1>16, <1>17,
     <1>18, <1>19, <1>20, <1>21, <1>22, <1>23, <1>24, <1>25, <1>25a, <1>26, <1>27, <1>28, <1>29, <1>30, <1>31, <1>32, <1>33, <1>34, <1>35, <1>36, <1>37, <1>38, <1>39
     DEF Next, WorkerStep, HandlerStep

\* One worker at a time opens a conversation, and it holds the conversation's gate
\* from before it asks the daemon until its result is published (GateExclusive).
THEOREM OneOpener == Spec => []GateExclusive
<1>1. Init => TypeOK /\ Control /\ GateInv
  BY TypeInit, GateInit
<1>2. TypeOK /\ Control /\ GateInv /\ [Next]_vars => TypeOK' /\ Control' /\ GateInv'
  BY TypeNext, WorkerControlNext, HandlerControlNext, GateNext DEF Control
<1>3. GateInv => GateExclusive
  BY DEF GateInv
<1> QED
  BY <1>1, <1>2, <1>3, PTL DEF Spec

\* A worker that waits on a gate waits for an opener of the same conversation that
\* has still to close it (NoLostWakeup).
THEOREM WaitsOnOpener == Spec => []NoLostWakeup
<1>1. Init => TypeOK /\ Control /\ GateInv
  BY TypeInit, GateInit
<1>2. TypeOK /\ Control /\ GateInv /\ [Next]_vars => TypeOK' /\ Control' /\ GateInv'
  BY TypeNext, WorkerControlNext, HandlerControlNext, GateNext DEF Control
<1>3. GateInv => NoLostWakeup
  BY DEF GateInv
<1> QED
  BY <1>1, <1>2, <1>3, PTL DEF Spec

\* The subscription that subscribe looks for again before it registers is never
\* there (SubscribesAlone).
THEOREM NeverRegisteredTwice == Spec => []SubscribesAlone
<1>1. TypeOK /\ Control => SubscribesAlone
  BY DEF TypeOK, PCs, Control, WorkerControl, SubscribesAlone
<1> QED
  BY <1>1, Typing, PTL

-----------------------------------------------------------------------------
(***************************************************************************)
(* The viewers a session counts.  A worker is in the set Watching(s)       *)
(* exactly from its join to its leave, and moves between the ways of being *)
(* in it without leaving it; Control says it is in it once.                *)
(***************************************************************************)
LEMMA WatchingFinite == \A s : IsFiniteSet(Watching(s))
<1>1. IsFiniteSet(Workers)
  BY FinitenessAssumption, FS_Product DEF Workers
<1>2. \A s : Watching(s) \in SUBSET Workers
  BY DEF Watching
<1> QED
  BY <1>1, <1>2, FS_Subset

LEMMA CardinalitySteps ==
    \A S, x : IsFiniteSet(S) =>
        /\ x \notin S => Cardinality(S \cup {x}) = Cardinality(S) + 1
        /\ x \in S => Cardinality(S \ {x}) = Cardinality(S) - 1
BY FS_AddElement, FS_RemoveElement

\* A step that changes neither the counts nor who watches.
LEMMA SameWatched ==
    ASSUME ViewersExact,
           viewers' = viewers,
           \A s \in Sessions : Reachable(s)' => Reachable(s),
           \A s \in Sessions : Watching(s)' = Watching(s)
    PROVE  ViewersExact'
BY DEF ViewersExact

\* A step that makes a session of an identity nothing referred to.
LEMMA NewWatched ==
    ASSUME TypeOK, ViewersExact, NEW n \in Sessions, ~Reachable(n),
           viewers' = [viewers EXCEPT ![n] = 0],
           \A s \in Sessions : s # n => (Reachable(s)' => Reachable(s)),
           \A s \in Sessions : Watching(s)' = Watching(s)
    PROVE  ViewersExact'
<1>1. Watching(n) = {}
  BY DEF Watching, Reachable
<1>2. Cardinality(Watching(n)') = 0
  BY <1>1, FS_EmptySet
<1> QED
  BY <1>2 DEF ViewersExact, TypeOK

LEMMA ViewersInit == Init => ViewersExact
BY NoneAssumption DEF Init, ViewersExact, Reachable, Held

LEMMA ViewersNext == TypeOK /\ Control /\ ViewersExact /\ [Next]_vars => ViewersExact'
<1> SUFFICES ASSUME TypeOK, Control, ViewersExact, [Next]_vars
             PROVE  ViewersExact'
    OBVIOUS
<1> USE WorkerParts, NoneAssumption DEF TypeOK, PCs, Goto, HGoto, Handles
<1>1. ASSUME NEW k \in Sockets, Connect(k)
      PROVE  ViewersExact'
  <2>1. viewers' = viewers
    BY <1>1 DEF Connect, sessVars, WorkersOf
  <2>2. \A s \in Sessions : Reachable(s)' => Reachable(s)
    BY <1>1 DEF Connect, Reachable, Held, WorkersOf, diskVars, sessVars, workerVars, handlerVars, Control, WorkerControl
  <2>3. \A s \in Sessions : Watching(s)' = Watching(s)
    BY <1>1 DEF Connect, Watching, WorkersOf, diskVars, sessVars, workerVars, handlerVars, Control, WorkerControl
  <2> QED
    BY <2>1, <2>2, <2>3, SameWatched
<1>2. ASSUME NEW k \in Sockets, Drop(k)
      PROVE  ViewersExact'
  <2>1. viewers' = viewers
    BY <1>2 DEF Drop, sessVars
  <2>2. \A s \in Sessions : Reachable(s)' => Reachable(s)
    BY <1>2 DEF Drop, Reachable, Held, diskVars, sessVars, workerVars, handlerVars, Control, WorkerControl
  <2>3. \A s \in Sessions : Watching(s)' = Watching(s)
    BY <1>2 DEF Drop, Watching, diskVars, sessVars, workerVars, handlerVars, Control, WorkerControl
  <2> QED
    BY <2>1, <2>2, <2>3, SameWatched
<1>3. ASSUME NEW k \in Sockets, CloseSubscriptions(k)
      PROVE  ViewersExact'
  <2>1. viewers' = viewers
    BY <1>3 DEF CloseSubscriptions, sessVars, WorkersOf
  <2>2. \A s \in Sessions : Reachable(s)' => Reachable(s)
    BY <1>3 DEF CloseSubscriptions, Subscribed, WorkersOf, Reachable, Held, WorkersOf, diskVars, sessVars, workerVars, handlerVars, Control, WorkerControl
  <2>3. \A s \in Sessions : Watching(s)' = Watching(s)
    BY <1>3 DEF CloseSubscriptions, Subscribed, WorkersOf, Watching, WorkersOf, diskVars, sessVars, workerVars, handlerVars, Control, WorkerControl
  <2> QED
    BY <2>1, <2>2, <2>3, SameWatched
<1>4. ASSUME NEW w \in Workers, Subscribe(w)
      PROVE  ViewersExact'
  <2>1. viewers' = viewers
    BY <1>4 DEF Subscribe, Found, sessVars
  <2>2. \A s \in Sessions : Reachable(s)' => Reachable(s)
    BY <1>4 DEF Subscribe, Found, Reachable, Held, diskVars, sessVars, workerVars, handlerVars, Control, WorkerControl
  <2>3. \A s \in Sessions : Watching(s)' = Watching(s)
    BY <1>4 DEF Subscribe, Found, Watching, diskVars, sessVars, workerVars, handlerVars, Control, WorkerControl
  <2> QED
    BY <2>1, <2>2, <2>3, SameWatched
<1>5. ASSUME NEW w \in Workers, LookupFinds(w)
      PROVE  ViewersExact'
  <2>1. viewers' = viewers
    BY <1>5 DEF LookupFinds, sessVars
  <2>2. \A s \in Sessions : Reachable(s)' => Reachable(s)
    BY <1>5 DEF LookupFinds, Reachable, Held, diskVars, sessVars, workerVars, handlerVars, Control, WorkerControl
  <2>3. \A s \in Sessions : Watching(s)' = Watching(s)
    BY <1>5 DEF LookupFinds, Watching, diskVars, sessVars, workerVars, handlerVars, Control, WorkerControl
  <2> QED
    BY <2>1, <2>2, <2>3, SameWatched
<1>6. ASSUME NEW w \in Workers, LookupFails(w)
      PROVE  ViewersExact'
  <2>1. viewers' = viewers
    BY <1>6 DEF LookupFails, sessVars
  <2>2. \A s \in Sessions : Reachable(s)' => Reachable(s)
    BY <1>6 DEF LookupFails, Reachable, Held, diskVars, sessVars, workerVars, handlerVars, Control, WorkerControl
  <2>3. \A s \in Sessions : Watching(s)' = Watching(s)
    BY <1>6 DEF LookupFails, Watching, diskVars, sessVars, workerVars, handlerVars, Control, WorkerControl
  <2> QED
    BY <2>1, <2>2, <2>3, SameWatched
<1>7. ASSUME NEW w \in Workers, AttachFound(w)
      PROVE  ViewersExact'
  <2>1. viewers' = viewers
    BY <1>7 DEF AttachFound, sessVars
  <2>2. \A s \in Sessions : Reachable(s)' => Reachable(s)
    BY <1>7 DEF AttachFound, Reachable, Held, diskVars, sessVars, workerVars, handlerVars, Control, WorkerControl
  <2>3. \A s \in Sessions : Watching(s)' = Watching(s)
    BY <1>7 DEF AttachFound, Watching, diskVars, sessVars, workerVars, handlerVars, Control, WorkerControl
  <2> QED
    BY <2>1, <2>2, <2>3, SameWatched
<1>8. ASSUME NEW w \in Workers, AttachWaits(w)
      PROVE  ViewersExact'
  <2>1. viewers' = viewers
    BY <1>8 DEF AttachWaits, Opening, sessVars
  <2>2. \A s \in Sessions : Reachable(s)' => Reachable(s)
    BY <1>8 DEF AttachWaits, Opening, Reachable, Held, diskVars, sessVars, workerVars, handlerVars, Control, WorkerControl
  <2>3. \A s \in Sessions : Watching(s)' = Watching(s)
    BY <1>8 DEF AttachWaits, Opening, Watching, diskVars, sessVars, workerVars, handlerVars, Control, WorkerControl
  <2> QED
    BY <2>1, <2>2, <2>3, SameWatched
<1>9. ASSUME NEW w \in Workers, AttachOpens(w)
      PROVE  ViewersExact'
  <2>1. viewers' = viewers
    BY <1>9 DEF AttachOpens, Opening, sessVars
  <2>2. \A s \in Sessions : Reachable(s)' => Reachable(s)
    BY <1>9 DEF AttachOpens, Opening, Reachable, Held, diskVars, sessVars, workerVars, handlerVars, Control, WorkerControl
  <2>3. \A s \in Sessions : Watching(s)' = Watching(s)
    BY <1>9 DEF AttachOpens, Opening, Watching, diskVars, sessVars, workerVars, handlerVars, Control, WorkerControl
  <2> QED
    BY <2>1, <2>2, <2>3, SameWatched
<1>10. ASSUME NEW w \in Workers, Woken(w)
      PROVE  ViewersExact'
  <2>1. viewers' = viewers
    BY <1>10 DEF Woken, sessVars
  <2>2. \A s \in Sessions : Reachable(s)' => Reachable(s)
    BY <1>10 DEF Woken, Reachable, Held, diskVars, sessVars, workerVars, handlerVars, Control, WorkerControl
  <2>3. \A s \in Sessions : Watching(s)' = Watching(s)
    BY <1>10 DEF Woken, Watching, diskVars, sessVars, workerVars, handlerVars, Control, WorkerControl
  <2> QED
    BY <2>1, <2>2, <2>3, SameWatched
<1>11. ASSUME NEW w \in Workers, WaitCancelled(w)
      PROVE  ViewersExact'
  <2>1. viewers' = viewers
    BY <1>11 DEF WaitCancelled, Cancelled, sessVars
  <2>2. \A s \in Sessions : Reachable(s)' => Reachable(s)
    BY <1>11 DEF WaitCancelled, Cancelled, Reachable, Held, diskVars, sessVars, workerVars, handlerVars, Control, WorkerControl
  <2>3. \A s \in Sessions : Watching(s)' = Watching(s)
    BY <1>11 DEF WaitCancelled, Cancelled, Watching, diskVars, sessVars, workerVars, handlerVars, Control, WorkerControl
  <2> QED
    BY <2>1, <2>2, <2>3, SameWatched
<1>12. ASSUME NEW w \in Workers, OpenSucceeds(w)
      PROVE  ViewersExact'
  <2>1. PICK n \in Sessions : NewSession(n) /\ local' = [local EXCEPT ![w] = n]
    BY <1>12 DEF OpenSucceeds
  <2>2. \A s \in Sessions : s # n => (Reachable(s)' => Reachable(s))
    BY <1>12, <2>1 DEF OpenSucceeds, Reachable, Held, handlerVars
  <2>3. \A s \in Sessions : Watching(s)' = Watching(s)
    BY <1>12, <2>1 DEF OpenSucceeds, Watching, Control, WorkerControl
  <2> QED
    BY <2>1, <2>2, <2>3, NewWatched DEF NewSession
<1>13. ASSUME NEW w \in Workers, OpenFails(w)
      PROVE  ViewersExact'
  <2>1. viewers' = viewers
    BY <1>13 DEF OpenFails, sessVars
  <2>2. \A s \in Sessions : Reachable(s)' => Reachable(s)
    BY <1>13 DEF OpenFails, Reachable, Held, diskVars, sessVars, workerVars, handlerVars, Control, WorkerControl
  <2>3. \A s \in Sessions : Watching(s)' = Watching(s)
    BY <1>13 DEF OpenFails, Watching, diskVars, sessVars, workerVars, handlerVars, Control, WorkerControl
  <2> QED
    BY <2>1, <2>2, <2>3, SameWatched
<1>14. ASSUME NEW w \in Workers, Publish(w)
      PROVE  ViewersExact'
  <2>1. viewers' = viewers
    BY <1>14 DEF Publish, sessVars
  <2>2. \A s \in Sessions : Reachable(s)' => Reachable(s)
    BY <1>14 DEF Publish, Reachable, Held, diskVars, sessVars, workerVars, handlerVars, Control, WorkerControl
  <2>3. \A s \in Sessions : Watching(s)' = Watching(s)
    BY <1>14 DEF Publish, Watching, diskVars, sessVars, workerVars, handlerVars, Control, WorkerControl
  <2> QED
    BY <2>1, <2>2, <2>3, SameWatched
<1>15. ASSUME NEW w \in Workers, CloseGate(w)
      PROVE  ViewersExact'
  <2>1. viewers' = viewers
    BY <1>15 DEF CloseGate, Waiting, sessVars
  <2>2. \A s \in Sessions : Reachable(s)' => Reachable(s)
    BY <1>15 DEF CloseGate, Waiting, Reachable, Held, diskVars, sessVars, workerVars, handlerVars, Control, WorkerControl
  <2>3. \A s \in Sessions : Watching(s)' = Watching(s)
    BY <1>15 DEF CloseGate, Waiting, Watching, diskVars, sessVars, workerVars, handlerVars, Control, WorkerControl
  <2> QED
    BY <2>1, <2>2, <2>3, SameWatched
<1>16. ASSUME NEW w \in Workers, Join(w)
      PROVE  ViewersExact'
  <2>1. local[w] \in Sessions /\ pc[w] = "attached" /\ sub[w] = None
    BY <1>16 DEF Join, Control, WorkerControl
  <2>2. PICK n \in Sessions : n = local[w]
    BY <2>1
  <2>3. Watching(n)' = Watching(n) \cup {w} /\ w \notin Watching(n)
    BY <1>16, <2>1, <2>2 DEF Join, Watching
  <2>4. \A s \in Sessions \ {n} : Watching(s)' = Watching(s)
    BY <1>16, <2>1, <2>2 DEF Join, Watching
  <2>5. Reachable(n) /\ \A s \in Sessions : Reachable(s)' => Reachable(s)
    BY <1>16, <2>2 DEF Join, Reachable, handlerVars
  <2>6. Cardinality(Watching(n)') = Cardinality(Watching(n)) + 1
    <3>1. Cardinality(Watching(n) \cup {w}) = Cardinality(Watching(n)) + 1
      BY <2>3, CardinalitySteps, WatchingFinite
    <3> QED
      BY <3>1, <2>3
  <2>7. viewers'[n] = viewers[n] + 1 /\ \A s \in Sessions \ {n} : viewers'[s] = viewers[s]
    BY <1>16, <2>1, <2>2 DEF Join
  <2> QED
    BY <2>4, <2>5, <2>6, <2>7 DEF ViewersExact
<1>17. ASSUME NEW w \in Workers, Register(w)
      PROVE  ViewersExact'
  <2>1. viewers' = viewers
    BY <1>17 DEF Register, sessVars
  <2>2. \A s \in Sessions : Reachable(s)' => Reachable(s)
    BY <1>17 DEF Register, Reachable, Held, diskVars, sessVars, workerVars, handlerVars, Control, WorkerControl
  <2>3. \A s \in Sessions : Watching(s)' = Watching(s)
    BY <1>17 DEF Register, Watching, diskVars, sessVars, workerVars, handlerVars, Control, WorkerControl
  <2> QED
    BY <2>1, <2>2, <2>3, SameWatched
<1>18. ASSUME NEW w \in Workers, Unsubscribe(w)
      PROVE  ViewersExact'
  <2>1. viewers' = viewers
    BY <1>18 DEF Unsubscribe, sessVars
  <2>2. \A s \in Sessions : Reachable(s)' => Reachable(s)
    BY <1>18 DEF Unsubscribe, Reachable, Held, diskVars, sessVars, workerVars, handlerVars, Control, WorkerControl
  <2>3. \A s \in Sessions : Watching(s)' = Watching(s)
    BY <1>18 DEF Unsubscribe, Watching, diskVars, sessVars, workerVars, handlerVars, Control, WorkerControl
  <2> QED
    BY <2>1, <2>2, <2>3, SameWatched
<1>19. ASSUME NEW w \in Workers, Leave(w)
      PROVE  ViewersExact'
  <2>1. local[w] \in Sessions /\ pc[w] = "leaving" /\ sub[w] = None
    BY <1>19 DEF Leave, Control, WorkerControl
  <2>2. PICK n \in Sessions : n = local[w]
    BY <2>1
  <2>3. Watching(n)' = Watching(n) \ {w} /\ w \in Watching(n)
    BY <1>19, <2>1, <2>2 DEF Leave, Watching
  <2>4. \A s \in Sessions \ {n} : Watching(s)' = Watching(s)
    BY <1>19, <2>1, <2>2 DEF Leave, Watching
  <2>5. Reachable(n) /\ \A s \in Sessions : Reachable(s)' => Reachable(s)
    BY <1>19, <2>2 DEF Leave, Reachable, handlerVars
  <2>6. Cardinality(Watching(n)') = Cardinality(Watching(n)) - 1
    <3>1. Cardinality(Watching(n) \ {w}) = Cardinality(Watching(n)) - 1
      BY <2>3, CardinalitySteps, WatchingFinite
    <3> QED
      BY <3>1, <2>3
  <2>7. viewers'[n] = viewers[n] - 1 /\ \A s \in Sessions \ {n} : viewers'[s] = viewers[s]
    BY <1>19, <2>1, <2>2 DEF Leave
  <2> QED
    BY <2>4, <2>5, <2>6, <2>7 DEF ViewersExact
<1>20. ASSUME NEW w \in Workers, Send(w)
      PROVE  ViewersExact'
  <2>1. viewers' = viewers
    BY <1>20 DEF Send, sessVars
  <2>2. \A s \in Sessions : Reachable(s)' => Reachable(s)
    BY <1>20 DEF Send, Reachable, Held, diskVars, sessVars, workerVars, handlerVars, Control, WorkerControl
  <2>3. \A s \in Sessions : Watching(s)' = Watching(s)
    BY <1>20 DEF Send, Watching, diskVars, sessVars, workerVars, handlerVars, Control, WorkerControl
  <2> QED
    BY <2>1, <2>2, <2>3, SameWatched
<1>21. ASSUME NEW w \in Workers, Touch(w)
      PROVE  ViewersExact'
  <2>1. viewers' = viewers
    BY <1>21 DEF Touch, sessVars
  <2>2. \A s \in Sessions : Reachable(s)' => Reachable(s)
    BY <1>21 DEF Touch, Reachable, Held, diskVars, sessVars, workerVars, handlerVars, Control, WorkerControl
  <2>3. \A s \in Sessions : Watching(s)' = Watching(s)
    BY <1>21 DEF Touch, Watching, diskVars, sessVars, workerVars, handlerVars, Control, WorkerControl
  <2> QED
    BY <2>1, <2>2, <2>3, SameWatched
<1>22. ASSUME NEW w \in Workers, Exit(w)
      PROVE  ViewersExact'
  <2>1. viewers' = viewers
    BY <1>22 DEF Exit, Cancelled, sessVars
  <2>2. \A s \in Sessions : Reachable(s)' => Reachable(s)
    BY <1>22 DEF Exit, Cancelled, Reachable, Held, diskVars, sessVars, workerVars, handlerVars, Control, WorkerControl
  <2>3. \A s \in Sessions : Watching(s)' = Watching(s)
    BY <1>22 DEF Exit, Cancelled, Watching, diskVars, sessVars, workerVars, handlerVars, Control, WorkerControl
  <2> QED
    BY <2>1, <2>2, <2>3, SameWatched
<1>23. ASSUME NEW h \in Handlers, NEW c \in Convs, Create(h, c)
      PROVE  ViewersExact'
  <2>1. PICK n \in Sessions : NewSession(n) /\ hsess' = [hsess EXCEPT ![h] = n]
    BY <1>23 DEF Create
  <2>2. \A s \in Sessions : s # n => (Reachable(s)' => Reachable(s))
    BY <1>23, <2>1 DEF Create, Reachable, Held, workerVars
  <2>3. \A s \in Sessions : Watching(s)' = Watching(s)
    BY <1>23, <2>1 DEF Create, Watching, workerVars
  <2> QED
    BY <2>1, <2>2, <2>3, NewWatched DEF NewSession
<1>24. ASSUME NEW h \in Handlers, NEW c \in Convs, Remove(h, c)
      PROVE  ViewersExact'
  <2>1. viewers' = viewers
    BY <1>24 DEF Remove, sessVars
  <2>2. \A s \in Sessions : Reachable(s)' => Reachable(s)
    BY <1>24 DEF Remove, Reachable, Held, diskVars, sessVars, workerVars, handlerVars, Control, WorkerControl
  <2>3. \A s \in Sessions : Watching(s)' = Watching(s)
    BY <1>24 DEF Remove, Watching, diskVars, sessVars, workerVars, handlerVars, Control, WorkerControl
  <2> QED
    BY <2>1, <2>2, <2>3, SameWatched
<1>25. ASSUME NEW h \in Handlers, PublishCreated(h)
      PROVE  ViewersExact'
  <2>1. viewers' = viewers
    BY <1>25 DEF PublishCreated, sessVars
  <2>2. \A s \in Sessions : Reachable(s)' => Reachable(s)
    BY <1>25 DEF PublishCreated, Reachable, Held, diskVars, sessVars, workerVars, handlerVars, Control, WorkerControl
  <2>3. \A s \in Sessions : Watching(s)' = Watching(s)
    BY <1>25 DEF PublishCreated, Watching, diskVars, sessVars, workerVars, handlerVars, Control, WorkerControl
  <2> QED
    BY <2>1, <2>2, <2>3, SameWatched
<1>25a. ASSUME NEW h \in Handlers, CreateFails(h)
      PROVE  ViewersExact'
  <2>1. viewers' = viewers
    BY <1>25a DEF CreateFails, sessVars
  <2>2. \A s \in Sessions : Reachable(s)' => Reachable(s)
    BY <1>25a DEF CreateFails, Reachable, Held, diskVars, sessVars, workerVars, handlerVars, Control, WorkerControl
  <2>3. \A s \in Sessions : Watching(s)' = Watching(s)
    BY <1>25a DEF CreateFails, Watching, diskVars, sessVars, workerVars, handlerVars, Control, WorkerControl
  <2> QED
    BY <2>1, <2>2, <2>3, SameWatched
<1>26. ASSUME NEW h \in Handlers, TakeRemoved(h)
      PROVE  ViewersExact'
  <2>1. viewers' = viewers
    BY <1>26 DEF TakeRemoved, sessVars
  <2>2. \A s \in Sessions : Reachable(s)' => Reachable(s)
    BY <1>26 DEF TakeRemoved, Reachable, diskVars, sessVars, workerVars, handlerVars, Control, HandlerControl
  <2>3. \A s \in Sessions : Watching(s)' = Watching(s)
    BY <1>26 DEF TakeRemoved, Watching, diskVars, sessVars, workerVars, handlerVars, Control, WorkerControl
  <2> QED
    BY <2>1, <2>2, <2>3, SameWatched
<1>27. ASSUME NEW h \in Handlers, CloseRemoved(h)
      PROVE  ViewersExact'
  <2>1. viewers' = viewers
    BY <1>27 DEF CloseRemoved, sessVars, CloseHandle
  <2>2. \A s \in Sessions : Reachable(s)' => Reachable(s)
    BY <1>27 DEF CloseRemoved, Reachable, Held, CloseHandle, diskVars, sessVars, workerVars, handlerVars, Control, WorkerControl
  <2>3. \A s \in Sessions : Watching(s)' = Watching(s)
    BY <1>27 DEF CloseRemoved, Watching, CloseHandle, diskVars, sessVars, workerVars, handlerVars, Control, WorkerControl
  <2> QED
    BY <2>1, <2>2, <2>3, SameWatched
<1>28. ASSUME NEW h \in Handlers, Forget(h)
      PROVE  ViewersExact'
  <2>1. viewers' = viewers
    BY <1>28 DEF Forget, sessVars
  <2>2. \A s \in Sessions : Reachable(s)' => Reachable(s)
    BY <1>28 DEF Forget, Reachable, Held, diskVars, sessVars, workerVars, handlerVars, Control, WorkerControl
  <2>3. \A s \in Sessions : Watching(s)' = Watching(s)
    BY <1>28 DEF Forget, Watching, diskVars, sessVars, workerVars, handlerVars, Control, WorkerControl
  <2> QED
    BY <2>1, <2>2, <2>3, SameWatched
<1>29. ASSUME NEW n \in Sessions, GrowStale(n)
      PROVE  ViewersExact'
  <2>1. viewers' = viewers
    BY <1>29 DEF GrowStale, sessVars, Held
  <2>2. \A s \in Sessions : Reachable(s)' => Reachable(s)
    BY <1>29 DEF GrowStale, Reachable, Held, diskVars, sessVars, workerVars, handlerVars, Control, WorkerControl
  <2>3. \A s \in Sessions : Watching(s)' = Watching(s)
    BY <1>29 DEF GrowStale, Watching, diskVars, sessVars, workerVars, handlerVars, Control, WorkerControl
  <2> QED
    BY <2>1, <2>2, <2>3, SameWatched
<1>30. ASSUME NEW n \in Sessions, TurnEnds(n)
      PROVE  ViewersExact'
  <2>1. viewers' = viewers
    BY <1>30 DEF TurnEnds, sessVars
  <2>2. \A s \in Sessions : Reachable(s)' => Reachable(s)
    BY <1>30 DEF TurnEnds, Reachable, Held, diskVars, sessVars, workerVars, handlerVars, Control, WorkerControl
  <2>3. \A s \in Sessions : Watching(s)' = Watching(s)
    BY <1>30 DEF TurnEnds, Watching, diskVars, sessVars, workerVars, handlerVars, Control, WorkerControl
  <2> QED
    BY <2>1, <2>2, <2>3, SameWatched
<1>31. ASSUME NEW n \in Sessions, EndIdle(n)
      PROVE  ViewersExact'
  <2>1. viewers' = viewers
    BY <1>31 DEF EndIdle, sessVars, CloseHandle
  <2>2. \A s \in Sessions : Reachable(s)' => Reachable(s)
    BY <1>31 DEF EndIdle, Reachable, Held, CloseHandle, diskVars, sessVars, workerVars, handlerVars, Control, WorkerControl
  <2>3. \A s \in Sessions : Watching(s)' = Watching(s)
    BY <1>31 DEF EndIdle, Watching, CloseHandle, diskVars, sessVars, workerVars, handlerVars, Control, WorkerControl
  <2> QED
    BY <2>1, <2>2, <2>3, SameWatched
<1>32. ASSUME NEW n \in Sessions, EndHeld(n)
      PROVE  ViewersExact'
  <2>1. viewers' = viewers
    BY <1>32 DEF EndHeld, sessVars, CloseHandle
  <2>2. \A s \in Sessions : Reachable(s)' => Reachable(s)
    BY <1>32 DEF EndHeld, Reachable, Held, CloseHandle, diskVars, sessVars, workerVars, handlerVars, Control, WorkerControl
  <2>3. \A s \in Sessions : Watching(s)' = Watching(s)
    BY <1>32 DEF EndHeld, Watching, CloseHandle, diskVars, sessVars, workerVars, handlerVars, Control, WorkerControl
  <2> QED
    BY <2>1, <2>2, <2>3, SameWatched
<1>33. ASSUME TakeIdle
      PROVE  ViewersExact'
  <2>1. viewers' = viewers
    BY <1>33 DEF TakeIdle, Without, sessVars, Held
  <2>2. \A s \in Sessions : Reachable(s)' => Reachable(s)
    BY <1>33 DEF TakeIdle, Without, Reachable, Held, diskVars, sessVars, workerVars, handlerVars, Control, WorkerControl
  <2>3. \A s \in Sessions : Watching(s)' = Watching(s)
    BY <1>33 DEF TakeIdle, Without, Watching, diskVars, sessVars, workerVars, handlerVars, Control, WorkerControl
  <2> QED
    BY <2>1, <2>2, <2>3, SameWatched
<1>34. ASSUME Signal
      PROVE  ViewersExact'
  <2>1. viewers' = viewers
    BY <1>34 DEF Signal, sessVars
  <2>2. \A s \in Sessions : Reachable(s)' => Reachable(s)
    BY <1>34 DEF Signal, Reachable, Held, diskVars, sessVars, workerVars, handlerVars, Control, WorkerControl
  <2>3. \A s \in Sessions : Watching(s)' = Watching(s)
    BY <1>34 DEF Signal, Watching, diskVars, sessVars, workerVars, handlerVars, Control, WorkerControl
  <2> QED
    BY <2>1, <2>2, <2>3, SameWatched
<1>35. ASSUME ShutdownHTTP
      PROVE  ViewersExact'
  <2>1. viewers' = viewers
    BY <1>35 DEF ShutdownHTTP, sessVars
  <2>2. \A s \in Sessions : Reachable(s)' => Reachable(s)
    BY <1>35 DEF ShutdownHTTP, Reachable, Held, diskVars, sessVars, workerVars, handlerVars, Control, WorkerControl
  <2>3. \A s \in Sessions : Watching(s)' = Watching(s)
    BY <1>35 DEF ShutdownHTTP, Watching, diskVars, sessVars, workerVars, handlerVars, Control, WorkerControl
  <2> QED
    BY <2>1, <2>2, <2>3, SameWatched
<1>36. ASSUME TakeAll
      PROVE  ViewersExact'
  <2>1. viewers' = viewers
    BY <1>36 DEF TakeAll, Without, sessVars, Held
  <2>2. \A s \in Sessions : Reachable(s)' => Reachable(s)
    BY <1>36 DEF TakeAll, Without, Reachable, Held, diskVars, sessVars, workerVars, handlerVars, Control, WorkerControl
  <2>3. \A s \in Sessions : Watching(s)' = Watching(s)
    BY <1>36 DEF TakeAll, Without, Watching, diskVars, sessVars, workerVars, handlerVars, Control, WorkerControl
  <2> QED
    BY <2>1, <2>2, <2>3, SameWatched
<1>37. ASSUME MainReturns
      PROVE  ViewersExact'
  BY <1>37 DEF MainReturns, Booted, ViewersExact, Reachable, Held
<1>38. ASSUME Kill
      PROVE  ViewersExact'
  BY <1>38 DEF Kill, Booted, ViewersExact, Reachable, Held
<1>39. CASE UNCHANGED vars
  BY <1>39 DEF vars, diskVars, sessVars, workerVars, handlerVars, ViewersExact,
       Reachable, Held, Watching
<1> QED
  BY <1>1, <1>2, <1>3, <1>4, <1>5, <1>6, <1>7, <1>8, <1>9, <1>10, <1>11, <1>12, <1>13, <1>14, <1>15, <1>16, <1>17,
     <1>18, <1>19, <1>20, <1>21, <1>22, <1>23, <1>24, <1>25, <1>25a, <1>26, <1>27, <1>28, <1>29, <1>30, <1>31, <1>32, <1>33, <1>34, <1>35, <1>36, <1>37, <1>38, <1>39
     DEF Next, WorkerStep, HandlerStep

\* session.viewers is the number of workers between their join and their leave,
\* for every session that anything still refers to (ViewersExact).
THEOREM ViewersCounted == Spec => []ViewersExact
<1>1. Init => TypeOK /\ Control /\ ViewersExact
  BY TypeInit, ViewersInit
<1>2. TypeOK /\ Control /\ ViewersExact /\ [Next]_vars
      => TypeOK' /\ Control' /\ ViewersExact'
  BY TypeNext, WorkerControlNext, HandlerControlNext, ViewersNext DEF Control
<1> QED
  BY <1>1, <1>2, PTL DEF Spec
=============================================================================
