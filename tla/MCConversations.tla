-------------------------- MODULE MCConversations --------------------------
(* Small instances of Conversations for TLC. *)
EXTENDS Conversations, TLC

\* Sockets, sessions and handlers are interchangeable: no definition orders them.
Symmetry == Permutations(Sockets) \cup Permutations(Sessions)
            \cup Permutations(Handlers)

\* Two states that differ only in the fields of sessions that nothing refers to,
\* which NewSession overwrites, or in a record snapshot that attach has used,
\* which the next subscribe overwrites, have the same future.
View ==
    <<record, ran, sessions, gate,
      [s \in Sessions |->
         IF Reachable(s) THEN <<viewers[s], stale[s], turn[s], life[s]>> ELSE None],
      sock, sub, pc, local,
      [w \in Workers |->
         IF pc[w] \in {"look", "waiting", "opening"} THEN seen[w] ELSE None],
      waitOn, sweep, closer, hpc, hconv, hsess, server>>

Serving == server = "up"

\* At most one connection is at work.
OneSocket ==
    \E k \in Sockets : \A j \in Sockets \ {k} :
        sock[j] = "gone" /\ \A w \in WorkersOf(j) : pc[w] = "exited"

NoSends == \A w \in Workers : pc[w] # "sent"
NoRequests == \A h \in Handlers : hpc[h] = "idle"

\* The safety run.  With one connection everything happens; with two, while the
\* server serves, either nothing is being sent or no request is being served.
Lifecycle == OneSocket \/ (Serving /\ (NoSends \/ NoRequests))

\* The liveness run looks at the serving process.  Of two connections it looks at the
\* gate: no step that takes, waits on or closes it reads a turn, and the opening of
\* a conversation that has run before is the one that may fail.
GateOnly == NoSends /\ NoRequests /\ \A c \in Convs : record[c] = "started"
Released == Serving /\ (OneSocket \/ GateOnly)
=============================================================================
