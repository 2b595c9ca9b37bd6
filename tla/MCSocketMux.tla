---------------------------- MODULE MCSocketMux ----------------------------
(* Small instances of SocketMux for TLC: two conversations, of which one waits for *)
(* a daemon that need not answer, and a third beyond the limit.                    *)
EXTENDS SocketMux

CONSTANTS c1, c2, c3

ThreeConvs == {c1, c2, c3}
OneSlow == {c2}

\* The page subscribes to c1 and c2, does everything else with c1, and asks for c3
\* when it has no worker to get.
OneBusy ==
    \A n \in 1 .. count :
        /\ conv[n] # c1 => kind[n] = "subscribe"
        /\ conv[n] = c3 => c3 \notin Workers
=============================================================================
