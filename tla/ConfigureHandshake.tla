------------------------ MODULE ConfigureHandshake ------------------------
(***************************************************************************)
(* What a Configure negotiation promises the layer above, with nothing of  *)
(* packets, options, identifiers or timers: the layer is up exactly while  *)
(* the peer's last request is acknowledged by us and our last request is   *)
(* acknowledged by the peer.                                               *)
(*                                                                         *)
(*   heard  the peer acknowledged our current request                      *)
(*   said   our last answer acknowledged the peer's request                *)
(*   up     the layer above has been told the layer is up                  *)
(*                                                                         *)
(* LcpSession and IpcpSession implement it.                                *)
(***************************************************************************)
VARIABLES heard, said, up

handshake == <<heard, said, up>>

Init == ~heard /\ ~said /\ ~up

\* A new negotiation, a terminated one, or a lower layer that is gone.
Restart == ~heard' /\ ~said' /\ ~up'

\* Our answer to a request of the peer.  A request that arrives while the layer
\* is up takes it down and makes us ask again.
AnswerPeer(ok) ==
    /\ said' = ok
    /\ heard' = (heard /\ ~up)
    /\ up' = (heard /\ ~up /\ ok)

\* The peer acknowledges our request.
PeerAcks ==
    /\ ~heard
    /\ heard' = TRUE
    /\ said' = said
    /\ up' = said

\* The peer turns our request down, or the wait for its request timed out: we
\* ask again.  Our own Ack stands unless the peer had already acknowledged us.
AskAgain ==
    /\ ~up'
    /\ ~heard'
    /\ said' = (said /\ ~heard)

Next ==
    \/ Restart
    \/ \E ok \in BOOLEAN : AnswerPeer(ok)
    \/ PeerAcks
    \/ AskAgain

Spec == Init /\ [][Next]_handshake
===========================================================================
