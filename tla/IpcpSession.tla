----------------------------- MODULE IpcpSession -----------------------------
(***************************************************************************)
(* One IPCP reference client, its caller and any peer at all: every call   *)
(* in any order and every packet a peer could send.                        *)
(*                                                                         *)
(* History variables: `upper` is the configuration the layer above was     *)
(* told with ThisLayerUp, None after ThisLayerDown; `sent` the last        *)
(* Configure-Request handed to the line; `acked` the options of the last   *)
(* Configure-Ack the client accepted for it; `verdict` the address of the  *)
(* last peer request acknowledged in this negotiation; `halfApplied` says  *)
(* that a Nak or Reject the client ignored has changed it all the same.    *)
(***************************************************************************)
EXTENDS IpcpClient

VARIABLES ipcp, upper, sent, acked, verdict, halfApplied

ipcpVars == <<ipcp, upper, sent, acked, verdict, halfApplied>>

None == [none |-> TRUE]

PeerPackets == [code : Codes, id : IpcpIdentifiers, wf : BOOLEAN, opts : PeerOptionLists]

OfType(actions, type) == {i \in DOMAIN actions : actions[i].type = type}
\* The Configure-Requests among the packets a transition sends.
Requests(actions) == {i \in OfType(actions, "send") : actions[i].packet.code = "ConfReq"}

\* Hand the actions of a transition to the line and to the layer above.
Take(t) ==
    /\ ipcp' = t.client
    /\ upper' = IF OfType(t.actions, "up") # {}
                THEN t.actions[CHOOSE i \in OfType(t.actions, "up") : TRUE].addresses
                ELSE IF OfType(t.actions, "down") # {} THEN None
                ELSE upper
    /\ sent' = IF Requests(t.actions) = {} THEN sent
               ELSE t.actions[CHOOSE i \in Requests(t.actions) : TRUE].packet

IpcpInit ==
    /\ ipcp = NewIpcpClient
    /\ upper = None
    /\ sent = Request(NewIpcpClient)
    /\ acked = {}
    /\ verdict = PreferredPeer
    /\ halfApplied = FALSE

Open ==
    /\ ipcp.state # "Opened"
    /\ Take(open(ipcp))
    /\ acked' = {} /\ verdict' = PreferredPeer /\ halfApplied' = FALSE

IpcpLowerDown ==
    /\ Take(ipcp_lower_down(ipcp))
    /\ acked' = {} /\ verdict' = PreferredPeer /\ halfApplied' = FALSE

PollTimeout ==
    /\ Take(poll_timeout(ipcp))
    /\ UNCHANGED <<acked, verdict, halfApplied>>

IpcpReceive(p) ==
    LET t == ipcp_receive(ipcp, p)
        peer == evaluate_peer_request(p.opts).peer
    IN  /\ Take(t)
        /\ acked' = IF sent' # sent THEN {}
                    ELSE IF p.code = "ConfAck" /\ ~t.ignored THEN {p.opts}
                    ELSE acked
        /\ verdict' = IF p.code = "ConfReq" /\ ~t.ignored /\ peer # Unspecified
                      THEN peer ELSE verdict
        /\ halfApplied' = (halfApplied \/ (t.ignored /\ t.client # ipcp))

IpcpNext ==
    \/ Open \/ IpcpLowerDown \/ PollTimeout
    \/ \E p \in PeerPackets : IpcpReceive(p)

IpcpSpec == IpcpInit /\ [][IpcpNext]_ipcpVars

\* The caller polls the restart timer for as long as it runs.
IpcpFairness == WF_ipcpVars(PollTimeout)
IpcpFairSpec == IpcpSpec /\ IpcpFairness

-----------------------------------------------------------------------------
\* The client record and what it hands out keep their types.
IpcpTypeOK ==
    /\ ipcp \in IpcpClients
    /\ verdict \in AnyAddress
    /\ halfApplied \in BOOLEAN
    /\ upper \in [addr : [AskedTypes -> AnyAddress], peer : AnyAddress] \cup {None}

\* The layer above has been told Up exactly while the client is Opened, and the
\* addresses it was told are the ones in force: no transition changes an address
\* under an upper layer that is up, unless a refused Nak or Reject half did.
ToldAddressesInForce ==
    /\ upper # None <=> ipcp.state = "Opened"
    /\ upper # None /\ ~halfApplied => upper = addresses(ipcp)

\* A restart deadline is pending exactly in the states that wait for the peer.
TimerCoversWaiting == ipcp.deadline <=> ipcp.state \in Negotiating

\* The request whose Ack the client would accept is the one last put on the
\* line, whatever Naks, Rejects, retransmissions and restarts came between.
AwaitsWhatItSent ==
    ipcp.state \in Negotiating \cup {"Opened"} /\ ~halfApplied => sent = Request(ipcp)

\* The peer address in force is the one of the last peer request acknowledged
\* in this negotiation: none that was Nak'ed or Rejected, none of the
\* negotiation before.
PeerAddressWasAcknowledged == ipcp.peer_address = verdict

\* Once the caller only polls the timer, a silent peer ends the negotiation.
SilenceEndsNegotiation ==
    <>[][PollTimeout]_ipcpVars => <>[](ipcp.state \notin Negotiating)

\* The negotiation as the layer above sees it.
Handshake == INSTANCE ConfigureHandshake WITH
    heard <- ipcp.state \in {"AckReceived", "Opened"},
    said  <- ipcp.state \in {"AckSent", "Opened"},
    up    <- upper # None
\* Whatever the peer sends, the client goes through a Configure handshake: up
\* only while both requests are acknowledged.
IpcpImplementsHandshake == Handshake!Spec

\* docs/ppp.md on this client: a Configure-Ack must match the identifier and the
\* option list that was sent.
AckMatchesSentOptions == acked \subseteq {sent.opts}

\* What was said, to the layer above and to the peer, is what is in force.
IpcpNegotiationAgrees ==
    /\ IpcpTypeOK /\ TimerCoversWaiting
    /\ ToldAddressesInForce /\ AwaitsWhatItSent /\ PeerAddressWasAcknowledged
=============================================================================
