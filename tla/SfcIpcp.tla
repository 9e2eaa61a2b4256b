------------------------------- MODULE SfcIpcp -------------------------------
(***************************************************************************)
(* The network layer on the SFC: ppp/ipcp.asm, ppp/ipcpPoll.asm,           *)
(* ppp/ipv4Poll.asm with the ICMP Echo answer of ppp/icmp.asm, and the     *)
(* requesters (ICMP, NTP, DNS) as senders of IP frames.                    *)
(***************************************************************************)
EXTENDS SfcAuth

IpcpLowerUp(s) == LcpUp(s) /\ pppAuthenticationReady(s)

\* The identifier restarts at one, which an earlier request may have used.
pppIpcpLowerUp(s) ==
    [s EXCEPT !.ipcp = [state |-> "RequestSent", pending |-> "ConfReq", deferred |-> FALSE,
                        timer |-> "off", remaining |-> MaxConfigure - 1, known |-> TRUE]]

pppIpcpLowerDown(s) ==
    [s EXCEPT !.ipcp = [state |-> "Closed", pending |-> None, deferred |-> FALSE,
                        timer |-> "off", remaining |-> 0, known |-> FALSE]]

-----------------------------------------------------------------------------
\* Packets; the automaton is LCP's without termination.

\* The layer becomes l with a new identifier (LcpNextIdentifier).
IpcpNextIdentifier(s, l) ==
    [s EXCEPT !.ipcp = [l EXCEPT !.known = FALSE],
              !.tx = IF @ = "IpcpRequest" THEN "IPCP" ELSE @]

IpcpNewRequest(s, state) ==
    IpcpNextIdentifier(s,
        [s.ipcp EXCEPT !.state = state, !.remaining = MaxConfigure - 1, !.timer = "off",
                       !.deferred = FALSE, !.pending = "ConfReq"])

IpcpVerdict(kind) ==
    CASE kind = "Counter" -> "ConfNak" [] kind = "Refuse" -> "ConfRej" [] OTHER -> "ConfAck"
IpcpAnswered(l, kind) ==
    [l EXCEPT !.pending = IpcpVerdict(kind),
              !.state = IF IpcpVerdict(kind) = "ConfAck" THEN "AckSent" ELSE "RequestSent"]

IpcpConfigureRequest(s, kind) ==
    LET l == IpcpAnswered(s.ipcp, kind)
        ok == IpcpVerdict(kind) = "ConfAck"
    IN  CASE s.ipcp.state = "Opened" ->
               IpcpNextIdentifier(s, [l EXCEPT !.remaining = MaxConfigure - 1, !.timer = "off",
                                               !.deferred = TRUE])
          [] s.ipcp.state = "AckReceived" /\ ok ->
               [s EXCEPT !.ipcp = [l EXCEPT !.state = "Opened", !.remaining = 0, !.timer = "off"]]
          [] s.ipcp.state = "AckReceived" /\ ~ok ->
               [s EXCEPT !.ipcp = [l EXCEPT !.state = "AckReceived"]]
          [] OTHER -> [s EXCEPT !.ipcp = l]

IpcpConfigureAck(s) ==
    CASE s.ipcp.state = "RequestSent" ->
           [s EXCEPT !.ipcp = [@ EXCEPT !.state = "AckReceived", !.remaining = MaxConfigure]]
      [] s.ipcp.state = "AckSent" ->
           [s EXCEPT !.ipcp = [@ EXCEPT !.state = "Opened", !.remaining = 0, !.timer = "off"]]
      [] OTHER -> IpcpNewRequest(s, "RequestSent")

pppIpcpReceiveFrame(s) ==
    LET kind == s.frame.kind
    IN  CASE kind \in {"Accept", "Counter", "Refuse"} -> IpcpConfigureRequest(s, kind)
          [] kind = "Ack" /\ s.ipcp.known -> IpcpConfigureAck(s)
          [] kind \in {"Nak", "Rej"} /\ s.ipcp.known ->
               IpcpNewRequest(s, IF s.ipcp.state = "AckSent" THEN "AckSent" ELSE "RequestSent")
          [] OTHER -> s

IpcpTimeoutForever(l) ==
    IF l.timer = "expired" /\ l.state \in Negotiating /\ l.remaining > 0
    THEN [l EXCEPT !.timer = "off", !.pending = "ConfReq"]
    ELSE l
IpcpTimeout(l) ==
    CASE l.timer # "expired" -> l
      [] l.timer = "expired" /\ l.state \notin Negotiating ->
           [l EXCEPT !.timer = "off", !.deferred = FALSE]
      [] l.timer = "expired" /\ l.state \in Negotiating /\ l.remaining = 0 ->
           [l EXCEPT !.state = "Stopped", !.pending = None, !.timer = "off", !.deferred = FALSE]
      [] OTHER ->
           [l EXCEPT !.remaining = @ - 1, !.pending = "ConfReq",
                     !.state = IF @ = "AckReceived" THEN "RequestSent" ELSE @,
                     !.timer = "off", !.deferred = FALSE]
pppIpcpPollTimeout(s) == [s EXCEPT !.ipcp = IpcpTimeout(@)]

-----------------------------------------------------------------------------
\* The poller.

IpcpBlocked(s) == s.ipcp.pending # None /\ EncoderBusy(s)

IpcpSent(l) ==
    [l EXCEPT !.timer = IF l.pending = "ConfReq" THEN "armed" ELSE @, !.pending = None]
pppIpcpBuildPending(s) ==
    [s EXCEPT !.tx = IF s.ipcp.pending = "ConfReq" THEN "IpcpRequest" ELSE "IPCP",
              !.ipcp = IpcpSent(@)]

IpcpPromoteDeferred(l) ==
    IF l.deferred THEN [l EXCEPT !.deferred = FALSE, !.pending = "ConfReq"] ELSE l

IpcpServicePending(s) ==
    LET b == pppIpcpBuildPending(s)
    IN  CASE s.ipcp.pending = None \/ EncoderBusy(s) -> s
          [] s.ipcp.pending = "ConfReq" /\ ~EncoderBusy(s) -> b
          [] OTHER -> pppReleaseFrame([b EXCEPT !.ipcp = IpcpPromoteDeferred(@)])

IpcpTimer(s) == IpcpServicePending(pppIpcpPollTimeout(s))

IpcpReceive(s) ==
    LET r == pppIpcpReceiveFrame(s)
    IN  CASE r.ipcp.pending \notin IpcpResponses ->
               IpcpTimer(IpcpServicePending(pppReleaseFrame(r)))
          [] r.ipcp.pending \in IpcpResponses /\ IpcpBlocked(r) -> r
          [] OTHER -> IpcpTimer(IpcpServicePending(r))

IpcpDispatch(s) ==
    CASE s.frame = None -> IpcpTimer(s)
      [] s.frame # None /\ s.frame.proto = "IPCP" -> IpcpReceive(s)
      [] s.frame # None /\ s.frame.proto = "IP" -> s
      [] OTHER -> IpcpTimer(pppReleaseFrame(s))

IpcpService(s) == IF IpcpBlocked(s) THEN s ELSE IpcpDispatch(IpcpServicePending(s))

\* Lower-down on a live line keeps a Terminate-Ack in the encoder and aborts
\* whatever else is there.
IpcpGoesDownKeepsTx(s) == pppIpcpLowerDown(pppReleaseFrame(s))
IpcpGoesDownAbortsAll(s) == pppTransmitAbort(pppIpcpLowerDown(pppReleaseFrame(s)))
IpcpGoesDown(s) ==
    LET d == pppIpcpLowerDown(pppReleaseFrame(s))
    IN  IF LowerAvailable(s) /\ s.tx \in {None, "TermAck"} THEN d ELSE pppTransmitAbort(d)

pppIpcpPoll(s) ==
    CASE ~IpcpLowerUp(s) -> IF s.ipcp.state = "Closed" THEN s ELSE IpcpGoesDown(s)
      [] IpcpLowerUp(s) /\ s.ipcp.state = "Closed" -> IpcpService(pppIpcpLowerUp(s))
      [] IpcpLowerUp(s) /\ s.ipcp.state = "Stopped" -> pppReleaseFrame(s)
      [] OTHER -> IpcpService(s)

-----------------------------------------------------------------------------
\* IPv4

NetworkUp(s) == IpcpLowerUp(s) /\ s.ipcp.state = "Opened"
HoldsDatagram(s) == s.frame # None /\ s.frame.proto = "IP"

pppIcmpCancelPending(s) == [s EXCEPT !.icmpPending = FALSE]

\* pppIcmpRetryPending: the reply is built from whatever the buffer holds.
pppIcmpRetryPending(s) ==
    IF EncoderBusy(s) THEN s
    ELSE pppReleaseFrame([s EXCEPT !.tx = "IP", !.icmpPending = FALSE])

\* An Echo Request to us is answered at once or keeps its frame.
pppIcmpReceive(s) ==
    IF EncoderBusy(s)
    THEN [s EXCEPT !.icmpPending = TRUE]
    ELSE pppReleaseFrame([s EXCEPT !.tx = "IP"])

pppIpv4ReceiveFrame(s) ==
    IF s.frame.kind = "EchoRequest" THEN pppIcmpReceive(s) ELSE pppReleaseFrame(s)

pppIpv4Poll(s) ==
    CASE ~HoldsDatagram(s) -> s
      [] HoldsDatagram(s) /\ ~NetworkUp(s) -> pppReleaseFrame(pppIcmpCancelPending(s))
      [] HoldsDatagram(s) /\ NetworkUp(s) /\ s.icmpPending -> pppIcmpRetryPending(s)
      [] OTHER -> pppIpv4ReceiveFrame(s)

\* pppIcmpRequestPoll, pppNtpPoll and pppDnsPoll: a request that is waiting
\* enters an idle encoder once the network layer is up.
MaySendRequest(s) == NetworkUp(s) /\ ~EncoderBusy(s)
RequesterSends(s) == [s EXCEPT !.tx = "IP"]
=============================================================================
