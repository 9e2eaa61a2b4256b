------------------------------- MODULE SfcLcp -------------------------------
(***************************************************************************)
(* LCP on the SFC: ppp/lcpPoll.asm, ppp/lcpNegotiation.asm and             *)
(* ppp/lcpTimer.asm.                                                       *)
(*                                                                         *)
(* One pending action waits for the shared encoder.  A response is built   *)
(* from the frame it answers, so LCP keeps that frame until the encoder    *)
(* has taken the response; a Configure-Request owed after a response is    *)
(* remembered in the deferred slot.                                        *)
(***************************************************************************)
EXTENDS SfcLink

LcpRequests == {"ConfReq", "TermReq"}
LcpWaiting == Negotiating \cup {"Closing"}

\* A closed negotiation, as lower-down and both ends of a Terminate leave it.
LcpReset(l, state) ==
    [l EXCEPT !.state = state, !.pending = None, !.deferred = FALSE,
              !.timer = "off", !.remaining = 0, !.auth = "None"]

pppLcpLowerDown(s) == [s EXCEPT !.lcp = LcpReset(@, "Closed")]
pppLcpLocalTerminateComplete(s) == [s EXCEPT !.lcp = LcpReset(@, "Closed")]
pppLcpPeerTerminateComplete(s) == [s EXCEPT !.lcp = LcpReset(@, "Stopped")]

\* The layer becomes l with inc pppLcpRequestIdentifier: the peer does not know
\* the new identifier yet, and a request in the encoder carries the old one.
LcpNextIdentifier(s, l) ==
    [s EXCEPT !.lcp = [l EXCEPT !.known = FALSE],
              !.tx = IF @ = "LcpRequest" THEN "LCP" ELSE @]

-----------------------------------------------------------------------------
\* The administrator.

\* The identifier restarts at zero, which an earlier request may have used.
LcpOpen(l) ==
    IF l.state \in {"Opened", "Closing"}
    THEN [l EXCEPT !.admin = TRUE]
    ELSE [l EXCEPT !.admin = TRUE, !.state = "RequestSent",
                   !.remaining = MaxConfigure - 1, !.known = TRUE,
                   !.deferred = FALSE, !.pending = "ConfReq"]
pppLcpOpen(s) == [s EXCEPT !.lcp = LcpOpen(@)]

LcpClosing(l) ==
    [l EXCEPT !.state = "Closing", !.timer = "off", !.remaining = MaxTerminate - 1,
              !.deferred = FALSE, !.pending = "TermReq"]
pppLcpClose(s) ==
    LET l == [s.lcp EXCEPT !.admin = FALSE]
    IN  CASE l.state \in {"Closed", "Stopped"} -> [s EXCEPT !.lcp = LcpReset(l, "Closed")]
          [] l.state = "Closing" -> [s EXCEPT !.lcp = l]
          [] l.state \notin {"Closed", "Stopped", "Closing"} /\ l.pending # None ->
               [s EXCEPT !.lcp = l]
          [] OTHER -> LcpNextIdentifier(s, LcpClosing(l))

-----------------------------------------------------------------------------
\* Packets.

\* @newRequest: a new Configure-Request with a full retry budget.
LcpNewRequest(s, state) ==
    LcpNextIdentifier(s,
        [s.lcp EXCEPT !.state = state, !.remaining = MaxConfigure - 1, !.timer = "off",
                      !.deferred = FALSE, !.pending = "ConfReq"])

AuthOf(kind) == CASE kind = "AcceptPap" -> "PAP" [] kind = "AcceptChap" -> "CHAP" [] OTHER -> "None"

\* pppLcpEvaluatePeerRequest: accepted values are published only when the
\* whole request is acknowledged.
LcpVerdict(kind) ==
    CASE kind = "Counter" -> "ConfNak" [] kind = "Refuse" -> "ConfRej" [] OTHER -> "ConfAck"
LcpAnswered(l, kind) ==
    IF LcpVerdict(kind) = "ConfAck"
    THEN [l EXCEPT !.pending = "ConfAck", !.auth = AuthOf(kind), !.state = "AckSent"]
    ELSE [l EXCEPT !.pending = LcpVerdict(kind), !.state = "RequestSent"]

LcpConfigureRequest(s, kind) ==
    LET l == LcpAnswered(s.lcp, kind)
        ok == LcpVerdict(kind) = "ConfAck"
    IN  CASE s.lcp.state = "Closing" -> s
          [] s.lcp.state = "Opened" ->
               LcpNextIdentifier(s, [l EXCEPT !.remaining = MaxConfigure - 1, !.timer = "off",
                                              !.deferred = TRUE])
          [] s.lcp.state = "AckReceived" /\ ok ->
               [s EXCEPT !.lcp = [l EXCEPT !.state = "Opened", !.remaining = 0, !.timer = "off"]]
          [] s.lcp.state = "AckReceived" /\ ~ok ->
               [s EXCEPT !.lcp = [l EXCEPT !.state = "AckReceived"]]
          [] OTHER -> [s EXCEPT !.lcp = l]

LcpConfigureAck(s) ==
    CASE s.lcp.state = "RequestSent" ->
           [s EXCEPT !.lcp = [@ EXCEPT !.state = "AckReceived", !.remaining = MaxConfigure]]
      [] s.lcp.state = "AckSent" ->
           [s EXCEPT !.lcp = [@ EXCEPT !.state = "Opened", !.remaining = 0, !.timer = "off"]]
      [] s.lcp.state \in {"AckReceived", "Opened"} -> LcpNewRequest(s, "RequestSent")
      [] OTHER -> s

LcpConfigureNegative(s) ==
    IF s.lcp.state = "Closing"
    THEN s
    ELSE LcpNewRequest(s, IF s.lcp.state = "AckSent" THEN "AckSent" ELSE "RequestSent")

LcpTerminateRequest(l) ==
    IF l.state = "Closing"
    THEN [l EXCEPT !.pending = "TermAck"]
    ELSE [l EXCEPT !.pending = "TermAck", !.remaining = 0, !.timer = "off", !.deferred = FALSE]

pppLcpRejectProtocol(s) == [s EXCEPT !.lcp.pending = "ProtRej"]
pppLcpRejectCode(s) == [s EXCEPT !.lcp.pending = "CodeRej"]

pppLcpReceiveFrame(s) ==
    LET kind == s.frame.kind
    IN  CASE kind \in {"AcceptNone", "AcceptPap", "AcceptChap", "Counter", "Refuse"} ->
               LcpConfigureRequest(s, kind)
          [] kind = "Ack" /\ s.lcp.known -> LcpConfigureAck(s)
          [] kind \in {"Nak", "Rej"} /\ s.lcp.known -> LcpConfigureNegative(s)
          [] kind = "TermReq" -> [s EXCEPT !.lcp = LcpTerminateRequest(@)]
          [] kind = "TermAck" /\ s.lcp.known /\ s.lcp.state = "Closing" ->
               pppLcpLocalTerminateComplete(s)
          [] kind = "Echo" /\ s.lcp.state = "Opened" -> [s EXCEPT !.lcp.pending = "EchoRep"]
          [] kind = "UnknownCode" -> pppLcpRejectCode(s)
          [] OTHER -> s

-----------------------------------------------------------------------------
\* The restart timer, polled once it has expired.

\* A timer that never gives up, and one that counts below zero.
LcpTimeoutForever(l) ==
    CASE l.timer # "expired" -> l
      [] l.timer = "expired" /\ l.state \notin LcpWaiting -> [l EXCEPT !.timer = "off"]
      [] OTHER -> [l EXCEPT !.timer = "off",
                            !.pending = IF l.state = "Closing" THEN "TermReq" ELSE "ConfReq"]
LcpTimeoutUnchecked(l) ==
    LET t == LcpTimeoutForever(l)
    IN  IF t = l \/ l.state \notin LcpWaiting THEN t ELSE [t EXCEPT !.remaining = @ - 1]

LcpTimeout(l) ==
    CASE l.timer # "expired" -> l
      [] l.timer = "expired" /\ l.state \notin LcpWaiting ->
           [l EXCEPT !.timer = "off", !.deferred = FALSE]
      [] l.timer = "expired" /\ l.state = "Closing" /\ l.remaining = 0 -> LcpReset(l, "Closed")
      [] l.timer = "expired" /\ l.state = "Closing" /\ l.remaining > 0 ->
           [l EXCEPT !.remaining = @ - 1, !.pending = "TermReq",
                     !.timer = "off", !.deferred = FALSE]
      [] l.timer = "expired" /\ l.state \in Negotiating /\ l.remaining = 0 ->
           [l EXCEPT !.state = "Stopped", !.pending = None, !.timer = "off", !.deferred = FALSE]
      [] OTHER ->
           [l EXCEPT !.remaining = @ - 1, !.pending = "ConfReq",
                     !.state = IF @ = "AckReceived" THEN "RequestSent" ELSE @,
                     !.timer = "off", !.deferred = FALSE]
pppLcpPollTimeout(s) == [s EXCEPT !.lcp = LcpTimeout(@)]

-----------------------------------------------------------------------------
\* The poller.

\* @servicePending would report encoder backpressure.
LcpBlocked(s) == s.lcp.pending # None /\ EncoderBusy(s)

\* pppLcpBuildPending with an idle encoder: requests start their timer.
LcpOwner(action) ==
    CASE action \in LcpRequests -> "LcpRequest" [] action = "TermAck" -> "TermAck" [] OTHER -> "LCP"
LcpSent(l) ==
    [l EXCEPT !.timer = IF l.pending \in LcpRequests THEN "armed" ELSE @, !.pending = None]
pppLcpBuildPending(s) == [s EXCEPT !.tx = LcpOwner(s.lcp.pending), !.lcp = LcpSent(@)]

LcpPromoteDeferredForgets(l) == [l EXCEPT !.deferred = FALSE]
LcpPromoteDeferred(l) ==
    IF l.deferred THEN [l EXCEPT !.deferred = FALSE, !.pending = "ConfReq"] ELSE l

LcpServicePending(s) ==
    LET b == pppLcpBuildPending(s)
    IN  CASE s.lcp.pending = None \/ EncoderBusy(s) -> s
          [] s.lcp.pending \in LcpResponses /\ ~EncoderBusy(s) ->
               pppReleaseFrame([b EXCEPT !.lcp = LcpPromoteDeferred(@)])
          [] s.lcp.pending = "TermAck" /\ ~EncoderBusy(s) ->
               IF s.lcp.state = "Closing"
               THEN pppReleaseFrame(b)
               ELSE pppLcpPeerTerminateComplete(pppReleaseFrame(b))
          [] OTHER -> b

LcpTimer(s) == LcpServicePending(pppLcpPollTimeout(s))

\* A response that the encoder does not take ends the poll with the frame kept.
LcpRespond(s) == IF LcpBlocked(s) THEN s ELSE LcpTimer(LcpServicePending(s))

LcpReceive(s) ==
    LET r == pppLcpReceiveFrame(s)
    IN  IF r.lcp.pending \in LcpResponses \cup {"TermAck"}
        THEN LcpRespond(r)
        ELSE LcpTimer(LcpServicePending(pppReleaseFrame(r)))

LcpDispatch(s) ==
    CASE s.frame = None -> LcpTimer(s)
      [] s.frame # None /\ s.frame.proto = "LCP" -> LcpReceive(s)
      [] s.frame # None /\ s.frame.proto \in UpperProtocols ->
           LcpTimer(IF s.lcp.state = "Opened" THEN s ELSE pppReleaseFrame(s))
      [] OTHER -> IF s.lcp.state = "Opened"
                  THEN LcpRespond(pppLcpRejectProtocol(s))
                  ELSE LcpTimer(pppReleaseFrame(s))

LcpService(s) == IF LcpBlocked(s) THEN s ELSE LcpDispatch(LcpServicePending(s))

LcpLowerUnavailableKeepsTx(s) ==
    LET r == pppReleaseFrame(s)
    IN  IF s.lcp.state = "Closed" THEN r ELSE pppLcpLowerDown(r)
LcpLowerUnavailable(s) ==
    LET r == pppReleaseFrame(s)
    IN  pppTransmitAbort(IF s.lcp.state = "Closed" THEN r ELSE pppLcpLowerDown(r))

LcpClosedReopens(s) == LcpService(pppLcpOpen(s))
LcpClosed(s) == IF s.lcp.admin THEN LcpService(pppLcpOpen(s)) ELSE s

LcpStoppedKeepsFrame(s) == s
LcpStopped(s) == pppReleaseFrame(s)

pppLcpPoll(s) ==
    CASE ~LowerAvailable(s) -> LcpLowerUnavailable(s)
      [] LowerAvailable(s) /\ s.lcp.state = "Closed" -> LcpClosed(s)
      [] LowerAvailable(s) /\ s.lcp.state = "Stopped" -> LcpStopped(s)
      [] OTHER ->
           LcpService(IF ~s.lcp.admin /\ s.lcp.state # "Closing" /\ s.lcp.pending = None
                      THEN pppLcpClose(s) ELSE s)
=============================================================================
