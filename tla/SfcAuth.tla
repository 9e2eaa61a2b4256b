------------------------------- MODULE SfcAuth -------------------------------
(***************************************************************************)
(* Authentication on the SFC: ppp/pap.asm, ppp/papPoll.asm, ppp/chap.asm,  *)
(* ppp/chapPoll.asm and the credentials of ppp/papCredentials.asm.         *)
(*                                                                         *)
(* Both clients run whenever LCP is Opened; the one the peer did not ask   *)
(* for opens at once.  Credentials staged by the host are transient: every *)
(* end of an authentication wipes them, the laboratory fixture stays.      *)
(* pppPapPendingAction is set exactly in the state RequestPending.         *)
(***************************************************************************)
EXTENDS SfcLcp

pppPapCredentialsReady(s) == s.credentials.fields = CredentialFields
pppPapCredentialsClear(s) == [s EXCEPT !.credentials = [transient |-> TRUE, fields |-> {}]]
pppPapCredentialsClearSensitive(s) ==
    IF s.credentials.transient THEN pppPapCredentialsClear(s) ELSE s

\* pppPapCredentialSetPeerId and pppPapCredentialSetPassword, two commands; one
\* that was not preceded by a clear fails and wipes the fixture.
pppPapCredentialSet(s, field) ==
    IF s.credentials.transient
    THEN [s EXCEPT !.credentials.fields = @ \cup {field}]
    ELSE pppPapCredentialsClear(s)

LcpUp(s) == LowerAvailable(s) /\ s.lcp.state = "Opened"

-----------------------------------------------------------------------------
\* PAP

pppPapLowerUp(s) ==
    [s EXCEPT !.pap = [state |-> CASE s.lcp.auth # "PAP" -> "Opened"
                                   [] s.lcp.auth = "PAP" /\ pppPapCredentialsReady(s) -> "RequestPending"
                                   [] OTHER -> "Failed",
                       timer |-> "off", remaining |-> MaxAuthenticate, known |-> FALSE]]

pppPapLowerDown(s) ==
    pppPapCredentialsClearSensitive(
        [s EXCEPT !.pap = [state |-> "Inactive", timer |-> "off", remaining |-> 0,
                           known |-> FALSE]])

PapSent(p) ==
    [p EXCEPT !.state = "WaitingForReply", !.remaining = @ - 1, !.timer = "armed", !.known = FALSE]
pppPapBuildPending(s) ==
    CASE s.pap.state # "RequestPending" -> s
      [] s.pap.state = "RequestPending" /\ ~pppPapCredentialsReady(s) ->
           [s EXCEPT !.pap.state = "Failed"]
      [] s.pap.state = "RequestPending" /\ pppPapCredentialsReady(s) /\ EncoderBusy(s) -> s
      [] OTHER -> [s EXCEPT !.tx = "PAP", !.pap = PapSent(@)]

pppPapReceiveFrame(s) ==
    IF s.pap.state # "WaitingForReply" \/ ~s.pap.known \/ s.frame.kind = "Ignored"
    THEN s
    ELSE pppPapCredentialsClearSensitive(
            [s EXCEPT !.pap = [@ EXCEPT !.timer = "off",
                                        !.state = IF s.frame.kind = "Ack" THEN "Opened" ELSE "Failed"]])

pppPapPollTimeout(s) ==
    LET t == [s EXCEPT !.pap.timer = "off"]
    IN  CASE s.pap.timer # "expired" -> s
          [] s.pap.timer = "expired" /\ s.pap.state # "WaitingForReply" -> t
          [] s.pap.timer = "expired" /\ s.pap.state = "WaitingForReply" /\ s.pap.remaining > 0 ->
               [t EXCEPT !.pap.state = "RequestPending"]
          [] OTHER -> pppPapCredentialsClearSensitive([t EXCEPT !.pap.state = "Failed"])

\* A frame that is not PAP's is dropped until PAP has opened.
PapTakesFrame(s) ==
    CASE s.frame = None -> s
      [] s.frame # None /\ s.frame.proto = "PAP" -> pppReleaseFrame(pppPapReceiveFrame(s))
      [] OTHER -> IF s.pap.state = "Opened" THEN s ELSE pppReleaseFrame(s)

pppPapPoll(s) ==
    IF ~LcpUp(s)
    THEN IF s.pap.state = "Inactive" THEN s ELSE pppPapLowerDown(s)
    ELSE LET up == IF s.pap.state = "Inactive" THEN pppPapLowerUp(s) ELSE s
         IN  pppPapBuildPending(pppPapPollTimeout(PapTakesFrame(pppPapBuildPending(up))))

-----------------------------------------------------------------------------
\* CHAP: no timer, the peer repeats a Challenge that was not answered.

pppChapLowerUp(s) ==
    [s EXCEPT !.chap.state =
        CASE s.lcp.auth # "CHAP" -> "Opened"
          [] s.lcp.auth = "CHAP" /\ pppPapCredentialsReady(s) -> "WaitingChallenge"
          [] OTHER -> "Failed"]

pppChapLowerDown(s) == pppPapCredentialsClearSensitive([s EXCEPT !.chap.state = "Inactive"])

\* Every frame overwrites pppChapLastIdentifier, which the Response is going to
\* carry: chap.matches says whether it still is that of the stored Challenge.
pppChapReceiveFrame(s) ==
    CASE s.frame.kind \in {"Challenge", "Repeat"}
           /\ s.chap.state \in {"WaitingChallenge", "WaitingResult", "Opened"} ->
           [s EXCEPT !.chap = [state |-> "ResponsePending", matches |-> TRUE]]
      [] s.frame.kind \in {"Success", "Failure"} /\ s.chap.state = "WaitingResult" ->
           pppPapCredentialsClearSensitive(
               [s EXCEPT !.chap.state = IF s.frame.kind = "Success" THEN "Opened" ELSE "Failed"])
      [] OTHER ->
           [s EXCEPT !.chap.matches = @ /\ (s.chap.state = "ResponsePending" => s.frame.kind = "Repeat")]

pppChapBuildPending(s) ==
    CASE s.chap.state # "ResponsePending" \/ EncoderBusy(s) -> s
      [] s.chap.state = "ResponsePending" /\ ~EncoderBusy(s) /\ ~pppPapCredentialsReady(s) ->
           [s EXCEPT !.chap.state = "Failed"]
      [] OTHER -> [s EXCEPT !.tx = "CHAP", !.chap.state = "WaitingResult"]

\* A frame that is not CHAP's is dropped until CHAP has opened.
ChapTakesFrame(s) ==
    CASE s.frame = None -> s
      [] s.frame # None /\ s.frame.proto = "CHAP" ->
           pppChapBuildPending(pppReleaseFrame(pppChapReceiveFrame(s)))
      [] OTHER -> IF s.chap.state = "Opened" THEN s ELSE pppReleaseFrame(s)

pppChapPoll(s) ==
    IF ~LcpUp(s)
    THEN IF s.chap.state = "Inactive" THEN s ELSE pppChapLowerDown(s)
    ELSE ChapTakesFrame(pppChapBuildPending(IF s.chap.state = "Inactive" THEN pppChapLowerUp(s) ELSE s))

-----------------------------------------------------------------------------
\* The client the peer selected has opened.
pppAuthenticationReadyPapOnly(s) == s.pap.state = "Opened"
pppAuthenticationReady(s) ==
    IF s.lcp.auth = "CHAP" THEN s.chap.state = "Opened" ELSE s.pap.state = "Opened"
=============================================================================
