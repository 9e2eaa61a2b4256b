------------------------------- MODULE SfcPpp -------------------------------
(***************************************************************************)
(* The SFC's main loop (reset.asm) around the PPP pollers, with the host   *)
(* that issues mailbox commands, the modem and any peer at all.            *)
(*                                                                         *)
(* pc is the poller whose turn it is.  The peer may complete any frame of  *)
(* PeerFrames whenever the receive poll drains the ring, and hang up:      *)
(* `hangup` says that NO CARRIER is the next thing in the ring.            *)
(* `Tick` is the NMI's frame counter reaching a restart deadline; it is    *)
(* offered at the top of the loop because each deadline is read by one     *)
(* poller, once per iteration.                                             *)
(***************************************************************************)
EXTENDS SfcIpcp

CONSTANTS PeerFrames,     \* the frames the peer may send
          HostCommands    \* the mailbox commands the host may issue

ASSUME PeerAssumption == PeerFrames \subseteq Frames
ASSUME HostAssumption ==
    HostCommands \subseteq {"ppp-open", "ppp-close", "receive-start", "receive-stop",
                            "credentials-clear", "peer-id-set", "password-set",
                            "initialize", "dial", "disconnect"}

VARIABLES s, pc, hangup

vars == <<s, pc, hangup>>

Turns == {"mailbox", "modem", "receive", "lcp", "pap", "chap", "ipcp", "ipv4",
          "requesters", "transmit"}

Init == s = ColdStart /\ pc = "mailbox" /\ hangup = FALSE

Turn(from, to) == pc = from /\ pc' = to

-----------------------------------------------------------------------------
\* modemMailboxPoll: one command at a time.  Dialling and hanging up are AT
\* transactions (modemAtBegin); the host's next command displaces a running one
\* from the mailbox, and the modem's answer still comes.
AfterModemCommand(c) ==
    [s EXCEPT !.modem = CASE c = "initialize" -> "Resetting"
                          [] c = "dial" /\ s.modem = "Ready" -> "Dialing"
                          [] c = "disconnect" /\ s.modem = "Connected" -> "Disconnecting"
                          [] OTHER -> @]

AfterCommand(c) ==
    CASE c = "ppp-open" -> pppLcpOpen(s)
      [] c = "ppp-close" -> pppLcpClose(s)
      [] c = "receive-start" -> pppReceiveStart(s)
      [] c = "receive-stop" -> pppReceiveStop(s)
      [] c = "credentials-clear" -> pppPapCredentialsClear(s)
      [] c = "peer-id-set" -> pppPapCredentialSet(s, "PeerId")
      [] c = "password-set" -> pppPapCredentialSet(s, "Password")
      [] OTHER -> AfterModemCommand(c)

MailboxCommand(c) ==
    /\ Turn("mailbox", "modem")
    /\ s' = AfterCommand(c)
    /\ UNCHANGED hangup
MailboxIdle == Turn("mailbox", "modem") /\ UNCHANGED <<s, hangup>>

\* modemSessionPoll: the modem has answered as expected, with something else or
\* not in time, or not yet.
ModemAnswers ==
    /\ Turn("modem", "receive")
    /\ s.modem \in {"Resetting", "Dialing", "Disconnecting"}
    /\ s' = [s EXCEPT !.modem = IF @ = "Dialing" THEN "Connected" ELSE "Ready"]
    /\ hangup' = FALSE
ModemFails ==
    /\ Turn("modem", "receive")
    /\ s.modem \in {"Resetting", "Dialing", "Disconnecting"}
    /\ s' = [s EXCEPT !.modem = "Off"]
    /\ hangup' = FALSE
ModemIdle == Turn("modem", "receive") /\ UNCHANGED <<s, hangup>>

\* pppReceivePoll
ReceiveNothing ==
    /\ Turn("receive", "lcp")
    /\ ~(hangup /\ DrainsRing(ReceiveOwnership(s)))
    /\ s' = ReceiveOwnership(s)
    /\ UNCHANGED hangup
ReceiveFrame(f) ==
    /\ Turn("receive", "lcp")
    /\ ~hangup
    /\ DrainsRing(ReceiveOwnership(s))
    /\ s' = [ReceiveOwnership(s) EXCEPT !.frame = f]
    /\ UNCHANGED hangup
ReceiveNoCarrier ==
    /\ Turn("receive", "lcp")
    /\ hangup
    /\ DrainsRing(ReceiveOwnership(s))
    /\ s' = CarrierLost(s)
    /\ hangup' = FALSE

LcpPoll == Turn("lcp", "pap") /\ s' = pppLcpPoll(s) /\ UNCHANGED hangup
PapPoll == Turn("pap", "chap") /\ s' = pppPapPoll(s) /\ UNCHANGED hangup
ChapPoll == Turn("chap", "ipcp") /\ s' = pppChapPoll(s) /\ UNCHANGED hangup
IpcpPoll == Turn("ipcp", "ipv4") /\ s' = pppIpcpPoll(s) /\ UNCHANGED hangup
Ipv4Poll == Turn("ipv4", "requesters") /\ s' = pppIpv4Poll(s) /\ UNCHANGED hangup

RequestersIdle == Turn("requesters", "transmit") /\ UNCHANGED <<s, hangup>>
RequesterPoll ==
    /\ Turn("requesters", "transmit")
    /\ MaySendRequest(s)
    /\ s' = RequesterSends(s)
    /\ UNCHANGED hangup

TransmitPoll ==
    /\ Turn("transmit", "mailbox")
    /\ s' \in TransmitOutcomes(s)
    /\ UNCHANGED hangup

\* The NMI's frame counter passes a deadline.
TickLcp ==
    /\ pc = "mailbox" /\ s.lcp.timer = "armed"
    /\ s' = [s EXCEPT !.lcp.timer = "expired"] /\ UNCHANGED <<pc, hangup>>
TickPap ==
    /\ pc = "mailbox" /\ s.pap.timer = "armed"
    /\ s' = [s EXCEPT !.pap.timer = "expired"] /\ UNCHANGED <<pc, hangup>>
TickIpcp ==
    /\ pc = "mailbox" /\ s.ipcp.timer = "armed"
    /\ s' = [s EXCEPT !.ipcp.timer = "expired"] /\ UNCHANGED <<pc, hangup>>

PeerHangsUp ==
    /\ pc = "mailbox" /\ s.modem = "Connected" /\ ~hangup
    /\ hangup' = TRUE /\ UNCHANGED <<s, pc>>

Loop ==
    \/ MailboxIdle \/ \E c \in HostCommands : MailboxCommand(c)
    \/ ModemAnswers \/ ModemFails \/ ModemIdle
    \/ ReceiveNothing \/ (\E f \in PeerFrames : ReceiveFrame(f)) \/ ReceiveNoCarrier
    \/ LcpPoll \/ PapPoll \/ ChapPoll \/ IpcpPoll \/ Ipv4Poll
    \/ RequestersIdle \/ RequesterPoll \/ TransmitPoll

Next == Loop \/ TickLcp \/ TickPap \/ TickIpcp \/ PeerHangsUp

Spec == Init /\ [][Next]_vars

\* Fairness: the loop never stops and the NMI keeps counting.  The modem keeps
\* taking octets, so a frame that keeps being offered to the ring leaves it.
TransmitFinishes == pc = "transmit" /\ s.tx # None /\ TransmitPoll /\ s'.tx = None
Fairness ==
    /\ WF_vars(Loop) /\ SF_vars(TransmitFinishes)
    /\ SF_vars(TickLcp) /\ SF_vars(TickPap) /\ SF_vars(TickIpcp)
FairSpec == Spec /\ Fairness

-----------------------------------------------------------------------------
\* The shared state and the turn keep their types.
TypeOK == s \in SharedStates /\ pc \in Turns /\ hangup \in BOOLEAN

\* No layer ever waits for the peer with nothing left to wake it: a layer that
\* negotiates, authenticates with PAP or closes has a running timer, a request
\* on its way to the encoder, or an answer after which one of them follows.
\* The pending and the deferred slot are each overwritten in many places.
NoLayerWaitsSilently ==
    /\ s.lcp.state \in LcpWaiting =>
          \/ s.lcp.timer # "off"
          \/ s.lcp.pending \in {"ConfReq", "TermReq", "TermAck"}
          \/ s.lcp.deferred /\ s.lcp.pending \in LcpResponses
    /\ s.pap.state = "WaitingForReply" => s.pap.timer # "off"
    /\ s.ipcp.state \in Negotiating =>
          \/ s.ipcp.timer # "off"
          \/ s.ipcp.pending = "ConfReq"
          \/ s.ipcp.deferred /\ s.ipcp.pending \in IpcpResponses

\* A frame of the network layer is only put on the wire while that layer is up:
\* what IPCP, ICMP, NTP or DNS had given to the encoder is aborted in the same
\* iteration in which LCP, authentication or the carrier goes away.
NetworkFramesNeedNetwork ==
    pc = "transmit" /\ s.tx \in NetworkOwners =>
        s.ipcp.state # "Closed" /\ IpcpLowerUp(s)

\* One iteration after PPP lost the line every layer is down and neither buffer
\* holds anything of the old connection.
LineLossCleansUp ==
    pc = "transmit" /\ ~LowerAvailable(s) =>
        /\ s.lcp.state = "Closed" /\ s.pap.state = "Inactive"
        /\ s.chap.state = "Inactive" /\ s.ipcp.state = "Closed"
        /\ s.frame = None /\ s.tx = None

\* A Terminate-Ack that the encoder has taken reaches the line although the
\* layers above LCP go down while it is being sent (docs/ppp.md:417): only the
\* loss of the line discards it.
TerminateAckSurvives ==
    [][s.tx = "TermAck" /\ s'.tx # "TermAck" => pc = "transmit" \/ ~LowerAvailable(s)]_vars

\* After an administrative close has completed nothing but an open command
\* brings LCP back, whatever the live carrier delivers (docs/ppp.md:384).
CloseIsFinal ==
    [][~s.lcp.admin /\ s.lcp.state \in {"Closed", "Stopped"}
          /\ s'.lcp.state \notin {"Closed", "Stopped"} => pc = "mailbox"]_vars

\* An administrative close completes whatever the peer sends: the Terminate
\* exchange is answered or its retries run out, unless the administrator opens
\* LCP again first.
CloseCompletes ==
    ~s.lcp.admin ~> (s.lcp.admin \/ s.lcp.state \in {"Closed", "Stopped"})

\* A peer that stays silent cannot hold a layer in negotiation for ever.
SilenceEndsWaiting ==
    []<>(s.frame # None \/ ~(s.lcp.state \in LcpWaiting \/ s.pap.state = "WaitingForReply"
                                \/ s.ipcp.state \in Negotiating))

\* The carrier's loss is noticed (docs/ppp.md:425): PPP reads NO CARRIER behind
\* whatever frames the peer sent before it hung up.
HangupNoticed == hangup ~> ~LowerAvailable(s)

-----------------------------------------------------------------------------
\* What the documentation claims and the code does not keep.

\* An LCP answer that waits for the encoder still has the frame whose bytes it
\* is going to copy (docs/ppp.md:386 and :388: pppFrameReady is kept until the
\* shared encoder has accepted the answer, and the buffer is not overwritten).
LcpResponseOwnsFrame ==
    pc = "transmit" /\ s.lcp.pending \in LcpResponses => s.frame # None

\* IPCP's lower-down on a live line aborts a frame of the network layer, not
\* one that LCP or an authentication client has given to the encoder
\* (docs/ppp.md:417: IPCP aborts its own frame; ipcpPoll.asm:123-125).
LowerDownAbortsItsOwn ==
    [][pc = "ipcp" /\ LowerAvailable(s) /\ s.tx # None /\ s'.tx = None
          => s.tx \in NetworkOwners]_vars

\* Nothing that was waiting to be sent, and no timer, outlives the connection
\* (docs/ppp.md:433-434).
NothingCarriedOver ==
    pc = "transmit" /\ s.modem # "Connected" =>
        /\ s.lcp.pending = None /\ s.lcp.timer = "off"
        /\ s.ipcp.pending = None /\ s.ipcp.timer = "off"
        /\ s.pap.timer = "off" /\ ~s.icmpPending

\* A CHAP Response carries the identifier of the Challenge whose value it
\* hashes (chap.asm:344, docs/ppp.md:480-481 and :491-492).
ChapAnswersItsChallenge ==
    [][s.tx # "CHAP" /\ s'.tx = "CHAP" => s'.chap.matches]_vars
=============================================================================
