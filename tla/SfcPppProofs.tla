---------------------------- MODULE SfcPppProofs ----------------------------
(***************************************************************************)
(* The safety properties of the SFC's main loop, for every peer, host and  *)
(* retry limit.  SfcLayerProofs says what one poller does; the inductive   *)
(* invariant says what each turn of the loop may rely on:                  *)
(*                                                                         *)
(*   - once LCP has been polled without a line, LCP is Closed and both     *)
(*     buffers stay empty until the modem connects again;                  *)
(*   - an authentication client that is not Inactive was polled over an    *)
(*     Opened LCP, which since then can only have started to close;        *)
(*   - a Closed IPCP owns nothing in the encoder, and is Closed after its  *)
(*     poll whenever the layers below it are not up.                       *)
(***************************************************************************)
EXTENDS SfcApproval, SfcLayerProofs

AfterLcp == {"pap", "chap", "ipcp", "ipv4", "requesters", "transmit"}
AfterPap == {"chap", "ipcp", "ipv4", "requesters", "transmit", "mailbox"}
AfterChap == {"ipcp", "ipv4", "requesters", "transmit", "mailbox"}
AfterIpcp == {"ipv4", "requesters", "transmit"}
BeforeLcp == {"modem", "receive", "lcp"}

LineLost ==
    /\ pc \in AfterLcp /\ ~LowerAvailable(s) =>
          s.lcp.state = "Closed" /\ s.frame = None /\ s.tx = None
    /\ pc = "mailbox" /\ ~LowerAvailable(s) => s.lcp.state = "Closed"
    /\ pc = "modem" /\ s.modem = "Dialing" => s.lcp.state # "Opened"
PapFollowsLcp ==
    /\ pc \in AfterPap /\ s.pap.state # "Inactive" => LcpUp(s)
    /\ pc \in BeforeLcp /\ s.pap.state # "Inactive" => s.lcp.state \in {"Opened", "Closing"}
ChapFollowsLcp ==
    /\ pc \in AfterChap /\ s.chap.state # "Inactive" => LcpUp(s)
    /\ pc \in BeforeLcp /\ s.chap.state # "Inactive" => s.lcp.state \in {"Opened", "Closing"}
NetworkDown ==
    /\ s.ipcp.state = "Closed" => s.tx \notin NetworkOwners
    /\ pc \in AfterIpcp /\ ~IpcpLowerUp(s) => s.ipcp.state = "Closed"
LayersFollow == LineLost /\ PapFollowsLcp /\ ChapFollowsLcp /\ NetworkDown
IInv == Sound(s) /\ pc \in Turns /\ hangup \in BOOLEAN /\ LayersFollow

-----------------------------------------------------------------------------
\* What a mailbox command does to the shared state.
HostMoves(t, u) ==
    /\ Sound(u)
    /\ u.pap = t.pap /\ u.chap = t.chap /\ u.ipcp = t.ipcp
    /\ u.tx = t.tx \/ (t.tx # "TermAck" /\ u.tx \in LcpOwners)
    /\ LcpUnraised(t.lcp, u.lcp)
    /\ t.lcp.state = "Opened" => u.lcp.state \in {"Opened", "Closing"}
    /\ u.modem = "Dialing" => t.modem # "Connected"

LEMMA CommandMoves ==
    ASSUME IInv, NEW c \in HostCommands
    PROVE  HostMoves(s, AfterCommand(c))
<1>1. Sound(s) /\ s \in SharedStates
  BY DEF IInv, Sound
<1>2. CASE c = "ppp-open"
  <2>1. AfterCommand(c) = pppLcpOpen(s)
    BY <1>2 DEF AfterCommand
  <2>2. LcpMoves(s, pppLcpOpen(s)) /\ LcpUnraised(s.lcp, pppLcpOpen(s).lcp)
        /\ (s.lcp.state \in {"Opened", "Closing"} => pppLcpOpen(s).lcp.state = s.lcp.state)
    BY <1>1, LcpOpenMoves
  <2>3. QED
    BY <2>1, <2>2 DEF HostMoves, LcpMoves
<1>3. CASE c = "ppp-close"
  <2>1. AfterCommand(c) = pppLcpClose(s)
    BY <1>3 DEF AfterCommand
  <2>2. LcpSettles(s, pppLcpClose(s))
        /\ (s.lcp.state \notin {"Closed", "Stopped"} =>
               pppLcpClose(s).lcp.state \in {s.lcp.state, "Closing"})
    BY <1>1, LcpCloseSettles
  <2>3. QED
    BY <2>1, <2>2 DEF HostMoves, LcpSettles, LcpMoves, LcpQuiet
<1>4. CASE c = "receive-start"
  <2>1. AfterCommand(c) = [s EXCEPT !.enabled = TRUE, !.active = FALSE, !.frame = None]
    BY <1>4 DEF AfterCommand, pppReceiveStart
  <2>2. QED
    BY <1>1, <2>1 DEF HostMoves, LcpUnraised, Sound, SharedStates
<1>5. CASE c = "receive-stop"
  <2>1. AfterCommand(c) = [s EXCEPT !.enabled = FALSE, !.active = FALSE, !.frame = None]
    BY <1>5 DEF AfterCommand, pppReceiveStop
  <2>2. QED
    BY <1>1, <2>1 DEF HostMoves, LcpUnraised, Sound, SharedStates
<1>6. CASE c \in {"credentials-clear", "peer-id-set", "password-set"}
  <2>1. PICK d \in CredentialStores : AfterCommand(c) = [s EXCEPT !.credentials = d]
    <3>1. PICK e \in CredentialStores : e = s.credentials
      BY <1>1 DEF SharedStates
    <3>2. PICK d \in CredentialStores : d = [transient |-> TRUE, fields |-> {}]
      BY DEF CredentialStores
    <3>3. CASE c = "credentials-clear"
      BY <3>2, <3>3 DEF AfterCommand, pppPapCredentialsClear
    <3>4. ASSUME NEW field \in CredentialFields
          PROVE  \E x \in CredentialStores :
                    pppPapCredentialSet(s, field) = [s EXCEPT !.credentials = x]
      <4>1. CASE e.transient
        <5>1. PICK x : x = [e EXCEPT !.fields = @ \cup {field}]
          OBVIOUS
        <5>2. x \in CredentialStores
          BY <5>1 DEF CredentialStores
        <5>3. pppPapCredentialSet(s, field) = [s EXCEPT !.credentials = x]
          BY <3>1, <4>1, <5>1 DEF pppPapCredentialSet
        <5>4. QED
          BY <5>2, <5>3
      <4>2. CASE ~e.transient
        BY <3>1, <3>2, <4>2 DEF pppPapCredentialSet, pppPapCredentialsClear
      <4>3. QED
        BY <4>1, <4>2
    <3>5. CASE c = "peer-id-set"
      <4>1. AfterCommand(c) = pppPapCredentialSet(s, "PeerId")
        BY <3>5 DEF AfterCommand
      <4>2. QED
        BY <3>4, <4>1 DEF CredentialFields
    <3>6. CASE c = "password-set"
      <4>1. AfterCommand(c) = pppPapCredentialSet(s, "Password")
        BY <3>6 DEF AfterCommand
      <4>2. QED
        BY <3>4, <4>1 DEF CredentialFields
    <3>7. QED
      BY <1>6, <3>3, <3>5, <3>6
  <2>2. QED
    BY <1>1, <2>1 DEF HostMoves, LcpUnraised, Sound, SharedStates
<1>7. CASE c \in {"initialize", "dial", "disconnect"}
  <2>1. PICK m : /\ m = CASE c = "initialize" -> "Resetting"
                          [] c = "dial" /\ s.modem = "Ready" -> "Dialing"
                          [] c = "disconnect" /\ s.modem = "Connected" -> "Disconnecting"
                          [] OTHER -> s.modem
    OBVIOUS
  <2>2. m \in ModemStates /\ (m = "Dialing" => s.modem # "Connected")
    BY <1>1, <2>1 DEF SharedStates, ModemStates
  <2>3. AfterCommand(c) = [s EXCEPT !.modem = m]
    BY <1>7, <2>1 DEF AfterCommand, AfterModemCommand
  <2>4. QED
    BY <1>1, <2>2, <2>3 DEF HostMoves, LcpUnraised, Sound, SharedStates
<1>8. QED
  BY <1>2, <1>3, <1>4, <1>5, <1>6, <1>7, HostAssumption

-----------------------------------------------------------------------------
\* What every step but the LCP poll's negotiation keeps: LCP does not come up,
\* the encoder keeps a Terminate-Ack, a closed LCP stays closed.
LcpStays == LcpUp(s') => LcpUp(s) /\ s'.lcp.auth = s.lcp.auth
AckStays == s.tx = "TermAck" /\ s'.tx # "TermAck" => pc = "transmit" \/ ~LowerAvailable(s)
ClosedStays ==
    ~s.lcp.admin /\ s.lcp.state \in {"Closed", "Stopped"}
      /\ s'.lcp.state \notin {"Closed", "Stopped"} => pc = "mailbox"
ClientsStay ==
    /\ PapPoll \/ s'.pap.state = s.pap.state
    /\ ChapPoll \/ s'.chap.state = s.chap.state
StepKeeps == AckStays /\ ClosedStays /\ ClientsStay

\* The mailbox: a command or none.
LEMMA MailboxStep ==
    ASSUME IInv, pc = "mailbox", pc' = "modem", hangup' = hangup, HostMoves(s, s')
    PROVE  IInv' /\ LcpStays /\ StepKeeps
<1> USE DEF HostMoves, LcpUnraised
<1>1. Sound(s') /\ pc' \in Turns /\ hangup' \in BOOLEAN
  BY DEF IInv, Turns
<1>2. s.modem # "Connected" => s.lcp.state = "Closed"
  BY DEF IInv, LayersFollow, LineLost, LowerAvailable
<1>3. LineLost'
  BY <1>2 DEF LineLost, AfterLcp
<1>4. PapFollowsLcp' /\ ChapFollowsLcp'
  BY DEF IInv, LayersFollow, PapFollowsLcp, ChapFollowsLcp, AfterPap, AfterChap, BeforeLcp, LcpUp
<1>5. NetworkDown'
  BY DEF IInv, LayersFollow, NetworkDown, AfterIpcp, NetworkOwners, LcpOwners
<1>6. LcpStays
  BY DEF LcpStays, LcpUp, LowerAvailable, IInv, LayersFollow, LineLost
<1>7. StepKeeps
  BY DEF StepKeeps, AckStays, ClosedStays, ClientsStay
<1>8. QED
  BY <1>1, <1>3, <1>4, <1>5, <1>6, <1>7 DEF IInv, LayersFollow

LEMMA IdleHost ==
    ASSUME IInv
    PROVE  HostMoves(s, s)
BY DEF HostMoves, LcpUnraised, IInv

\* The modem poll: the driver's state only, Connected only out of Dialing.
LEMMA ModemStep ==
    ASSUME IInv, pc = "modem", pc' = "receive", hangup' \in BOOLEAN,
           NEW m \in ModemStates, s' = [s EXCEPT !.modem = m],
           m = "Connected" => s.modem \in {"Connected", "Dialing"}
    PROVE  IInv' /\ LcpStays /\ StepKeeps
<1>1. /\ Sound(s') /\ s'.modem = m /\ s'.enabled = s.enabled
      /\ s'.lcp = s.lcp /\ s'.pap = s.pap /\ s'.chap = s.chap /\ s'.ipcp = s.ipcp
      /\ s'.tx = s.tx
  BY DEF IInv, Sound, SharedStates
<1>2. LineLost'
  BY DEF LineLost, AfterLcp
<1>3. PapFollowsLcp' /\ ChapFollowsLcp'
  BY <1>1 DEF IInv, LayersFollow, PapFollowsLcp, ChapFollowsLcp, AfterPap, AfterChap, BeforeLcp
<1>4. NetworkDown'
  BY <1>1 DEF IInv, LayersFollow, NetworkDown, AfterIpcp
<1>5. LcpStays
  BY <1>1 DEF LcpStays, LcpUp, LowerAvailable, IInv, LayersFollow, LineLost
<1>6. StepKeeps
  BY <1>1 DEF StepKeeps, AckStays, ClosedStays, ClientsStay
<1>7. QED
  BY <1>1, <1>2, <1>3, <1>4, <1>5, <1>6 DEF IInv, LayersFollow, Turns

\* The receive poll: the frame and the ownership of the line, which it only gives up.
LEMMA ReceiveStep ==
    ASSUME IInv, pc = "receive", pc' = "lcp", hangup' \in BOOLEAN, Sound(s'),
           s'.lcp = s.lcp, s'.pap = s.pap, s'.chap = s.chap, s'.ipcp = s.ipcp, s'.tx = s.tx,
           LowerAvailable(s') => LowerAvailable(s)
    PROVE  IInv' /\ LcpStays /\ StepKeeps
<1>1. LineLost'
  BY DEF LineLost, AfterLcp
<1>2. PapFollowsLcp' /\ ChapFollowsLcp'
  BY DEF IInv, LayersFollow, PapFollowsLcp, ChapFollowsLcp, AfterPap, AfterChap, BeforeLcp
<1>3. NetworkDown'
  BY DEF IInv, LayersFollow, NetworkDown, AfterIpcp
<1>4. LcpStays /\ StepKeeps
  BY DEF LcpStays, LcpUp, StepKeeps, AckStays, ClosedStays, ClientsStay
<1>5. QED
  BY <1>1, <1>2, <1>3, <1>4 DEF IInv, LayersFollow, Turns

LEMMA OwnershipKeeps ==
    ASSUME NEW t, Sound(t)
    PROVE  LET u == ReceiveOwnership(t)
           IN  /\ Sound(u) /\ u.modem = t.modem /\ u.enabled = t.enabled
               /\ u.lcp = t.lcp /\ u.pap = t.pap /\ u.chap = t.chap /\ u.ipcp = t.ipcp
               /\ u.tx = t.tx
<1>1. PICK u : u = ReceiveOwnership(t)
  OBVIOUS
<1> HIDE <1>1
<1>2. \/ u = [t EXCEPT !.active = FALSE]
      \/ u = [t EXCEPT !.active = TRUE, !.frame = None]
      \/ u = t
  BY <1>1 DEF ReceiveOwnership
<1>3. /\ Sound(u) /\ u.modem = t.modem /\ u.enabled = t.enabled
      /\ u.lcp = t.lcp /\ u.pap = t.pap /\ u.chap = t.chap /\ u.ipcp = t.ipcp
      /\ u.tx = t.tx
  <2>1. CASE u = [t EXCEPT !.active = FALSE]
    BY <2>1 DEF Sound, SharedStates
  <2>2. CASE u = [t EXCEPT !.active = TRUE, !.frame = None]
    BY <2>2 DEF Sound, SharedStates
  <2>3. CASE u = t
    BY <2>3
  <2>4. QED
    BY <1>2, <2>1, <2>2, <2>3
<1>4. QED
  BY <1>1, <1>3

LEMMA ReceivePollSteps ==
    ASSUME IInv, ReceiveNothing \/ (\E f \in PeerFrames : ReceiveFrame(f)) \/ ReceiveNoCarrier
    PROVE  IInv' /\ LcpStays /\ StepKeeps
<1>1. Sound(s) /\ s \in SharedStates /\ hangup \in BOOLEAN
  BY DEF IInv, Sound
<1>2. PICK u : u = ReceiveOwnership(s)
  OBVIOUS
<1>3. /\ Sound(u) /\ u.modem = s.modem /\ u.enabled = s.enabled
      /\ u.lcp = s.lcp /\ u.pap = s.pap /\ u.chap = s.chap /\ u.ipcp = s.ipcp
      /\ u.tx = s.tx
  BY <1>1, <1>2, OwnershipKeeps
<1>4. CASE ReceiveNothing
  <2>1. pc = "receive" /\ pc' = "lcp" /\ s' = u /\ hangup' = hangup
    BY <1>2, <1>4 DEF ReceiveNothing, Turn
  <2>2. QED
    BY <1>1, <1>3, <2>1, ReceiveStep DEF LowerAvailable
<1>5. CASE \E f \in PeerFrames : ReceiveFrame(f)
  <2>1. PICK f \in Frames : ReceiveFrame(f)
    BY <1>5, PeerAssumption
  <2>2. pc = "receive" /\ pc' = "lcp" /\ s' = [u EXCEPT !.frame = f] /\ hangup' = hangup
    BY <1>2, <2>1 DEF ReceiveFrame, Turn
  <2>3. /\ Sound(s') /\ s'.modem = u.modem /\ s'.enabled = u.enabled
        /\ s'.lcp = u.lcp /\ s'.pap = u.pap /\ s'.chap = u.chap /\ s'.ipcp = u.ipcp
        /\ s'.tx = u.tx
    BY <1>3, <2>2 DEF Sound, SharedStates
  <2>4. QED
    BY <1>1, <1>3, <2>2, <2>3, ReceiveStep DEF LowerAvailable
<1>6. CASE ReceiveNoCarrier
  <2>1. /\ pc = "receive" /\ pc' = "lcp" /\ hangup' = FALSE
        /\ s' = [s EXCEPT !.modem = "Ready", !.enabled = FALSE, !.active = FALSE, !.frame = None]
    BY <1>6 DEF ReceiveNoCarrier, Turn, CarrierLost
  <2>2. /\ Sound(s') /\ s'.enabled = FALSE
        /\ s'.lcp = s.lcp /\ s'.pap = s.pap /\ s'.chap = s.chap /\ s'.ipcp = s.ipcp
        /\ s'.tx = s.tx
    BY <1>1, <2>1 DEF Sound, SharedStates, ModemStates
  <2>3. QED
    BY <2>1, <2>2, ReceiveStep DEF LowerAvailable
<1>7. QED
  BY <1>4, <1>5, <1>6

\* The LCP poll.  LCP comes up only while both authentication clients are
\* Inactive, so that none of their results outlives a negotiation.
LcpRises ==
    LcpUp(s') => \/ LcpUp(s) /\ s'.lcp.auth = s.lcp.auth
                 \/ s.pap.state = "Inactive" /\ s.chap.state = "Inactive"

LEMMA LcpPollStep ==
    ASSUME IInv, LcpPoll
    PROVE  /\ IInv' /\ LcpRises /\ StepKeeps
           /\ s'.pap = s.pap /\ s'.chap = s.chap
<1>1. Sound(s) /\ s' = pppLcpPoll(s) /\ pc = "lcp" /\ pc' = "pap" /\ hangup' = hangup
  BY DEF IInv, LcpPoll, Turn
<1>2. PapFollowsLcp' /\ ChapFollowsLcp' /\ pc' \in Turns /\ hangup' \in BOOLEAN
  BY <1>1 DEF IInv, PapFollowsLcp, ChapFollowsLcp, AfterPap, AfterChap, BeforeLcp, Turns
<1>3. /\ s.pap.state # "Inactive" => s.lcp.state \in {"Opened", "Closing"}
      /\ s.chap.state # "Inactive" => s.lcp.state \in {"Opened", "Closing"}
      /\ s.ipcp.state = "Closed" => s.tx \notin NetworkOwners
  BY <1>1 DEF IInv, LayersFollow, PapFollowsLcp, ChapFollowsLcp, NetworkDown, BeforeLcp
<1>4. CASE LowerAvailable(s)
  <2>1. /\ LcpMoves(s, s')
        /\ s.lcp.state \in {"Opened", "Closing"} => LcpUnraised(s.lcp, s'.lcp)
        /\ ~s.lcp.admin /\ s.lcp.state \in {"Closed", "Stopped"} =>
              s'.lcp.state \in {"Closed", "Stopped"}
    BY <1>1, <1>4, LcpPollLive
  <2>2. Sound(s') /\ LowerAvailable(s') /\ s'.pap = s.pap /\ s'.chap = s.chap
    BY <1>4, <2>1 DEF LcpMoves, LowerAvailable
  <2>3. LineLost'
    BY <1>1, <2>2 DEF LineLost
  <2>4. NetworkDown'
    BY <1>1, <1>3, <2>1 DEF NetworkDown, LcpMoves, AfterIpcp, NetworkOwners, LcpOwners
  <2>5. LcpRises
    BY <1>3, <1>4, <2>1 DEF LcpRises, LcpUp, LcpUnraised
  <2>6. StepKeeps
    BY <2>1 DEF StepKeeps, AckStays, ClosedStays, ClientsStay, LcpMoves
  <2>7. QED
    BY <1>2, <2>2, <2>3, <2>4, <2>5, <2>6 DEF IInv, LayersFollow
<1>5. CASE ~LowerAvailable(s)
  <2>1. /\ Sound(s') /\ s'.lcp.state = "Closed" /\ s'.frame = None /\ s'.tx = None
        /\ s'.pap = s.pap /\ s'.chap = s.chap /\ s'.ipcp = s.ipcp
    BY <1>1, <1>5, LcpPollDead
  <2>2. LineLost'
    BY <1>1, <2>1 DEF LineLost
  <2>3. NetworkDown'
    BY <1>1, <2>1, NoneIsNothing DEF NetworkDown, AfterIpcp, TxOwners
  <2>4. LcpRises /\ StepKeeps
    BY <1>5, <2>1 DEF LcpRises, StepKeeps, AckStays, ClosedStays, ClientsStay, LcpUp
  <2>5. QED
    BY <1>2, <2>1, <2>2, <2>3, <2>4 DEF IInv, LayersFollow
<1>6. QED
  BY <1>4, <1>5

LEMMA PapPollStep ==
    ASSUME IInv, PapPoll
    PROVE  IInv' /\ LcpStays /\ StepKeeps
<1>1. Sound(s) /\ s' = pppPapPoll(s) /\ pc = "pap" /\ pc' = "chap" /\ hangup' = hangup
  BY DEF IInv, PapPoll, Turn
<1>2. /\ PapMoves(s, s')
      /\ ~LcpUp(s) => s'.pap.state = "Inactive" /\ s'.frame = s.frame /\ s'.tx = s.tx
  BY <1>1, PapPollMoves
<1>3. /\ Sound(s') /\ s'.lcp = s.lcp /\ s'.chap = s.chap /\ s'.ipcp = s.ipcp
      /\ LowerAvailable(s') = LowerAvailable(s) /\ LcpUp(s') = LcpUp(s)
      /\ s'.tx = s.tx \/ (s.tx = None /\ s'.tx = "PAP")
  BY <1>2 DEF PapMoves, LowerAvailable, LcpUp
<1>4. LineLost'
  BY <1>1, <1>2, <1>3 DEF IInv, LayersFollow, LineLost, AfterLcp, LcpUp
<1>5. PapFollowsLcp' /\ ChapFollowsLcp'
  BY <1>1, <1>2, <1>3 DEF PapFollowsLcp, ChapFollowsLcp, AfterPap, AfterChap, BeforeLcp
<1>6. NetworkDown'
  BY <1>1, <1>3 DEF IInv, LayersFollow, NetworkDown, AfterIpcp, NetworkOwners
<1>7. LcpStays /\ StepKeeps
  BY <1>3, NoneIsNothing DEF LcpStays, StepKeeps, AckStays, ClosedStays, ClientsStay
<1>8. QED
  BY <1>1, <1>3, <1>4, <1>5, <1>6, <1>7 DEF IInv, LayersFollow, Turns

LEMMA ChapPollStep ==
    ASSUME IInv, ChapPoll
    PROVE  IInv' /\ LcpStays /\ StepKeeps
<1>1. Sound(s) /\ s' = pppChapPoll(s) /\ pc = "chap" /\ pc' = "ipcp" /\ hangup' = hangup
  BY DEF IInv, ChapPoll, Turn
<1>2. /\ ChapMoves(s, s')
      /\ ~LcpUp(s) => s'.chap.state = "Inactive" /\ s'.frame = s.frame /\ s'.tx = s.tx
  BY <1>1, ChapPollMoves
<1>3. /\ Sound(s') /\ s'.lcp = s.lcp /\ s'.pap = s.pap /\ s'.ipcp = s.ipcp
      /\ LowerAvailable(s') = LowerAvailable(s) /\ LcpUp(s') = LcpUp(s)
      /\ s'.tx = s.tx \/ (s.tx = None /\ s'.tx = "CHAP")
  BY <1>2 DEF ChapMoves, LowerAvailable, LcpUp
<1>4. LineLost'
  BY <1>1, <1>2, <1>3 DEF IInv, LayersFollow, LineLost, AfterLcp, LcpUp
<1>5. PapFollowsLcp' /\ ChapFollowsLcp'
  BY <1>1, <1>2, <1>3
     DEF IInv, LayersFollow, PapFollowsLcp, ChapFollowsLcp, AfterPap, AfterChap, BeforeLcp
<1>6. NetworkDown'
  BY <1>1, <1>3 DEF IInv, LayersFollow, NetworkDown, AfterIpcp, NetworkOwners
<1>7. LcpStays /\ StepKeeps
  BY <1>3, NoneIsNothing DEF LcpStays, StepKeeps, AckStays, ClosedStays, ClientsStay
<1>8. QED
  BY <1>1, <1>3, <1>4, <1>5, <1>6, <1>7 DEF IInv, LayersFollow, Turns

LEMMA IpcpPollStep ==
    ASSUME IInv, IpcpPoll
    PROVE  IInv' /\ LcpStays /\ StepKeeps
<1>1. Sound(s) /\ s' = pppIpcpPoll(s) /\ pc = "ipcp" /\ pc' = "ipv4" /\ hangup' = hangup
  BY DEF IInv, IpcpPoll, Turn
<1>2. s.ipcp.state = "Closed" => s.tx \notin NetworkOwners
  BY DEF IInv, LayersFollow, NetworkDown
<1>3. /\ Sound(s') /\ s'.lcp = s.lcp /\ s'.pap = s.pap /\ s'.chap = s.chap
      /\ s'.modem = s.modem /\ s'.enabled = s.enabled
      /\ s'.frame = s.frame \/ s'.frame = None
      /\ ~IpcpLowerUp(s) => /\ s'.ipcp.state = "Closed" /\ s'.tx \notin NetworkOwners
                            /\ s'.tx = s.tx \/ s'.tx = None
      /\ IpcpLowerUp(s) => s'.ipcp.state # "Closed"
      /\ s.tx = "TermAck" /\ LowerAvailable(s) => s'.tx = "TermAck"
  <2>1. CASE IpcpLowerUp(s)
    BY <1>1, <2>1, IpcpPollUp DEF IpcpMoves
  <2>2. CASE ~IpcpLowerUp(s)
    BY <1>1, <1>2, <2>2, IpcpPollDown
  <2>3. QED
    BY <2>1, <2>2
<1>4. /\ LowerAvailable(s') = LowerAvailable(s) /\ LcpUp(s') = LcpUp(s)
      /\ IpcpLowerUp(s') = IpcpLowerUp(s)
  BY <1>3 DEF LowerAvailable, LcpUp, IpcpLowerUp, pppAuthenticationReady
<1>5. LineLost'
  BY <1>1, <1>3, <1>4 DEF IInv, LayersFollow, LineLost, AfterLcp, LcpUp, IpcpLowerUp
<1>6. PapFollowsLcp' /\ ChapFollowsLcp'
  BY <1>1, <1>3, <1>4
     DEF IInv, LayersFollow, PapFollowsLcp, ChapFollowsLcp, AfterPap, AfterChap, BeforeLcp
<1>7. NetworkDown'
  BY <1>1, <1>3, <1>4 DEF NetworkDown
<1>8. LcpStays /\ StepKeeps
  BY <1>3, <1>4 DEF LcpStays, StepKeeps, AckStays, ClosedStays, ClientsStay
<1>9. QED
  BY <1>1, <1>3, <1>5, <1>6, <1>7, <1>8 DEF IInv, LayersFollow, Turns

\* The IPv4 poll and the requesters: a datagram enters an idle encoder while the
\* network layer is up.
LEMMA NetworkStep ==
    ASSUME IInv, <<pc, pc'>> \in {<<"ipv4", "requesters">>, <<"requesters", "transmit">>},
           hangup' = hangup, Sound(s'),
           s'.modem = s.modem, s'.enabled = s.enabled,
           s'.lcp = s.lcp, s'.pap = s.pap, s'.chap = s.chap, s'.ipcp = s.ipcp,
           s'.frame = s.frame \/ s'.frame = None,
           s'.tx = s.tx \/ (s.tx = None /\ s'.tx = "IP" /\ NetworkUp(s))
    PROVE  IInv' /\ LcpStays /\ StepKeeps
<1>1. pc \in {"ipv4", "requesters"} /\ pc' \in {"requesters", "transmit"}
  OBVIOUS
<1>2. /\ LowerAvailable(s') = LowerAvailable(s) /\ LcpUp(s') = LcpUp(s)
      /\ IpcpLowerUp(s') = IpcpLowerUp(s)
  BY DEF LowerAvailable, LcpUp, IpcpLowerUp, pppAuthenticationReady
<1>3. s'.tx # s.tx => s'.tx = "IP" /\ LowerAvailable(s) /\ s.ipcp.state = "Opened" /\ s.tx = None
  BY DEF NetworkUp, IpcpLowerUp, LcpUp
<1>4. LineLost'
  BY <1>1, <1>2, <1>3 DEF IInv, LayersFollow, LineLost, AfterLcp
<1>5. PapFollowsLcp' /\ ChapFollowsLcp'
  BY <1>1, <1>2
     DEF IInv, LayersFollow, PapFollowsLcp, ChapFollowsLcp, AfterPap, AfterChap, BeforeLcp
<1>6. NetworkDown'
  BY <1>1, <1>2, <1>3 DEF IInv, LayersFollow, NetworkDown, AfterIpcp
<1>7. LcpStays /\ StepKeeps
  BY <1>2, <1>3, NoneIsNothing DEF LcpStays, StepKeeps, AckStays, ClosedStays, ClientsStay
<1>8. QED
  BY <1>1, <1>4, <1>5, <1>6, <1>7 DEF IInv, LayersFollow, Turns

LEMMA NetworkPollSteps ==
    ASSUME IInv, Ipv4Poll \/ RequestersIdle \/ RequesterPoll
    PROVE  IInv' /\ LcpStays /\ StepKeeps
<1>1. Sound(s)
  BY DEF IInv
<1>2. CASE Ipv4Poll
  <2>1. s' = pppIpv4Poll(s) /\ pc = "ipv4" /\ pc' = "requesters" /\ hangup' = hangup
    BY <1>2 DEF Ipv4Poll, Turn
  <2>2. QED
    BY <1>1, <2>1, Ipv4PollMoves, NetworkStep
<1>3. CASE RequestersIdle
  <2>1. s' = s /\ pc = "requesters" /\ pc' = "transmit" /\ hangup' = hangup
    BY <1>3 DEF RequestersIdle, Turn
  <2>2. QED
    BY <1>1, <2>1, NetworkStep
<1>4. CASE RequesterPoll
  <2>1. /\ s' = [s EXCEPT !.tx = "IP"] /\ NetworkUp(s) /\ s.tx = None
        /\ pc = "requesters" /\ pc' = "transmit" /\ hangup' = hangup
    BY <1>4 DEF RequesterPoll, Turn, MaySendRequest, RequesterSends, EncoderBusy
  <2>2. /\ Sound(s') /\ s'.modem = s.modem /\ s'.enabled = s.enabled
        /\ s'.lcp = s.lcp /\ s'.pap = s.pap /\ s'.chap = s.chap /\ s'.ipcp = s.ipcp
        /\ s'.frame = s.frame /\ s'.tx = "IP"
    BY <1>1, <2>1 DEF Sound, SharedStates, TxOwners, NetworkOwners
  <2>3. QED
    BY <2>1, <2>2, NetworkStep
<1>5. QED
  BY <1>2, <1>3, <1>4

\* The transmit poll and the NMI: flags and timers inside the layers, and an
\* encoder that the transmit poll may empty.
LEMMA BackgroundStep ==
    ASSUME IInv, pc' = "mailbox", hangup' \in BOOLEAN, Sound(s'),
           pc \in {"transmit", "mailbox"},
           s'.modem = s.modem, s'.enabled = s.enabled, s'.chap = s.chap,
           s'.lcp.state = s.lcp.state, s'.lcp.auth = s.lcp.auth,
           s'.pap.state = s.pap.state, s'.ipcp.state = s.ipcp.state,
           s'.tx = s.tx \/ (s'.tx = None /\ pc = "transmit")
    PROVE  IInv' /\ LcpStays /\ StepKeeps
<1>1. LowerAvailable(s') = LowerAvailable(s) /\ LcpUp(s') = LcpUp(s)
  BY DEF LowerAvailable, LcpUp
<1>2. LineLost'
  BY <1>1 DEF IInv, LayersFollow, LineLost, AfterLcp
<1>3. PapFollowsLcp' /\ ChapFollowsLcp'
  BY <1>1 DEF IInv, LayersFollow, PapFollowsLcp, ChapFollowsLcp, AfterPap, AfterChap, BeforeLcp
<1>4. NetworkDown'
  BY NoneIsNothing DEF IInv, LayersFollow, NetworkDown, AfterIpcp, TxOwners
<1>5. LcpStays /\ StepKeeps
  BY <1>1 DEF LcpStays, StepKeeps, AckStays, ClosedStays, ClientsStay
<1>6. QED
  BY <1>2, <1>3, <1>4, <1>5 DEF IInv, LayersFollow, Turns

LEMMA TransmittedKeeps ==
    ASSUME NEW t, Sound(t)
    PROVE  LET u == Transmitted(t)
           IN  /\ Sound(u) /\ u.modem = t.modem /\ u.enabled = t.enabled /\ u.chap = t.chap
               /\ u.lcp.state = t.lcp.state /\ u.lcp.auth = t.lcp.auth
               /\ u.pap.state = t.pap.state /\ u.ipcp.state = t.ipcp.state
               /\ u.tx = None
<1>1. PICK l : l = [t.lcp EXCEPT !.known = @ \/ t.tx = "LcpRequest"]
  OBVIOUS
<1>2. PICK p : p = [t.pap EXCEPT !.known = @ \/ t.tx = "PAP"]
  OBVIOUS
<1>3. PICK i : i = [t.ipcp EXCEPT !.known = @ \/ t.tx = "IpcpRequest"]
  OBVIOUS
<1>4. t.lcp \in LcpLayers /\ t.pap \in PapLayers /\ t.ipcp \in IpcpLayers /\ t \in SharedStates
      /\ LcpAwake(t.lcp) /\ PapAwake(t.pap) /\ IpcpAwake(t.ipcp)
  BY DEF Sound, SharedStates
<1>5. SoundLcp(l) /\ l.state = t.lcp.state /\ l.auth = t.lcp.auth
  BY <1>1, <1>4 DEF SoundLcp, LcpAwake, LcpLayers
<1>6. SoundPap(p) /\ p.state = t.pap.state
  BY <1>2, <1>4 DEF SoundPap, PapAwake, PapLayers
<1>7. SoundIpcp(i) /\ i.state = t.ipcp.state
  BY <1>3, <1>4 DEF SoundIpcp, IpcpAwake, IpcpLayers
<1>8. PICK u : u = Transmitted(t)
  OBVIOUS
<1>9. u = [t EXCEPT !.tx = None, !.lcp = l, !.pap = p, !.ipcp = i]
  BY <1>1, <1>2, <1>3, <1>4, <1>8 DEF Transmitted
<1> HIDE <1>1, <1>2, <1>3, <1>8
<1>10. /\ u \in SharedStates /\ u.lcp = l /\ u.pap = p /\ u.ipcp = i /\ u.chap = t.chap
       /\ u.modem = t.modem /\ u.enabled = t.enabled /\ u.tx = None
  BY <1>4, <1>5, <1>6, <1>7, <1>9 DEF SharedStates, SoundLcp, SoundPap, SoundIpcp
<1>11. Sound(u)
  BY <1>5, <1>6, <1>7, <1>10 DEF Sound, SoundLcp, SoundPap, SoundIpcp
<1>12. QED
  BY <1>5, <1>6, <1>7, <1>8, <1>10, <1>11

LEMMA TransmitPollStep ==
    ASSUME IInv, TransmitPoll
    PROVE  IInv' /\ LcpStays /\ StepKeeps
<1>1. Sound(s) /\ pc = "transmit" /\ pc' = "mailbox" /\ hangup' \in BOOLEAN
  BY DEF IInv, TransmitPoll, Turn
<1>2. s' = s \/ s' = Transmitted(s) \/ s' = pppTransmitAbort(s)
  BY DEF TransmitPoll, TransmitOutcomes
<1>3. CASE s' = s
  BY <1>1, <1>3, BackgroundStep
<1>4. CASE s' = Transmitted(s)
  BY <1>1, <1>4, TransmittedKeeps, BackgroundStep
<1>5. CASE s' = pppTransmitAbort(s)
  <2>1. s' = [s EXCEPT !.tx = None]
    BY <1>5 DEF pppTransmitAbort
  <2>2. /\ Sound(s') /\ s'.modem = s.modem /\ s'.enabled = s.enabled /\ s'.chap = s.chap
        /\ s'.lcp = s.lcp /\ s'.pap = s.pap /\ s'.ipcp = s.ipcp /\ s'.tx = None
    BY <1>1, <2>1 DEF Sound, SharedStates
  <2>3. QED
    BY <1>1, <2>2, BackgroundStep
<1>6. QED
  BY <1>2, <1>3, <1>4, <1>5

LEMMA TickSteps ==
    ASSUME IInv, TickLcp \/ TickPap \/ TickIpcp \/ PeerHangsUp
    PROVE  IInv' /\ LcpStays /\ StepKeeps
<1>1. Sound(s) /\ pc = "mailbox" /\ pc' = "mailbox" /\ hangup' \in BOOLEAN
  BY DEF IInv, TickLcp, TickPap, TickIpcp, PeerHangsUp
<1>2. s.lcp \in LcpLayers /\ s.pap \in PapLayers /\ s.ipcp \in IpcpLayers /\ s \in SharedStates
      /\ LcpAwake(s.lcp) /\ PapAwake(s.pap) /\ IpcpAwake(s.ipcp)
  BY <1>1 DEF Sound, SharedStates
<1>3. CASE TickLcp
  <2>1. PICK l : l = [s.lcp EXCEPT !.timer = "expired"]
    OBVIOUS
  <2>2. SoundLcp(l) /\ l.state = s.lcp.state /\ l.auth = s.lcp.auth
    BY <1>2, <2>1 DEF SoundLcp, LcpAwake, LcpLayers, Timers
  <2>3. s' = [s EXCEPT !.lcp = l]
    BY <1>2, <1>3, <2>1 DEF TickLcp
  <2> HIDE <2>1
  <2>4. /\ Sound(s') /\ s'.modem = s.modem /\ s'.enabled = s.enabled /\ s'.chap = s.chap
        /\ s'.lcp = l /\ s'.pap = s.pap /\ s'.ipcp = s.ipcp /\ s'.tx = s.tx
    BY <1>2, <2>2, <2>3 DEF Sound, SoundLcp, SharedStates
  <2>5. QED
    BY <1>1, <2>2, <2>4, BackgroundStep
<1>4. CASE TickPap
  <2>1. PICK p : p = [s.pap EXCEPT !.timer = "expired"]
    OBVIOUS
  <2>2. SoundPap(p) /\ p.state = s.pap.state
    BY <1>2, <2>1 DEF SoundPap, PapAwake, PapLayers, Timers
  <2>3. s' = [s EXCEPT !.pap = p]
    BY <1>2, <1>4, <2>1 DEF TickPap
  <2> HIDE <2>1
  <2>4. /\ Sound(s') /\ s'.modem = s.modem /\ s'.enabled = s.enabled /\ s'.chap = s.chap
        /\ s'.lcp = s.lcp /\ s'.pap = p /\ s'.ipcp = s.ipcp /\ s'.tx = s.tx
    BY <1>2, <2>2, <2>3 DEF Sound, SoundPap, SharedStates
  <2>5. QED
    BY <1>1, <2>2, <2>4, BackgroundStep
<1>5. CASE TickIpcp
  <2>1. PICK i : i = [s.ipcp EXCEPT !.timer = "expired"]
    OBVIOUS
  <2>2. SoundIpcp(i) /\ i.state = s.ipcp.state
    BY <1>2, <2>1 DEF SoundIpcp, IpcpAwake, IpcpLayers, Timers
  <2>3. s' = [s EXCEPT !.ipcp = i]
    BY <1>2, <1>5, <2>1 DEF TickIpcp
  <2> HIDE <2>1
  <2>4. /\ Sound(s') /\ s'.modem = s.modem /\ s'.enabled = s.enabled /\ s'.chap = s.chap
        /\ s'.lcp = s.lcp /\ s'.pap = s.pap /\ s'.ipcp = i /\ s'.tx = s.tx
    BY <1>2, <2>2, <2>3 DEF Sound, SoundIpcp, SharedStates
  <2>5. QED
    BY <1>1, <2>2, <2>4, BackgroundStep
<1>6. CASE PeerHangsUp
  <2>1. s' = s
    BY <1>6 DEF PeerHangsUp
  <2>2. QED
    BY <1>1, <2>1, BackgroundStep
<1>7. QED
  BY <1>3, <1>4, <1>5, <1>6

-----------------------------------------------------------------------------
\* The whole system.

LEMMA InitIInv ==
    ASSUME Init
    PROVE  IInv
<1>1. s \in SharedStates
  BY DEF Init, ColdStart, SharedStates, LcpLayers, PapLayers, ChapLayers, IpcpLayers, CredentialStores,
         ModemStates, Timers, LcpActions, IpcpActions
<1>2. /\ s.lcp.state = "Closed" /\ s.pap.state = "Inactive" /\ s.chap.state = "Inactive"
      /\ s.ipcp.state = "Closed" /\ s.tx = None /\ pc = "mailbox" /\ hangup = FALSE
  BY DEF Init, ColdStart
<1>3. Sound(s)
  BY <1>1, <1>2 DEF Sound, LcpAwake, PapAwake, IpcpAwake, LcpWaiting, Negotiating
<1>4. LayersFollow
  BY <1>2, NoneIsNothing
     DEF LayersFollow, LineLost, PapFollowsLcp, ChapFollowsLcp, NetworkDown, BeforeLcp, AfterIpcp,
         AfterLcp, TxOwners
<1>5. QED
  BY <1>2, <1>3, <1>4 DEF IInv, Turns

LEMMA MailboxSteps ==
    ASSUME IInv, MailboxIdle \/ \E c \in HostCommands : MailboxCommand(c)
    PROVE  IInv' /\ LcpStays /\ StepKeeps
<1>1. CASE MailboxIdle
  <2>1. HostMoves(s, s') /\ pc = "mailbox" /\ pc' = "modem" /\ hangup' = hangup
    BY <1>1, IdleHost DEF MailboxIdle, Turn
  <2>2. QED
    BY <2>1, MailboxStep
<1>2. ASSUME NEW c \in HostCommands, MailboxCommand(c)
      PROVE  IInv' /\ LcpStays /\ StepKeeps
  <2>1. HostMoves(s, s') /\ pc = "mailbox" /\ pc' = "modem" /\ hangup' = hangup
    BY <1>2, CommandMoves DEF MailboxCommand, Turn
  <2>2. QED
    BY <2>1, MailboxStep
<1>3. QED
  BY <1>1, <1>2

LEMMA ModemSteps ==
    ASSUME IInv, ModemAnswers \/ ModemFails \/ ModemIdle
    PROVE  IInv' /\ LcpStays /\ StepKeeps
<1>1. s \in SharedStates /\ hangup \in BOOLEAN
  BY DEF IInv, Sound
<1>2. PICK m \in ModemStates :
         /\ s' = [s EXCEPT !.modem = m]
         /\ m = "Connected" => s.modem \in {"Connected", "Dialing"}
  <2>1. CASE ModemAnswers
    <3>1. CASE s.modem = "Dialing"
      BY <1>1, <2>1, <3>1 DEF ModemAnswers, ModemStates
    <3>2. CASE s.modem # "Dialing"
      BY <1>1, <2>1, <3>2 DEF ModemAnswers, ModemStates
    <3>3. QED
      BY <3>1, <3>2
  <2>2. CASE ModemFails
    BY <2>2 DEF ModemFails, ModemStates
  <2>3. CASE ModemIdle
    BY <1>1, <2>3 DEF ModemIdle, SharedStates
  <2>4. QED
    BY <2>1, <2>2, <2>3
<1>3. pc = "modem" /\ pc' = "receive" /\ hangup' \in BOOLEAN
  BY <1>1 DEF ModemAnswers, ModemFails, ModemIdle, Turn
<1>4. QED
  BY <1>2, <1>3, ModemStep

\* A step that leaves all variables alone.
LEMMA StutterStep ==
    ASSUME IInv, UNCHANGED vars
    PROVE  IInv' /\ LcpStays /\ StepKeeps
<1>1. s' = s /\ pc' = pc /\ hangup' = hangup
  BY DEF vars
<1>2. IInv'
  BY <1>1 DEF IInv, LayersFollow, LineLost, PapFollowsLcp, ChapFollowsLcp, NetworkDown
<1>3. LcpStays /\ StepKeeps
  BY <1>1 DEF LcpStays, StepKeeps, AckStays, ClosedStays, ClientsStay
<1>4. QED
  BY <1>2, <1>3

\* Every step but the LCP poll.
OtherSteps ==
    \/ MailboxIdle \/ (\E c \in HostCommands : MailboxCommand(c))
    \/ ModemAnswers \/ ModemFails \/ ModemIdle
    \/ ReceiveNothing \/ (\E f \in PeerFrames : ReceiveFrame(f)) \/ ReceiveNoCarrier
    \/ PapPoll \/ ChapPoll \/ IpcpPoll \/ Ipv4Poll
    \/ RequestersIdle \/ RequesterPoll \/ TransmitPoll
    \/ TickLcp \/ TickPap \/ TickIpcp \/ PeerHangsUp \/ UNCHANGED vars

LEMMA OtherStepsKeep ==
    ASSUME IInv, OtherSteps
    PROVE  IInv' /\ LcpStays /\ StepKeeps
BY MailboxSteps, ModemSteps, ReceivePollSteps, PapPollStep, ChapPollStep, IpcpPollStep,
   NetworkPollSteps, TransmitPollStep, TickSteps, StutterStep DEF OtherSteps

LEMMA NextStep ==
    ASSUME IInv, [Next]_vars
    PROVE  IInv' /\ StepKeeps
<1>1. LcpPoll \/ OtherSteps
  BY DEF Next, Loop, OtherSteps
<1>2. QED
  BY <1>1, LcpPollStep, OtherStepsKeep

LEMMA Invariance == Spec => []IInv
<1>1. Init => IInv
  BY InitIInv
<1>2. IInv /\ [Next]_vars => IInv'
  BY NextStep
<1>3. QED
  BY <1>1, <1>2, PTL DEF Spec

\* The shared state of the pollers keeps its types: no retry counter of LCP, PAP
\* or IPCP runs below zero and no slot holds what its consumer does not know,
\* whatever the retry limits and whatever frames and commands arrive.
THEOREM TypesKept == Spec => []TypeOK
<1>1. IInv => TypeOK
  BY DEF IInv, Sound, TypeOK
<1>2. QED
  BY <1>1, Invariance, PTL

\* No layer waits for the peer with nothing left to wake it, although the pending
\* and the deferred slot of lcp.asm and ipcp.asm are overwritten in many places.
THEOREM NobodyWaitsSilently == Spec => []NoLayerWaitsSilently
<1>1. IInv => NoLayerWaitsSilently
  BY DEF IInv, Sound, LcpAwake, PapAwake, IpcpAwake, NoLayerWaitsSilently
<1>2. QED
  BY <1>1, Invariance, PTL

\* What IPCP, ICMP, NTP or DNS gave to the encoder is aborted in the iteration in
\* which LCP, authentication or the carrier goes away (ipcpPoll.asm).
THEOREM NetworkFramesAborted == Spec => []NetworkFramesNeedNetwork
<1>1. IInv => NetworkFramesNeedNetwork
  BY DEF IInv, LayersFollow, NetworkDown, AfterIpcp, NetworkFramesNeedNetwork
<1>2. QED
  BY <1>1, Invariance, PTL

\* One iteration after PPP lost the line every layer is down and both buffers are
\* empty, at whatever turn of the loop the line was lost.
THEOREM LineLossCleaned == Spec => []LineLossCleansUp
<1>1. IInv => LineLossCleansUp
  <2>1. SUFFICES ASSUME IInv, pc = "transmit", ~LowerAvailable(s)
                 PROVE  /\ s.lcp.state = "Closed" /\ s.pap.state = "Inactive"
                        /\ s.chap.state = "Inactive" /\ s.ipcp.state = "Closed"
                        /\ s.frame = None /\ s.tx = None
    BY DEF LineLossCleansUp
  <2>2. s.lcp.state = "Closed" /\ s.frame = None /\ s.tx = None
    BY <2>1 DEF IInv, LayersFollow, LineLost, AfterLcp
  <2>3. s.pap.state = "Inactive" /\ s.chap.state = "Inactive"
    BY <2>1 DEF IInv, LayersFollow, PapFollowsLcp, ChapFollowsLcp, AfterPap, AfterChap, LcpUp
  <2>4. s.ipcp.state = "Closed"
    BY <2>1 DEF IInv, LayersFollow, NetworkDown, AfterIpcp, IpcpLowerUp, LcpUp
  <2>5. QED
    BY <2>2, <2>3, <2>4
<1>2. QED
  BY <1>1, Invariance, PTL

\* A Terminate-Ack that the encoder has taken is given up by nobody but the
\* transmit poll, unless the line is lost (the test of ipcpPoll.asm).
THEOREM AckSurvives == Spec => TerminateAckSurvives
<1>1. IInv /\ [Next]_vars =>
        [s.tx = "TermAck" /\ s'.tx # "TermAck" => pc = "transmit" \/ ~LowerAvailable(s)]_vars
  BY NextStep DEF AckStays, StepKeeps
<1>2. QED
  BY <1>1, Invariance, PTL DEF Spec, TerminateAckSurvives

\* Once an administrative close has completed only a mailbox command brings LCP
\* back: no frame, timer or change of the carrier does.
THEOREM ClosedForGood == Spec => CloseIsFinal
<1>1. IInv /\ [Next]_vars =>
        [~s.lcp.admin /\ s.lcp.state \in {"Closed", "Stopped"}
           /\ s'.lcp.state \notin {"Closed", "Stopped"} => pc = "mailbox"]_vars
  BY NextStep DEF ClosedStays, StepKeeps
<1>2. QED
  BY <1>1, Invariance, PTL DEF Spec, CloseIsFinal

-----------------------------------------------------------------------------
\* Authentication.  While LCP is up, a client that has succeeded under the
\* negotiated protocol was accepted by the peer since LCP opened.
Approved ==
    LcpUp(s) => /\ s.lcp.auth = "PAP" /\ s.pap.state = "Opened" => "PAP" \in approvals
                /\ s.lcp.auth = "CHAP" /\ s.chap.state = "Opened" => "CHAP" \in approvals

LEMMA AuthenticationPolls ==
    ASSUME IInv, LcpUp(s')
    PROVE  /\ PapPoll /\ s.lcp.auth = "PAP" /\ s'.pap.state = "Opened" =>
                 s.pap.state = "Opened" \/ PapApproves
           /\ ChapPoll /\ s.lcp.auth = "CHAP" /\ s'.chap.state = "Opened" =>
                 (s.chap.state = "Opened" /\ ~ChapChallenges) \/ ChapApproves
<1>1. Sound(s)
  BY DEF IInv
<1>2. ASSUME PapPoll, s.lcp.auth = "PAP", s'.pap.state = "Opened"
      PROVE  s.pap.state = "Opened" \/ PapApproves
  <2>1. s' = pppPapPoll(s) /\ pc = "pap"
    BY <1>2 DEF PapPoll, Turn
  <2>2. LcpUp(s)
    BY <1>1, <2>1, PapPollMoves DEF PapMoves, LcpUp, LowerAvailable
  <2>3. s.pap.state = "Opened" \/ PapAccepted(s)
    BY <1>1, <1>2, <2>1, <2>2, PapPollMoves
  <2>4. QED
    BY <2>1, <2>2, <2>3 DEF PapAccepted, PapApproves, Takes
<1>3. ASSUME ChapPoll, s.lcp.auth = "CHAP", s'.chap.state = "Opened"
      PROVE  (s.chap.state = "Opened" /\ ~ChapChallenges) \/ ChapApproves
  <2>1. s' = pppChapPoll(s) /\ pc = "chap"
    BY <1>3 DEF ChapPoll, Turn
  <2>2. LcpUp(s)
    BY <1>1, <2>1, ChapPollMoves DEF ChapMoves, LcpUp, LowerAvailable
  <2>3. \/ s.chap.state = "Opened" /\ ~ChapTakes(s, {"Challenge", "Repeat"})
        \/ pppChapBuildPending(s).chap.state = "WaitingResult" /\ ChapTakes(s, {"Success"})
    BY <1>1, <1>3, <2>1, <2>2, ChapPollMoves
  <2>4. QED
    BY <2>1, <2>2, <2>3 DEF ChapTakes, ChapApproves, ChapChallenges, Takes
<1>4. QED
  BY <1>2, <1>3


LEMMA ApprovalStep ==
    ASSUME IInv, Approved, ApprovalNext
    PROVE  Approved'
<1>1. SUFFICES ASSUME LcpUp(s')
               PROVE  /\ s'.lcp.auth = "PAP" /\ s'.pap.state = "Opened" => "PAP" \in approvals'
                      /\ s'.lcp.auth = "CHAP" /\ s'.chap.state = "Opened" => "CHAP" \in approvals'
  BY DEF Approved
<1>2. /\ "PAP" \in approvals \/ PapApproves => "PAP" \in approvals'
      /\ ("CHAP" \in approvals /\ ~ChapChallenges) \/ ChapApproves => "CHAP" \in approvals'
  <2>1. /\ PapApproves => ~ChapApproves /\ ~ChapChallenges
        /\ ChapApproves => ~ChapChallenges
    BY DEF PapApproves, ChapApproves, ChapChallenges, Takes
  <2>2. approvals' = Approvals
    BY DEF ApprovalNext
  <2>3. CASE PapApproves
    BY <1>1, <2>1, <2>2, <2>3 DEF Approvals
  <2>4. CASE ChapApproves
    BY <1>1, <2>1, <2>2, <2>4 DEF Approvals
  <2>5. CASE ChapChallenges
    BY <1>1, <2>1, <2>2, <2>5 DEF Approvals
  <2>6. CASE ~PapApproves /\ ~ChapApproves /\ ~ChapChallenges
    BY <1>1, <2>2, <2>6 DEF Approvals
  <2>7. QED
    BY <2>3, <2>4, <2>5, <2>6
<1>3. StepKeeps /\ Next
  BY NextStep DEF ApprovalNext
<1>4. CASE LcpPoll
  <2>1. LcpRises /\ s'.pap = s.pap /\ s'.chap = s.chap /\ ~ChapChallenges
    BY <1>4, LcpPollStep DEF ChapChallenges, Takes, LcpPoll, Turn
  <2>2. QED
    BY <1>1, <1>2, <2>1 DEF LcpRises, Approved
<1>5. CASE ~LcpPoll
  <2>1. OtherSteps
    BY <1>3, <1>5 DEF Next, Loop, OtherSteps
  <2>2. LcpUp(s) /\ s'.lcp.auth = s.lcp.auth
    BY <1>1, <2>1, OtherStepsKeep DEF LcpStays
  <2>3. ASSUME s'.lcp.auth = "PAP", s'.pap.state = "Opened"
        PROVE  "PAP" \in approvals'
    BY <1>1, <1>2, <1>3, <2>2, <2>3, AuthenticationPolls DEF StepKeeps, ClientsStay, Approved
  <2>4. ASSUME s'.lcp.auth = "CHAP", s'.chap.state = "Opened"
        PROVE  "CHAP" \in approvals'
    <3>1. ChapChallenges => ChapPoll
      BY <1>3 DEF ChapChallenges, Takes, Next, Loop, Turn, MailboxIdle, MailboxCommand, ModemAnswers,
                  ModemFails, ModemIdle, ReceiveNothing, ReceiveFrame, ReceiveNoCarrier, LcpPoll,
                  PapPoll, IpcpPoll, Ipv4Poll, RequestersIdle, RequesterPoll, TransmitPoll,
                  TickLcp, TickPap, TickIpcp, PeerHangsUp
    <3>2. QED
      BY <1>1, <1>2, <1>3, <2>2, <2>4, <3>1, AuthenticationPolls DEF StepKeeps, ClientsStay, Approved
  <2>5. QED
    BY <2>3, <2>4
<1>6. QED
  BY <1>4, <1>5

\* The network layer runs over an authenticated link only: IPCP is up only if the
\* peer accepted us, in the protocol that was negotiated, since LCP last opened.
\* It rests on LCP coming up only while both clients are Inactive (LcpRises), so
\* that no result of an earlier negotiation is left when pppAuthenticationReady
\* looks.
THEOREM NetworkIsAuthenticated == ApprovalSpec => []NetworkNeedsApproval
<1>1. ApprovalInit => IInv /\ Approved
  <2>1. Init => IInv
    BY InitIInv
  <2>2. Init => ~LcpUp(s)
    BY DEF Init, ColdStart, LcpUp
  <2>3. QED
    BY <2>1, <2>2 DEF ApprovalInit, Approved
<1>2. IInv /\ Approved /\ [ApprovalNext]_<<vars, approvals>> => IInv' /\ Approved'
  <2>1. ASSUME IInv, Approved, ApprovalNext
        PROVE  IInv' /\ Approved'
    BY <2>1, ApprovalStep, NextStep DEF ApprovalNext
  <2>2. ASSUME IInv, Approved, UNCHANGED <<vars, approvals>>
        PROVE  IInv' /\ Approved'
    BY <2>2, StutterStep DEF vars, Approved
  <2>3. QED
    BY <2>1, <2>2
<1>3. IInv /\ Approved => NetworkNeedsApproval
  <2>1. SUFFICES ASSUME IInv, Approved, pc = "transmit", s.lcp.auth # "None", s.ipcp.state # "Closed"
                 PROVE  s.lcp.auth \in approvals
    BY DEF NetworkNeedsApproval
  <2>2. IpcpLowerUp(s)
    BY <2>1 DEF IInv, LayersFollow, NetworkDown, AfterIpcp
  <2>3. s.lcp.auth \in {"PAP", "CHAP"}
    BY <2>1 DEF IInv, Sound, SharedStates, LcpLayers
  <2>4. QED
    BY <2>1, <2>2, <2>3 DEF IpcpLowerUp, pppAuthenticationReady, Approved
<1>4. QED
  BY <1>1, <1>2, <1>3, PTL DEF ApprovalSpec
=============================================================================
