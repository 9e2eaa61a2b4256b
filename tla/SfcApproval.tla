----------------------------- MODULE SfcApproval -----------------------------
(***************************************************************************)
(* The main loop with a record of what the peer has said about us:         *)
(* `approvals` are the protocols in which it accepted our credentials      *)
(* since LCP last opened; a new CHAP Challenge takes CHAP's back.          *)
(***************************************************************************)
EXTENDS SfcPpp

VARIABLE approvals

\* The authentication client of protocol proto takes a frame of one of kinds.
Takes(turn, proto, kinds) ==
    pc = turn /\ LcpUp(s) /\ s.frame # None /\ s.frame.proto = proto /\ s.frame.kind \in kinds

PapApproves == Takes("pap", "PAP", {"Ack"}) /\ s.pap.known /\ s.pap.state = "WaitingForReply"
ChapApproves ==
    Takes("chap", "CHAP", {"Success"}) /\ pppChapBuildPending(s).chap.state = "WaitingResult"
ChapChallenges == Takes("chap", "CHAP", {"Challenge", "Repeat"})

Approvals ==
    CASE ~LcpUp(s') -> {}
      [] LcpUp(s') /\ PapApproves -> approvals \cup {"PAP"}
      [] LcpUp(s') /\ ChapApproves -> approvals \cup {"CHAP"}
      [] LcpUp(s') /\ ChapChallenges -> approvals \ {"CHAP"}
      [] OTHER -> approvals

ApprovalInit == Init /\ approvals = {}
ApprovalNext == Next /\ approvals' = Approvals
ApprovalSpec == ApprovalInit /\ [][ApprovalNext]_<<vars, approvals>>

\* The network layer runs over an authenticated link only: whenever the peer
\* asked for PAP or CHAP, IPCP is up only if the peer has accepted us in that
\* protocol since LCP opened.  An outcome of an earlier negotiation, or of the
\* other protocol, does not count (pppAuthenticationReady, ipcpPoll.asm).
NetworkNeedsApproval ==
    pc = "transmit" /\ s.lcp.auth # "None" /\ s.ipcp.state # "Closed" => s.lcp.auth \in approvals
=============================================================================
