------------------------------ MODULE SfcPeers ------------------------------
(***************************************************************************)
(* What peers send and hosts command in the instances of SfcPpp.           *)
(***************************************************************************)
Of(proto, kinds) == [proto : {proto}, kind : kinds]

\* LCP and IPCP over an unauthenticated link.
PlainFrames ==
    Of("LCP", {"AcceptNone", "Refuse", "Ack", "Nak", "TermReq", "TermAck", "Echo", "UnknownCode"})
      \cup Of("IPCP", {"Accept", "Refuse", "Ack", "Nak"})
      \cup Of("IP", {"EchoRequest", "Other"})
      \cup Of("Unknown", {"Other"})
PlainCommands ==
    {"ppp-open", "ppp-close", "receive-start", "receive-stop", "initialize", "dial", "disconnect"}

\* A peer that asks for PAP or CHAP.
AuthFrames ==
    Of("LCP", {"AcceptPap", "AcceptChap", "Counter", "Ack", "Ignored"})
      \cup Of("PAP", {"Ack", "Nak", "Ignored"})
      \cup Of("CHAP", {"Challenge", "Repeat", "Success", "Failure"})
      \cup Of("IPCP", {"Accept", "Rej", "Ack"})
AuthCommands ==
    {"receive-start", "credentials-clear", "peer-id-set", "password-set",
     "initialize", "dial"}

\* A close against a peer that keeps talking.
CloseFrames ==
    Of("LCP", {"AcceptNone", "Ack", "Nak", "TermReq", "UnknownCode"})
      \cup Of("IPCP", {"Accept", "Ack"})
CloseCommands == {"ppp-open", "ppp-close", "receive-start", "initialize", "dial"}

\* A line that is lost or falls silent; nobody closes PPP.
LossFrames ==
    Of("LCP", {"AcceptNone", "AcceptPap", "Ack", "Echo"})
      \cup Of("PAP", {"Ack"}) \cup Of("IPCP", {"Accept", "Ack"})
      \cup Of("IP", {"EchoRequest"}) \cup Of("Unknown", {"Other"})
LossCommands == {"receive-start", "initialize", "dial", "disconnect"}

\* Re-challenges, for what CHAP and IPCP do with the encoder.
ChapFrames ==
    Of("LCP", {"AcceptChap", "Ack", "Echo"}) \cup Of("CHAP", {"Challenge", "Success"})
      \cup Of("IPCP", {"Accept"})
LineCommands == {"receive-start", "initialize", "dial"}
=============================================================================
