------------------------------- MODULE SfcLink -------------------------------
(***************************************************************************)
(* The state the SFC's PPP pollers share, and the two ends of the line:    *)
(* the one-frame receive buffer (ppp/receive.asm) and the one-frame        *)
(* transmit encoder (ppp/transmit.asm).                                    *)
(*                                                                         *)
(* The main loop of reset.asm calls the pollers one after the other and    *)
(* nothing preempts them but the NMI, which only counts frames.  A poller  *)
(* is therefore an operator from the shared state s to the state it        *)
(* leaves; SfcPpp runs them in the loop's order.                           *)
(*                                                                         *)
(* A received frame keeps its protocol and what its consumer makes of it;  *)
(* s.frame is None when pppFrameReady is clear.  s.tx is the owner of the  *)
(* frame in the encoder, None when pppTransmitActive is clear, with LCP    *)
(* Terminate-Ack told apart because ipcpPoll.asm looks for it.             *)
(*                                                                         *)
(* Of the request identifiers the model keeps whether the peer may know    *)
(* the current one: an answer matches only then.  A request carries the    *)
(* current identifier while its owner is LcpRequest, PAP or IpcpRequest.   *)
(***************************************************************************)
EXTENDS Integers

CONSTANTS None,
          MaxConfigure,     \* PPP_LCP_/PPP_IPCP_DEFAULT_MAX_CONFIGURE
          MaxTerminate,     \* PPP_LCP_DEFAULT_MAX_TERMINATE
          MaxAuthenticate   \* PPP_PAP_DEFAULT_MAX_AUTHENTICATE

ASSUME LimitsAssumption ==
    /\ MaxConfigure \in Nat \ {0}
    /\ MaxTerminate \in Nat \ {0}
    /\ MaxAuthenticate \in Nat \ {0}

\* What a peer frame is to the layer that consumes it.  Accept* is a
\* Configure-Request that is acknowledged, with the authentication it asks
\* for; Ack, Nak and Rej answer our latest request; Ignored changes nothing.
\* A CHAP Challenge has an identifier of its own, Repeat that of the Challenge
\* before it.
LcpKinds == {"AcceptNone", "AcceptPap", "AcceptChap", "Counter", "Refuse",
             "Ack", "Nak", "Rej", "TermReq", "TermAck", "Echo", "UnknownCode",
             "Ignored"}
Frames ==
    [proto : {"LCP"}, kind : LcpKinds]
      \cup [proto : {"PAP"}, kind : {"Ack", "Nak", "Ignored"}]
      \cup [proto : {"CHAP"}, kind : {"Challenge", "Repeat", "Success", "Failure", "Ignored"}]
      \cup [proto : {"IPCP"}, kind : {"Accept", "Counter", "Refuse", "Ack", "Nak", "Rej", "Ignored"}]
      \cup [proto : {"IP"}, kind : {"EchoRequest", "Other"}]
      \cup [proto : {"Unknown"}, kind : {"Other"}]
UpperProtocols == {"PAP", "CHAP", "IPCP", "IP"}

\* modemDriverState.  Off stands for OFF and ERROR, which only a new
\* initialization leaves, Resetting for RESETTING and PROBING.
ModemStates == {"Off", "Resetting", "Ready", "Dialing", "Connected", "Disconnecting"}

Timers == {"off", "armed", "expired"}
Negotiating == {"RequestSent", "AckReceived", "AckSent"}
LcpOwners == {"LCP", "LcpRequest", "TermAck"}
NetworkOwners == {"IPCP", "IpcpRequest", "IP"}
TxOwners == LcpOwners \cup {"PAP", "CHAP"} \cup NetworkOwners

\* Answers built from the bytes of the frame that is still in the buffer.
LcpResponses == {"ConfAck", "ConfNak", "ConfRej", "ProtRej", "CodeRej", "EchoRep"}
LcpPackets == LcpResponses \cup {"ConfReq", "TermReq", "TermAck"}
LcpActions == LcpPackets \cup {None}
IpcpResponses == {"ConfAck", "ConfNak", "ConfRej"}
IpcpActions == IpcpResponses \cup {"ConfReq", None}

ASSUME NoneIsFresh == None \notin Frames \cup TxOwners \cup LcpPackets

CredentialFields == {"PeerId", "Password"}

LcpLayers ==
    [state : Negotiating \cup {"Closed", "Opened", "Closing", "Stopped"},
     admin : BOOLEAN, pending : LcpActions, deferred : BOOLEAN,
     timer : Timers, remaining : Nat, known : BOOLEAN, auth : {"None", "PAP", "CHAP"}]
PapLayers ==
    [state : {"Inactive", "RequestPending", "WaitingForReply", "Opened", "Failed"},
     timer : Timers, remaining : Nat, known : BOOLEAN]
ChapLayers ==
    [state : {"Inactive", "WaitingChallenge", "ResponsePending", "WaitingResult",
              "Opened", "Failed"},
     matches : BOOLEAN]
IpcpLayers ==
    [state : Negotiating \cup {"Closed", "Opened", "Stopped"},
     pending : IpcpActions, deferred : BOOLEAN, timer : Timers, remaining : Nat,
     known : BOOLEAN]
CredentialStores == [transient : BOOLEAN, fields : SUBSET CredentialFields]
SharedStates ==
    [modem : ModemStates, enabled : BOOLEAN, active : BOOLEAN,
     frame : Frames \cup {None}, tx : TxOwners \cup {None},
     lcp : LcpLayers, pap : PapLayers, chap : ChapLayers, ipcp : IpcpLayers,
     credentials : CredentialStores, icmpPending : BOOLEAN]

\* RAM after the *Initialize procedures: administratively open, PPP receive
\* ownership off, the laboratory credentials installed.
ColdStart ==
    [modem |-> "Off", enabled |-> FALSE, active |-> FALSE,
     frame |-> None, tx |-> None,
     lcp |-> [state |-> "Closed", admin |-> TRUE, pending |-> None, deferred |-> FALSE,
              timer |-> "off", remaining |-> 0, known |-> FALSE, auth |-> "None"],
     pap |-> [state |-> "Inactive", timer |-> "off", remaining |-> 0, known |-> FALSE],
     chap |-> [state |-> "Inactive", matches |-> FALSE],
     ipcp |-> [state |-> "Closed", pending |-> None, deferred |-> FALSE,
               timer |-> "off", remaining |-> 0, known |-> FALSE],
     credentials |-> [transient |-> FALSE, fields |-> CredentialFields],
     icmpPending |-> FALSE]

\* Every poller's first test: PPP owns a connected line.
LowerAvailable(s) == s.enabled /\ s.modem = "Connected"

-----------------------------------------------------------------------------
\* ppp/receive.asm

pppReleaseFrame(s) == [s EXCEPT !.frame = None]
pppReceiveStart(s) == [s EXCEPT !.enabled = TRUE, !.active = FALSE, !.frame = None]
pppReceiveStop(s) == [s EXCEPT !.enabled = FALSE, !.active = FALSE, !.frame = None]

\* pppReceivePoll before it drains the ring: ownership follows the modem state.
ReceiveOwnership(s) ==
    CASE ~LowerAvailable(s) -> [s EXCEPT !.active = FALSE]
      [] LowerAvailable(s) /\ ~s.active -> [s EXCEPT !.active = TRUE, !.frame = None]
      [] OTHER -> s

\* A frame that is still owned by a layer stops the drain.
DrainsRing(s) == LowerAvailable(s) /\ s.frame = None

\* The NO CARRIER line: ownership ends and the modem is READY again.
CarrierLost(s) ==
    [s EXCEPT !.modem = "Ready", !.enabled = FALSE, !.active = FALSE, !.frame = None]

-----------------------------------------------------------------------------
\* ppp/transmit.asm

EncoderBusy(s) == s.tx # None
pppTransmitAbort(s) == [s EXCEPT !.tx = None]

\* pppTransmitPoll: the ring takes what it has room for, the last octet of the
\* frame included or not; without a connection the frame is dropped.
Transmitted(s) ==
    [s EXCEPT !.tx = None, !.lcp.known = @ \/ s.tx = "LcpRequest",
              !.pap.known = @ \/ s.tx = "PAP", !.ipcp.known = @ \/ s.tx = "IpcpRequest"]
TransmitOutcomes(s) ==
    IF s.modem = "Connected" THEN {s, Transmitted(s)} ELSE {pppTransmitAbort(s)}
=============================================================================
