----------------------------- MODULE LcpMachine -----------------------------
(***************************************************************************)
(* The LCP reference machine of crates/ndm24-ppp/src/lcp/negotiation.rs.   *)
(*                                                                         *)
(* Every public method of `Machine` is an operator from a machine record   *)
(* to a transition: the machine afterwards and the actions it hands to its *)
(* caller (packets to send, ThisLayerUp, ThisLayerDown, ThisLayerFinished).*)
(* LcpSession drives one machine with every call a caller can make and     *)
(* every packet a peer can send, in any order.                             *)
(*                                                                         *)
(* restart_deadline_ms is kept as "is a deadline set": a call of           *)
(* poll_timeout before the deadline changes nothing, so poll_timeout is    *)
(* the call made once the deadline has passed.                             *)
(***************************************************************************)
EXTENDS LcpOptions

CONSTANTS IdSpace,        \* identifiers are 0 .. IdSpace - 1 (256 in the code)
          MaxConfigure,   \* Settings::max_configure
          MaxTerminate,   \* Settings::max_terminate
          Policy,         \* the SfcPolicy the caller passes to receive
          LocalOptions,   \* the option list given to Machine::new
          PeerOptionLists \* the option lists peer packets carry

ASSUME IdAssumption == IdSpace \in Nat \ {0, 1}
ASSUME SettingsAssumption == MaxConfigure \in Nat /\ MaxTerminate \in Nat
ASSUME PolicyAssumption == Policy \in Policies
ASSUME OptionListsAssumption ==
    /\ LocalOptions \in Seq(Options)
    /\ PeerOptionLists \subseteq Seq(Options)

Identifiers == 0 .. IdSpace - 1

States == {"Closed", "RequestSent", "AckReceived", "AckSent",
           "Opened", "Closing", "Stopped"}
Negotiating == {"RequestSent", "AckReceived", "AckSent"}

ConfigureCodes == {"ConfReq", "ConfAck", "ConfNak", "ConfRej"}
Codes == ConfigureCodes \cup {"TermReq", "TermAck", "CodeRej", "ProtRej",
                              "EchoReq", "EchoRep", "Discard", "Unknown"}

\* A parsed packet. wf is FALSE when the options of a Configure packet do not
\* parse, or an Echo-Request is too short for its Magic-Number.
Packet(code, id, opts) ==
    [code |-> code, id |-> id, wf |-> TRUE, opts |-> opts, magic |-> 0]
EchoReply(id, magic) ==
    [code |-> "EchoRep", id |-> id, wf |-> TRUE, opts |-> <<>>, magic |-> magic]

Send(p) == [type |-> "send", packet |-> p]
ThisLayerUp(c) == [type |-> "up", packet |-> c]
ThisLayerDown == [type |-> "down", packet |-> None]
ThisLayerFinished == [type |-> "finished", packet |-> None]

Transition(m, actions) == [machine |-> m, actions |-> actions]
Ignored(m) == Transition(m, <<>>)

Machines ==
    [state : States,
     local_options : Slots(Len(LocalOptions)),
     request_identifier : Identifiers,
     terminate_identifier : Identifiers,
     next_identifier : Identifiers,
     restart_remaining : Nat,
     deadline : BOOLEAN,
     peer_configuration : PeerConfigurations \cup {None},
     acknowledged_local_magic : Nat \cup {None}]

NewMachine ==
    [state |-> "Closed", local_options |-> LocalOptions,
     request_identifier |-> 0, terminate_identifier |-> 0, next_identifier |-> 0,
     restart_remaining |-> 0, deadline |-> FALSE,
     peer_configuration |-> None, acknowledged_local_magic |-> None]

SaturatingDec(n) == IF n = 0 THEN 0 ELSE n - 1

AllocateNoWrap(m) == m.next_identifier + 1

\* allocate_identifier: the 8-bit counter wraps.
Allocate(m) == (m.next_identifier + 1) % IdSpace

\* send_new_request: a fresh identifier for the current local options.
SendNewRequest(m, reset) ==
    [m EXCEPT !.acknowledged_local_magic = None,
              !.request_identifier = Allocate(m),
              !.next_identifier = Allocate(m),
              !.restart_remaining = SaturatingDec(IF reset THEN MaxConfigure ELSE @),
              !.deadline = TRUE]

Request(m) == Packet("ConfReq", m.request_identifier, Wire(m.local_options))
TerminateRequest(m) == Packet("TermReq", m.terminate_identifier, <<>>)

DownKeepsDeadline(m, state) ==
    [m EXCEPT !.state = state, !.restart_remaining = 0,
              !.peer_configuration = None, !.acknowledged_local_magic = None]

\* Every exit to Closed or Stopped that forgets the negotiation.
Down(m, state) ==
    [m EXCEPT !.state = state, !.deadline = FALSE, !.restart_remaining = 0,
              !.peer_configuration = None, !.acknowledged_local_magic = None]

-----------------------------------------------------------------------------
\* Calls of the lower layer and of the administrator.

open(m) ==
    IF m.state \in {"Opened", "Closing"}
    THEN Ignored(m)
    ELSE LET n == SendNewRequest([m EXCEPT !.state = "RequestSent",
                                           !.peer_configuration = None], TRUE)
         IN  Transition(n, <<Send(Request(n))>>)

\* The Terminate-Requests left after the first one, which close itself sends.
TerminateBudget == SaturatingDec(MaxTerminate)

close(m) ==
    CASE m.state = "Closing" -> Ignored(m)
      [] m.state \in {"Closed", "Stopped"} -> Ignored(Down(m, "Closed"))
      [] OTHER ->
           LET n == [m EXCEPT !.state = "Closing",
                              !.peer_configuration = None,
                              !.acknowledged_local_magic = None,
                              !.terminate_identifier = Allocate(m),
                              !.next_identifier = Allocate(m),
                              !.restart_remaining = TerminateBudget,
                              !.deadline = TRUE]
           IN  Transition(n, IF m.state = "Opened"
                             THEN <<ThisLayerDown, Send(TerminateRequest(n))>>
                             ELSE <<Send(TerminateRequest(n))>>)

lower_down(m) ==
    Transition(Down(m, "Closed"),
               IF m.state = "Opened" THEN <<ThisLayerDown>> ELSE <<>>)

\* poll_timeout at or after the deadline.
poll_timeout(m) ==
    CASE ~m.deadline -> Ignored(m)
      [] m.deadline /\ m.state = "Closing" /\ m.restart_remaining = 0 ->
           Transition([m EXCEPT !.state = "Closed", !.deadline = FALSE,
                                !.peer_configuration = None],
                      <<ThisLayerFinished>>)
      [] m.deadline /\ m.state = "Closing" /\ m.restart_remaining > 0 ->
           Transition([m EXCEPT !.restart_remaining = @ - 1],
                      <<Send(TerminateRequest(m))>>)
      [] m.deadline /\ m.state \in Negotiating /\ m.restart_remaining = 0 ->
           Transition([m EXCEPT !.state = "Stopped", !.deadline = FALSE],
                      <<ThisLayerFinished>>)
      [] m.deadline /\ m.state \in Negotiating /\ m.restart_remaining > 0 ->
           Transition([m EXCEPT !.restart_remaining = @ - 1,
                                !.state = IF @ = "AckReceived" THEN "RequestSent" ELSE @],
                      <<Send(Request(m))>>)
      [] OTHER -> Ignored([m EXCEPT !.deadline = FALSE])

reject_protocol(m) ==
    IF m.state # "Opened"
    THEN Ignored(m)
    ELSE Transition([m EXCEPT !.next_identifier = Allocate(m)],
                    <<Send(Packet("ProtRej", Allocate(m), <<>>))>>)

-----------------------------------------------------------------------------
\* Packets from the peer, in the states that look at them.

StateAfterAnswerSticky(m, acceptable) ==
    IF acceptable \/ m.state = "AckSent" THEN "AckSent" ELSE "RequestSent"

\* Where an answer leaves a machine that has no Ack of its own yet: a Nak or a
\* Reject takes back an earlier Ack.
StateAfterAnswer(m, acceptable) == IF acceptable THEN "AckSent" ELSE "RequestSent"

receive_configure_request(m, p) ==
    LET e  == evaluate_peer_request(p.opts, Policy, local_magic(m.local_options))
        ok == e.code = "ConfAck"
        a  == [m EXCEPT !.peer_configuration = IF ok THEN e.configuration ELSE @]
        answer == Send(Packet(e.code, p.id, e.data))
        n  == SendNewRequest(a, TRUE)
    IN  CASE ~p.wf -> Ignored(m)
          [] p.wf /\ m.state = "Opened" ->
               Transition([n EXCEPT !.state = StateAfterAnswer(m, ok)],
                          <<ThisLayerDown, Send(Request(n)), answer>>)
          [] p.wf /\ m.state = "AckReceived" /\ ok ->
               Transition([a EXCEPT !.state = "Opened", !.deadline = FALSE],
                          <<answer, ThisLayerUp(e.configuration)>>)
          [] p.wf /\ m.state = "AckReceived" /\ ~ok -> Transition(a, <<answer>>)
          [] OTHER ->
               Transition([a EXCEPT !.state = StateAfterAnswer(m, ok)],
                          <<answer>>)

receive_configure_ackOpens(m, p) ==
    IF ~(p.wf /\ p.id = m.request_identifier /\ p.opts = Wire(m.local_options)) THEN Ignored(m)
    ELSE Transition([m EXCEPT !.state = "Opened", !.deadline = FALSE,
                              !.acknowledged_local_magic = local_magic(m.local_options)],
                    <<ThisLayerUp(DefaultConfiguration)>>)

receive_configure_ack(m, p) ==
    LET acked == [m EXCEPT !.acknowledged_local_magic = local_magic(m.local_options)]
        n == [SendNewRequest(acked, FALSE) EXCEPT !.state = "RequestSent"]
    IN  CASE ~(p.wf /\ p.id = m.request_identifier /\ p.opts = Wire(m.local_options)) -> Ignored(m)
          [] OTHER ->
             CASE m.state = "RequestSent" ->
                    Ignored([acked EXCEPT !.state = "AckReceived",
                                          !.restart_remaining = MaxConfigure])
               [] m.state = "AckSent" ->
                    Transition([acked EXCEPT !.state = "Opened",
                                             !.restart_remaining = MaxConfigure,
                                             !.deadline = FALSE],
                               <<ThisLayerUp(IF m.peer_configuration = None
                                             THEN DefaultConfiguration
                                             ELSE m.peer_configuration)>>)
               [] m.state = "AckReceived" -> Transition(n, <<Send(Request(n))>>)
               [] OTHER -> Transition(n, <<ThisLayerDown, Send(Request(n))>>)

AfterNegativeResponseKeepsAck(m, options) ==
    LET a == [m EXCEPT !.local_options = options,
                       !.state = IF @ \in {"AckSent", "AckReceived"} THEN @ ELSE "RequestSent"]
        n == SendNewRequest(a, m.state \in {"RequestSent", "AckSent"})
    IN  Transition(n, IF m.state = "Opened"
                      THEN <<ThisLayerDown, Send(Request(n))>>
                      ELSE <<Send(Request(n))>>)

\* after_negative_response, with the local options already rewritten.
AfterNegativeResponse(m, options) ==
    LET a == [m EXCEPT !.local_options = options,
                       !.state = IF @ = "AckSent" THEN "AckSent" ELSE "RequestSent"]
        n == SendNewRequest(a, m.state \in {"RequestSent", "AckSent"})
    IN  Transition(n, IF m.state = "Opened"
                      THEN <<ThisLayerDown, Send(Request(n))>>
                      ELSE <<Send(Request(n))>>)

receive_configure_nak(m, p) ==
    IF p.id # m.request_identifier \/ ~p.wf \/ HasDuplicates(p.opts)
    THEN Ignored(m)
    ELSE AfterNegativeResponse(m, apply_nak(m.local_options, p.opts))

receive_configure_reject(m, p) ==
    IF p.id # m.request_identifier \/ ~p.wf \/ ~IsValidReject(m.local_options, p.opts)
    THEN Ignored(m)
    ELSE AfterNegativeResponse(m, apply_reject(m.local_options, p.opts))

receive_terminate_requestSilent(m, p) ==
    LET answer == Send(Packet("TermAck", p.id, <<>>))
    IN  IF m.state = "Closing"
        THEN Transition(m, <<answer>>)
        ELSE Transition(Down(m, "Stopped"), <<answer>>)

receive_terminate_request(m, p) ==
    LET answer == Send(Packet("TermAck", p.id, <<>>))
    IN  IF m.state = "Closing"
        THEN Transition(m, <<answer>>)
        ELSE Transition(Down(m, "Stopped"),
                        IF m.state = "Opened" THEN <<answer, ThisLayerDown>> ELSE <<answer>>)

receive_terminate_ack(m, p) ==
    IF m.state # "Closing" \/ p.id # m.terminate_identifier
    THEN Ignored(m)
    ELSE Transition(Down(m, "Closed"), <<ThisLayerFinished>>)

\* The peer's Magic-Number must be the negotiated one, 0 when there is none.
receive_echo_request(m, p) ==
    LET c == IF m.peer_configuration = None THEN DefaultConfiguration ELSE m.peer_configuration
        expected == IF c.magic = None THEN 0 ELSE c.magic
        own == m.acknowledged_local_magic
    IN  IF m.state # "Opened" \/ ~p.wf \/ p.magic # expected
        THEN Ignored(m)
        ELSE Transition(m, <<Send(EchoReply(p.id, IF own = None THEN 0 ELSE own))>>)

receive_unknown_code(m, p) ==
    Transition([m EXCEPT !.next_identifier = Allocate(m)],
               <<Send(Packet("CodeRej", Allocate(m), <<>>))>>)

receive(m, p) ==
    CASE m.state \in {"Closed", "Stopped"} -> Ignored(m)
      [] /\ m.state = "Closing"
         /\ p.code \in ConfigureCodes \cup {"EchoReq", "EchoRep", "Discard"} -> Ignored(m)
      [] OTHER ->
         CASE p.code = "ConfReq" -> receive_configure_request(m, p)
           [] p.code = "ConfAck" -> receive_configure_ack(m, p)
           [] p.code = "ConfNak" -> receive_configure_nak(m, p)
           [] p.code = "ConfRej" -> receive_configure_reject(m, p)
           [] p.code = "TermReq" -> receive_terminate_request(m, p)
           [] p.code = "TermAck" -> receive_terminate_ack(m, p)
           [] p.code = "EchoReq" -> receive_echo_request(m, p)
           [] p.code = "Unknown" -> receive_unknown_code(m, p)
           [] OTHER -> Ignored(m)
=============================================================================
