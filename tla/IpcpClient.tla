----------------------------- MODULE IpcpClient -----------------------------
(***************************************************************************)
(* The IPCP reference client of crates/ndm24-ppp/src/ipcp/client.rs: the   *)
(* RFC 1332 negotiation of the IPv4 addresses and the RFC 1877 DNS options.*)
(*                                                                         *)
(* Every method of `Client` is an operator from a client record to a       *)
(* transition: the client afterwards, the actions handed to the caller and *)
(* whether the packet was ignored.  The three addresses the client asks    *)
(* for and the three "do I ask for it" flags are functions of the option   *)
(* type.  restart_deadline_ms is kept as "is a deadline set".              *)
(***************************************************************************)
EXTENDS Integers, Sequences, FiniteSets

CONSTANTS IpcpIdSpace,      \* identifiers are 0 .. IpcpIdSpace - 1 (256 in the code)
          Addresses,        \* nonzero IPv4 addresses
          MaxConfigure,     \* Settings::max_configure
          RequestedLocal,   \* Settings::requested_local_address
          PreferredPeer,    \* Settings::preferred_peer_address
          PeerOptionLists   \* the option lists peer packets carry

Unspecified == 0
BadLength == -1             \* an address option whose data is not 4 octets long
AnyAddress == Addresses \cup {Unspecified}

AskedTypes == {"IpAddress", "PrimaryDns", "SecondaryDns"}
\* "other": IP-Addresses, IP-Compression-Protocol and the types nobody knows.
OptionTypes == AskedTypes \cup {"other"}
Options == [type : OptionTypes, addr : AnyAddress \cup {BadLength}]

\* What the constants have to be; assumed where they get their values.
IpcpConstants ==
    /\ IpcpIdSpace \in Nat \ {0, 1}
    /\ Addresses \subseteq Nat \ {0}
    /\ MaxConfigure \in Nat
    /\ RequestedLocal \in AnyAddress
    /\ PreferredPeer \in AnyAddress
    /\ PeerOptionLists \subseteq Seq(Options)

IpcpIdentifiers == 0 .. IpcpIdSpace - 1
IpcpStates == {"Closed", "Stopped", "RequestSent", "AckReceived", "AckSent", "Opened"}
Negotiating == {"RequestSent", "AckReceived", "AckSent"}
Codes == {"ConfReq", "ConfAck", "ConfNak", "ConfRej", "other"}

IpcpClients ==
    [state : IpcpStates, addr : [AskedTypes -> AnyAddress], ask : [AskedTypes -> BOOLEAN],
     peer_address : AnyAddress, request_identifier : IpcpIdentifiers,
     next_identifier : IpcpIdentifiers, restart_remaining : Nat, deadline : BOOLEAN]

InitialAddr == [t \in AskedTypes |-> IF t = "IpAddress" THEN RequestedLocal ELSE Unspecified]
AskAll == [t \in AskedTypes |-> TRUE]

NewIpcpClient ==
    [state |-> "Closed", addr |-> InitialAddr, ask |-> AskAll, peer_address |-> PreferredPeer,
     request_identifier |-> 0, next_identifier |-> 0, restart_remaining |-> 0,
     deadline |-> FALSE]

\* AddressConfiguration, as ThisLayerUp reports it.
addresses(c) == [addr |-> c.addr, peer |-> c.peer_address]

Packet(code, id, opts) == [code |-> code, id |-> id, wf |-> TRUE, opts |-> opts]
Send(p) == [type |-> "send", packet |-> p]
ThisLayerUp(c) == [type |-> "up", addresses |-> addresses(c)]
ThisLayerDown == [type |-> "down"]
ThisLayerFinished == [type |-> "finished"]
Transition(c, actions) == [client |-> c, actions |-> actions, ignored |-> FALSE]
Ignored(c) == [client |-> c, actions |-> <<>>, ignored |-> TRUE]
Nothing(c) == Transition(c, <<>>)

SaturatingDec(n) == IF n = 0 THEN 0 ELSE n - 1

\* local_options: the options asked for, in a fixed order.
AskedOptions(ask, addr) ==
    LET asked == SelectSeq(<<"IpAddress", "PrimaryDns", "SecondaryDns">>, LAMBDA t : ask[t])
    IN  [i \in DOMAIN asked |-> [type |-> asked[i], addr |-> addr[asked[i]]]]
local_options(c) == AskedOptions(c.ask, c.addr)

Request(c) == Packet("ConfReq", c.request_identifier, local_options(c))

\* allocate_identifier: the 8-bit counter wraps.
Allocate(c) == (c.next_identifier + 1) % IpcpIdSpace

send_new_request(c, reset) ==
    [c EXCEPT !.request_identifier = Allocate(c), !.next_identifier = Allocate(c),
              !.restart_remaining = SaturatingDec(IF reset THEN MaxConfigure ELSE @),
              !.deadline = TRUE]

\* What open and lower_down forget.
Forget(c, state) ==
    [c EXCEPT !.state = state, !.addr = InitialAddr, !.ask = AskAll,
              !.peer_address = PreferredPeer]

-----------------------------------------------------------------------------
\* Calls of the caller.

open(c) ==
    IF c.state = "Opened" THEN Nothing(c)
    ELSE LET n == send_new_request(Forget(c, "RequestSent"), TRUE)
         IN  Transition(n, <<Send(Request(n))>>)

ipcp_lower_down(c) ==
    Transition([Forget(c, "Closed") EXCEPT !.deadline = FALSE, !.restart_remaining = 0],
               IF c.state = "Opened" THEN <<ThisLayerDown>> ELSE <<>>)

poll_timeoutForever(c) ==
    CASE ~(c.deadline /\ c.state \in Negotiating) -> Nothing([c EXCEPT !.deadline = FALSE])
      [] OTHER -> Transition([c EXCEPT !.state = IF @ = "AckReceived" THEN "RequestSent" ELSE @],
                             <<Send(Request(c))>>)

\* poll_timeout at or after the deadline: earlier calls change nothing.
poll_timeout(c) ==
    CASE ~(c.deadline /\ c.state \in Negotiating) -> Nothing([c EXCEPT !.deadline = FALSE])
      [] c.deadline /\ c.state \in Negotiating /\ c.restart_remaining = 0 ->
           Transition([c EXCEPT !.state = "Stopped", !.deadline = FALSE], <<ThisLayerFinished>>)
      [] OTHER ->
           Transition([c EXCEPT !.restart_remaining = @ - 1,
                                !.state = IF @ = "AckReceived" THEN "RequestSent" ELSE @],
                      <<Send(Request(c))>>)

-----------------------------------------------------------------------------
\* The peer's Configure-Request.

Duplicated(opts, i) == \E j \in DOMAIN opts : j # i /\ opts[j].type = opts[i].type
HasDuplicates(opts) == \E i \in DOMAIN opts : Duplicated(opts, i)

\* A proper nonzero IP-Address is acknowledged; a zero or malformed one is
\* answered with the address preferred for the peer, if there is one.
Disposition(opts, i) ==
    CASE Duplicated(opts, i) \/ opts[i].type # "IpAddress" -> "Reject"
      [] ~Duplicated(opts, i) /\ opts[i].type = "IpAddress" /\ opts[i].addr \in Addresses -> "Ack"
      [] OTHER -> IF PreferredPeer = Unspecified THEN "Reject" ELSE "Nak"

\* evaluate_peer_request: any Reject wins over any Nak, any Nak over the Ack.
evaluate_peer_request(opts) ==
    LET rejected == SelectSeq([i \in DOMAIN opts |-> i], LAMBDA i : Disposition(opts, i) = "Reject")
        carrier  == {i \in DOMAIN opts : opts[i].type = "IpAddress"}
    IN  CASE \E i \in DOMAIN opts : Disposition(opts, i) = "Reject" ->
               [code |-> "ConfRej", data |-> [k \in DOMAIN rejected |-> opts[rejected[k]]],
                peer |-> Unspecified]
          [] /\ \A i \in DOMAIN opts : Disposition(opts, i) # "Reject"
             /\ \E i \in DOMAIN opts : Disposition(opts, i) = "Nak" ->
               [code |-> "ConfNak", peer |-> Unspecified,
                data |-> <<[type |-> "IpAddress", addr |-> PreferredPeer]>>]
          [] OTHER ->
               [code |-> "ConfAck", data |-> opts,
                peer |-> IF carrier = {} THEN Unspecified
                         ELSE opts[CHOOSE i \in carrier : TRUE].addr]

receive_configure_request(c, p) ==
    LET e  == evaluate_peer_request(p.opts)
        ok == e.code = "ConfAck"
        a  == [c EXCEPT !.peer_address = IF e.peer = Unspecified THEN @ ELSE e.peer]
        n  == send_new_request(a, TRUE)
        answer == Send(Packet(e.code, p.id, e.data))
        after == IF ok THEN "AckSent" ELSE "RequestSent"
    IN  CASE ~p.wf -> Ignored(c)
          [] p.wf /\ c.state = "Opened" ->
               Transition([n EXCEPT !.state = after], <<ThisLayerDown, Send(Request(n)), answer>>)
          [] p.wf /\ c.state = "AckReceived" /\ ok ->
               LET o == [a EXCEPT !.state = "Opened", !.deadline = FALSE]
               IN  Transition(o, <<answer, ThisLayerUp(o)>>)
          [] p.wf /\ c.state = "AckReceived" /\ ~ok -> Transition(a, <<answer>>)
          [] OTHER -> Transition([a EXCEPT !.state = after], <<answer>>)

-----------------------------------------------------------------------------
\* Answers to the client's own Configure-Request.

receive_configure_ackOpens(c, p) ==
    LET o == [c EXCEPT !.state = "Opened", !.restart_remaining = MaxConfigure, !.deadline = FALSE]
    IN  IF p.id # c.request_identifier \/ ~p.wf \/ p.opts # local_options(c)
        THEN Ignored(c)
        ELSE Transition(o, <<ThisLayerUp(o)>>)

receive_configure_ack(c, p) ==
    LET n == send_new_request([c EXCEPT !.state = "RequestSent"], FALSE)
        o == [c EXCEPT !.state = "Opened", !.restart_remaining = MaxConfigure, !.deadline = FALSE]
    IN  IF p.id # c.request_identifier \/ ~p.wf \/ p.opts # local_options(c)
        THEN Ignored(c)
        ELSE CASE c.state = "RequestSent" ->
                    Nothing([c EXCEPT !.state = "AckReceived", !.restart_remaining = MaxConfigure])
               [] c.state = "AckSent" -> Transition(o, <<ThisLayerUp(o)>>)
               [] c.state = "AckReceived" -> Transition(n, <<Send(Request(n))>>)
               [] OTHER -> Transition(n, <<ThisLayerDown, Send(Request(n))>>)

after_negative_responseSendsOld(c) ==
    LET n == send_new_request([c EXCEPT !.state = IF @ = "AckSent" THEN @ ELSE "RequestSent"],
                              c.state \in {"RequestSent", "AckSent"})
    IN  Transition(n, IF c.state = "Opened" THEN <<ThisLayerDown, Send(Request(c))>>
                      ELSE <<Send(Request(c))>>)

after_negative_response(c) ==
    LET n == send_new_request([c EXCEPT !.state = IF @ = "AckSent" THEN @ ELSE "RequestSent"],
                              c.state \in {"RequestSent", "AckSent"})
    IN  Transition(n, IF c.state = "Opened" THEN <<ThisLayerDown, Send(Request(n))>>
                      ELSE <<Send(Request(n))>>)

\* The loops over a Nak's or a Reject's options stop at the first option they do
\* not accept; what they did for the options before it stays done.
AcceptedTypes(opts, Accepts(_)) ==
    {opts[i].type : i \in {i \in DOMAIN opts : \A j \in 1 .. i : Accepts(opts[j])}}
Value(opts, t) == opts[CHOOSE i \in DOMAIN opts : opts[i].type = t].addr

\* A Nak sets addresses that are asked for.
NakAccepted(c, opts) ==
    LET Accepts(o) == o.type \in AskedTypes /\ c.ask[o.type] /\ o.addr \in Addresses
    IN  AcceptedTypes(opts, Accepts)
NakApplied(c, opts) ==
    [c EXCEPT !.addr = [t \in AskedTypes |->
                            IF t \in NakAccepted(c, opts) THEN Value(opts, t) ELSE c.addr[t]]]

receive_configure_nak(c, p) ==
    IF p.id # c.request_identifier \/ ~p.wf \/ HasDuplicates(p.opts) \/ p.opts = <<>>
    THEN Ignored(c)
    ELSE IF Cardinality(NakAccepted(c, p.opts)) # Len(p.opts) THEN Ignored(NakApplied(c, p.opts))
    ELSE after_negative_response(NakApplied(c, p.opts))

\* A Reject stops asking for options returned as they were sent.
RejectAccepted(c, opts) ==
    LET Accepts(o) == o.type \in AskedTypes /\ c.ask[o.type] /\ o.addr = c.addr[o.type]
    IN  AcceptedTypes(opts, Accepts)
RejectApplied(c, opts) ==
    [c EXCEPT !.ask = [t \in AskedTypes |-> c.ask[t] /\ t \notin RejectAccepted(c, opts)],
              !.addr = [t \in AskedTypes |->
                            IF t \in RejectAccepted(c, opts) \ {"IpAddress"}
                            THEN Unspecified ELSE c.addr[t]]]

receive_configure_reject(c, p) ==
    IF p.id # c.request_identifier \/ ~p.wf \/ HasDuplicates(p.opts) \/ p.opts = <<>>
    THEN Ignored(c)
    ELSE IF Cardinality(RejectAccepted(c, p.opts)) # Len(p.opts)
    THEN Ignored(RejectApplied(c, p.opts))
    ELSE after_negative_response(RejectApplied(c, p.opts))

ipcp_receive(c, p) ==
    CASE c.state \in {"Closed", "Stopped"} -> Ignored(c)
      [] OTHER ->
         CASE p.code = "ConfReq" -> receive_configure_request(c, p)
           [] p.code = "ConfAck" -> receive_configure_ack(c, p)
           [] p.code = "ConfNak" -> receive_configure_nak(c, p)
           [] p.code = "ConfRej" -> receive_configure_reject(c, p)
           [] OTHER -> Ignored(c)
=============================================================================
