----------------------------- MODULE IpExchange -----------------------------
(***************************************************************************)
(* One IPv4 packet between a host and its peer: an ICMP echo request, the  *)
(* reply the peer makes of it, or a UDP datagram, padded, cut or damaged   *)
(* in one octet on the way.  Built from the codecs of IpCodec.             *)
(***************************************************************************)
EXTENDS IpCodec

CONSTANTS Host, Peers,          \* addresses
          Identifiers, Sequences16, Payloads, Ports,
          Flags,                \* flags_fragment_offset values a sender may set
          Options,              \* IPv4 options another stack may add
          DamageValues,         \* octets damage may leave
          Capacity

VARIABLES wire,   \* the octets in flight
          sent,   \* what was sent last: {} or {a record}
          fault   \* "none", "padded", "cut", "damaged" or "refused"
vars == <<wire, sent, fault>>

\* A packet of another stack, whose header has options (external).
ForeignPacket(header, options, payload) ==
    LET plain == encode_packet(header, payload, Capacity).ok
        words == <<plain[1] + Len(options) \div 4, plain[2]>>
                 \o BigEndian(Len(plain) + Len(options)) \o Slice(plain, 4, 10) \o <<0, 0>>
                 \o Slice(plain, 12, 20) \o options
    IN  write_u16(words, 10, internet_checksum(words)) \o payload

InPacket(header, options, body) ==
    IF ~IsOk(body) THEN body
    ELSE IF options = <<>> \/ ~IsOk(encode_packet(header, body.ok, Capacity))
         THEN encode_packet(header, body.ok, Capacity)
    ELSE Ok(ForeignPacket(header, options, body.ok))

Launch(what, encoded) ==
    /\ sent' = {what}
    /\ IF IsOk(encoded) THEN wire' = encoded.ok /\ fault' = "none"
       ELSE wire' = <<>> /\ fault' = "refused"

Init == wire = <<>> /\ sent = {} /\ fault = "none"

SendEcho(peer, tag, flags, options) ==
    LET header == [NewHeader(1, Host, peer) EXCEPT !.flags_fragment_offset = flags]
    IN  /\ sent = {}
        /\ Launch([kind |-> "Request", header |-> header, tag |-> tag],
                  InPacket(header, options,
                           encode_echo("Request", tag.identifier, tag.sequence, tag.payload,
                                       Capacity)))

SendDatagram(peer, ports, payload) ==
    LET header == NewHeader(PROTOCOL_UDP, Host, peer)
    IN  /\ sent = {}
        /\ Launch([kind |-> "Datagram", header |-> header,
                   tag |-> [source_port |-> ports[1], destination_port |-> ports[2],
                            payload |-> payload]],
                  InPacket(header, <<>>,
                           encode_datagram(Host, peer, ports[1], ports[2], payload, Capacity)))

\* The peer answers an echo request that reached it whole, from its address.
Answer ==
    LET packet == ipv4_parse(wire)
        header == ipv4_header(packet.ok)
        request == echo_parse(ipv4_payload(packet.ok))
        back == NewHeader(1, header.destination, header.source)
    IN  /\ IsOk(packet)
        /\ header.protocol = 1
        /\ ~is_fragmented(header)
        /\ IsOk(request)
        /\ request.ok.kind = "Request"
        /\ Launch([kind |-> "Reply", header |-> back, tag |-> EchoTag(request.ok)],
                  InPacket(back, <<>>, encode_echo_reply(request.ok, Capacity)))

Pad ==
    /\ sent # {} /\ fault = "none"
    /\ wire' = wire \o <<0, 255>>
    /\ fault' = "padded"
    /\ UNCHANGED sent
Cut ==
    /\ sent # {} /\ fault \in {"none", "cut"} /\ wire # <<>>
    /\ wire' = Front(wire)
    /\ fault' = "cut"
    /\ UNCHANGED sent
Damage(i, value) ==
    /\ sent # {} /\ fault = "none"
    /\ wire[i] # value
    /\ wire' = [wire EXCEPT ![i] = value]
    /\ fault' = "damaged"
    /\ UNCHANGED sent

Tags == [identifier : Identifiers, sequence : Sequences16, payload : Payloads]
Next ==
    \/ \E peer \in Peers, tag \in Tags, flags \in Flags, options \in Options :
           SendEcho(peer, tag, flags, options)
    \/ \E peer \in Peers, ports \in Ports, payload \in Payloads : SendDatagram(peer, ports, payload)
    \/ Answer
    \/ Pad
    \/ Cut
    \/ \E i \in DOMAIN wire, value \in DamageValues : Damage(i, value)
Spec == Init /\ [][Next]_vars

-----------------------------------------------------------------------------
\* What the receiver reads of the wire: the upper layer's record, or an error.
Received ==
    LET packet == ipv4_parse(wire)
        header == ipv4_header(packet.ok)
        echo == echo_parse(ipv4_payload(packet.ok))
        datagram == udp_parse(header.source, header.destination, ipv4_payload(packet.ok))
    IN  IF ~IsOk(packet) THEN packet
        ELSE IF header.protocol = 1
             THEN IF IsOk(echo) THEN Ok([kind |-> echo.ok.kind, header |-> header,
                                         tag |-> EchoTag(echo.ok)])
                  ELSE echo
        ELSE IF header.protocol = PROTOCOL_UDP
             THEN IF IsOk(datagram) THEN Ok([kind |-> "Datagram", header |-> header,
                                             tag |-> Delivered(datagram.ok)])
                  ELSE datagram
        ELSE Err("Protocol")

\* What was sent is what is received, through both layers, with PPP padding
\* and IPv4 options: headers, tags and payloads of any parity (ipv4.rs,
\* icmp.rs, udp.rs).  Only a reserved flag or a full buffer refuses a packet.
SentIsReceived ==
    \A what \in sent :
        /\ fault \in {"none", "padded"} => Received = Ok(what)
        /\ fault = "refused" => \/ HasBit(what.header.flags_fragment_offset, FLAG_RESERVED)
                                \/ Len(what.tag.payload) + 28 > Capacity

\* A packet that lost its end, or has one octet changed, is received by
\* nobody: the only damage the checksums let through is a UDP checksum that
\* became zero, which the receiver can see.
DamageIsSeen ==
    fault \in {"cut", "damaged"} =>
        \/ ~IsOk(Received)
        \/ /\ Received.ok.kind = "Datagram"
           /\ \A what \in sent : Received.ok = what
           /\ read_u16(ipv4_payload(ipv4_parse(wire).ok), 6) = 0

\* encode_datagram never leaves its checksum zero, which would mean absent.
ChecksumIsPresent ==
    \A what \in sent :
        what.kind = "Datagram" /\ fault = "none" =>
            udp_parse(what.header.source, what.header.destination,
                      ipv4_payload(ipv4_parse(wire).ok)).ok.checksum_present

\* correlate_echo_reply takes a packet for the answer to a request exactly
\* when that request's destination sent a reply with its tag.
ReplyIsOwn ==
    IsOk(Received) /\ Received.ok.kind \in {"Request", "Reply"} =>
        LET packet == ipv4_parse(wire).ok
            echo == echo_parse(ipv4_payload(packet)).ok
        IN  \A peer \in Peers, tag \in Tags :
                correlate_echo_reply(echo, ipv4_header(packet).source, peer, tag)
                    <=> \E what \in sent :
                            what.kind = "Reply" /\ what.header.source = peer /\ what.tag = tag

\* IPv4, ICMP and UDP take exactly what they were sent.
IpPacketsExact == SentIsReceived /\ DamageIsSeen /\ ChecksumIsPresent /\ ReplyIsOwn
=============================================================================
