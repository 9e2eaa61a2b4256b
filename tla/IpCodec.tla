------------------------------ MODULE IpCodec -------------------------------
(***************************************************************************)
(* The codecs of ipv4.rs, icmp.rs and udp.rs over octet strings.  An       *)
(* encoder takes the size of the caller's buffer; a parsed packet is the   *)
(* octets the length fields delimit, read through accessors.               *)
(***************************************************************************)
EXTENDS Octets, SequencesExt

U16_MAX == 65535

-----------------------------------------------------------------------------
\* The one's-complement sum: 16-bit words, an odd last octet in the high half,
\* carries folded back in.

HasBit(value, bit) == (value \div bit) % 2 = 1

RECURSIVE fold_sum(_)
fold_sum(sum) == IF sum > U16_MAX THEN fold_sum((sum % 65536) + (sum \div 65536)) ELSE sum

add_bytes(bytes) ==
    FoldLeft(LAMBDA sum, i : sum + (IF i % 2 = 1 THEN 256 * bytes[i] ELSE bytes[i]),
             0, [i \in 1 .. Len(bytes) |-> i])

internet_checksum(bytes) == U16_MAX - fold_sum(add_bytes(bytes))

-----------------------------------------------------------------------------
\* ipv4.rs

VERSION == 4
MINIMUM_IHL_WORDS == 5
MINIMUM_HEADER_LENGTH == 20
FLAG_RESERVED == 32768
FLAG_DONT_FRAGMENT == 16384
FLAG_MORE_FRAGMENTS == 8192
FRAGMENT_OFFSET_MODULUS == 8192

NewHeader(protocol, source, destination) ==
    [dscp_ecn |-> 0, identification |-> 0, flags_fragment_offset |-> 0, ttl |-> 64,
     protocol |-> protocol, source |-> source, destination |-> destination]

ipv4_parse(bytes) ==
    IF Len(bytes) < MINIMUM_HEADER_LENGTH THEN Err("TruncatedMinimumHeader")
    ELSE IF bytes[1] \div 16 # VERSION THEN Err("UnsupportedVersion")
    ELSE LET ihl_words == bytes[1] % 16
             header_length == 4 * ihl_words
             total_length == read_u16(bytes, 2)
         IN  IF ihl_words < MINIMUM_IHL_WORDS THEN Err("InvalidHeaderLength")
             ELSE IF Len(bytes) < header_length THEN Err("TruncatedHeader")
             ELSE IF total_length < header_length THEN Err("TotalLengthSmallerThanHeader")
             ELSE IF Len(bytes) < total_length THEN Err("TruncatedPacket")
             ELSE IF internet_checksum(Slice(bytes, 0, header_length)) # 0
                  THEN Err("InvalidHeaderChecksum")
             ELSE Ok([bytes |-> Slice(bytes, 0, total_length), header_length |-> header_length])

\* The accessors of Packet.
ipv4_header(packet) ==
    [dscp_ecn |-> At(packet.bytes, 1), identification |-> read_u16(packet.bytes, 4),
     flags_fragment_offset |-> read_u16(packet.bytes, 6), ttl |-> At(packet.bytes, 8),
     protocol |-> At(packet.bytes, 9), source |-> Slice(packet.bytes, 12, 16),
     destination |-> Slice(packet.bytes, 16, 20)]
dont_fragment(header) == HasBit(header.flags_fragment_offset, FLAG_DONT_FRAGMENT)
more_fragments(header) == HasBit(header.flags_fragment_offset, FLAG_MORE_FRAGMENTS)
fragment_offset(header) == header.flags_fragment_offset % FRAGMENT_OFFSET_MODULUS
is_fragmented(header) == more_fragments(header) \/ fragment_offset(header) # 0
ipv4_payload(packet) == From(packet.bytes, packet.header_length)

encode_packet(header, payload, available) ==
    LET total_length == MINIMUM_HEADER_LENGTH + Len(payload)
        words == <<16 * VERSION + MINIMUM_IHL_WORDS, header.dscp_ecn>> \o BigEndian(total_length)
                 \o BigEndian(header.identification) \o BigEndian(header.flags_fragment_offset)
                 \o <<header.ttl, header.protocol, 0, 0>> \o header.source \o header.destination
    IN  IF total_length > U16_MAX THEN Err("PacketTooLong")
        ELSE IF available < total_length THEN Err("OutputTooSmall")
        ELSE IF HasBit(header.flags_fragment_offset, FLAG_RESERVED) THEN Err("ReservedFlagSet")
        ELSE Ok(write_u16(words, 10, internet_checksum(words)) \o payload)

-----------------------------------------------------------------------------
\* icmp.rs

ECHO_HEADER_LENGTH == 8
icmp_type == [Reply |-> 0, Request |-> 8]

EchoOf(bytes) ==
    [kind |-> IF bytes[1] = icmp_type.Reply THEN "Reply" ELSE "Request", bytes |-> bytes]
echo_parse(bytes) ==
    IF Len(bytes) < ECHO_HEADER_LENGTH THEN Err("Truncated")
    ELSE IF bytes[1] \notin {icmp_type.Reply, icmp_type.Request} THEN Err("UnsupportedType")
    ELSE IF bytes[2] # 0 THEN Err("NonZeroCode")
    ELSE IF internet_checksum(bytes) # 0 THEN Err("InvalidChecksum")
    ELSE Ok(EchoOf(bytes))

\* identifier(), sequence() and payload() of EchoPacket.
EchoTag(packet) ==
    [identifier |-> read_u16(packet.bytes, 4), sequence |-> read_u16(packet.bytes, 6),
     payload |-> From(packet.bytes, ECHO_HEADER_LENGTH)]

encode_echo(kind, identifier, sequence, payload, available) ==
    LET length == ECHO_HEADER_LENGTH + Len(payload)
        message == <<icmp_type[kind], 0, 0, 0>> \o BigEndian(identifier) \o BigEndian(sequence)
                   \o payload
    IN  IF length > U16_MAX THEN Err("MessageTooLong")
        ELSE IF available < length THEN Err("OutputTooSmall")
        ELSE Ok(write_u16(message, 2, internet_checksum(message)))

encode_echo_reply(request, available) ==
    LET tag == EchoTag(request)
    IN  encode_echo("Reply", tag.identifier, tag.sequence, tag.payload, available)

correlate_echo_reply(packet, source, expected_source, expected) ==
    /\ packet.kind = "Reply"
    /\ source = expected_source
    /\ EchoTag(packet) = expected

-----------------------------------------------------------------------------
\* udp.rs

HEADER_LENGTH == 8
PROTOCOL_UDP == 17

udp_checksum_sum(source, destination, datagram) ==
    fold_sum(add_bytes(source) + add_bytes(destination) + PROTOCOL_UDP + Len(datagram)
             + add_bytes(datagram))

udp_parse(source, destination, bytes) ==
    IF Len(bytes) < HEADER_LENGTH THEN Err("TruncatedHeader")
    ELSE LET length == read_u16(bytes, 4)
             datagram == Slice(bytes, 0, length)
             checksum_present == read_u16(bytes, 6) # 0
         IN  IF length < HEADER_LENGTH THEN Err("InvalidLength")
             ELSE IF Len(bytes) < length THEN Err("TruncatedDatagram")
             ELSE IF checksum_present
                     /\ udp_checksum_sum(source, destination, datagram) # U16_MAX
                  THEN Err("InvalidChecksum")
             ELSE Ok([bytes |-> datagram, checksum_present |-> checksum_present])

\* source_port(), destination_port() and payload() of Datagram.
Delivered(datagram) ==
    [source_port |-> read_u16(datagram.bytes, 0),
     destination_port |-> read_u16(datagram.bytes, 2),
     payload |-> From(datagram.bytes, HEADER_LENGTH)]

NonZeroAsIs(checksum) == checksum
NonZero(checksum) == IF checksum = 0 THEN U16_MAX ELSE checksum
encode_datagram(source, destination, source_port, destination_port, payload, available) ==
    LET length == HEADER_LENGTH + Len(payload)
        datagram == BigEndian(source_port) \o BigEndian(destination_port) \o BigEndian(length)
                    \o <<0, 0>> \o payload
        checksum == NonZero(U16_MAX - udp_checksum_sum(source, destination, datagram))
    IN  IF length > U16_MAX THEN Err("DatagramTooLong")
        ELSE IF available < length THEN Err("OutputTooSmall")
        ELSE Ok(write_u16(datagram, 6, checksum))
=============================================================================
