---------------------------- MODULE ControlCodec ----------------------------
(***************************************************************************)
(* The packet codecs of lcp.rs, pap.rs, chap.rs and ipcp.rs.  A packet is  *)
(* [code, identifier, data]; an encoder takes the size of the caller's     *)
(* buffer, and returns the octets it wrote or the kind of its error.       *)
(***************************************************************************)
EXTENDS Octets, TLC

U8_MAX == 255
U16_MAX == 65535
HEADER_LENGTH == 4

Packet(code, identifier, data) == [code |-> code, identifier |-> identifier, data |-> data]
KnownIn(table, octet) == IF octet \in DOMAIN table THEN table[octet] ELSE "None"
Header(code, identifier, length) == <<code, identifier>> \o BigEndian(length)
DeclaredLength(input) == read_u16(input, 2)
DeclaredPacket(input) ==
    Packet(At(input, 0), At(input, 1), Slice(input, HEADER_LENGTH, DeclaredLength(input)))

-----------------------------------------------------------------------------
\* lcp.rs

LcpCode ==
    <<"ConfigureRequest", "ConfigureAck", "ConfigureNak", "ConfigureReject",
      "TerminateRequest", "TerminateAck", "CodeReject", "ProtocolReject",
      "EchoRequest", "EchoReply", "DiscardRequest">>
LcpOptionType ==
    (1 :> "MaximumReceiveUnit") @@ (2 :> "AsyncControlCharacterMap")
    @@ (3 :> "AuthenticationProtocol") @@ (4 :> "QualityProtocol") @@ (5 :> "MagicNumber")
    @@ (7 :> "ProtocolFieldCompression") @@ (8 :> "AddressControlFieldCompression")

lcp_parse(input) ==
    IF Len(input) < HEADER_LENGTH THEN Err("HeaderTruncated")
    ELSE IF DeclaredLength(input) < HEADER_LENGTH \/ DeclaredLength(input) > Len(input)
         THEN Err("InvalidLength")
    ELSE Ok(DeclaredPacket(input))

lcp_exactly_acknowledges(packet, identifier, options) ==
    /\ KnownIn(LcpCode, packet.code) = "ConfigureAck"
    /\ packet.identifier = identifier
    /\ packet.data = options

lcp_encode_into(code, identifier, data, available) ==
    LET required == HEADER_LENGTH + Len(data)
    IN  IF required > U16_MAX THEN Err("DataTooLong")
        ELSE IF available < required THEN Err("OutputTooSmall")
        ELSE Ok(Header(code, identifier, required) \o data)

\* ConfigurationOptions: next() yields nothing, an option or an error.
Option(encoded) == [option_type |-> At(encoded, 0), data |-> From(encoded, 2), encoded |-> encoded]
Yield(item, remaining, failed) == [item |-> item, remaining |-> remaining, failed |-> failed]

lcp_next(it) ==
    LET remaining == it.remaining
    IN  IF it.failed \/ remaining = <<>> THEN Yield({}, remaining, it.failed)
        ELSE IF Len(remaining) < 2 THEN Yield({Err("HeaderTruncated")}, remaining, TRUE)
        ELSE LET declared == At(remaining, 1)
             IN  IF declared < 2 \/ declared > Len(remaining)
                 THEN Yield({Err("InvalidLength")}, remaining, TRUE)
                 ELSE Yield({Ok(Option(Slice(remaining, 0, declared)))},
                            From(remaining, declared), FALSE)

-----------------------------------------------------------------------------
\* pap.rs

PapCode == <<"AuthenticateRequest", "AuthenticateAck", "AuthenticateNak">>

pap_parse(input) ==
    IF Len(input) < HEADER_LENGTH THEN Err("HeaderTruncated")
    ELSE IF DeclaredLength(input) < HEADER_LENGTH \/ DeclaredLength(input) > Len(input)
         THEN Err("InvalidLength")
    ELSE Ok(DeclaredPacket(input))

\* A length octet, as many octets, and what follows them.
Counted(data, missing, truncated) ==
    IF data = <<>> THEN Err(missing)
    ELSE IF Len(data) - 1 < data[1] THEN Err(truncated)
    ELSE Ok([field |-> Slice(data, 1, 1 + data[1]), rest |-> From(data, 1 + data[1])])

authenticate_request(packet) ==
    IF KnownIn(PapCode, packet.code) # "AuthenticateRequest" THEN Err("WrongCode")
    ELSE LET id == Counted(packet.data, "PeerIdLengthMissing", "PeerIdTruncated")
         IN  IF ~IsOk(id) THEN id
             ELSE LET password ==
                      Counted(id.ok.rest, "PasswordLengthMissing", "PasswordTruncated")
                  IN  IF ~IsOk(password) THEN password
                      ELSE IF password.ok.rest # <<>> THEN Err("TrailingData")
                      ELSE Ok([peer_id |-> id.ok.field, password |-> password.ok.field])

reply_message(packet) ==
    IF KnownIn(PapCode, packet.code) \notin {"AuthenticateAck", "AuthenticateNak"}
    THEN Err("WrongCode")
    ELSE LET message == Counted(packet.data, "MessageLengthMissing", "MessageTruncated")
         IN  IF ~IsOk(message) THEN message
             ELSE IF message.ok.rest # <<>> THEN Err("TrailingData")
             ELSE Ok(message.ok.field)

require_u8_length(value) == Len(value) <= U8_MAX

packet_length(data_length, available) ==
    LET required == HEADER_LENGTH + data_length
    IN  IF required > U16_MAX THEN Err("PacketTooLong")
        ELSE IF available < required THEN Err("OutputTooSmall")
        ELSE Ok(required)

encode_authenticate_request(identifier, peer_id, password, available) ==
    IF ~require_u8_length(peer_id) \/ ~require_u8_length(password) THEN Err("FieldTooLong")
    ELSE LET required == packet_length(2 + Len(peer_id) + Len(password), available)
         IN  IF ~IsOk(required) THEN required
             ELSE Ok(Header(1, identifier, required.ok)
                     \o <<Len(peer_id) % 256>> \o peer_id \o <<Len(password) % 256>> \o password)

encode_reply(code, identifier, message, available) ==
    IF code \notin {2, 3} THEN Err("InvalidReplyCode")
    ELSE IF ~require_u8_length(message) THEN Err("FieldTooLong")
    ELSE LET required == packet_length(1 + Len(message), available)
         IN  IF ~IsOk(required) THEN required
             ELSE Ok(Header(code, identifier, required.ok) \o <<Len(message)>> \o message)

-----------------------------------------------------------------------------
\* chap.rs

MD5_VALUE_LENGTH == 16
ChapCode == <<"Challenge", "Response", "Success", "Failure">>

chap_parse(input) ==
    IF Len(input) < HEADER_LENGTH THEN Err("TruncatedHeader")
    ELSE IF DeclaredLength(input) < HEADER_LENGTH THEN Err("InvalidLength")
    ELSE IF DeclaredLength(input) > Len(input) THEN Err("TruncatedPacket")
    ELSE IF KnownIn(ChapCode, At(input, 0)) = "None" THEN Err("UnsupportedCode")
    ELSE Ok(DeclaredPacket(input))

value_packet(packet) ==
    IF packet.data = <<>> THEN Err("MissingValueLength")
    ELSE LET value_length == packet.data[1]
         IN  IF 1 + value_length > Len(packet.data) THEN Err("TruncatedValue")
             ELSE Ok([value |-> Slice(packet.data, 1, 1 + value_length),
                      name  |-> From(packet.data, 1 + value_length)])

encode_response(identifier, name, digest, available) ==
    LET length == HEADER_LENGTH + 1 + MD5_VALUE_LENGTH + Len(name)
    IN  IF Len(name) > U8_MAX \/ length > U16_MAX THEN Err("FieldTooLong")
        ELSE IF available < length THEN Err("OutputTooSmall")
        ELSE Ok(Header(2, identifier, length) \o <<MD5_VALUE_LENGTH>> \o digest \o name)

-----------------------------------------------------------------------------
\* ipcp.rs

IP_ADDRESS_OPTION_LENGTH == 6
IpcpCode ==
    <<"ConfigureRequest", "ConfigureAck", "ConfigureNak", "ConfigureReject",
      "TerminateRequest", "TerminateAck", "CodeReject">>
IpcpOptionType ==
    (1 :> "IpAddresses") @@ (2 :> "IpCompressionProtocol") @@ (3 :> "IpAddress")
    @@ (129 :> "PrimaryDnsServerAddress") @@ (131 :> "SecondaryDnsServerAddress")

ipcp_parse(input) ==
    IF Len(input) < HEADER_LENGTH THEN Err("TruncatedHeader")
    ELSE IF DeclaredLength(input) < HEADER_LENGTH THEN Err("InvalidPacketLength")
    ELSE IF DeclaredLength(input) > Len(input) THEN Err("TruncatedPacket")
    ELSE Ok(DeclaredPacket(input))

ipcp_exactly_acknowledges(packet, identifier, options) ==
    /\ KnownIn(IpcpCode, packet.code) = "ConfigureAck"
    /\ packet.identifier = identifier
    /\ packet.data = options

ipcp_encode_into(code, identifier, data, available) ==
    LET length == HEADER_LENGTH + Len(data)
    IN  IF length > U16_MAX THEN Err("PacketTooLarge")
        ELSE IF available < length THEN Err("BufferTooSmall")
        ELSE Ok(Header(code, identifier, length) \o data)

encode_address_option(option_type, address) ==
    <<option_type, IP_ADDRESS_OPTION_LENGTH>> \o address

\* ip_address, primary_dns_address and secondary_dns_address: {} is None.
AddressIn(option, type) ==
    IF KnownIn(IpcpOptionType, option.option_type) = type /\ Len(option.data) = 4
    THEN {option.data} ELSE {}

ipcp_nextTakesEmptyLength(it) ==
    LET remaining == it.remaining
    IN  IF remaining = <<>> THEN Yield({}, <<>>, FALSE)
        ELSE IF Len(remaining) < 2 THEN Yield({Err("TruncatedHeader")}, <<>>, FALSE)
        ELSE LET declared == At(remaining, 1)
             IN  IF declared < 1 THEN Yield({Err("InvalidLength")}, <<>>, FALSE)
                 ELSE IF declared > Len(remaining)
                      THEN Yield({Err("TruncatedOption")}, <<>>, FALSE)
                 ELSE Yield({Ok(Option(Slice(remaining, 0, declared)))},
                            From(remaining, declared), FALSE)
ipcp_next(it) ==
    LET remaining == it.remaining
    IN  IF remaining = <<>> THEN Yield({}, <<>>, FALSE)
        ELSE IF Len(remaining) < 2 THEN Yield({Err("TruncatedHeader")}, <<>>, FALSE)
        ELSE LET declared == At(remaining, 1)
             IN  IF declared < 2 THEN Yield({Err("InvalidLength")}, <<>>, FALSE)
                 ELSE IF declared > Len(remaining)
                      THEN Yield({Err("TruncatedOption")}, <<>>, FALSE)
                 ELSE Yield({Ok(Option(Slice(remaining, 0, declared)))},
                            From(remaining, declared), FALSE)
=============================================================================
