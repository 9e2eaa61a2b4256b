-------------------------- MODULE ControlExchange ---------------------------
(***************************************************************************)
(* A control packet on its way through a PPP Information field: encoded    *)
(* by one side, padded or cut short on the line, read by the other.  The   *)
(* field may also be noise: every octet string over an alphabet.           *)
(***************************************************************************)
EXTENDS ControlCodec, SequencesExt

CONSTANTS Noise,     \* octets a field that nobody sent is made of
          MaxNoise,  \* the longest such field
          MaxPad,    \* padding octets the line may add
          Sendable,  \* packets to send: records with field "kind"
          Capacity   \* the sender's buffer

\* What the constants have to be; assumed where they get their values.
ExchangeConstants == Noise \subseteq Octet /\ MaxNoise \in Nat /\ MaxPad \in Nat

VARIABLES field,   \* the Information field the receiver holds
          origin,  \* "nothing", "noise", "sent", "padded", "cut" or "refused"
          sent     \* the packet that was encoded, as a set of at most one
vars == <<field, origin, sent>>

RECURSIVE Drain(_, _)
\* All an iterator yields until next() is None.
Drain(next(_), it) ==
    LET step == next(it)
    IN  IF step.item = {} THEN <<>> ELSE <<CHOOSE x \in step.item : TRUE>> \o Drain(next, step)
Drained(next(_), data) == Drain(next, [remaining |-> data, failed |-> FALSE, item |-> {}])

\* The addresses an IPCP option list carries, by the octet of their type.
Addresses(packet) ==
    LET items == Drained(ipcp_next, packet.data)
        whole == {i \in DOMAIN items : IsOk(items[i])}
    IN  UNION {{type} \X AddressIn(items[i].ok, IpcpOptionType[type]) :
                  type \in {3, 129, 131}, i \in whole}

\* What the sender does with a packet and what the receiver makes of a field.
Encode(p) ==
    CASE p.kind = "LCP"      -> lcp_encode_into(p.code, p.identifier, p.data, Capacity)
      [] p.kind = "IPCP"     -> ipcp_encode_into(p.code, p.identifier, p.data, Capacity)
      [] p.kind = "Address"  ->
             ipcp_encode_into(1, p.identifier, encode_address_option(p.type, p.address), Capacity)
      [] p.kind = "PapAsk"   ->
             encode_authenticate_request(p.identifier, p.peer_id, p.password, Capacity)
      [] p.kind = "PapReply" -> encode_reply(p.code, p.identifier, p.message, Capacity)
      [] p.kind = "Chap"     -> encode_response(p.identifier, p.name, p.value, Capacity)

Then(parsed, Body(_)) ==
    IF ~IsOk(parsed) THEN parsed ELSE Body(parsed.ok)
Full(packet, body) ==
    IF IsOk(body) THEN Ok([identifier |-> packet.identifier, body |-> body.ok]) ELSE body

ReadPap(input, Part(_)) == LET B(packet) == Full(packet, Part(packet)) IN Then(pap_parse(input), B)
Read(kind, input) ==
    CASE kind = "LCP"      -> lcp_parse(input)
      [] kind = "IPCP"     -> ipcp_parse(input)
      [] kind = "Address"  ->
             LET B(packet) == Full(packet, Ok(Addresses(packet))) IN Then(ipcp_parse(input), B)
      [] kind = "PapAsk"   -> ReadPap(input, authenticate_request)
      [] kind = "PapReply" -> ReadPap(input, reply_message)
      [] kind = "Chap"     ->
             LET B(packet) == Full(packet, value_packet(packet)) IN Then(chap_parse(input), B)

\* What the receiver should have read of packet p.
Meant(p) ==
    CASE p.kind \in {"LCP", "IPCP"} -> Packet(p.code, p.identifier, p.data)
      [] p.kind = "Address"  -> [identifier |-> p.identifier, body |-> {<<p.type, p.address>>}]
      [] p.kind = "PapAsk"   -> [identifier |-> p.identifier,
                                 body |-> [peer_id |-> p.peer_id, password |-> p.password]]
      [] p.kind = "PapReply" -> [identifier |-> p.identifier, body |-> p.message]
      [] p.kind = "Chap"     -> [identifier |-> p.identifier,
                                 body |-> [value |-> p.value, name |-> p.name]]

Init == field = <<>> /\ origin = "nothing" /\ sent = {}

\* The receiver gets one more octet of a field nobody encoded.
NoiseOctet(o) ==
    /\ origin \in {"nothing", "noise"}
    /\ Len(field) < MaxNoise
    /\ field' = Append(field, o)
    /\ origin' = "noise"
    /\ UNCHANGED sent

Send(p) ==
    /\ origin = "nothing"
    /\ sent' = {p}
    /\ IF IsOk(Encode(p))
       THEN field' = Encode(p).ok /\ origin' = "sent"
       ELSE origin' = "refused" /\ UNCHANGED field

\* Padding follows the packet; loss takes octets from its end.
Pad(o) ==
    /\ origin \in {"sent", "padded"}
    /\ Len(field) < DeclaredLength(field) + MaxPad
    /\ field' = Append(field, o)
    /\ origin' = "padded"
    /\ UNCHANGED sent
Cut ==
    /\ origin \in {"sent", "cut"}
    /\ field # <<>>
    /\ field' = Front(field)
    /\ origin' = "cut"
    /\ UNCHANGED sent

Next == (\E o \in Noise : NoiseOctet(o) \/ Pad(o)) \/ (\E p \in Sendable : Send(p)) \/ Cut
Spec == Init /\ [][Next]_vars

-----------------------------------------------------------------------------
Whole(items) == \A i \in DOMAIN items : IsOk(items[i])
Rebuilt(items) ==
    FlattenSeq([i \in DOMAIN items |->
        <<items[i].ok.option_type, Len(items[i].ok.data) + 2>> \o items[i].ok.data])

\* A packet that was encoded is read back as it was meant, with or without
\* padding (the parsers of lcp.rs, pap.rs, chap.rs and ipcp.rs); one that was
\* not encoded really has a part too long for its length octet or buffer.
SentIsRead ==
    \A p \in sent :
        /\ origin \in {"sent", "padded"} => Read(p.kind, field) = Ok(Meant(p))
        /\ origin = "refused" =>
               \/ p.kind = "PapAsk" /\ (Len(p.peer_id) > 255 \/ Len(p.password) > 255)
               \/ p.kind = "PapReply" /\ (Len(p.message) > 255 \/ p.code \notin {2, 3})
               \/ p.kind = "Chap" /\ Len(p.name) > 255
               \/ Encode(p).error \in {"OutputTooSmall", "BufferTooSmall"}

\* A packet that lost its end is refused, whatever of it arrived: no parser
\* takes a prefix for the packet.
CutIsRefused == \A p \in sent : origin = "cut" => ~IsOk(Read(p.kind, field))

\* A PAP field that is accepted has exactly one meaning: encoding what was
\* read gives the octets that were read (authenticate_request, reply_message).
PapIsCanonical ==
    LET ask == Read("PapAsk", field)
        reply == Read("PapReply", field)
    IN  /\ IsOk(ask) =>
              IsPrefix(encode_authenticate_request(ask.ok.identifier, ask.ok.body.peer_id,
                                                   ask.ok.body.password, Len(field)).ok, field)
        /\ IsOk(reply) =>
              IsPrefix(encode_reply(field[1], reply.ok.identifier, reply.ok.body, Len(field)).ok,
                       field)

\* The two option iterators, written separately in lcp.rs and ipcp.rs, end on
\* every octet string and agree on it: the same options, an error at the same
\* place and nothing after it; without an error the options are the string.
OptionsAreWhole ==
    LET lcp == Drained(lcp_next, field)
        ipcp == Drained(ipcp_next, field)
    IN  /\ Len(lcp) = Len(ipcp)
        /\ \A i \in DOMAIN lcp : IF IsOk(lcp[i]) THEN lcp[i] = ipcp[i] ELSE ~IsOk(ipcp[i])
        /\ \A i \in DOMAIN lcp : ~IsOk(lcp[i]) => i = Len(lcp)
        /\ Whole(ipcp) => Rebuilt(ipcp) = field

\* exactly_acknowledges accepts a field for a request exactly when the field
\* is that request with the Configure-Ack code, padding aside.
AckIsTheEcho ==
    \A identifier \in Noise, options \in {<<>>, <<1, 2>>, <<2, 2>>} :
        LET echo == lcp_encode_into(2, identifier, options, Capacity).ok
            lcp == lcp_parse(field)
            ipcp == ipcp_parse(field)
        IN  /\ (IsOk(lcp) /\ lcp_exactly_acknowledges(lcp.ok, identifier, options))
                   <=> IsPrefix(echo, field)
            /\ (IsOk(ipcp) /\ ipcp_exactly_acknowledges(ipcp.ok, identifier, options))
                   <=> IsPrefix(echo, field)

\* The four control codecs take exactly what they were sent.
ControlPacketsExact ==
    SentIsRead /\ CutIsRefused /\ PapIsCanonical /\ OptionsAreWhole /\ AckIsTheEcho
=============================================================================
