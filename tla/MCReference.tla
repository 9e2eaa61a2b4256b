---------------------------- MODULE MCReference ----------------------------
(***************************************************************************)
(* The reference implementation below the clients: everything that turns   *)
(* values into octets and back (the framed line, the packet codecs, the    *)
(* MD5 padding) and the LCP machine that negotiates over it.  They share   *)
(* nothing: one of them makes up a behaviour, the others rest in an        *)
(* initial state.                                                          *)
(***************************************************************************)
EXTENDS FramedLine, ChapDigest, NtpExchange, LcpSession

VARIABLES works,
          field, origin, packet,                                  \* ControlExchange
          ip_wire, ip_sent, fault,                                \* IpExchange
          wire, request, answer, stage                            \* DnsExchange

-----------------------------------------------------------------------------
\* Frames over the octets that need care: the flag, the escape, a control octet
\* and an ordinary one; one frame is longer than the receiver takes.
Alphabet == {126, 125, 0, 65}
TooLong == <<65, 125, 65, 65>>
MCTraffic ==
    {<<<<a, b>>, <<65, 126>>>> : a \in Alphabet, b \in {125, 0}}
    \cup {<<<<126, 0, 65>>, TooLong, <<0, 65>>>>}
Unsent == CHOOSE frames \in MCTraffic : TRUE
LineNoise == {126, 125, 1, 65}

\* Packets at the edges of their length octets (0, 1, 255 and 256) and at the edge
\* of a 300-octet buffer.
Text(n) == [i \in 1 .. n |-> (i * 7) % 256]
Edges == {Text(n) : n \in {0, 1, 255, 256}}
MCSendable ==
    [kind : {"LCP", "IPCP"}, code : {1, 2, 12}, identifier : {0, 255},
     data : {<<>>, <<1, 4, 5, 220>>, Text(296), Text(297)}]
    \cup [kind : {"Address"}, identifier : {7}, type : {3, 129, 131},
          address : {<<0, 0, 0, 0>>, <<192, 168, 3, 6>>}]
    \cup [kind : {"PapAsk"}, identifier : {7}, peer_id : Edges, password : Edges \ {Text(255)}]
    \cup [kind : {"PapReply"}, code : {1, 2, 3}, identifier : {7}, message : Edges]
    \cup [kind : {"Chap"}, identifier : {7}, name : Edges, value : {Text(16)}]
Control == INSTANCE ControlExchange WITH
    Noise <- {0, 1, 2, 6, 7}, MaxNoise <- 7, MaxPad <- 2, Capacity <- 300,
    Sendable <- MCSendable, sent <- packet

\* Two peers, tags that differ in one field, payloads of even and odd length;
\* CarryPayload makes a UDP sum of 0xffff, whose complement is 0.
IpFields == INSTANCE IpCodec
MCHost == <<10, 0, 0, 2>>
MCPeer == <<10, 0, 0, 1>>
Datagram == IpFields!encode_datagram(MCHost, MCPeer, 49152, 123, <<0, 0>>, 100).ok
CarryPayload ==
    IpFields!BigEndian(IpFields!U16_MAX
        - IpFields!udp_checksum_sum(MCHost, MCPeer, IpFields!write_u16(Datagram, 6, 0)))
Ip == INSTANCE IpExchange WITH
    Host <- MCHost, Peers <- {MCPeer, <<10, 0, 0, 3>>}, Identifiers <- {1, 40000},
    Sequences16 <- {0, 65535}, Payloads <- {<<>>, <<200>>, <<1, 2>>, CarryPayload, <<9, 255, 7>>},
    Ports <- {<<49152, 123>>},
    Flags <- {0, 1, IpFields!FLAG_DONT_FRAGMENT, IpFields!FLAG_MORE_FRAGMENTS,
              IpFields!FLAG_RESERVED},
    Options <- {<<>>, <<1, 1, 1, 0>>}, DamageValues <- {0, 1, 8, 17, 69, 70, 127, 255},
    Capacity <- 30, wire <- ip_wire, sent <- ip_sent

\* Timestamps around the Unix epoch and the end of the NTP era.
MCTimes ==
    {Timestamp(s, <<1, 2, 3, 4>>) :
        s \in {<<131, 170, 126, 127>>, <<131, 170, 126, 128>>, <<131, 171, 0, 0>>,
               <<255, 255, 255, 255>>, <<0, 0, 0, 0>>}}
    \cup {Timestamp(<<131, 171, 0, 0>>, <<1, 2, 3, 5>>)}
MCServers ==
    [leap : {0, 3}, version : {2, 3, 4}, mode : {3, 4}, stratum : {0, 1, 15, 16}]

\* Names at the limits of labels and names; answers with aliases before addresses.
Dot == 46
Hyphen == 45
Letters(n) == [i \in 1 .. n |-> 97 + (i % 26)]
Dotted(n, label) == [i \in 1 .. n |-> IF i % (label + 1) = 0 THEN Dot ELSE 97]
MCNames ==
    {<<>>, <<Dot>>, <<97>>, <<97, Dot, 98, 99>>, <<97, Dot, 98, 99, Dot>>, <<97, Dot, Dot, 98>>,
     <<97, 95>>, <<97, 200>>, <<48, Hyphen, 90>>, Letters(63), Letters(64), Dotted(253, 63),
     Dotted(254, 63), Dotted(253, 1), Dotted(255, 1)}
Record(owner, type, class, data) ==
    [owner |-> owner, type |-> type, class |-> class, data |-> data]
Pointer == <<192, 12>>
Alias == Record(Pointer, 5, 1, <<1, 98, 192, 12>>)
Address(a) == Record(Pointer, 1, 1, <<10, 0, 0, a>>)
Spelt(a) == Record(<<1, 97, 2, 98, 99, 0>>, 1, 1, <<10, 0, 0, a>>)
Chaos == Record(<<0>>, 1, 3, <<9, 9, 9, 9>>)
Sixteen == Record(Pointer, 28, 1, Zeros(16))
MCReplies ==
    [flags : {33152}, records : {<<>>, <<Address(1)>>, <<Alias, Address(2), Address(3)>>,
                                 <<Sixteen, Spelt(4)>>, <<Chaos, Alias>>, <<Chaos, Spelt(5)>>}]
    \cup [flags : {33155, 33664, 35200, 384}, records : {<<Address(1)>>}]
Dns == INSTANCE DnsExchange WITH
    Names <- MCNames, Ids <- {1, 65535}, Replies <- MCReplies, Capacity <- 300

\* LCP option lists of the peer: the empty list; acceptable, countered, rejected and
\* mixed requests; Acks and Naks of the local Magic-Number.
MCPolicy == [accept_pap |-> TRUE, accept_chap_md5 |-> TRUE]
MCLocalOptions == <<Opt("magic", 1)>>
MCPeerOptionLists ==
    { <<>>,
      <<Opt("magic", 1)>>, <<Opt("magic", 2)>>, <<Opt("magic", 0)>>,
      <<Opt("mru", 0)>>, <<Opt("auth", CHAP), Opt("magic", 2)>>,
      <<Opt("auth", OtherAuth), Opt("other", 7)>>,
      <<Opt("accm", 0), Opt("accm", 0)>> }

ASSUME InstancesAssumption == Control!ExchangeConstants

-----------------------------------------------------------------------------
controlVars == <<field, origin, packet>>
ipVars == <<ip_wire, ip_sent, fault>>
dnsVars == <<wire, request, answer, stage>>

\* A step of the part at work; the variables of the others stay.
Joint(line, control, chap, ip, ntp, dns, lcp) ==
    /\ UNCHANGED works
    /\ IF works = "line" THEN line ELSE UNCHANGED lineVars
    /\ IF works = "control" THEN control ELSE UNCHANGED controlVars
    /\ IF works = "chap" THEN chap ELSE UNCHANGED digestVars
    /\ IF works = "ip" THEN ip ELSE UNCHANGED ipVars
    /\ IF works = "ntp" THEN ntp ELSE UNCHANGED ntpVars
    /\ IF works = "dns" THEN dns ELSE UNCHANGED dnsVars
    /\ IF works = "lcp" THEN lcp ELSE UNCHANGED vars

ReferenceInit ==
    /\ works \in {"line", "control", "chap", "ip", "ntp", "dns", "lcp"}
    /\ LineInit /\ (works # "line" => sent = Unsent)
    /\ Control!Init /\ DigestInit /\ Ip!Init /\ NtpInit /\ Dns!Init /\ Init
ReferenceNext == Joint(LineNext, Control!Next, DigestNext, Ip!Next, NtpNext, Dns!Next, Next)

ReferenceSpec ==
    /\ ReferenceInit
    /\ [][ReferenceNext]_<<works, lineVars, controlVars, digestVars, ipVars, ntpVars, dnsVars, vars>>

-----------------------------------------------------------------------------
\* Every packet of LCP, PAP, CHAP and IPCP is read back as it was meant, and refused
\* when it lost its end; an accepted PAP field has one meaning; the option iterators
\* of lcp.rs and ipcp.rs end on every octet string and agree; exactly_acknowledges
\* accepts exactly the request with the Configure-Ack code (ControlExchange).
ControlPacketsExact == works = "control" => Control!ControlPacketsExact

\* What was sent through IPv4 and ICMP or UDP is what is received, a cut or damaged
\* packet is received by nobody (save one whose UDP checksum became zero, which means
\* that there is none: it is received as it was sent), a UDP checksum is never sent
\* zero, and an echo reply is taken for the answer to its own request only (IpExchange).
IpPacketsExact == works = "ip" => Ip!IpPacketsExact

\* A query carries its name whole, and the address taken is that of the first A
\* record of the answer (DnsExchange; dns.rs).
NamesAreExact == works = "dns" => Dns!NamesAreExact
=============================================================================
