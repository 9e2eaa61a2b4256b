---------------------------- MODULE NtpExchange -----------------------------
(***************************************************************************)
(* The NTP codec of crates/ndm24-ppp/src/ntp.rs, the requests the client   *)
(* makes with it and the answers servers make of them (external), whole or *)
(* cut short.  A 32-bit number is its four octets; a timestamp is          *)
(* [seconds, fraction] of such numbers.                                    *)
(***************************************************************************)
EXTENDS Octets

CONSTANTS Times,     \* transmit timestamps of requests, and server times
          Servers,   \* [leap, version, mode, stratum] a server may show
          Buffers    \* sizes of the buffer the client encodes into

ASSUME NtpConstants ==
    /\ Times \subseteq [seconds : [1 .. 4 -> Octet], fraction : [1 .. 4 -> Octet]]
    /\ Servers \subseteq [leap : 0 .. 3, version : 0 .. 7, mode : 0 .. 7, stratum : Octet]
    /\ Buffers \subseteq Nat

PACKET_LENGTH == 48
MODE_CLIENT == 3
MODE_SERVER == 4
LEAP_UNSYNCHRONIZED == 3
UNIX_EPOCH_OFFSET_SECONDS == <<131, 170, 126, 128>>  \* 2208988800

Timestamp(seconds, fraction) == [seconds |-> seconds, fraction |-> fraction]
ZERO == Timestamp(Zeros(4), Zeros(4))

\* checked_sub on the two 16-bit halves; {} is None.
unix_seconds(timestamp) ==
    LET low == read_u16(timestamp.seconds, 2) - read_u16(UNIX_EPOCH_OFFSET_SECONDS, 2)
        borrow == IF low < 0 THEN 1 ELSE 0
        high == read_u16(timestamp.seconds, 0) - read_u16(UNIX_EPOCH_OFFSET_SECONDS, 0) - borrow
    IN  IF high < 0 THEN {} ELSE {BigEndian(high) \o BigEndian(low % 65536)}

read_timestamp(bytes, offset) ==
    Timestamp(Slice(bytes, offset, offset + 4), Slice(bytes, offset + 4, offset + 8))
write_timestamp(bytes, offset, timestamp) ==
    Slice(bytes, 0, offset) \o timestamp.seconds \o timestamp.fraction \o From(bytes, offset + 8)

OriginateOfReference(bytes) == read_timestamp(bytes, 16)
Originate(bytes) == read_timestamp(bytes, 24)

ServerResponseParse(bytes, expected_originate) ==
    IF Len(bytes) < PACKET_LENGTH THEN Err("Truncated")
    ELSE LET leap_indicator == bytes[1] \div 64
             version == (bytes[1] \div 8) % 8
             mode == bytes[1] % 8
             stratum == bytes[2]
         IN  IF version \notin 3 .. 4 THEN Err("UnsupportedVersion")
             ELSE IF mode # MODE_SERVER THEN Err("UnexpectedMode")
             ELSE IF stratum = 0 THEN Err("KissOfDeath")
             ELSE IF stratum > 15 THEN Err("InvalidStratum")
             ELSE IF leap_indicator = LEAP_UNSYNCHRONIZED THEN Err("Unsynchronized")
             ELSE IF Originate(bytes) # expected_originate THEN Err("OriginateTimestampMismatch")
             ELSE Ok([leap_indicator |-> leap_indicator, version |-> version, stratum |-> stratum,
                      reference_id |-> Slice(bytes, 12, 16), originate |-> Originate(bytes),
                      receive |-> read_timestamp(bytes, 32),
                      transmit |-> read_timestamp(bytes, 40)])

encode_client_request(transmit_timestamp, available) ==
    IF available < PACKET_LENGTH THEN Err("OutputTooSmall")
    ELSE Ok(write_timestamp(<<4 * 8 + MODE_CLIENT>> \o Zeros(PACKET_LENGTH - 1), 40,
                            transmit_timestamp))

-----------------------------------------------------------------------------
VARIABLES ntp_wire,     \* the octets in flight
          ntp_request,  \* {} or {the timestamp asked with}
          ntp_answer,   \* {} or {what a server answered}
          ntp_stage     \* "idle", "refused", "asked", "answered" or "cut"
ntpVars == <<ntp_wire, ntp_request, ntp_answer, ntp_stage>>

NtpInit == ntp_wire = <<>> /\ ntp_request = {} /\ ntp_answer = {} /\ ntp_stage = "idle"

AskTime(time, available) ==
    LET encoded == encode_client_request(time, available)
    IN  /\ ntp_stage = "idle"
        /\ ntp_request' = {time}
        /\ IF IsOk(encoded) THEN ntp_wire' = encoded.ok /\ ntp_stage' = "asked"
           ELSE ntp_stage' = "refused" /\ UNCHANGED ntp_wire
        /\ UNCHANGED ntp_answer

\* A server copies the request's transmit timestamp to the answer's originate.
ServeTime(server, now) ==
    /\ ntp_stage = "asked"
    /\ ntp_wire' = <<64 * server.leap + 8 * server.version + server.mode, server.stratum>>
                   \o Zeros(22) \o Slice(ntp_wire, 40, 48) \o now.seconds \o now.fraction
                   \o now.seconds \o now.fraction
    /\ ntp_answer' = {[server |-> server, now |-> now]}
    /\ ntp_stage' = "answered"
    /\ UNCHANGED ntp_request

CutTime ==
    /\ ntp_stage \in {"answered", "cut"} /\ ntp_wire # <<>>
    /\ ntp_wire' = SubSeq(ntp_wire, 1, Len(ntp_wire) - 1)
    /\ ntp_stage' = "cut"
    /\ UNCHANGED <<ntp_request, ntp_answer>>

NtpNext ==
    \/ \E time \in Times, available \in Buffers : AskTime(time, available)
    \/ \E server \in Servers, now \in Times : ServeTime(server, now)
    \/ CutTime
NtpSpec == NtpInit /\ [][NtpNext]_ntpVars

-----------------------------------------------------------------------------
Usable(server) ==
    server.version \in 3 .. 4 /\ server.mode = 4 /\ server.stratum \in 1 .. 15 /\ server.leap # 3

\* The client takes the time of an answer exactly when a synchronised server
\* made it, whole, for the request that carried the expected timestamp: not
\* for an earlier request, not of its own request coming back.
TimeIsForThisRequest ==
    \A expected \in Times :
        LET parsed == ServerResponseParse(ntp_wire, expected)
        IN  IF ntp_stage = "answered" /\ \A a \in ntp_answer : Usable(a.server)
               /\ ntp_request = {expected}
            THEN \A a \in ntp_answer : parsed = Ok(
                     [leap_indicator |-> a.server.leap, version |-> a.server.version,
                      stratum |-> a.server.stratum, reference_id |-> Zeros(4),
                      originate |-> expected, receive |-> a.now, transmit |-> a.now])
            ELSE ~IsOk(parsed)

\* The Unix time of an answer is its transmit time less the 70 years, or
\* nothing before 1970: adding the offset back carries between the halves.
UnixTimeIsExact ==
    \A a \in ntp_answer :
        LET seconds == a.now.seconds
            high == read_u16(UNIX_EPOCH_OFFSET_SECONDS, 0)
            low == read_u16(UNIX_EPOCH_OFFSET_SECONDS, 2)
            before == \/ read_u16(seconds, 0) < high
                      \/ read_u16(seconds, 0) = high /\ read_u16(seconds, 2) < low
        IN  IF before THEN unix_seconds(a.now) = {}
            ELSE \E u \in unix_seconds(a.now) :
                     LET sum == read_u16(u, 2) + low
                     IN  seconds = BigEndian(read_u16(u, 0) + high + (sum \div 65536))
                                   \o BigEndian(sum % 65536)

\* The NTP client takes exactly what was answered, and its Unix time is exact.
TimeIsExact == TimeIsForThisRequest /\ UnixTimeIsExact
=============================================================================
