------------------------------ MODULE DnsCodec ------------------------------
(***************************************************************************)
(* The DNS codec of crates/ndm24-ppp/src/dns.rs over octet strings.        *)
(***************************************************************************)
EXTENDS Octets, SequencesExt

HEADER_LENGTH == 12
TYPE_A == 1
CLASS_IN == 1
MAX_LABEL_LENGTH == 63
MAX_NAME_LENGTH == 253
FLAG_RECURSION_DESIRED == 256
Dot == 46
Hyphen == 45
Alphanumeric == 48 .. 57 \cup 65 .. 90 \cup 97 .. 122

StripDot(name) == IF name # <<>> /\ Last(name) = Dot THEN Front(name) ELSE name
RECURSIVE Labels(_)
Labels(name) ==
    LET dots == {i \in DOMAIN name : name[i] = Dot}
        first == CHOOSE i \in dots : \A j \in dots : i <= j
    IN  IF dots = {} THEN <<name>>
        ELSE <<SubSeq(name, 1, first - 1)>> \o Labels(From(name, first))
LabelError(label) ==
    IF label = <<>> THEN "EmptyLabel"
    ELSE IF Len(label) > MAX_LABEL_LENGTH THEN "LabelTooLong"
    ELSE IF \E i \in DOMAIN label : label[i] \notin Alphanumeric \cup {Hyphen}
         THEN "InvalidCharacter"
    ELSE "none"

NameError(name) ==
    IF name = <<>> THEN "EmptyName"
    ELSE IF Len(name) > MAX_NAME_LENGTH THEN "NameTooLong"
    ELSE IF \E i \in DOMAIN name : name[i] > 127 THEN "NonAscii"
    ELSE LET errors == SelectSeq([i \in DOMAIN Labels(name) |-> LabelError(Labels(name)[i])],
                                 LAMBDA e : e # "none")
         IN  IF errors = <<>> THEN "none" ELSE errors[1]

EncodedLabels(labels) == FlattenSeq([i \in DOMAIN labels |-> <<Len(labels[i])>> \o labels[i]])
encode_a_query(identifier, fullName, available) ==
    LET name == StripDot(fullName)
        body == EncodedLabels(Labels(name)) \o <<0>> \o BigEndian(TYPE_A) \o BigEndian(CLASS_IN)
    IN  IF NameError(name) # "none" THEN Err(NameError(name))
        ELSE IF available < HEADER_LENGTH + Len(body) THEN Err("OutputTooSmall")
        ELSE Ok(BigEndian(identifier) \o BigEndian(FLAG_RECURSION_DESIRED) \o BigEndian(1)
                \o Zeros(6) \o body)

RECURSIVE skip_name(_, _)
skip_name(bytes, offset) ==
    IF offset >= Len(bytes) THEN Err("Truncated")
    ELSE LET length == At(bytes, offset)
         IN  IF length = 0 THEN Ok(offset + 1)
             ELSE IF length \div 64 = 3
                  THEN IF offset + 1 >= Len(bytes) THEN Err("Truncated")
                       ELSE IF 256 * (length % 64) + At(bytes, offset + 1) >= Len(bytes)
                            THEN Err("MalformedName")
                       ELSE Ok(offset + 2)
             ELSE IF length > MAX_LABEL_LENGTH THEN Err("MalformedName")
             ELSE IF offset + 1 + length > Len(bytes) THEN Err("Truncated")
             ELSE skip_name(bytes, offset + 1 + length)

RECURSIVE SkipQuestions(_, _, _)
SkipQuestions(bytes, offset, count) ==
    LET name == skip_name(bytes, offset)
    IN  IF count = 0 THEN Ok(offset)
        ELSE IF ~IsOk(name) THEN name
        ELSE IF name.ok + 4 > Len(bytes) THEN Err("Truncated")
        ELSE SkipQuestions(bytes, name.ok + 4, count - 1)

Fits(bytes, offset, length) == Len(bytes) - offset >= length

IsAddressRecordByLength(bytes, record, data_length) == data_length = 4
IsAddressRecord(bytes, record, data_length) ==
    /\ read_u16(bytes, record) = TYPE_A
    /\ read_u16(bytes, record + 2) = CLASS_IN
    /\ data_length = 4

\* The first A record of class IN with four octets of data.
RECURSIVE FindAddress(_, _, _)
FindAddress(bytes, offset, count) ==
    LET name == skip_name(bytes, offset)
        record == name.ok
        data_length == read_u16(bytes, record + 8)
    IN  IF count = 0 THEN Err("NoIpv4Answer")
        ELSE IF ~IsOk(name) THEN name
        ELSE IF ~Fits(bytes, record, 10) THEN Err("Truncated")
        ELSE IF ~Fits(bytes, record + 10, data_length) THEN Err("Truncated")
        ELSE IF IsAddressRecord(bytes, record, data_length)
             THEN Ok(Slice(bytes, record + 10, record + 14))
        ELSE FindAddress(bytes, record + 10 + data_length, count - 1)

parse_a_response(identifier, bytes) ==
    IF Len(bytes) < HEADER_LENGTH THEN Err("Truncated")
    ELSE LET flags == read_u16(bytes, 2)
             question_count == read_u16(bytes, 4)
             answer_count == read_u16(bytes, 6)
             start == SkipQuestions(bytes, HEADER_LENGTH, question_count)
         IN  IF read_u16(bytes, 0) # identifier THEN Err("IdentifierMismatch")
             ELSE IF flags \div 32768 = 0 THEN Err("NotResponse")
             ELSE IF (flags \div 2048) % 16 # 0 THEN Err("UnsupportedOpcode")
             ELSE IF (flags \div 512) % 2 = 1 THEN Err("TruncatedResponse")
             ELSE IF flags % 16 # 0 THEN Err("ResponseCode")
             ELSE IF question_count = 0 THEN Err("NoQuestion")
             ELSE IF answer_count = 0 THEN Err("NoAnswer")
             ELSE IF ~IsOk(start) THEN start
             ELSE FindAddress(bytes, start.ok, answer_count)
=============================================================================
