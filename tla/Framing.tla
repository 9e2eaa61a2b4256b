------------------------------ MODULE Framing ------------------------------
(***************************************************************************)
(* The RFC 1662 codec of crates/ndm24-ppp/src/lib.rs: the 16-bit FCS, the  *)
(* batch encoder encode_async, the restartable AsyncEncoder and the        *)
(* AsyncDecoder.  Octets and checksums are numbers; encoder and decoder    *)
(* are records, every method a function from record to record.             *)
(***************************************************************************)
EXTENDS Integers, Sequences

CONSTANTS SendAccm,    \* control octets the sender escapes
          ReceiveAccm, \* control octets the receiver removes
          Maximum      \* maximum_unescaped_length

ASSUME FramingConstants ==
    SendAccm \subseteq 0 .. 31 /\ ReceiveAccm \subseteq 0 .. 31 /\ Maximum \in Nat

FLAG_SEQUENCE == 126
CONTROL_ESCAPE == 125
TRANSPARENCY_XOR == 32
INITIAL_FCS16 == 65535
GOOD_FCS16 == 61624
FCS16_POLYNOMIAL_REVERSED == 33800
FCS16_LENGTH == 2
MINIMUM_FRAME_WITH_FCS_LENGTH == 4

\* Exclusive or of 16-bit numbers: the bits of b set turn those of a over.
Turned(n, bit) == IF (n \div bit) % 2 = 1 THEN n - bit ELSE n + bit
a ^^ b ==
    LET turned[i \in 0 .. 16] ==
          IF i = 0 THEN a
          ELSE IF (b \div 2 ^ (i - 1)) % 2 = 1 THEN Turned(turned[i - 1], 2 ^ (i - 1))
          ELSE turned[i - 1]
    IN  turned[16]

\* Eight shifts of the reversed polynomial.
Shift(fcs) == IF fcs % 2 = 1 THEN (fcs \div 2) ^^ FCS16_POLYNOMIAL_REVERSED ELSE fcs \div 2
update_fcs16(fcs, octet) ==
    Shift(Shift(Shift(Shift(Shift(Shift(Shift(Shift(fcs ^^ octet))))))))

fcs16(octets) ==
    LET fcs[i \in 0 .. Len(octets)] ==
          IF i = 0 THEN INITIAL_FCS16 ELSE update_fcs16(fcs[i - 1], octets[i])
    IN  fcs[Len(octets)]
LittleEndian(fcs) == <<fcs % 256, fcs \div 256>>
append_fcs16(frame) == frame \o LittleEndian(65535 - fcs16(frame))

has_valid_fcs16(frame_with_fcs) == fcs16(frame_with_fcs) = GOOD_FCS16

must_escapeControlsOnly(octet) == octet = FLAG_SEQUENCE \/ octet \in SendAccm
must_escape(octet) ==
    octet \in {FLAG_SEQUENCE, CONTROL_ESCAPE} \/ octet \in SendAccm

\* encode_async: flag, escaped frame and FCS, flag.
Escaped(octet) ==
    IF must_escape(octet) THEN <<CONTROL_ESCAPE, octet ^^ TRANSPARENCY_XOR>> ELSE <<octet>>
encode_async(frame) ==
    LET unescaped == append_fcs16(frame)
        encoded[i \in 0 .. Len(unescaped)] ==
          IF i = 0 THEN <<FLAG_SEQUENCE>> ELSE encoded[i - 1] \o Escaped(unescaped[i])
    IN  encoded[Len(unescaped)] \o <<FLAG_SEQUENCE>>

-----------------------------------------------------------------------------
\* AsyncEncoder: one wire octet at a time.

NewEncoder(frame) ==
    [frame |-> frame, position |-> 0, fcs |-> INITIAL_FCS16, stage |-> "OpeningFlag",
     escape_second |-> FALSE]

Coding == {"Frame", "FcsLow", "FcsHigh"}

logical_octet(e) ==
    CASE e.stage = "Frame" -> e.frame[e.position + 1]
      [] e.stage = "FcsLow" -> LittleEndian(65535 - e.fcs)[1]
      [] e.stage = "FcsHigh" -> LittleEndian(65535 - e.fcs)[2]

\* For every stage but Complete.
peek(e) ==
    IF e.stage \notin Coding THEN FLAG_SEQUENCE
    ELSE IF ~must_escape(logical_octet(e)) THEN logical_octet(e)
    ELSE IF e.escape_second THEN logical_octet(e) ^^ TRANSPARENCY_XOR
    ELSE CONTROL_ESCAPE

finish_logical_octet(e) ==
    CASE e.stage = "Frame" ->
           [e EXCEPT !.fcs = update_fcs16(@, logical_octet(e)), !.position = @ + 1,
                     !.stage = IF e.position + 1 = Len(e.frame) THEN "FcsLow" ELSE "Frame"]
      [] e.stage = "FcsLow" -> [e EXCEPT !.stage = "FcsHigh"]
      [] e.stage = "FcsHigh" -> [e EXCEPT !.stage = "ClosingFlag"]

advanceForgetsEscape(e) ==
    CASE e.stage = "OpeningFlag" ->
           [e EXCEPT !.stage = IF e.frame = <<>> THEN "FcsLow" ELSE "Frame"]
      [] e.stage \in Coding ->
           IF must_escape(logical_octet(e)) /\ ~e.escape_second
           THEN [e EXCEPT !.escape_second = TRUE]
           ELSE finish_logical_octet(e)
      [] e.stage = "ClosingFlag" -> [e EXCEPT !.stage = "Complete"]
      [] e.stage = "Complete" -> e

\* The octet just peeked at was accepted.
advance(e) ==
    CASE e.stage = "OpeningFlag" ->
           [e EXCEPT !.stage = IF e.frame = <<>> THEN "FcsLow" ELSE "Frame"]
      [] e.stage \in Coding ->
           IF must_escape(logical_octet(e)) /\ ~e.escape_second
           THEN [e EXCEPT !.escape_second = TRUE]
           ELSE finish_logical_octet([e EXCEPT !.escape_second = FALSE])
      [] e.stage = "ClosingFlag" -> [e EXCEPT !.stage = "Complete"]
      [] e.stage = "Complete" -> e

-----------------------------------------------------------------------------
\* AsyncDecoder.  `event` is what the last octet returned: none, a frame, or why
\* a frame was thrown away.

NoEvent == [kind |-> "None", frame |-> <<>>]
NewDecoder ==
    [frame |-> <<>>, synchronized |-> FALSE, escaped |-> FALSE, overflowed |-> FALSE,
     event |-> NoEvent]

Cleared(d, kind) ==
    [d EXCEPT !.frame = <<>>, !.synchronized = TRUE, !.escaped = FALSE, !.overflowed = FALSE,
              !.event = [NoEvent EXCEPT !.kind = kind]]

finish_at_flag(d) ==
    IF ~d.synchronized THEN Cleared(d, "None")
    ELSE IF d.escaped THEN Cleared(d, "EscapeBeforeFlag")
    ELSE IF d.overflowed THEN Cleared(d, "Overflow")
    ELSE IF d.frame = <<>> THEN Cleared(d, "None")
    ELSE IF Len(d.frame) < MINIMUM_FRAME_WITH_FCS_LENGTH THEN Cleared(d, "TooShort")
    ELSE IF ~has_valid_fcs16(d.frame) THEN Cleared(d, "FcsError")
    ELSE [Cleared(d, "Frame") EXCEPT
            !.event.frame = SubSeq(d.frame, 1, Len(d.frame) - FCS16_LENGTH)]

Store(d, octet) ==
    IF Len(d.frame) = Maximum
    THEN [d EXCEPT !.frame = <<>>, !.overflowed = TRUE, !.escaped = FALSE, !.event = NoEvent]
    ELSE [d EXCEPT !.frame = Append(@, octet), !.escaped = FALSE, !.event = NoEvent]

push(d, octet) ==
    IF octet = FLAG_SEQUENCE THEN finish_at_flag(d)
    ELSE IF ~d.synchronized \/ d.overflowed \/ octet \in ReceiveAccm
    THEN [d EXCEPT !.event = NoEvent]
    ELSE IF d.escaped THEN Store(d, octet ^^ TRANSPARENCY_XOR)
    ELSE IF octet = CONTROL_ESCAPE THEN [d EXCEPT !.escaped = TRUE, !.event = NoEvent]
    ELSE Store(d, octet)

reset(d) == NewDecoder
=============================================================================
