----------------------------- MODULE FramedLine -----------------------------
(***************************************************************************)
(* An AsyncEncoder that pumps frames into a bounded byte ring and an       *)
(* AsyncDecoder that takes them out, over a line that may drop, change or  *)
(* add octets, with resets of the decoder (crates/ndm24-ppp/src/lib.rs).   *)
(***************************************************************************)
EXTENDS Framing

CONSTANTS Traffic,   \* the sequences of frames that may be sent
          RingSize,  \* octets the ring holds before pump is refused
          Noise,     \* octets the line may make up
          MaxFaults  \* bound on line faults and resets

ASSUME LineConstants ==
    /\ Traffic \subseteq Seq(Seq(0 .. 255)) \ {<<>>}
    /\ RingSize \in Nat /\ MaxFaults \in Nat /\ Noise \subseteq 0 .. 255

VARIABLES sent,      \* the frames to send, in order
          next,      \* index of the frame in the encoder
          encoder, emitted, ring, decoder, delivered, faults

lineVars == <<sent, next, encoder, emitted, ring, decoder, delivered, faults>>

LineInit ==
    /\ sent \in Traffic
    /\ next = 1
    /\ encoder = NewEncoder(sent[1])
    /\ emitted = 0
    /\ ring = <<>>
    /\ decoder = NewDecoder
    /\ delivered = <<>>
    /\ faults = 0

\* pump: the sink takes the octet peeked at, and only then the encoder advances.
Pump ==
    /\ encoder.stage # "Complete" /\ Len(ring) < RingSize
    /\ ring' = Append(ring, peek(encoder))
    /\ encoder' = advance(encoder)
    /\ emitted' = emitted + 1
    /\ UNCHANGED <<sent, next, decoder, delivered, faults>>

\* The caller hands over the next frame once this one is complete.
NextFrame ==
    /\ encoder.stage = "Complete" /\ next < Len(sent)
    /\ next' = next + 1
    /\ encoder' = NewEncoder(sent[next + 1])
    /\ emitted' = 0
    /\ UNCHANGED <<sent, ring, decoder, delivered, faults>>

Decode(octet) ==
    /\ decoder' = push(decoder, octet)
    /\ delivered' = IF decoder'.event.kind = "Frame"
                    THEN Append(delivered, decoder'.event.frame) ELSE delivered

Deliver ==
    /\ ring # <<>>
    /\ Decode(Head(ring))
    /\ ring' = Tail(ring)
    /\ UNCHANGED <<sent, next, encoder, emitted, faults>>

Fault == faults < MaxFaults /\ faults' = faults + 1 /\ UNCHANGED <<sent, next, encoder, emitted>>

Drop == ring # <<>> /\ ring' = Tail(ring) /\ UNCHANGED <<decoder, delivered>> /\ Fault
Change == \E octet \in Noise : ring # <<>> /\ Decode(octet) /\ ring' = Tail(ring) /\ Fault
Add == \E octet \in Noise : Decode(octet) /\ UNCHANGED ring /\ Fault
Reset == decoder' = reset(decoder) /\ UNCHANGED <<ring, delivered>> /\ Fault

LineNext == Pump \/ NextFrame \/ Deliver \/ Drop \/ Change \/ Add \/ Reset

LineSpec == LineInit /\ [][LineNext]_lineVars

-----------------------------------------------------------------------------
Fits(frame) == Len(frame) + FCS16_LENGTH <= Maximum
Finished == encoder.stage = "Complete" /\ next = Len(sent) /\ ring = <<>>

\* However often the ring refuses an octet, the encoder puts on the wire exactly
\* what encode_async computes for the frame in one go.
EncoderMatchesBatch ==
    LET wire == encode_async(encoder.frame)
    IN  IF encoder.stage = "Complete" THEN emitted = Len(wire)
        ELSE peek(encoder) = wire[emitted + 1]

\* The decoder hands up only frames that were sent, whole and in order: what the
\* line does to octets is caught by the FCS, the flags or the length limit.
OnlySentFrames ==
    \E origin \in [DOMAIN delivered -> DOMAIN sent] :
        /\ \A i \in DOMAIN delivered : delivered[i] = sent[origin[i]] /\ Fits(sent[origin[i]])
        /\ \A i, j \in DOMAIN delivered : i < j => origin[i] < origin[j]

\* A line without faults delivers every frame that fits the receiver's limit; each
\* fault or reset costs at most one frame, after which the decoder is in step.
EachFaultCostsOneFrame ==
    Finished => Len(delivered) >= Len(SelectSeq(sent, Fits)) - faults

\* A faulty line costs frames and never makes one up.
LineDelivers == OnlySentFrames /\ EachFaultCostsOneFrame
=============================================================================
