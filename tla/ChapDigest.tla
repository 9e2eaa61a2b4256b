----------------------------- MODULE ChapDigest -----------------------------
(***************************************************************************)
(* response_digest of crates/ndm24-ppp/src/chap.rs: identifier, secret and *)
(* challenge are fed to the streaming MD5, whose update() keeps up to one  *)
(* block in a buffer.  compress() is a function of the blocks it is given, *)
(* so the blocks themselves stand for the state it computes.               *)
(***************************************************************************)
EXTENDS Integers, Sequences, SequencesExt

CONSTANTS Block,         \* octets in a block (64 in the code)
          LengthOctets,  \* octets of the length field (8 in the code)
          MaxPart        \* the longest secret or challenge

ASSUME DigestConstants == Block \in Nat /\ LengthOctets \in 1 .. Block - 1 /\ MaxPart \in Nat

VARIABLES md5,      \* [compressed, buffer, length_bytes]
          message,  \* the octets fed so far
          feeding   \* what response_digest feeds next
digestVars == <<md5, message, feeding>>

Md5New == [compressed |-> <<>>, buffer |-> <<>>, length_bytes |-> 0]

compress(m, block) == [m EXCEPT !.compressed = @ \o block]

\* Fill the buffer first, then take whole blocks, then keep the rest.
update(m, input) ==
    LET counted == [m EXCEPT !.length_bytes = @ + Len(input)]
        room == Block - Len(m.buffer)
        count == IF m.buffer = <<>> THEN 0 ELSE IF room < Len(input) THEN room ELSE Len(input)
        filled == m.buffer \o SubSeq(input, 1, count)
        rest == SubSeq(input, count + 1, Len(input))
        whole == Block * (Len(rest) \div Block)
        flushed == IF Len(filled) = Block THEN compress([counted EXCEPT !.buffer = <<>>], filled)
                   ELSE [counted EXCEPT !.buffer = filled]
    IN  IF m.buffer # <<>> /\ rest = <<>> THEN flushed
        ELSE [compress(flushed, SubSeq(rest, 1, whole))
                  EXCEPT !.buffer = SubSeq(rest, whole + 1, Len(rest))]

\* bit_length in little-endian octets.
LengthField(n) == [i \in 1 .. LengthOctets |-> ((8 * n) \div 256 ^ (i - 1)) % 256]
Padding(n) == [i \in 1 .. n |-> IF i = 1 THEN 128 ELSE 0]
finalizeNoSpare(m) ==
    update(update(m, Padding(Block - LengthOctets - Len(m.buffer))), LengthField(m.length_bytes))
finalize(m) ==
    LET limit == Block - LengthOctets
        padding_length == IF Len(m.buffer) < limit THEN limit - Len(m.buffer)
                          ELSE limit + Block - Len(m.buffer)
    IN  update(update(m, Padding(padding_length)), LengthField(m.length_bytes))

\* Octet i of the message is i: distinct octets show every loss and swap.
Chunk(n) == [i \in 1 .. n |-> Len(message) + i]
Feed(n, now, after) ==
    /\ feeding = now
    /\ md5' = update(md5, Chunk(n))
    /\ message' = message \o Chunk(n)
    /\ feeding' = after

DigestInit == md5 = Md5New /\ message = <<>> /\ feeding = "identifier"
FeedIdentifier == Feed(1, "identifier", "secret")
FeedSecret(n) == Feed(n, "secret", "challenge")
FeedChallenge(n) == Feed(n, "challenge", "finalize")
Finalize ==
    /\ feeding = "finalize"
    /\ md5' = finalize(md5)
    /\ feeding' = "done"
    /\ UNCHANGED message
DigestNext == FeedIdentifier \/ (\E n \in 0 .. MaxPart : FeedSecret(n) \/ FeedChallenge(n)) \/ Finalize
DigestSpec == DigestInit /\ [][DigestNext]_digestVars

-----------------------------------------------------------------------------
\* However the message is cut into updates, what was compressed and what is
\* buffered are the message in order, and the buffer is never a full block.
AbsorbsInOrder ==
    feeding # "done" => md5.compressed \o md5.buffer = message /\ Len(md5.buffer) < Block

\* finalize() leaves an empty buffer (its debug_assert) after compressing the
\* message, one 0x80, the fewest zeros that fit, and the length of the message.
PadsAsSpecified ==
    feeding = "done" =>
        LET tail == SubSeq(md5.compressed, Len(message) + 1, Len(md5.compressed))
            zeros == Len(tail) - 1 - LengthOctets
        IN  /\ md5.buffer = <<>>
            /\ Len(md5.compressed) % Block = 0
            /\ zeros \in 0 .. Block - 1
            /\ IsPrefix(message, md5.compressed)
            /\ tail = Padding(1 + zeros) \o LengthField(Len(message))

\* The compression function gets the padded message, however it was cut.
DigestExact == AbsorbsInOrder /\ PadsAsSpecified
=============================================================================
