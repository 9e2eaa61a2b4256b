------------------------------- MODULE Octets -------------------------------
(***************************************************************************)
(* Octet strings as the packet codecs of crates/ndm24-ppp/src read and     *)
(* write them: big-endian 16-bit numbers at an offset from zero, slices    *)
(* [from, to), and results that are a value or the kind of an error.       *)
(***************************************************************************)
EXTENDS Integers, Sequences

Octet == 0 .. 255

Ok(value) == [ok |-> value]
Err(kind) == [error |-> kind]
IsOk(result) == "ok" \in DOMAIN result

At(bytes, offset) == bytes[offset + 1]
Slice(bytes, from, to) == SubSeq(bytes, from + 1, to)
From(bytes, from) == SubSeq(bytes, from + 1, Len(bytes))

BigEndian(value) == <<value \div 256, value % 256>>
read_u16(bytes, offset) == 256 * At(bytes, offset) + At(bytes, offset + 1)
write_u16(bytes, offset, value) ==
    [bytes EXCEPT ![offset + 1] = value \div 256, ![offset + 2] = value % 256]
Zeros(length) == [i \in 1 .. length |-> 0]
=============================================================================
