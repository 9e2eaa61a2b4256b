----------------------------- MODULE WireProofs -----------------------------
(***************************************************************************)
(* Proofs about the codecs of the wire, for every content, every size and  *)
(* every way of feeding them:                                              *)
(*  - EncoderCorrect: the interruptible frame encoder, one octet at a time *)
(*    and whatever the ring takes, emits what the batch encoder makes;     *)
(*  - DigestCorrect: the CHAP digest compresses the padded message, however*)
(*    its parts fall on the blocks;                                        *)
(*  - TimeCorrect: the NTP client takes the time of the answer to its      *)
(*    request, and the Unix time it makes of it is exact.                  *)
(***************************************************************************)
EXTENDS FramedLine, ChapDigest, NtpExchange, SequenceTheorems, WellFoundedInduction, TLAPS

-----------------------------------------------------------------------------
(***************************************************************************)
(* The frame encoder of crates/ndm24-ppp.  The batch encoder and the FCS   *)
(* are recursive over the octets: their tables are introduced first, with  *)
(* what each entry is.                                                     *)
(***************************************************************************)

\* Induction over 0 .. n, for a set of numbers.
LEMMA CountedInduction ==
    ASSUME NEW n \in Nat, NEW S, 0 \in S, \A k \in 0 .. n - 1 : k \in S => k + 1 \in S
    PROVE  \A k \in 0 .. n : k \in S
<1> DEFINE Out == {k \in 0 .. n : k \notin S}
<1> SUFFICES ASSUME Out # {} PROVE FALSE
  OBVIOUS
<1>1. Out \subseteq Nat
  OBVIOUS
<1>2. PICK x \in Out : \A y \in Out : ~(<<y, x>> \in OpToRel(<, Nat))
  <2> HIDE DEF Out
  <2> QED BY <1>1, NatLessThanWellFounded, WFMin
<1>3. x \in Nat /\ \A y \in Out : ~(y < x)
  BY <1>1, <1>2 DEF OpToRel
<1>4. x \in 1 .. n /\ x \notin S
  BY <1>3
<1>5. x - 1 \in 0 .. n - 1 /\ x - 1 \in S
  BY <1>3, <1>4
<1>6. (x - 1) + 1 \in S
  BY <1>5
<1> QED BY <1>4, <1>6

FcsTable(octets) ==
    CHOOSE fcs : fcs = [i \in 0 .. Len(octets) |->
        IF i = 0 THEN INITIAL_FCS16 ELSE update_fcs16(fcs[i - 1], octets[i])]

\* fcs16 is the last entry of its table,
LEMMA FcsOfTable == ASSUME NEW octets PROVE fcs16(octets) = FcsTable(octets)[Len(octets)]
BY DEF fcs16, FcsTable

\* in which every octet updates the entry before it.
LEMMA FcsTableStep ==
    ASSUME NEW S, NEW octets \in Seq(S)
    PROVE  /\ FcsTable(octets)[0] = INITIAL_FCS16
           /\ \A i \in 1 .. Len(octets) : FcsTable(octets)[i] = update_fcs16(FcsTable(octets)[i - 1], octets[i])
<1> DEFINE n == Len(octets)
           Steps(fcs, k) == fcs = [i \in 0 .. k |->
               IF i = 0 THEN INITIAL_FCS16 ELSE update_fcs16(fcs[i - 1], octets[i])]
           Known == {k \in 0 .. n : \E fcs : Steps(fcs, k)}
<1>1. n \in Nat
  BY LenProperties
<1>2. 0 \in Known
  <2> DEFINE one == [i \in 0 .. 0 |-> INITIAL_FCS16]
  <2>1. Steps(one, 0)
    OBVIOUS
  <2> HIDE DEF one, Steps
  <2> QED BY <1>1, <2>1
<1>3. ASSUME NEW k \in 0 .. n - 1, k \in Known
      PROVE  k + 1 \in Known
  <2>1. PICK fcs : Steps(fcs, k)
    BY <1>3
  <2> DEFINE longer == [i \in 0 .. k + 1 |->
                 IF i = k + 1 THEN update_fcs16(fcs[k], octets[k + 1]) ELSE fcs[i]]
  <2>2. Steps(longer, k + 1)
    <3>1. ASSUME NEW i \in 0 .. k + 1
          PROVE  longer[i] = IF i = 0 THEN INITIAL_FCS16 ELSE update_fcs16(longer[i - 1], octets[i])
      <4>1. CASE i = k + 1
        BY <4>1, <1>1
      <4>2. CASE i = 0
        BY <4>2, <2>1, <1>1
      <4>3. CASE i # 0 /\ i # k + 1
        BY <4>3, <2>1, <1>1
      <4> QED BY <4>1, <4>2, <4>3
    <3> QED BY <3>1
  <2> HIDE DEF longer, Steps
  <2> QED BY <2>2, <1>1
<1>4. n \in Known
  <2> HIDE DEF Known, n
  <2>1. \A k \in 0 .. n : k \in Known
    BY <1>1, <1>2, <1>3, CountedInduction
  <2> QED BY <2>1, <1>1
<1>5. Steps(FcsTable(octets), n)
  BY <1>4 DEF FcsTable
<1> QED BY <1>5, <1>1

\* What encode_async has written after each octet, flag first.
EncodedTable(unescaped) ==
    CHOOSE encoded : encoded = [i \in 0 .. Len(unescaped) |->
        IF i = 0 THEN <<FLAG_SEQUENCE>> ELSE encoded[i - 1] \o Escaped(unescaped[i])]

\* encode_async is its table and the closing flag.
LEMMA EncodedOfTable ==
    ASSUME NEW frame
    PROVE  encode_async(frame) =
               EncodedTable(append_fcs16(frame))[Len(append_fcs16(frame))] \o <<FLAG_SEQUENCE>>
BY DEF encode_async, EncodedTable

\* Every octet is appended, escaped, to the entry before it.
LEMMA EncodedTableStep ==
    ASSUME NEW S, NEW octets \in Seq(S)
    PROVE  /\ EncodedTable(octets)[0] = <<FLAG_SEQUENCE>>
           /\ \A i \in 1 .. Len(octets) :
                  EncodedTable(octets)[i] = EncodedTable(octets)[i - 1] \o Escaped(octets[i])
<1> DEFINE n == Len(octets)
           first == <<FLAG_SEQUENCE>>
           Wider(s, i) == s \o Escaped(octets[i])
           Steps(encoded, k) == encoded = [i \in 0 .. k |->
               IF i = 0 THEN first ELSE Wider(encoded[i - 1], i)]
           Known == {k \in 0 .. n : \E encoded : Steps(encoded, k)}
<1>1. n \in Nat
  BY LenProperties
<1> HIDE DEF first, Wider
<1>2. 0 \in Known
  <2> DEFINE one == [i \in 0 .. 0 |-> first]
  <2>1. Steps(one, 0)
    OBVIOUS
  <2> HIDE DEF one, Steps
  <2> QED BY <1>1, <2>1
<1>3. ASSUME NEW k \in 0 .. n - 1, k \in Known
      PROVE  k + 1 \in Known
  <2>1. PICK encoded : Steps(encoded, k)
    BY <1>3
  <2> DEFINE longer == [i \in 0 .. k + 1 |->
                 IF i = k + 1 THEN Wider(encoded[k], k + 1) ELSE encoded[i]]
  <2>2. Steps(longer, k + 1)
    <3>1. ASSUME NEW i \in 0 .. k + 1
          PROVE  longer[i] = IF i = 0 THEN first ELSE Wider(longer[i - 1], i)
      <4>1. CASE i = k + 1
        BY <4>1, <1>1
      <4>2. CASE i = 0
        BY <4>2, <2>1, <1>1
      <4>3. CASE i # 0 /\ i # k + 1
        BY <4>3, <2>1, <1>1
      <4> QED BY <4>1, <4>2, <4>3
    <3> QED BY <3>1
  <2> HIDE DEF longer, Steps
  <2> QED BY <2>2, <1>1
<1>4. n \in Known
  <2> HIDE DEF Known, n
  <2>1. \A k \in 0 .. n : k \in Known
    BY <1>1, <1>2, <1>3, CountedInduction
  <2> QED BY <2>1, <1>1
<1>5. Steps(EncodedTable(octets), n)
  BY <1>4 DEF EncodedTable, first, Wider
<1>6. /\ EncodedTable(octets)[0] = first
      /\ \A i \in 1 .. n : EncodedTable(octets)[i] = Wider(EncodedTable(octets)[i - 1], i)
  BY <1>5, <1>1
<1> QED BY <1>6 DEF first, Wider

\* What may be on the wire for these octets.
WireSymbols(octets) ==
    {FLAG_SEQUENCE, CONTROL_ESCAPE} \cup {octets[i] : i \in 1 .. Len(octets)}
    \cup {octets[i] ^^ TRANSPARENCY_XOR : i \in 1 .. Len(octets)}

\* An octet is one symbol on the wire, or two.
LEMMA EscapedType ==
    ASSUME NEW S, NEW octets \in Seq(S), NEW i \in 1 .. Len(octets)
    PROVE  /\ Escaped(octets[i]) \in Seq(WireSymbols(octets))
           /\ ~must_escape(octets[i]) => /\ Len(Escaped(octets[i])) = 1
                                         /\ Escaped(octets[i])[1] = octets[i]
           /\ must_escape(octets[i]) => /\ Len(Escaped(octets[i])) = 2
                                        /\ Escaped(octets[i])[1] = CONTROL_ESCAPE
                                        /\ Escaped(octets[i])[2] = octets[i] ^^ TRANSPARENCY_XOR
<1> DEFINE W == WireSymbols(octets)
           turned == octets[i] ^^ TRANSPARENCY_XOR
<1>1. octets[i] \in W /\ turned \in W /\ CONTROL_ESCAPE \in W
  BY DEF WireSymbols
<1>2. Escaped(octets[i]) = IF must_escape(octets[i]) THEN <<CONTROL_ESCAPE, turned>> ELSE <<octets[i]>>
  BY DEF Escaped
<1> HIDE DEF W, turned
<1>3. <<octets[i]>> \in Seq(W) /\ Len(<<octets[i]>>) = 1 /\ <<octets[i]>>[1] = octets[i]
  BY <1>1
<1>4. /\ <<CONTROL_ESCAPE, turned>> \in Seq(W) /\ Len(<<CONTROL_ESCAPE, turned>>) = 2
      /\ <<CONTROL_ESCAPE, turned>>[1] = CONTROL_ESCAPE /\ <<CONTROL_ESCAPE, turned>>[2] = turned
  BY <1>1
<1> HIDE DEF Escaped
<1> QED BY <1>2, <1>3, <1>4 DEF W, turned

\* Every entry is a string of symbols.
LEMMA EncodedTableType ==
    ASSUME NEW S, NEW octets \in Seq(S)
    PROVE  \A k \in 0 .. Len(octets) :
               /\ EncodedTable(octets)[k] \in Seq(WireSymbols(octets))
               /\ Len(EncodedTable(octets)[k]) \in Nat
<1> DEFINE n == Len(octets)
           T == EncodedTable(octets)
           W == WireSymbols(octets)
           Good == {k \in 0 .. n : T[k] \in Seq(W)}
<1>1. n \in Nat
  BY LenProperties
<1>2. T[0] = <<FLAG_SEQUENCE>> /\ \A i \in 1 .. n : T[i] = T[i - 1] \o Escaped(octets[i])
  BY EncodedTableStep
<1>3. 0 \in Good
  <2>1. FLAG_SEQUENCE \in W
    BY DEF WireSymbols
  <2> HIDE DEF W, T
  <2>2. <<FLAG_SEQUENCE>> \in Seq(W)
    BY <2>1
  <2>3. T[0] \in Seq(W)
    BY <1>2, <2>2
  <2> QED BY <1>1, <2>3
<1>4. ASSUME NEW k \in 0 .. n - 1, k \in Good
      PROVE  k + 1 \in Good
  <2>1. T[k] \in Seq(W) /\ k + 1 \in 1 .. n /\ (k + 1) - 1 = k
    BY <1>1, <1>4
  <2>2. Escaped(octets[k + 1]) \in Seq(W)
    BY <2>1, EscapedType
  <2>3. T[k + 1] = T[k] \o Escaped(octets[k + 1])
    BY <1>2, <2>1
  <2> HIDE DEF W, T
  <2>4. T[k + 1] \in Seq(W)
    BY <2>1, <2>2, <2>3, ConcatProperties
  <2> QED BY <2>1, <2>4, <1>1
<1>5. \A k \in 0 .. n : k \in Good
  <2> HIDE DEF Good, n
  <2> QED BY <1>1, <1>3, <1>4, CountedInduction
<1>6. \A k \in 0 .. n : T[k] \in Seq(W)
  BY <1>5
<1> HIDE DEF T, W, n
<1>7. \A k \in 0 .. n : Len(T[k]) \in Nat
  BY <1>6, LenProperties
<1> QED BY <1>6, <1>7 DEF T, W, n

\* What was written stays written.
LEMMA EncodedTablePrefix ==
    ASSUME NEW S, NEW octets \in Seq(S), NEW j \in 0 .. Len(octets)
    PROVE  \A k \in j .. Len(octets) :
               /\ Len(EncodedTable(octets)[j]) <= Len(EncodedTable(octets)[k])
               /\ \A i \in 1 .. Len(EncodedTable(octets)[j]) :
                      EncodedTable(octets)[k][i] = EncodedTable(octets)[j][i]
<1> DEFINE n == Len(octets)
           T == EncodedTable(octets)
           W == WireSymbols(octets)
           Keeps(k) == Len(T[j]) <= Len(T[k]) /\ \A i \in 1 .. Len(T[j]) : T[k][i] = T[j][i]
           Good == {d \in 0 .. n - j : Keeps(j + d)}
<1>1. n \in Nat /\ j \in Nat /\ j <= n /\ n - j \in Nat
  BY LenProperties
<1>2. \A i \in 1 .. n : T[i] = T[i - 1] \o Escaped(octets[i])
  BY EncodedTableStep
<1>3. \A k \in 0 .. n : T[k] \in Seq(W) /\ Len(T[k]) \in Nat
  BY EncodedTableType
<1>4. \A i \in 1 .. n : Escaped(octets[i]) \in Seq(W)
  BY EscapedType
<1> HIDE DEF T, W, n
<1>5. 0 \in Good
  <2>1. j + 0 = j /\ Len(T[j]) \in Nat
    BY <1>1, <1>3
  <2> QED BY <2>1, <1>1
<1>6. ASSUME NEW d \in 0 .. (n - j) - 1, d \in Good
      PROVE  d + 1 \in Good
  <2> DEFINE k == j + d
             more == Escaped(octets[k + 1])
  <2>1. k \in 0 .. n /\ k + 1 \in 1 .. n /\ (k + 1) - 1 = k /\ j + (d + 1) = k + 1 /\ d + 1 \in 0 .. n - j
    BY <1>1
  <2>2. Keeps(k)
    BY <1>6
  <2> HIDE DEF k
  <2>a. T[k + 1] = T[(k + 1) - 1] \o more /\ more \in Seq(W)
    BY <1>2, <1>4, <2>1
  <2>b. T[k] \in Seq(W) /\ Len(T[k]) \in Nat /\ Len(T[j]) \in Nat
    BY <1>1, <1>3, <2>1
  <2>3. T[k + 1] = T[k] \o more /\ more \in Seq(W) /\ T[k] \in Seq(W) /\ Len(T[k]) \in Nat
        /\ Len(T[j]) \in Nat
    BY <2>a, <2>b, <2>1
  <2> HIDE DEF more
  <2>4. Len(T[k + 1]) = Len(T[k]) + Len(more) /\ Len(more) \in Nat
    BY <2>3, ConcatProperties, LenProperties
  <2>5. \A i \in 1 .. Len(T[k]) : T[k + 1][i] = T[k][i]
    <3>1. \A i \in 1 .. Len(T[k]) + Len(more) :
              (T[k] \o more)[i] = IF i <= Len(T[k]) THEN T[k][i] ELSE more[i - Len(T[k])]
      BY <2>3, ConcatProperties
    <3> QED BY <3>1, <2>3, <2>4
  <2>6. Keeps(k + 1)
    BY <2>2, <2>3, <2>4, <2>5
  <2> HIDE DEF Keeps
  <2>7. Keeps(j + (d + 1))
    BY <2>1, <2>6
  <2> QED BY <2>7, <2>1
<1>7. \A d \in 0 .. n - j : d \in Good
  <2> DEFINE m == n - j
  <2>1. m \in Nat /\ 0 \in Good /\ \A d \in 0 .. m - 1 : d \in Good => d + 1 \in Good
    BY <1>1, <1>5, <1>6
  <2> HIDE DEF Good, m
  <2>2. \A d \in 0 .. m : d \in Good
    BY <2>1, CountedInduction
  <2> QED BY <2>2 DEF m
<1>8. ASSUME NEW k \in j .. n
      PROVE  Keeps(k)
  <2>1. k - j \in 0 .. n - j /\ j + (k - j) = k
    BY <1>1
  <2>2. Keeps(j + (k - j))
    BY <1>7, <2>1
  <2> HIDE DEF Keeps
  <2> QED BY <2>1, <2>2
<1> QED BY <1>8 DEF T, n

-----------------------------------------------------------------------------
\* The octets to escape: the frame and the two octets of its FCS.
FcsOctets(frame) == LittleEndian(65535 - fcs16(frame))
FrameSymbols(frame) == (0 .. 255) \cup {FcsOctets(frame)[1], FcsOctets(frame)[2]}

\* The frame with its FCS: the frame, then the low and the high octet.
LEMMA UnescapedFrame ==
    ASSUME NEW frame \in Seq(0 .. 255)
    PROVE  /\ append_fcs16(frame) \in Seq(FrameSymbols(frame))
           /\ Len(frame) \in Nat
           /\ Len(append_fcs16(frame)) = Len(frame) + 2
           /\ \A i \in 1 .. Len(frame) : append_fcs16(frame)[i] = frame[i]
           /\ append_fcs16(frame)[Len(frame) + 1] = FcsOctets(frame)[1]
           /\ append_fcs16(frame)[Len(frame) + 2] = FcsOctets(frame)[2]
<1> DEFINE F == FcsOctets(frame)
           X == FrameSymbols(frame)
<1>1. append_fcs16(frame) = frame \o F
  BY DEF append_fcs16, FcsOctets
<1>2. PICK low, high : F = <<low, high>>
  BY DEF FcsOctets, LittleEndian
<1>3. F[1] = low /\ F[2] = high /\ Len(F) = 2
  BY <1>2
<1>4. low \in X /\ high \in X /\ 0 .. 255 \subseteq X
  BY <1>3 DEF FrameSymbols
<1> HIDE DEF F, X
<1>5. F \in Seq(X)
  BY <1>2, <1>4
<1>6. frame \in Seq(X)
  BY <1>4, SeqMonotonic
<1>7. Len(frame) \in Nat
  BY LenProperties
<1> DEFINE n == Len(frame)
<1>8. /\ frame \o F \in Seq(X)
      /\ Len(frame \o F) = n + Len(F)
      /\ \A i \in 1 .. n + Len(F) : (frame \o F)[i] = IF i <= n THEN frame[i] ELSE F[i - n]
  BY <1>5, <1>6, ConcatProperties
<1> HIDE DEF n
<1>9. /\ \A i \in 1 .. n : (frame \o F)[i] = frame[i]
      /\ (frame \o F)[n + 1] = F[1] /\ (frame \o F)[n + 2] = F[2]
  <2>0. n \in Nat
    BY <1>7 DEF n
  <2>1. \A i \in 1 .. n : (frame \o F)[i] = frame[i]
    BY <2>0, <1>3, <1>8
  <2>2. n + 1 \in 1 .. n + Len(F) /\ n + 2 \in 1 .. n + Len(F) /\ ~(n + 1 <= n) /\ ~(n + 2 <= n)
        /\ (n + 1) - n = 1 /\ (n + 2) - n = 2
    BY <2>0, <1>3
  <2>3. (frame \o F)[n + 1] = F[(n + 1) - n] /\ (frame \o F)[n + 2] = F[(n + 2) - n]
    BY <2>2, <1>8
  <2> QED BY <2>1, <2>2, <2>3
<1> QED BY <1>1, <1>3, <1>7, <1>8, <1>9 DEF n, F, X

\* The encoder as a record, and its place in the octets to escape.
Encoder(frame, position, fcs, stage, escape_second) ==
    [frame |-> frame, position |-> position, fcs |-> fcs, stage |-> stage,
     escape_second |-> escape_second]

Place(frame, position, stage) ==
    CASE stage = "Frame" -> position
      [] stage = "FcsLow" -> Len(frame)
      [] stage = "FcsHigh" -> Len(frame) + 1

Written(frame, k) == EncodedTable(append_fcs16(frame))[k]
Plain(frame, k) == append_fcs16(frame)[k + 1]

\* How far the encoder is: the octets emitted are those written up to its place.
InStep(frame, position, fcs, stage, second, count) ==
    /\ stage \in {"OpeningFlag", "ClosingFlag", "Complete"} \cup Coding
    /\ position \in 0 .. Len(frame)
    /\ second \in BOOLEAN
    /\ second => stage \in Coding /\ must_escape(Plain(frame, Place(frame, position, stage)))
    /\ stage = "OpeningFlag" => position = 0 /\ count = 0
    /\ stage = "Frame" => position < Len(frame)
    /\ stage \in {"OpeningFlag", "Frame"} => fcs = FcsTable(frame)[position]
    /\ stage \in {"FcsLow", "FcsHigh"} => fcs = fcs16(frame)
    /\ stage \in Coding =>
           count = Len(Written(frame, Place(frame, position, stage))) + (IF second THEN 1 ELSE 0)
    /\ stage = "ClosingFlag" => count = Len(Written(frame, Len(frame) + 2))
    /\ stage = "Complete" => count = Len(Written(frame, Len(frame) + 2)) + 1

\* What is written grows by the escaped form of each octet.
LEMMA WrittenStep ==
    ASSUME NEW frame \in Seq(0 .. 255)
    PROVE  /\ Len(frame) \in Nat
           /\ Len(Written(frame, 0)) = 1 /\ Written(frame, 0)[1] = FLAG_SEQUENCE
           /\ \A k \in 0 .. Len(frame) + 2 : Len(Written(frame, k)) \in Nat
           /\ \A k \in 0 .. Len(frame) + 1 :
                  Len(Written(frame, k + 1)) =
                      Len(Written(frame, k)) + (IF must_escape(Plain(frame, k)) THEN 2 ELSE 1)
<1> DEFINE u == append_fcs16(frame)
           T == EncodedTable(u)
           W == WireSymbols(u)
<1>1. u \in Seq(FrameSymbols(frame)) /\ Len(u) = Len(frame) + 2 /\ Len(frame) \in Nat
  BY UnescapedFrame
<1>2. T[0] = <<FLAG_SEQUENCE>> /\ \A i \in 1 .. Len(u) : T[i] = T[i - 1] \o Escaped(u[i])
  BY <1>1, EncodedTableStep
<1>3. \A k \in 0 .. Len(u) : T[k] \in Seq(W) /\ Len(T[k]) \in Nat
  BY <1>1, EncodedTableType
<1>4. \A i \in 1 .. Len(u) : /\ Escaped(u[i]) \in Seq(W)
                             /\ ~must_escape(u[i]) => Len(Escaped(u[i])) = 1
                             /\ must_escape(u[i]) => Len(Escaped(u[i])) = 2
  BY <1>1, EscapedType
<1> HIDE DEF u, T, W
<1>5. ASSUME NEW k \in 0 .. Len(frame) + 1
      PROVE  Len(T[k + 1]) = Len(T[k]) + (IF must_escape(u[k + 1]) THEN 2 ELSE 1)
  <2>1. k + 1 \in 1 .. Len(u) /\ (k + 1) - 1 = k /\ k \in 0 .. Len(u)
    BY <1>1
  <2> DEFINE more == Escaped(u[k + 1])
  <2>2. T[k + 1] = T[(k + 1) - 1] \o more /\ more \in Seq(W)
    BY <1>2, <1>4, <2>1
  <2>3. T[k] \in Seq(W) /\ Len(T[k]) \in Nat
    BY <1>3, <2>1
  <2>4. Len(more) = IF must_escape(u[k + 1]) THEN 2 ELSE 1
    BY <1>4, <2>1
  <2> HIDE DEF more
  <2>5. Len(T[k] \o more) = Len(T[k]) + Len(more)
    BY <2>2, <2>3, ConcatProperties
  <2> QED BY <2>1, <2>2, <2>4, <2>5
<1>6. Len(T[0]) = 1 /\ T[0][1] = FLAG_SEQUENCE
  BY <1>2
<1> QED BY <1>1, <1>3, <1>5, <1>6 DEF u, T, Written, Plain

\* encode_async holds, after what is written up to k, the escaped octet k.
LEMMA WrittenFinally ==
    ASSUME NEW frame \in Seq(0 .. 255)
    PROVE  /\ Len(encode_async(frame)) = Len(Written(frame, Len(frame) + 2)) + 1
           /\ encode_async(frame)[Len(Written(frame, Len(frame) + 2)) + 1] = FLAG_SEQUENCE
           /\ encode_async(frame)[1] = FLAG_SEQUENCE
           /\ \A k \in 0 .. Len(frame) + 1 :
                  IF must_escape(Plain(frame, k))
                  THEN /\ encode_async(frame)[Len(Written(frame, k)) + 1] = CONTROL_ESCAPE
                       /\ encode_async(frame)[Len(Written(frame, k)) + 2]
                              = Plain(frame, k) ^^ TRANSPARENCY_XOR
                  ELSE encode_async(frame)[Len(Written(frame, k)) + 1] = Plain(frame, k)
<1> DEFINE u == append_fcs16(frame)
           T == EncodedTable(u)
           W == WireSymbols(u)
           n == Len(frame) + 2
           last == T[n]
           wire == encode_async(frame)
<1>1. u \in Seq(FrameSymbols(frame)) /\ Len(u) = n /\ Len(frame) \in Nat /\ n \in Nat
  BY UnescapedFrame
<1>2. T[0] = <<FLAG_SEQUENCE>> /\ \A i \in 1 .. n : T[i] = T[i - 1] \o Escaped(u[i])
  BY <1>1, EncodedTableStep
<1>3. \A k \in 0 .. n : T[k] \in Seq(W) /\ Len(T[k]) \in Nat
  BY <1>1, EncodedTableType
<1>4. \A i \in 1 .. n : /\ Escaped(u[i]) \in Seq(W)
                        /\ ~must_escape(u[i]) => /\ Len(Escaped(u[i])) = 1
                                                 /\ Escaped(u[i])[1] = u[i]
                        /\ must_escape(u[i]) => /\ Len(Escaped(u[i])) = 2
                                                /\ Escaped(u[i])[1] = CONTROL_ESCAPE
                                                /\ Escaped(u[i])[2] = u[i] ^^ TRANSPARENCY_XOR
  BY <1>1, EscapedType
<1>5. \A j \in 0 .. n : /\ Len(T[j]) <= Len(T[n])
                        /\ \A i \in 1 .. Len(T[j]) : T[n][i] = T[j][i]
  <2>1. ASSUME NEW j \in 0 .. n
        PROVE  Len(T[j]) <= Len(T[n]) /\ \A i \in 1 .. Len(T[j]) : T[n][i] = T[j][i]
    <3>1. n \in j .. Len(u) /\ j \in 0 .. Len(u)
      BY <1>1
    <3> HIDE DEF n
    <3> QED BY <3>1, <1>1, EncodedTablePrefix
  <2> QED BY <2>1
<1>6. wire = last \o <<FLAG_SEQUENCE>>
  BY <1>1, EncodedOfTable
<1>7. FLAG_SEQUENCE \in W
  BY DEF WireSymbols
<1>8. last \in Seq(W) /\ Len(last) \in Nat
  BY <1>1, <1>3
<1> HIDE DEF u, T, W, n, last, wire
<1>9. /\ Len(wire) = Len(last) + 1
      /\ wire[Len(last) + 1] = FLAG_SEQUENCE
      /\ \A i \in 1 .. Len(last) : wire[i] = last[i]
  <2>0. <<FLAG_SEQUENCE>> \in Seq(W) /\ Len(<<FLAG_SEQUENCE>>) = 1 /\ <<FLAG_SEQUENCE>>[1] = FLAG_SEQUENCE
    BY <1>7
  <2> DEFINE end == <<FLAG_SEQUENCE>>
  <2> HIDE DEF end
  <2>1. /\ Len(last \o end) = Len(last) + Len(end)
        /\ \A i \in 1 .. Len(last) + Len(end) :
               (last \o end)[i] = IF i <= Len(last) THEN last[i] ELSE end[i - Len(last)]
    <3>1. end \in Seq(W)
      BY <2>0 DEF end
    <3> QED BY <3>1, <1>8, ConcatProperties
  <2>2. Len(end) = 1 /\ end[1] = FLAG_SEQUENCE /\ wire = last \o end
    BY <2>0, <1>6 DEF end
  <2>3. Len(last) + 1 \in 1 .. Len(last) + Len(end) /\ ~(Len(last) + 1 <= Len(last))
        /\ (Len(last) + 1) - Len(last) = 1
    BY <1>8, <2>2
  <2>4. wire[Len(last) + 1] = end[(Len(last) + 1) - Len(last)]
    BY <2>1, <2>2, <2>3
  <2>5. \A i \in 1 .. Len(last) : wire[i] = last[i]
    BY <2>1, <2>2, <1>8
  <2> QED BY <2>1, <2>2, <2>3, <2>4, <2>5
<1>10. wire[1] = FLAG_SEQUENCE
  <2>1. Len(T[0]) = 1 /\ T[0][1] = FLAG_SEQUENCE
    BY <1>2
  <2>2. 0 \in 0 .. n
    BY <1>1
  <2>3. Len(T[0]) <= Len(T[n]) /\ \A i \in 1 .. Len(T[0]) : T[n][i] = T[0][i]
    BY <1>5, <2>2
  <2>4. 1 <= Len(last) /\ last[1] = FLAG_SEQUENCE
    BY <2>1, <2>3 DEF last
  <2> QED BY <1>8, <1>9, <2>4
<1>11. ASSUME NEW k \in 0 .. Len(frame) + 1
       PROVE  IF must_escape(u[k + 1])
              THEN /\ wire[Len(T[k]) + 1] = CONTROL_ESCAPE
                   /\ wire[Len(T[k]) + 2] = u[k + 1] ^^ TRANSPARENCY_XOR
              ELSE wire[Len(T[k]) + 1] = u[k + 1]
  <2>1. k + 1 \in 1 .. n /\ (k + 1) - 1 = k /\ k \in 0 .. n /\ k + 1 \in 0 .. n
    BY <1>1 DEF n
  <2> DEFINE more == Escaped(u[k + 1])
             before == T[k]
             after == T[k + 1]
             len == Len(before)
  <2>2. after = T[(k + 1) - 1] \o more /\ more \in Seq(W)
    BY <1>2, <1>4, <2>1
  <2>3. before \in Seq(W) /\ len \in Nat /\ after = before \o more
    BY <1>3, <2>1, <2>2
  <2>4. Len(after) <= Len(last) /\ \A i \in 1 .. Len(after) : last[i] = after[i]
    BY <1>5, <2>1 DEF last
  <2>5. /\ ~must_escape(u[k + 1]) => Len(more) = 1 /\ more[1] = u[k + 1]
        /\ must_escape(u[k + 1]) => /\ Len(more) = 2 /\ more[1] = CONTROL_ESCAPE
                                    /\ more[2] = u[k + 1] ^^ TRANSPARENCY_XOR
    BY <1>4, <2>1
  <2> HIDE DEF more, before, after
  <2>6. /\ Len(before \o more) = len + Len(more)
        /\ \A i \in 1 .. len + Len(more) :
               (before \o more)[i] = IF i <= len THEN before[i] ELSE more[i - len]
    BY <2>2, <2>3, ConcatProperties
  <2> HIDE DEF len
  <2>7. Len(more) \in Nat
    BY <2>2, LenProperties
  <2>8. \A d \in 1 .. Len(more) : wire[len + d] = more[d]
    <3> SUFFICES ASSUME NEW d \in 1 .. Len(more) PROVE wire[len + d] = more[d]
      OBVIOUS
    <3>1. len + d \in 1 .. len + Len(more) /\ ~(len + d <= len) /\ (len + d) - len = d
      BY <2>3, <2>7
    <3>2. (before \o more)[len + d] = more[(len + d) - len]
      BY <3>1, <2>6
    <3>3. len + d \in 1 .. Len(after)
      BY <3>1, <2>3, <2>6
    <3>4. last[len + d] = more[d]
      BY <3>1, <3>2, <3>3, <2>3, <2>4
    <3>5. len + d \in 1 .. Len(last)
      BY <3>1, <2>3, <2>4, <2>6, <2>7, <1>8
    <3> QED BY <3>4, <3>5, <1>9
  <2>9. CASE must_escape(u[k + 1])
    <3>0. Len(more) = 2
      BY <2>9, <2>5
    <3>1. 1 \in 1 .. Len(more) /\ 2 \in 1 .. Len(more)
      BY <3>0
    <3> QED BY <3>1, <2>5, <2>8, <2>9 DEF len, before
  <2>10. CASE ~must_escape(u[k + 1])
    <3>0. Len(more) = 1
      BY <2>10, <2>5
    <3>1. 1 \in 1 .. Len(more)
      BY <3>0
    <3> QED BY <3>1, <2>5, <2>8, <2>10 DEF len, before
  <2> QED BY <2>9, <2>10
<1> QED BY <1>9, <1>10, <1>11 DEF u, T, n, last, wire, Written, Plain

\* The octet the encoder is at is the one at its place.
LEMMA LogicalOctet ==
    ASSUME NEW frame \in Seq(0 .. 255), NEW position, NEW fcs, NEW stage, NEW second, NEW count,
           InStep(frame, position, fcs, stage, second, count), stage \in Coding
    PROVE  /\ Place(frame, position, stage) \in 0 .. Len(frame) + 1
           /\ \A b : logical_octet(Encoder(frame, position, fcs, stage, b)) =
                         Plain(frame, Place(frame, position, stage))
<1>1. /\ Len(frame) \in Nat
      /\ \A i \in 1 .. Len(frame) : append_fcs16(frame)[i] = frame[i]
      /\ append_fcs16(frame)[Len(frame) + 1] = FcsOctets(frame)[1]
      /\ append_fcs16(frame)[Len(frame) + 2] = FcsOctets(frame)[2]
  BY UnescapedFrame
<1>2. CASE stage = "Frame"
  <2>1. Place(frame, position, stage) = position /\ position \in 0 .. Len(frame) /\ position < Len(frame)
    BY <1>2 DEF Place, InStep
  <2>2. position + 1 \in 1 .. Len(frame)
    BY <1>1, <2>1
  <2>3. \A b : logical_octet(Encoder(frame, position, fcs, stage, b)) = frame[position + 1]
    BY <1>2 DEF logical_octet, Encoder
  <2> QED BY <1>1, <2>1, <2>2, <2>3 DEF Plain
<1>3. CASE stage = "FcsLow"
  <2>1. Place(frame, position, stage) = Len(frame) /\ fcs = fcs16(frame)
    BY <1>3 DEF Place, InStep
  <2>2. \A b : logical_octet(Encoder(frame, position, fcs, stage, b)) = LittleEndian(65535 - fcs)[1]
    BY <1>3 DEF logical_octet, Encoder
  <2> QED BY <1>1, <2>1, <2>2 DEF Plain, FcsOctets
<1>4. CASE stage = "FcsHigh"
  <2>1. Place(frame, position, stage) = Len(frame) + 1 /\ fcs = fcs16(frame)
    BY <1>4 DEF Place, InStep
  <2>2. \A b : logical_octet(Encoder(frame, position, fcs, stage, b)) = LittleEndian(65535 - fcs)[2]
    BY <1>4 DEF logical_octet, Encoder
  <2>3. (Len(frame) + 1) + 1 = Len(frame) + 2
    BY <1>1
  <2> QED BY <1>1, <2>1, <2>2, <2>3 DEF Plain, FcsOctets
<1> QED BY <1>2, <1>3, <1>4 DEF Coding

\* In step, the octet peeked at is the next one of encode_async.
LEMMA PeekMatches ==
    ASSUME NEW frame \in Seq(0 .. 255), NEW position, NEW fcs, NEW stage, NEW second, NEW count,
           InStep(frame, position, fcs, stage, second, count)
    PROVE  IF stage = "Complete" THEN count = Len(encode_async(frame))
           ELSE peek(Encoder(frame, position, fcs, stage, second)) = encode_async(frame)[count + 1]
<1> DEFINE e == Encoder(frame, position, fcs, stage, second)
           wire == encode_async(frame)
           k == Place(frame, position, stage)
           octet == Plain(frame, k)
<1>1. e.stage = stage /\ e.escape_second = second
  BY DEF Encoder
<1>2. CASE stage = "Complete"
  <2>1. count = Len(Written(frame, Len(frame) + 2)) + 1
    BY <1>2 DEF InStep
  <2> QED BY <1>2, <2>1, WrittenFinally
<1>3. CASE stage = "OpeningFlag"
  <2>1. count = 0 /\ 0 + 1 = 1
    BY <1>3 DEF InStep
  <2>2. peek(e) = FLAG_SEQUENCE
    BY <1>1, <1>3 DEF peek, Coding
  <2>3. wire[1] = FLAG_SEQUENCE
    BY WrittenFinally
  <2> QED BY <1>3, <2>1, <2>2, <2>3
<1>4. CASE stage = "ClosingFlag"
  <2>1. count = Len(Written(frame, Len(frame) + 2))
    BY <1>4 DEF InStep
  <2>2. peek(e) = FLAG_SEQUENCE
    BY <1>1, <1>4 DEF peek, Coding
  <2>3. wire[Len(Written(frame, Len(frame) + 2)) + 1] = FLAG_SEQUENCE
    BY WrittenFinally
  <2> QED BY <1>4, <2>1, <2>2, <2>3
<1>5. CASE stage \in Coding
  <2>1. k \in 0 .. Len(frame) + 1 /\ logical_octet(e) = octet
    BY <1>5, LogicalOctet
  <2>2. second \in BOOLEAN /\ (second => must_escape(octet))
    BY DEF InStep
  <2>3. count = Len(Written(frame, k)) + (IF second THEN 1 ELSE 0)
    BY <1>5 DEF InStep
  <2>4. Len(Written(frame, k)) \in Nat
    <3>1. k \in 0 .. Len(frame) + 2 /\ Len(frame) \in Nat
      BY <2>1, WrittenStep
    <3> QED BY <3>1, WrittenStep
  <2>5. IF must_escape(octet)
        THEN /\ wire[Len(Written(frame, k)) + 1] = CONTROL_ESCAPE
             /\ wire[Len(Written(frame, k)) + 2] = octet ^^ TRANSPARENCY_XOR
        ELSE wire[Len(Written(frame, k)) + 1] = octet
    BY <2>1, WrittenFinally
  <2>6. peek(e) = IF ~must_escape(octet) THEN octet
                  ELSE IF second THEN octet ^^ TRANSPARENCY_XOR ELSE CONTROL_ESCAPE
    BY <1>1, <1>5, <2>1 DEF peek
  <2> HIDE DEF e, wire, k, octet
  <2>7. stage # "Complete"
    BY <1>5 DEF Coding
  <2>8. CASE second
    <3>1. count + 1 = Len(Written(frame, k)) + 2
      BY <2>8, <2>3, <2>4
    <3>2. peek(e) = wire[count + 1]
      BY <3>1, <2>8, <2>2, <2>5, <2>6
    <3> QED BY <3>2, <2>7 DEF e, wire
  <2>9. CASE ~second
    <3>1. count + 1 = Len(Written(frame, k)) + 1
      BY <2>9, <2>3, <2>4
    <3>2. peek(e) = wire[count + 1]
      BY <3>1, <2>9, <2>5, <2>6
    <3> QED BY <3>2, <2>7 DEF e, wire
  <2> QED BY <2>2, <2>8, <2>9
<1> QED BY <1>2, <1>3, <1>4, <1>5 DEF InStep

\* advance() keeps the encoder in step, one octet further.
LEMMA AdvanceInStep ==
    ASSUME NEW frame \in Seq(0 .. 255), NEW position, NEW fcs, NEW stage, NEW second,
           NEW count \in Nat, InStep(frame, position, fcs, stage, second, count), stage # "Complete"
    PROVE  \E p, c, s, b :
               /\ advance(Encoder(frame, position, fcs, stage, second)) = Encoder(frame, p, c, s, b)
               /\ InStep(frame, p, c, s, b, count + 1)
<1> DEFINE e == Encoder(frame, position, fcs, stage, second)
           k == Place(frame, position, stage)
           octet == Plain(frame, k)
           n == Len(frame)
           Goal == \E p, c, s, b : /\ advance(e) = Encoder(frame, p, c, s, b)
                                   /\ InStep(frame, p, c, s, b, count + 1)
<1> SUFFICES Goal
  OBVIOUS
<1>0. e.frame = frame /\ e.position = position /\ e.fcs = fcs /\ e.stage = stage
      /\ e.escape_second = second
  BY DEF Encoder
<1>1. /\ n \in Nat /\ Len(Written(frame, 0)) = 1
      /\ \A i \in 0 .. n + 2 : Len(Written(frame, i)) \in Nat
      /\ \A i \in 0 .. n + 1 : Len(Written(frame, i + 1)) =
             Len(Written(frame, i)) + (IF must_escape(Plain(frame, i)) THEN 2 ELSE 1)
  BY WrittenStep
<1>2. /\ FcsTable(frame)[0] = INITIAL_FCS16 /\ fcs16(frame) = FcsTable(frame)[n]
      /\ \A i \in 1 .. n : FcsTable(frame)[i] = update_fcs16(FcsTable(frame)[i - 1], frame[i])
  BY FcsTableStep, FcsOfTable
<1>3. position \in 0 .. n /\ second \in BOOLEAN
  BY DEF InStep
<1>4. CASE stage = "OpeningFlag"
  <2>1. position = 0 /\ count = 0 /\ second = FALSE /\ fcs = FcsTable(frame)[0]
    BY <1>4 DEF InStep, Coding
  <2> DEFINE s == IF frame = <<>> THEN "FcsLow" ELSE "Frame"
  <2>2. advance(e) = Encoder(frame, 0, fcs, s, FALSE)
    BY <1>0, <1>4, <2>1 DEF advance, Encoder, Coding
  <2>3. frame = <<>> => n = 0
    BY EmptySeq
  <2>4. frame # <<>> => n > 0
    BY EmptySeq, <1>1
  <2>5. Place(frame, 0, s) = 0
    BY <2>3 DEF Place
  <2>6. InStep(frame, 0, fcs, s, FALSE, count + 1)
    BY <1>1, <1>2, <2>1, <2>3, <2>4, <2>5 DEF InStep, Coding
  <2> QED BY <2>2, <2>6
<1>5. CASE stage = "ClosingFlag"
  <2>1. second = FALSE /\ count = Len(Written(frame, n + 2))
    BY <1>3, <1>5 DEF InStep, Coding
  <2>2. advance(e) = Encoder(frame, position, fcs, "Complete", FALSE)
    BY <1>0, <1>5, <2>1 DEF advance, Encoder, Coding
  <2>3. InStep(frame, position, fcs, "Complete", FALSE, count + 1)
    BY <1>3, <2>1 DEF InStep, Coding
  <2> QED BY <2>2, <2>3
<1>6. CASE stage \in Coding
  <2>1. k \in 0 .. n + 1 /\ \A b : logical_octet(Encoder(frame, position, fcs, stage, b)) = octet
    BY <1>6, LogicalOctet
  <2>2. (second => must_escape(octet)) /\ count = Len(Written(frame, k)) + (IF second THEN 1 ELSE 0)
    BY <1>6 DEF InStep
  <2>3. logical_octet(e) = octet
    BY <2>1
  <2>4. CASE must_escape(octet) /\ ~second
    <3>1. advance(e) = [e EXCEPT !.escape_second = TRUE]
      BY <1>0, <1>6, <2>3, <2>4 DEF advance, Coding
    <3>2. advance(e) = Encoder(frame, position, fcs, stage, TRUE)
      BY <3>1 DEF Encoder
    <3>3. Len(Written(frame, k)) \in Nat
      BY <1>1, <2>1
    <3>4. count + 1 = Len(Written(frame, k)) + 1
      BY <2>2, <2>4, <3>3
    <3>5. InStep(frame, position, fcs, stage, TRUE, count + 1)
      BY <1>6, <2>4, <3>4 DEF InStep, Coding
    <3> QED BY <3>2, <3>5
  <2>5. CASE ~(must_escape(octet) /\ ~second)
    <3> DEFINE e0 == Encoder(frame, position, fcs, stage, FALSE)
    <3>1. [e EXCEPT !.escape_second = FALSE] = e0
      <4>1. \A b : [e EXCEPT !.escape_second = b] = Encoder(frame, position, fcs, stage, b)
        BY DEF Encoder
      <4> HIDE DEF e
      <4> QED BY <4>1
    <3>2. advance(e) = finish_logical_octet(e0)
      BY <1>0, <1>6, <2>3, <2>5, <3>1 DEF advance, Coding
    <3>3. logical_octet(e0) = octet
      BY <2>1
    <3>4. k + 1 \in 0 .. n + 2 /\ Len(Written(frame, k)) \in Nat
      BY <1>1, <2>1
    <3>5. count + 1 = Len(Written(frame, k + 1))
      <4>1. Len(Written(frame, k + 1)) =
                Len(Written(frame, k)) + (IF must_escape(octet) THEN 2 ELSE 1)
        BY <1>1, <2>1
      <4> QED BY <4>1, <2>2, <2>5, <3>4, <1>3
    <3>6. e0.frame = frame /\ e0.position = position /\ e0.fcs = fcs /\ e0.stage = stage
      BY DEF Encoder
    <3> HIDE DEF e
    <3>7. CASE stage = "Frame"
      <4> DEFINE f == update_fcs16(fcs, octet)
                 s == IF position + 1 = n THEN "FcsLow" ELSE "Frame"
      <4>1. finish_logical_octet(e0) =
                [e0 EXCEPT !.fcs = f, !.position = position + 1, !.stage = s]
        BY <3>3, <3>6, <3>7 DEF finish_logical_octet
      <4> HIDE DEF f, s
      <4>2. finish_logical_octet(e0) = Encoder(frame, position + 1, f, s, FALSE)
        BY <4>1 DEF Encoder
      <4>3. k = position /\ position < n /\ fcs = FcsTable(frame)[position]
        BY <3>7 DEF Place, InStep
      <4>4. position + 1 \in 1 .. n /\ (position + 1) - 1 = position /\ position + 1 \in 0 .. n
        BY <1>1, <1>3, <4>3
      <4>5. octet = frame[position + 1]
        <5>1. append_fcs16(frame)[position + 1] = frame[position + 1]
          BY <4>4, UnescapedFrame
        <5> QED BY <5>1, <4>3 DEF Plain
      <4>6. f = FcsTable(frame)[position + 1]
        BY <1>2, <4>3, <4>4, <4>5 DEF f
      <4>7. Place(frame, position + 1, s) = k + 1
        BY <4>3 DEF Place, s
      <4>8. InStep(frame, position + 1, f, s, FALSE, count + 1)
        <5>1. CASE position + 1 = n
          <6>1. s = "FcsLow" /\ f = fcs16(frame)
            BY <5>1, <1>2, <4>6 DEF s
          <6> QED BY <6>1, <3>4, <3>5, <4>4, <4>7 DEF InStep, Coding
        <5>2. CASE position + 1 # n
          <6>1. s = "Frame" /\ position + 1 < n
            BY <5>2, <4>4, <1>1 DEF s
          <6> QED BY <6>1, <3>4, <3>5, <4>4, <4>6, <4>7 DEF InStep, Coding
        <5> QED BY <5>1, <5>2
      <4> QED BY <3>2, <4>2, <4>8
    <3>8. CASE stage = "FcsLow"
      <4>1. finish_logical_octet(e0) = [e0 EXCEPT !.stage = "FcsHigh"]
        BY <3>6, <3>8 DEF finish_logical_octet
      <4>2. finish_logical_octet(e0) = Encoder(frame, position, fcs, "FcsHigh", FALSE)
        BY <4>1 DEF Encoder
      <4>3. k = n /\ Place(frame, position, "FcsHigh") = k + 1 /\ fcs = fcs16(frame)
        BY <3>8 DEF Place, InStep
      <4>4. InStep(frame, position, fcs, "FcsHigh", FALSE, count + 1)
        BY <1>3, <3>4, <3>5, <4>3 DEF InStep, Coding
      <4> QED BY <3>2, <4>2, <4>4
    <3>9. CASE stage = "FcsHigh"
      <4>1. finish_logical_octet(e0) = [e0 EXCEPT !.stage = "ClosingFlag"]
        BY <3>6, <3>9 DEF finish_logical_octet
      <4>2. finish_logical_octet(e0) = Encoder(frame, position, fcs, "ClosingFlag", FALSE)
        BY <4>1 DEF Encoder
      <4>3. k + 1 = n + 2
        BY <3>9, <1>1 DEF Place
      <4>4. InStep(frame, position, fcs, "ClosingFlag", FALSE, count + 1)
        BY <1>3, <3>5, <4>3 DEF InStep, Coding
      <4> QED BY <3>2, <4>2, <4>4
    <3> QED BY <1>6, <3>7, <3>8, <3>9 DEF Coding
  <2> QED BY <2>4, <2>5
<1> QED BY <1>4, <1>5, <1>6 DEF InStep

\* The inductive invariant of the line: its encoder is in step with encode_async.
LineInv ==
    /\ sent \in Traffic /\ next \in 1 .. Len(sent) /\ emitted \in Nat
    /\ \E frame, position, fcs, stage, second :
           /\ frame \in Seq(0 .. 255)
           /\ encoder = Encoder(frame, position, fcs, stage, second)
           /\ InStep(frame, position, fcs, stage, second, emitted)

\* A frame of the traffic is a string of octets.
LEMMA TrafficFrames ==
    ASSUME NEW frames \in Traffic
    PROVE  /\ Len(frames) \in Nat /\ Len(frames) > 0
           /\ \A i \in 1 .. Len(frames) : frames[i] \in Seq(0 .. 255)
<1>1. frames \in Seq(Seq(0 .. 255)) /\ frames # <<>>
  BY LineConstants
<1>2. Len(frames) \in Nat /\ Len(frames) # 0
  BY <1>1, EmptySeq, LenProperties
<1>3. \A i \in 1 .. Len(frames) : frames[i] \in Seq(0 .. 255)
  BY <1>1, ElementOfSeq
<1> QED BY <1>2, <1>3

\* A new encoder has written nothing.
LEMMA NewEncoderInStep ==
    ASSUME NEW frame \in Seq(0 .. 255)
    PROVE  /\ NewEncoder(frame) = Encoder(frame, 0, INITIAL_FCS16, "OpeningFlag", FALSE)
           /\ InStep(frame, 0, INITIAL_FCS16, "OpeningFlag", FALSE, 0)
<1>1. FcsTable(frame)[0] = INITIAL_FCS16 /\ Len(frame) \in Nat
  BY FcsTableStep, LenProperties
<1>2. NewEncoder(frame) = Encoder(frame, 0, INITIAL_FCS16, "OpeningFlag", FALSE)
  BY DEF NewEncoder, Encoder
<1>3. InStep(frame, 0, INITIAL_FCS16, "OpeningFlag", FALSE, 0)
  BY <1>1 DEF InStep, Coding
<1> QED BY <1>2, <1>3

\* The line starts in step.
LEMMA LineInitInv == LineInit => LineInv
<1> SUFFICES ASSUME LineInit PROVE LineInv
  OBVIOUS
<1>1. sent \in Traffic /\ next = 1 /\ emitted = 0 /\ encoder = NewEncoder(sent[1])
  BY DEF LineInit
<1>2. Len(sent) \in Nat /\ 1 \in 1 .. Len(sent) /\ sent[1] \in Seq(0 .. 255)
  BY <1>1, TrafficFrames
<1>3. encoder = Encoder(sent[1], 0, INITIAL_FCS16, "OpeningFlag", FALSE)
      /\ InStep(sent[1], 0, INITIAL_FCS16, "OpeningFlag", FALSE, 0)
  BY <1>1, <1>2, NewEncoderInStep
<1> QED BY <1>1, <1>2, <1>3 DEF LineInv

\* Every step keeps it in step: only Pump and NextFrame touch the encoder.
LEMMA LineNextInv == LineInv /\ [LineNext]_lineVars => LineInv'
<1> SUFFICES ASSUME LineInv, [LineNext]_lineVars PROVE LineInv'
  OBVIOUS
<1>0. sent \in Traffic /\ next \in 1 .. Len(sent) /\ emitted \in Nat
  BY DEF LineInv
<1>1. CASE Pump
  <2>1. PICK frame, position, fcs, stage, second :
            /\ frame \in Seq(0 .. 255)
            /\ encoder = Encoder(frame, position, fcs, stage, second)
            /\ InStep(frame, position, fcs, stage, second, emitted)
    BY DEF LineInv
  <2>2. stage # "Complete" /\ encoder' = advance(encoder) /\ emitted' = emitted + 1
        /\ sent' = sent /\ next' = next
    BY <1>1, <2>1 DEF Pump, Encoder
  <2>3. PICK p, c, s, b :
            /\ advance(Encoder(frame, position, fcs, stage, second)) = Encoder(frame, p, c, s, b)
            /\ InStep(frame, p, c, s, b, emitted + 1)
    BY <2>1, <2>2, <1>0, AdvanceInStep
  <2>4. encoder' = Encoder(frame, p, c, s, b) /\ InStep(frame, p, c, s, b, emitted')
    BY <2>1, <2>2, <2>3
  <2>5. frame \in Seq(0 .. 255) /\ emitted' \in Nat
    BY <2>1, <2>2, <1>0
  <2> QED BY <2>2, <2>4, <2>5, <1>0 DEF LineInv
<1>2. CASE NextFrame
  <2>1. next < Len(sent) /\ next' = next + 1 /\ encoder' = NewEncoder(sent[next + 1])
        /\ emitted' = 0 /\ sent' = sent
    BY <1>2 DEF NextFrame
  <2>2. next + 1 \in 1 .. Len(sent) /\ sent[next + 1] \in Seq(0 .. 255)
    BY <1>0, <2>1, TrafficFrames
  <2>3. encoder' = Encoder(sent[next + 1], 0, INITIAL_FCS16, "OpeningFlag", FALSE)
        /\ InStep(sent[next + 1], 0, INITIAL_FCS16, "OpeningFlag", FALSE, 0)
    BY <2>1, <2>2, NewEncoderInStep
  <2> QED BY <1>0, <2>1, <2>2, <2>3 DEF LineInv
<1>3. ASSUME UNCHANGED <<sent, next, encoder, emitted>>
      PROVE  LineInv'
  BY <1>3 DEF LineInv
<1>4. Deliver \/ Drop \/ Change \/ Add \/ Reset => UNCHANGED <<sent, next, encoder, emitted>>
  BY DEF Deliver, Drop, Change, Add, Reset, Fault
<1>5. UNCHANGED lineVars => UNCHANGED <<sent, next, encoder, emitted>>
  BY DEF lineVars
<1> QED BY <1>1, <1>2, <1>3, <1>4, <1>5 DEF LineNext

\* However often the ring refuses an octet, between an escape and the octet it
\* escapes too, the restartable encoder puts on the wire exactly what
\* encode_async computes in one go: for every frame, ACCM, ring and line.
THEOREM EncoderCorrect == LineSpec => []EncoderMatchesBatch
<1>1. LineInv => EncoderMatchesBatch
  <2> SUFFICES ASSUME LineInv PROVE EncoderMatchesBatch
    OBVIOUS
  <2>1. PICK frame, position, fcs, stage, second :
            /\ frame \in Seq(0 .. 255)
            /\ encoder = Encoder(frame, position, fcs, stage, second)
            /\ InStep(frame, position, fcs, stage, second, emitted)
    BY DEF LineInv
  <2>2. encoder.frame = frame /\ encoder.stage = stage
    BY <2>1 DEF Encoder
  <2>3. IF stage = "Complete" THEN emitted = Len(encode_async(frame))
        ELSE peek(encoder) = encode_async(frame)[emitted + 1]
    BY <2>1, PeekMatches
  <2> QED BY <2>2, <2>3 DEF EncoderMatchesBatch
<1> QED BY <1>1, LineInitInv, LineNextInv, PTL DEF LineSpec

-----------------------------------------------------------------------------
(***************************************************************************)
(* The digest of chap.rs.                                                  *)
(***************************************************************************)

\* A whole number of blocks.
Blocks(n) == \E k \in Nat : n = Block * k

\* What the sizes are.
LEMMA BlockSize == Block \in Nat /\ Block > 1 /\ LengthOctets \in Nat /\ LengthOctets > 0 /\ LengthOctets < Block
BY DigestConstants

\* Whole blocks and whole blocks are whole blocks.
LEMMA BlocksAdd ==
    ASSUME NEW a \in Nat, NEW b \in Nat, Blocks(a), Blocks(b)
    PROVE  Blocks(a + b)
<1>1. PICK j \in Nat : a = Block * j
  BY DEF Blocks
<1>2. PICK k \in Nat : b = Block * k
  BY DEF Blocks
<1>3. a + b = Block * (j + k) /\ j + k \in Nat
  BY <1>1, <1>2, BlockSize
<1> QED BY <1>3 DEF Blocks

\* Less than a block, after whole blocks, is nothing.
LEMMA BlocksLess ==
    ASSUME NEW a \in Nat, NEW b \in Nat, Blocks(a + b), Blocks(a), b < Block
    PROVE  b = 0
<1>1. PICK j \in Nat : a = Block * j
  BY DEF Blocks
<1>2. PICK k \in Nat : a + b = Block * k
  BY DEF Blocks
<1>3. b = Block * (k - j)
  BY <1>1, <1>2, BlockSize
<1>4. CASE k - j >= 1
  <2>1. Block * (k - j) >= Block
    BY <1>4, BlockSize
  <2> QED BY <2>1, <1>3, BlockSize
<1>5. CASE k - j < 0
  <2>1. Block * (k - j) < 0
    BY <1>5, BlockSize
  <2> QED BY <2>1, <1>3, BlockSize
<1>6. CASE k = j
  BY <1>6, <1>3, BlockSize
<1> QED BY <1>4, <1>5, <1>6

\* The whole blocks in n octets.
LEMMA BlocksDivide ==
    ASSUME NEW n \in Nat
    PROVE  /\ n \div Block \in Nat
           /\ Block * (n \div Block) <= n
           /\ n - Block * (n \div Block) < Block
           /\ Block * (n \div Block) \in Nat
           /\ Blocks(Block * (n \div Block))
<1>1. n \div Block \in Nat /\ n = Block * (n \div Block) + (n % Block) /\ n % Block \in 0 .. Block - 1
  BY BlockSize
<1>2. Block * (n \div Block) \in Nat
  BY <1>1, BlockSize
<1> QED BY <1>1, <1>2, BlockSize DEF Blocks

\* Whole blocks leave no remainder.
LEMMA BlocksMod ==
    ASSUME NEW n \in Nat, Blocks(n)
    PROVE  n % Block = 0
<1>1. PICK k \in Nat : n = Block * k
  BY DEF Blocks
<1>2. n = Block * (n \div Block) + (n % Block) /\ n % Block \in 0 .. Block - 1 /\ n \div Block \in Nat
  BY BlockSize
<1>3. Blocks(Block * (n \div Block)) /\ Block * (n \div Block) \in Nat
  BY <1>2, BlocksDivide
<1>4. n % Block \in Nat /\ n % Block < Block
  BY <1>2, BlockSize
<1>5. Blocks(Block * (n \div Block) + (n % Block))
  BY <1>2
<1> HIDE DEF Blocks
<1> QED BY <1>3, <1>4, <1>5, BlocksLess

\* A sequence cut in two is its two parts.
LEMMA CutInTwo ==
    ASSUME NEW S, NEW s \in Seq(S), NEW n \in 0 .. Len(s)
    PROVE  /\ SubSeq(s, 1, n) \in Seq(S)
           /\ Len(SubSeq(s, 1, n)) = n
           /\ SubSeq(s, n + 1, Len(s)) \in Seq(S)
           /\ Len(SubSeq(s, n + 1, Len(s))) = Len(s) - n
           /\ SubSeq(s, 1, n) \o SubSeq(s, n + 1, Len(s)) = s
<1>1. Len(s) \in Nat /\ n \in Nat /\ n <= Len(s)
  BY LenProperties
<1>2. \A i \in 1 .. Len(s) : s[i] \in S
  BY ElementOfSeq
<1>3. SubSeq(s, 1, n) \in Seq(S) /\ Len(SubSeq(s, 1, n)) = n
  <2>1. \A i \in 1 .. n : s[i] \in S
    BY <1>1, <1>2
  <2>2. Len(SubSeq(s, 1, n)) = IF 1 <= n THEN n - 1 + 1 ELSE 0
    BY <1>1, <2>1, SubSeqProperties
  <2> QED BY <1>1, <2>1, <2>2, SubSeqProperties
<1>4. SubSeq(s, n + 1, Len(s)) \in Seq(S) /\ Len(SubSeq(s, n + 1, Len(s))) = Len(s) - n
  <2>1. \A i \in n + 1 .. Len(s) : s[i] \in S
    BY <1>1, <1>2
  <2>2. Len(SubSeq(s, n + 1, Len(s))) = IF n + 1 <= Len(s) THEN Len(s) - (n + 1) + 1 ELSE 0
    BY <1>1, <2>1, SubSeqProperties
  <2> QED BY <1>1, <2>1, <2>2, SubSeqProperties
<1>5. SubSeq(s, 1, n) \o SubSeq(s, n + 1, Len(s)) = SubSeq(s, 1, Len(s))
  <2>1. 1 \in 1 .. Len(s) + 1 /\ n \in 1 - 1 .. Len(s) /\ Len(s) \in n .. Len(s)
    BY <1>1
  <2> QED BY <2>1, ConcatAdjacentSubSeq
<1> QED BY <1>3, <1>4, <1>5, SubSeqFull

\* What the digest is fed: numbers, and the octets of a length field.
DigestOctets == Nat \cup {LengthField(n)[i] : n \in Nat, i \in 1 .. LengthOctets}
Md5States ==
    [compressed : Seq(DigestOctets), buffer : Seq(DigestOctets), length_bytes : Nat]

\* update() keeps whole blocks compressed and less than one in the buffer, and
\* what it holds grows by its input.
Absorbs(m, input, u) ==
    /\ u \in Md5States
    /\ u.compressed \o u.buffer = (m.compressed \o m.buffer) \o input
    /\ Len(u.buffer) < Block
    /\ Blocks(Len(u.compressed))
    /\ u.length_bytes = m.length_bytes + Len(input)

\* Concatenation associates.
LEMMA Reassociate ==
    \A s, t, u \in Seq(DigestOctets) : (s \o t) \o u = s \o (t \o u)
BY ConcatAssociative

\* update(), with the buffer empty, filled or not filled by its input.
LEMMA UpdateAbsorbs ==
    ASSUME NEW m \in Md5States, NEW input \in Seq(DigestOctets),
           Len(m.buffer) < Block, Blocks(Len(m.compressed))
    PROVE  Absorbs(m, input, update(m, input))
<1>a. PICK c \in Seq(DigestOctets), b \in Seq(DigestOctets), n \in Nat :
          m = [compressed |-> c, buffer |-> b, length_bytes |-> n]
  BY DEF Md5States
<1>b. m.compressed = c /\ m.buffer = b /\ m.length_bytes = n
  BY <1>a
<1> DEFINE room == Block - Len(b)
           count == IF b = <<>> THEN 0 ELSE IF room < Len(input) THEN room ELSE Len(input)
           first == SubSeq(input, 1, count)
           rest == SubSeq(input, count + 1, Len(input))
           filled == b \o first
           whole == Block * (Len(rest) \div Block)
           total == n + Len(input)
<1>0. /\ Len(input) \in Nat /\ Len(b) \in Nat /\ Len(c) \in Nat /\ Len(b) < Block /\ Blocks(Len(c))
      /\ (b = <<>> => Len(b) = 0) /\ <<>> \in Seq(DigestOctets) /\ Len(<<>>) = 0
  BY <1>b, LenProperties, EmptySeq
<1>1. count \in Nat /\ count <= Len(input) /\ count <= room
  <2> HIDE DEF Blocks
  <2>1. room \in Nat /\ room > 0
    BY <1>0, BlockSize
  <2> HIDE DEF room
  <2> QED BY <2>1, <1>0
<1>2. first \in Seq(DigestOctets) /\ Len(first) = count /\ rest \in Seq(DigestOctets)
      /\ Len(rest) = Len(input) - count /\ first \o rest = input
  <2> HIDE DEF count
  <2>1. count \in 0 .. Len(input)
    BY <1>1, <1>0
  <2> QED BY <2>1, CutInTwo
<1>3. filled \in Seq(DigestOctets) /\ Len(filled) = Len(b) + count
  <2> HIDE DEF count, first
  <2> QED BY <1>0, <1>2, ConcatProperties
<1>4. total \in Nat
  BY <1>0
<1>5. (c \o b) \o input = (c \o filled) \o rest
  <2> HIDE DEF count, first, rest
  <2>1. (c \o b) \o input = c \o (b \o input)
    BY Reassociate, Zenon
  <2>0. first \in Seq(DigestOctets) /\ rest \in Seq(DigestOctets)
    BY <1>2
  <2>2. (b \o first) \o rest = b \o (first \o rest)
    BY <2>0, Reassociate, Zenon
  <2>3. b \o input = filled \o rest
    BY <2>2, <1>2
  <2> HIDE DEF filled
  <2>4. filled \in Seq(DigestOctets)
    BY <1>3
  <2>5. c \o (filled \o rest) = (c \o filled) \o rest
    BY <2>0, <2>4, Reassociate, Zenon
  <2> QED BY <2>1, <2>3, <2>5
<1> DEFINE counted == [m EXCEPT !.length_bytes = @ + Len(input)]
           emptied == [counted EXCEPT !.buffer = <<>>]
           flushed == IF Len(filled) = Block THEN [emptied EXCEPT !.compressed = @ \o filled]
                      ELSE [counted EXCEPT !.buffer = filled]
           squeezed == [flushed EXCEPT !.compressed = @ \o SubSeq(rest, 1, whole)]
<1>6. update(m, input) = IF b # <<>> /\ rest = <<>> THEN flushed
                         ELSE [squeezed EXCEPT !.buffer = SubSeq(rest, whole + 1, Len(rest))]
  BY <1>b DEF update, compress
<1>7. flushed = IF Len(filled) = Block
                THEN [compressed |-> c \o filled, buffer |-> <<>>, length_bytes |-> total]
                ELSE [compressed |-> c, buffer |-> filled, length_bytes |-> total]
  <2>2. counted = [compressed |-> c, buffer |-> b, length_bytes |-> total]
    BY <1>a
  <2> HIDE DEF counted, filled, total
  <2>3. emptied = [compressed |-> c, buffer |-> <<>>, length_bytes |-> total]
    BY <2>2
  <2> HIDE DEF emptied
  <2> DEFINE longer == c \o filled
  <2>4. [emptied EXCEPT !.compressed = longer] =
           [compressed |-> longer, buffer |-> <<>>, length_bytes |-> total]
    <3> HIDE DEF longer
    <3> QED BY <2>3
  <2>5. emptied.compressed = c
    BY <2>3
  <2>6. [counted EXCEPT !.buffer = filled] =
           [compressed |-> c, buffer |-> filled, length_bytes |-> total]
    BY <2>2
  <2> QED BY <2>4, <2>5, <2>6
<1> HIDE DEF flushed, counted, emptied, total
<1>8. /\ flushed \in Md5States
      /\ flushed.compressed \o flushed.buffer = c \o filled
      /\ flushed.length_bytes = total
      /\ Len(flushed.buffer) < Block
      /\ Blocks(Len(flushed.compressed))
      /\ Len(filled) < Block => flushed.buffer = filled
      /\ b = <<>> => flushed.buffer = <<>>
      /\ Len(filled) = Block => flushed.buffer = <<>>
  <2> HIDE DEF count, first, rest, filled
  <2>1. CASE Len(filled) = Block
    <3>1. flushed = [compressed |-> c \o filled, buffer |-> <<>>, length_bytes |-> total]
      BY <1>7, <2>1
    <3>2. c \o filled \in Seq(DigestOctets) /\ Len(c \o filled) = Len(c) + Block
      BY <1>0, <1>3, <2>1, ConcatProperties
    <3>3. Blocks(Block)
      <4>1. Block = Block * 1 /\ 1 \in Nat
        BY BlockSize
      <4> QED BY <4>1 DEF Blocks
    <3>4. Blocks(Len(c) + Block)
      BY <1>0, <3>3, BlocksAdd, BlockSize
    <3>5. (c \o filled) \o <<>> = c \o filled
      BY <3>2, ConcatEmptySeq
    <3> HIDE DEF Blocks
    <3>6. flushed \in Md5States
      BY <3>1, <3>2, <1>0, <1>4 DEF Md5States
    <3> QED BY <3>1, <3>2, <3>4, <3>5, <3>6, <2>1, <1>0, BlockSize
  <2>2. CASE Len(filled) # Block
    <3>1. flushed = [compressed |-> c, buffer |-> filled, length_bytes |-> total]
      BY <1>7, <2>2
    <3>2. Len(filled) \in Nat /\ Len(filled) < Block
      BY <2>2, <1>0, <1>1, <1>3, BlockSize
    <3>3. flushed \in Md5States
      BY <3>1, <1>0, <1>3, <1>4 DEF Md5States
    <3>4. b = <<>> => filled = <<>>
      <4>1. b = <<>> => Len(filled) = 0
        BY <1>0, <1>3 DEF count
      <4> QED BY <4>1, <1>3, EmptySeq
    <3> QED BY <3>1, <3>2, <3>3, <3>4, <2>2, <1>0, BlockSize
  <2> QED BY <2>1, <2>2
<1>9. CASE b # <<>> /\ rest = <<>>
  <2>1. update(m, input) = flushed
    BY <1>6, <1>9
  <2>2. (c \o filled) \o <<>> = c \o filled
    <3> HIDE DEF filled
    <3>1. c \o filled \in Seq(DigestOctets)
      BY <1>0, <1>3, ConcatProperties
    <3> QED BY <3>1, ConcatEmptySeq
  <2> QED BY <2>1, <2>2, <1>b, <1>5, <1>8, <1>9 DEF Absorbs, total
<1>10. CASE ~(b # <<>> /\ rest = <<>>)
  <2> DEFINE middle == SubSeq(rest, 1, whole)
             last == SubSeq(rest, whole + 1, Len(rest))
  <2> HIDE DEF count, first, rest, filled
  <2>1. flushed.buffer = <<>>
    <3>1. CASE b = <<>>
      BY <3>1, <1>8
    <3>2. CASE b # <<>>
      <4>1. Len(rest) # 0
        BY <1>10, <3>2, <1>2, EmptySeq
      <4>2. count = room
        BY <4>1, <1>2, <1>0, <3>2, BlockSize DEF count
      <4>3. Len(filled) = Block
        BY <4>2, <1>3, <1>0, BlockSize
      <4> QED BY <4>3, <1>8
    <3> QED BY <3>1, <3>2
  <2>2. Len(rest) \in Nat
    BY <1>2, LenProperties
  <2>3. whole \in 0 .. Len(rest) /\ whole \in Nat /\ Blocks(whole) /\ Len(rest) - whole < Block
    <3> HIDE DEF Blocks
    <3> QED BY <2>2, BlocksDivide
  <2> HIDE DEF whole
  <2>4. middle \in Seq(DigestOctets) /\ Len(middle) = whole /\ last \in Seq(DigestOctets)
        /\ Len(last) = Len(rest) - whole /\ middle \o last = rest
    BY <2>3, <1>2, CutInTwo
  <2> HIDE DEF middle, last
  <2>5. flushed.compressed = c \o filled /\ flushed.compressed \in Seq(DigestOctets)
        /\ flushed.length_bytes \in Nat
    <3>1. flushed.compressed \in Seq(DigestOctets) /\ flushed.length_bytes \in Nat
      BY <1>8 DEF Md5States
    <3> QED BY <3>1, <1>8, <2>1, ConcatEmptySeq
  <2>6. update(m, input) = [compressed |-> flushed.compressed \o middle, buffer |-> last,
                            length_bytes |-> total]
    <3>1. update(m, input) = [squeezed EXCEPT !.buffer = last]
      BY <1>6, <1>10 DEF last
    <3>2. flushed = [compressed |-> flushed.compressed, buffer |-> flushed.buffer, length_bytes |-> total]
      BY <1>8 DEF Md5States
    <3>3. squeezed = [compressed |-> flushed.compressed \o middle, buffer |-> flushed.buffer,
                      length_bytes |-> total]
      <4> DEFINE longer == flushed.compressed \o middle
      <4>1. squeezed = [flushed EXCEPT !.compressed = longer]
        BY DEF middle
      <4> HIDE DEF longer, squeezed
      <4>2. squeezed = [compressed |-> longer, buffer |-> flushed.buffer, length_bytes |-> total]
        BY <4>1, <3>2
      <4> QED BY <4>2 DEF longer
    <3> HIDE DEF squeezed
    <3> QED BY <3>1, <3>3
  <2>7. flushed.compressed \o middle \in Seq(DigestOctets)
        /\ Len(flushed.compressed \o middle) = Len(flushed.compressed) + whole
    BY <2>4, <2>5, ConcatProperties
  <2>8. Blocks(Len(flushed.compressed) + whole)
    <3> HIDE DEF Blocks
    <3> QED BY <1>8, <2>3, <2>5, BlocksAdd, LenProperties
  <2>9. (flushed.compressed \o middle) \o last = (c \o filled) \o rest
    <3>0. flushed.compressed \in Seq(DigestOctets) /\ middle \in Seq(DigestOctets)
          /\ last \in Seq(DigestOctets)
      BY <2>4, <2>5
    <3>1. (flushed.compressed \o middle) \o last = flushed.compressed \o (middle \o last)
      <4> DEFINE held == flushed.compressed
      <4> HIDE DEF held
      <4>1. held \in Seq(DigestOctets)
        BY <3>0 DEF held
      <4>2. (held \o middle) \o last = held \o (middle \o last)
        BY <3>0, <4>1, Reassociate, ConcatAssociative
      <4> QED BY <4>2 DEF held
    <3>2. middle \o last = rest /\ flushed.compressed = c \o filled
      BY <2>4, <2>5
    <3> QED BY <3>1, <3>2, Zenon
  <2> HIDE DEF Blocks
  <2>10. update(m, input) \in Md5States
    BY <2>4, <2>6, <2>7, <1>4 DEF Md5States, total
  <2>11. /\ update(m, input).compressed = flushed.compressed \o middle
         /\ update(m, input).buffer = last /\ update(m, input).length_bytes = total
    BY <2>6
  <2>12. Len(last) < Block
    BY <2>3, <2>4
  <2>13. update(m, input).compressed \o update(m, input).buffer = (m.compressed \o m.buffer) \o input
    BY <2>9, <2>11, <1>b, <1>5
  <2>14. Blocks(Len(update(m, input).compressed)) /\ Len(update(m, input).buffer) < Block
    BY <2>7, <2>8, <2>11, <2>12
  <2> QED BY <2>10, <2>11, <2>13, <2>14, <1>b DEF Absorbs, total
<1> QED BY <1>9, <1>10

\* The padding and the length field are strings of octets.
LEMMA PaddingType ==
    /\ \A n \in Nat : Padding(n) \in Seq(DigestOctets) /\ Len(Padding(n)) = n
    /\ \A n \in Nat : LengthField(n) \in Seq(DigestOctets) /\ Len(LengthField(n)) = LengthOctets
<1>1. ASSUME NEW n \in Nat
      PROVE  Padding(n) \in Seq(DigestOctets) /\ Len(Padding(n)) = n
  <2>1. Padding(n) \in [1 .. n -> DigestOctets]
    BY DEF Padding, DigestOctets
  <2>2. Padding(n) \in Seq(DigestOctets)
    BY <2>1
  <2>3. DOMAIN Padding(n) = 1 .. n
    BY DEF Padding
  <2> QED BY <2>1, <2>2, <2>3, LenProperties
<1>2. ASSUME NEW n \in Nat
      PROVE  LengthField(n) \in Seq(DigestOctets) /\ Len(LengthField(n)) = LengthOctets
  <2>1. LengthField(n) \in [1 .. LengthOctets -> DigestOctets]
    <3>1. DOMAIN LengthField(n) = 1 .. LengthOctets
          /\ LengthField(n) = [i \in DOMAIN LengthField(n) |-> LengthField(n)[i]]
      BY DEF LengthField
    <3>2. \A i \in 1 .. LengthOctets : LengthField(n)[i] \in DigestOctets
      BY DEF DigestOctets
    <3> QED BY <3>1, <3>2
  <2>2. LengthField(n) \in Seq(DigestOctets)
    BY <2>1, BlockSize
  <2>3. DOMAIN LengthField(n) = 1 .. LengthOctets
    BY DEF LengthField
  <2> QED BY <2>1, <2>2, <2>3, LenProperties, BlockSize
<1> QED BY <1>1, <1>2

\* finalize() compresses the message, its padding and its length, and no more.
LEMMA FinalizePads ==
    ASSUME NEW m \in Md5States, NEW text \in Seq(DigestOctets),
           m.compressed \o m.buffer = text, Len(m.buffer) < Block,
           Blocks(Len(m.compressed)), m.length_bytes = Len(text)
    PROVE  \E p \in 1 .. Block :
               /\ finalize(m) \in Md5States
               /\ finalize(m).buffer = <<>>
               /\ finalize(m).compressed = text \o (Padding(p) \o LengthField(Len(text)))
               /\ Blocks(Len(finalize(m).compressed))
<1> DEFINE limit == Block - LengthOctets
           held == Len(m.buffer)
           p == IF held < limit THEN limit - held ELSE limit + Block - held
           P == Padding(p)
           L == LengthField(Len(text))
           padded == update(m, P)
           done == update(padded, L)
<1>1. /\ held \in Nat /\ held < Block /\ Len(m.compressed) \in Nat
      /\ m.compressed \in Seq(DigestOctets) /\ m.buffer \in Seq(DigestOctets)
  BY LenProperties DEF Md5States
<1>2. p \in Nat /\ p >= 1 /\ p <= Block
  <2> HIDE DEF held
  <2> QED BY <1>1, BlockSize
<1>3. held + p + LengthOctets = Block \/ held + p + LengthOctets = Block * 2
  <2> HIDE DEF held
  <2> QED BY <1>1, BlockSize
<1>4. finalize(m) = done
  BY DEF finalize
<1> HIDE DEF p, held
<1>5. P \in Seq(DigestOctets) /\ Len(P) = p
      /\ L \in Seq(DigestOctets) /\ Len(L) = LengthOctets
      /\ Len(text) \in Nat
  BY <1>2, PaddingType, LenProperties
<1> HIDE DEF P, L
<1>6. Absorbs(m, P, padded)
  BY <1>5, UpdateAbsorbs
<1> HIDE DEF padded
<1>7. Absorbs(padded, L, done)
  <2>1. padded \in Md5States /\ Len(padded.buffer) < Block /\ Blocks(Len(padded.compressed))
    BY <1>6 DEF Absorbs
  <2> QED BY <2>1, <1>5, UpdateAbsorbs
<1> HIDE DEF done
<1>8. done.compressed \o done.buffer = text \o (P \o L)
  <2>1. done.compressed \o done.buffer = (padded.compressed \o padded.buffer) \o L
    BY <1>7 DEF Absorbs
  <2>2. padded.compressed \o padded.buffer = text \o P
    BY <1>6 DEF Absorbs
  <2>3. (text \o P) \o L = text \o (P \o L)
    <3>1. P \in Seq(DigestOctets) /\ L \in Seq(DigestOctets)
      BY <1>5
    <3> QED BY <3>1, Reassociate, Zenon
  <2> QED BY <2>1, <2>2, <2>3
<1>9. done \in Md5States /\ done.compressed \in Seq(DigestOctets) /\ done.buffer \in Seq(DigestOctets)
      /\ Len(done.buffer) < Block /\ Blocks(Len(done.compressed))
      /\ Len(done.compressed) \in Nat /\ Len(done.buffer) \in Nat
  BY <1>7, LenProperties DEF Absorbs, Md5States
<1>10. Len(done.compressed) + Len(done.buffer) = Len(m.compressed) + (held + p + LengthOctets)
  <2>1. Len(done.compressed \o done.buffer) = Len(done.compressed) + Len(done.buffer)
    BY <1>9, ConcatProperties
  <2>2. Len(text) = Len(m.compressed) + held
    BY <1>1, ConcatProperties DEF held
  <2>3. P \o L \in Seq(DigestOctets)
        /\ Len(P \o L) = p + LengthOctets
    BY <1>5, ConcatProperties
  <2>4. Len(text \o (P \o L)) = Len(text) + (p + LengthOctets)
    BY <2>3, ConcatProperties
  <2>5. Len(done.compressed) + Len(done.buffer) = (Len(m.compressed) + held) + (p + LengthOctets)
    BY <2>1, <2>2, <2>4, <1>8
  <2>6. PICK i \in Nat, j \in Nat, k \in Nat, l \in Nat :
            i = Len(m.compressed) /\ j = held /\ k = p /\ l = LengthOctets
    BY <1>1, <1>2, BlockSize
  <2>7. (i + j) + (k + l) = i + (j + k + l)
    OBVIOUS
  <2> QED BY <2>5, <2>6, <2>7
<1>11. Blocks(held + p + LengthOctets) /\ held + p + LengthOctets \in Nat
  <2>1. Block = Block * 1 /\ 1 \in Nat /\ 2 \in Nat
    BY BlockSize
  <2>2. Blocks(held + p + LengthOctets)
    BY <2>1, <1>3 DEF Blocks
  <2>3. held + p + LengthOctets \in Nat
    BY <1>1, <1>2, BlockSize
  <2> QED BY <2>2, <2>3
<1>12. Blocks(Len(done.compressed) + Len(done.buffer))
  <2> HIDE DEF Blocks
  <2>1. Blocks(Len(m.compressed) + (held + p + LengthOctets))
    BY <1>1, <1>11, BlocksAdd
  <2> QED BY <2>1, <1>10
<1>13. Len(done.buffer) = 0
  <2> HIDE DEF Blocks
  <2> QED BY <1>9, <1>12, BlocksLess
<1>14. done.buffer = <<>>
  BY <1>9, <1>13, EmptySeq
<1>15. done.compressed = text \o (P \o L)
  BY <1>8, <1>9, <1>14, ConcatEmptySeq
<1>16. p \in 1 .. Block
  BY <1>2, BlockSize
<1>17. done.compressed = text \o (Padding(p) \o LengthField(Len(text)))
  BY <1>15 DEF P, L
<1> QED BY <1>4, <1>9, <1>14, <1>16, <1>17

\* The inductive invariant: besides what DigestExact says, what was compressed
\* is whole blocks and length_bytes counts the message.
DigestInv ==
    /\ md5 \in Md5States
    /\ message \in Seq(DigestOctets)
    /\ feeding # "done" => /\ md5.compressed \o md5.buffer = message
                           /\ Len(md5.buffer) < Block
                           /\ Blocks(Len(md5.compressed))
                           /\ md5.length_bytes = Len(message)
    /\ PadsAsSpecified

\* A new digest has absorbed nothing.
LEMMA DigestInitInv == DigestInit => DigestInv
<1> SUFFICES ASSUME DigestInit PROVE DigestInv
  OBVIOUS
<1>1. md5 = [compressed |-> <<>>, buffer |-> <<>>, length_bytes |-> 0] /\ message = <<>>
      /\ feeding = "identifier"
  BY DEF DigestInit, Md5New
<1>2. <<>> \in Seq(DigestOctets) /\ Len(<<>>) = 0 /\ <<>> \o <<>> = <<>>
  BY EmptySeq, ConcatEmptySeq
<1>3. md5 \in Md5States
  BY <1>1, <1>2 DEF Md5States
<1>4. 0 = Block * 0 /\ 0 \in Nat
  BY BlockSize
<1>5. Blocks(0)
  BY <1>4 DEF Blocks
<1> HIDE DEF Blocks
<1> QED BY <1>1, <1>2, <1>3, <1>5, BlockSize DEF DigestInv, PadsAsSpecified

\* A part of the message is absorbed.
LEMMA FeedInv ==
    ASSUME DigestInv, NEW n \in Nat, NEW now, NEW then, now # "done", then # "done",
           Feed(n, now, then)
    PROVE  DigestInv'
<1>1. feeding = now /\ feeding' = then /\ md5' = update(md5, Chunk(n)) /\ message' = message \o Chunk(n)
  BY DEF Feed
<1>2. md5 \in Md5States /\ message \in Seq(DigestOctets) /\ Len(message) \in Nat
      /\ md5.compressed \o md5.buffer = message /\ Len(md5.buffer) < Block
      /\ Blocks(Len(md5.compressed)) /\ md5.length_bytes = Len(message)
  BY <1>1, LenProperties DEF DigestInv
<1>3. Chunk(n) \in Seq(DigestOctets)
  <2>1. Chunk(n) \in [1 .. n -> DigestOctets]
    BY <1>2 DEF Chunk, DigestOctets
  <2> QED BY <2>1
<1> DEFINE C == Chunk(n)
<1>4. Absorbs(md5, C, md5')
  BY <1>1, <1>2, <1>3, UpdateAbsorbs
<1>5. message' \in Seq(DigestOctets) /\ Len(message') = Len(message) + Len(C)
  <2> HIDE DEF C
  <2>1. C \in Seq(DigestOctets) /\ message' = message \o C
    BY <1>1, <1>3 DEF C
  <2> QED BY <2>1, <1>2, ConcatProperties
<1>6. md5'.compressed \o md5'.buffer = message' /\ md5'.length_bytes = Len(message')
  BY <1>1, <1>2, <1>4, <1>5 DEF Absorbs
<1>7. md5' \in Md5States /\ Len(md5'.buffer) < Block /\ Blocks(Len(md5'.compressed))
  BY <1>4 DEF Absorbs
<1> HIDE DEF Blocks
<1>8. feeding' # "done"
  BY <1>1
<1> QED BY <1>5, <1>6, <1>7, <1>8 DEF DigestInv, PadsAsSpecified

\* The padded message is what PadsAsSpecified says.
LEMMA FinalizeInv ==
    ASSUME DigestInv, Finalize
    PROVE  DigestInv'
<1>1. feeding = "finalize" /\ feeding' = "done" /\ md5' = finalize(md5) /\ message' = message
  BY DEF Finalize
<1>2. md5 \in Md5States /\ message \in Seq(DigestOctets) /\ Len(message) \in Nat
      /\ md5.compressed \o md5.buffer = message /\ Len(md5.buffer) < Block
      /\ Blocks(Len(md5.compressed)) /\ md5.length_bytes = Len(message)
  BY <1>1, LenProperties DEF DigestInv
<1>3. PICK p \in 1 .. Block :
          /\ finalize(md5) \in Md5States
          /\ finalize(md5).buffer = <<>>
          /\ finalize(md5).compressed = message \o (Padding(p) \o LengthField(Len(message)))
          /\ Blocks(Len(finalize(md5).compressed))
  BY <1>2, FinalizePads
<1> DEFINE P == Padding(p)
           L == LengthField(Len(message))
           end == P \o L
           c == md5'.compressed
<1>4. P \in Seq(DigestOctets) /\ Len(P) = p /\ L \in Seq(DigestOctets) /\ Len(L) = LengthOctets
  BY <1>2, PaddingType
<1>5. end \in Seq(DigestOctets) /\ Len(end) = p + LengthOctets
  <2> HIDE DEF P, L
  <2> QED BY <1>4, ConcatProperties
<1>6. c = message \o end /\ c \in Seq(DigestOctets) /\ Len(c) \in Nat
  BY <1>1, <1>3, LenProperties DEF Md5States
<1>7. md5' \in Md5States /\ md5'.buffer = <<>> /\ Blocks(Len(c))
  BY <1>1, <1>3
<1> HIDE DEF P, L, end, c
<1>8. Len(c) = Len(message) + Len(end)
  BY <1>2, <1>5, <1>6, ConcatProperties
<1>9. Len(message) \in 0 .. Len(c)
  BY <1>2, <1>5, <1>6, <1>8, BlockSize
<1> DEFINE front == SubSeq(c, 1, Len(message))
           tail == SubSeq(c, Len(message) + 1, Len(c))
<1>10. front \in Seq(DigestOctets) /\ Len(front) = Len(message) /\ tail \in Seq(DigestOctets)
       /\ Len(tail) = Len(c) - Len(message) /\ front \o tail = c
  BY <1>6, <1>9, CutInTwo
<1>11. front = message
  <2>1. \A i \in 1 .. Len(message) : front[i] = c[i]
    <3>1. \A i \in 1 .. Len(message) : c[i] \in DigestOctets
      BY <1>6, <1>9, ElementOfSeq
    <3> QED BY <3>1, <1>2, SubSeqProperties
  <2>2. \A i \in 1 .. Len(message) : c[i] = message[i]
    <3>0. message \in Seq(DigestOctets) /\ end \in Seq(DigestOctets)
      BY <1>2, <1>5
    <3>1. \A i \in 1 .. Len(message) + Len(end) :
              (message \o end)[i] = IF i <= Len(message) THEN message[i] ELSE end[i - Len(message)]
      BY <3>0, ConcatProperties
    <3>2. Len(end) \in Nat
      BY <1>5, LenProperties
    <3> QED BY <3>1, <3>2, <1>2, <1>6
  <2> HIDE DEF front
  <2>3. \A i \in 1 .. Len(front) : front[i] = message[i]
    BY <2>1, <2>2, <1>10
  <2> QED BY <2>3, <1>2, <1>10, SeqEqual
<1>12. tail = end
  <2> HIDE DEF front, tail
  <2>1. message \o tail = message \o end
    BY <1>6, <1>10, <1>11
  <2>2. tail \in Seq(DigestOctets) /\ end \in Seq(DigestOctets) /\ message \in Seq(DigestOctets)
    BY <1>2, <1>5, <1>10
  <2> QED BY <2>1, <2>2, ConcatSimplifications
<1>13. SubSeq(message, 1, Len(message)) = message
  BY <1>2, SubSeqFull
<1> DEFINE zeros == Len(tail) - 1 - LengthOctets
<1>14. zeros = p - 1
  <2> HIDE DEF tail
  <2>1. p \in Nat /\ Len(tail) = p + LengthOctets
    BY <1>5, <1>12, BlockSize
  <2> QED BY <2>1, BlockSize
<1>15. Len(c) % Block = 0
  <2> HIDE DEF Blocks
  <2> QED BY <1>6, <1>7, BlocksMod
<1>16. zeros \in 0 .. Block - 1 /\ 1 + zeros = p
  <2>1. p \in Nat /\ p >= 1 /\ p <= Block
    BY BlockSize
  <2> HIDE DEF zeros
  <2> QED BY <1>14, <2>1, BlockSize
<1>17. tail = Padding(1 + zeros) \o LengthField(Len(message))
  <2> HIDE DEF tail, zeros
  <2> QED BY <1>12, <1>16 DEF end, P, L
<1>18. IsPrefix(message, c)
  BY <1>9, <1>11, <1>13, <1>2 DEF IsPrefix
<1>19. PadsAsSpecified'
  <2> SUFFICES /\ md5'.buffer = <<>>
               /\ Len(md5'.compressed) % Block = 0
               /\ zeros \in 0 .. Block - 1
               /\ IsPrefix(message, md5'.compressed)
               /\ tail = Padding(1 + zeros) \o LengthField(Len(message))
    BY <1>1 DEF PadsAsSpecified, c
  <2> HIDE DEF zeros, tail
  <2> QED BY <1>7, <1>15, <1>16, <1>17, <1>18 DEF c
<1> QED BY <1>1, <1>2, <1>7, <1>19 DEF DigestInv

\* Every step of response_digest keeps the invariant.
LEMMA DigestNextInv == DigestInv /\ [DigestNext]_digestVars => DigestInv'
<1> SUFFICES ASSUME DigestInv, [DigestNext]_digestVars PROVE DigestInv'
  OBVIOUS
<1>1. CASE FeedIdentifier
  BY <1>1, FeedInv DEF FeedIdentifier
<1>2. ASSUME NEW n \in 0 .. MaxPart, FeedSecret(n)
      PROVE  DigestInv'
  <2>1. n \in Nat
    BY DigestConstants
  <2> QED BY <1>2, <2>1, FeedInv DEF FeedSecret
<1>3. ASSUME NEW n \in 0 .. MaxPart, FeedChallenge(n)
      PROVE  DigestInv'
  <2>1. n \in Nat
    BY DigestConstants
  <2> QED BY <1>3, <2>1, FeedInv DEF FeedChallenge
<1>4. CASE Finalize
  BY <1>4, FinalizeInv
<1>5. CASE UNCHANGED digestVars
  BY <1>5 DEF digestVars, DigestInv, PadsAsSpecified
<1> QED BY <1>1, <1>2, <1>3, <1>4, <1>5 DEF DigestNext

\* However identifier, secret and challenge are cut into updates, MD5 absorbs
\* them in order, and finalize() compresses the message with the padding of
\* RFC 1321 and leaves an empty buffer: for every block, length field and part.
THEOREM DigestCorrect == DigestSpec => []DigestExact
<1>1. DigestInv => DigestExact
  BY DEF DigestInv, DigestExact, AbsorbsInOrder
<1> QED BY <1>1, DigestInitInv, DigestNextInv, PTL DEF DigestSpec

-----------------------------------------------------------------------------
(***************************************************************************)
(* The NTP exchange of ntp.rs.                                             *)
(***************************************************************************)

Quad == [1 .. 4 -> Octet]

\* A table over 1 .. n is a sequence of n.
LEMMA TableIsSeq ==
    ASSUME NEW n \in Nat, NEW S, NEW q \in [1 .. n -> S]
    PROVE  q \in Seq(S) /\ Len(q) = n
<1>1. q \in Seq(S)
  OBVIOUS
<1>2. DOMAIN q = 1 .. n
  OBVIOUS
<1> QED BY <1>1, <1>2, LenProperties

\* A 32-bit number is four octets.
LEMMA QuadType ==
    ASSUME NEW q \in Quad
    PROVE  q \in Seq(Octet) /\ Len(q) = 4
<1>1. 4 \in Nat /\ q \in [1 .. 4 -> Octet]
  BY DEF Quad
<1> QED BY <1>1, TableIsSeq

\* A timestamp is two such numbers.
LEMMA TimeType ==
    ASSUME NEW time \in Times
    PROVE  /\ time = [seconds |-> time.seconds, fraction |-> time.fraction]
           /\ time.seconds \in Quad /\ time.fraction \in Quad
BY NtpConstants DEF Quad

\* Zero octets.
LEMMA ZerosType ==
    ASSUME NEW n \in Nat
    PROVE  Zeros(n) \in Seq(Octet) /\ Len(Zeros(n)) = n /\ \A i \in 1 .. n : Zeros(n)[i] = 0
<1>1. Zeros(n) \in [1 .. n -> Octet]
  BY DEF Zeros, Octet
<1>2. Zeros(n) \in Seq(Octet)
  BY <1>1
<1>3. DOMAIN Zeros(n) = 1 .. n /\ \A i \in 1 .. n : Zeros(n)[i] = 0
  BY DEF Zeros
<1> QED BY <1>2, <1>3, LenProperties

\* What is appended is read back where it was appended, and hides nothing before it.
LEMMA SliceOfConcat ==
    ASSUME NEW a \in Seq(Octet), NEW b \in Seq(Octet)
    PROVE  /\ a \o b \in Seq(Octet)
           /\ Len(a \o b) = Len(a) + Len(b)
           /\ \A i \in 1 .. Len(a) : (a \o b)[i] = a[i]
           /\ Slice(a \o b, Len(a), Len(a) + Len(b)) = b
           /\ \A from, to \in Nat : to <= Len(a) => Slice(a \o b, from, to) = Slice(a, from, to)
<1>1. Len(a) \in Nat /\ Len(b) \in Nat
  BY LenProperties
<1> DEFINE c == a \o b
<1>2. /\ c \in Seq(Octet) /\ Len(c) = Len(a) + Len(b)
      /\ \A i \in 1 .. Len(a) + Len(b) : c[i] = IF i <= Len(a) THEN a[i] ELSE b[i - Len(a)]
  BY ConcatProperties
<1> HIDE DEF c
<1>3. \A i \in 1 .. Len(a) : c[i] = a[i]
  BY <1>1, <1>2
<1>4. \A i \in 1 .. Len(c) : c[i] \in Octet
  BY <1>2, ElementOfSeq
<1>5. SubSeq(c, Len(a) + 1, Len(a) + Len(b)) = b
  <2> DEFINE m == Len(a) + 1
             n == Len(a) + Len(b)
             d == SubSeq(c, m, n)
  <2>1. m \in Int /\ n \in Int /\ n - m + 1 = Len(b) /\ \A i \in m .. n : i \in 1 .. Len(c)
    BY <1>1, <1>2
  <2>2. \A i \in m .. n : c[i] \in Octet
    BY <1>4, <2>1
  <2> HIDE DEF m, n
  <2>3. d \in Seq(Octet) /\ (Len(d) = IF m <= n THEN n - m + 1 ELSE 0)
        /\ \A i \in 1 .. n - m + 1 : d[i] = c[m + i - 1]
    BY <2>1, <2>2, SubSeqProperties
  <2> HIDE DEF d
  <2>4. Len(d) = Len(b)
    BY <2>1, <2>3, <1>1 DEF m, n
  <2>5. \A i \in 1 .. Len(d) : d[i] = b[i]
    <3> SUFFICES ASSUME NEW i \in 1 .. Len(b) PROVE d[i] = b[i]
      BY <2>4
    <3>1. d[i] = c[m + i - 1]
      BY <2>1, <2>3
    <3>2. m + i - 1 = Len(a) + i /\ Len(a) + i \in 1 .. Len(a) + Len(b) /\ ~(Len(a) + i <= Len(a))
          /\ (Len(a) + i) - Len(a) = i
      BY <1>1 DEF m
    <3>3. c[Len(a) + i] = b[(Len(a) + i) - Len(a)]
      BY <1>2, <3>2
    <3> QED BY <3>1, <3>2, <3>3
  <2>6. d = b
    BY <2>3, <2>4, <2>5, SeqEqual
  <2> QED BY <2>6 DEF d, m, n
<1>6. ASSUME NEW from \in Nat, NEW to \in Nat, to <= Len(a)
      PROVE  SubSeq(c, from + 1, to) = SubSeq(a, from + 1, to)
  <2> DEFINE m == from + 1
             d == SubSeq(c, m, to)
             e == SubSeq(a, m, to)
  <2>1. m \in Int /\ to \in Int /\ m >= 1 /\ \A i \in m .. to : i \in 1 .. Len(a) /\ i \in 1 .. Len(c)
    BY <1>1, <1>2, <1>6
  <2>2. \A i \in m .. to : c[i] \in Octet /\ a[i] \in Octet
    BY <1>4, <2>1, ElementOfSeq
  <2> HIDE DEF m
  <2>3. d \in Seq(Octet) /\ (Len(d) = IF m <= to THEN to - m + 1 ELSE 0)
        /\ \A i \in 1 .. to - m + 1 : d[i] = c[m + i - 1]
    BY <2>1, <2>2, SubSeqProperties
  <2>4. e \in Seq(Octet) /\ (Len(e) = IF m <= to THEN to - m + 1 ELSE 0)
        /\ \A i \in 1 .. to - m + 1 : e[i] = a[m + i - 1]
    BY <2>1, <2>2, SubSeqProperties
  <2> HIDE DEF d, e
  <2>5. \A i \in 1 .. Len(d) : d[i] = e[i]
    <3> SUFFICES ASSUME NEW i \in 1 .. Len(d) PROVE d[i] = e[i]
      OBVIOUS
    <3>1. i \in 1 .. to - m + 1 /\ m + i - 1 \in m .. to
      BY <2>1, <2>3
    <3>2. c[m + i - 1] = a[m + i - 1]
      BY <3>1, <2>1, <1>3
    <3> QED BY <3>1, <3>2, <2>3, <2>4
  <2>6. Len(d) = Len(e)
    BY <2>3, <2>4
  <2>7. d = e
    BY <2>3, <2>4, <2>5, <2>6, SeqEqual
  <2> QED BY <2>7 DEF d, e, m
<1> QED BY <1>2, <1>3, <1>5, <1>6 DEF c, Slice

\* The octets of a request and of an answer.
Asked(time) == write_timestamp(<<4 * 8 + MODE_CLIENT>> \o Zeros(PACKET_LENGTH - 1), 40, time)
First(server) == 64 * server.leap + 8 * server.version + server.mode
Answered(server, now, asked) ==
    <<First(server), server.stratum>> \o Zeros(22) \o asked \o now.seconds \o now.fraction
    \o now.seconds \o now.fraction

\* A request is 48 octets; its last eight are the transmit timestamp.
LEMMA AskedFields ==
    ASSUME NEW time \in Times
    PROVE  /\ Asked(time) \in Seq(Octet) /\ Len(Asked(time)) = 48 /\ Asked(time)[1] = 35
           /\ Slice(Asked(time), 40, 48) = time.seconds \o time.fraction
<1> DEFINE one == <<4 * 8 + MODE_CLIENT>>
           zeros == Zeros(PACKET_LENGTH - 1)
           b == one \o zeros
           q == time.seconds
           r == time.fraction
           p0 == Slice(b, 0, 40)
           end == From(b, 48)
<1>1. one \in Seq(Octet) /\ Len(one) = 1 /\ one[1] = 35
  BY DEF MODE_CLIENT, Octet
<1>2. zeros \in Seq(Octet) /\ Len(zeros) = 47
  <2>1. PACKET_LENGTH - 1 = 47 /\ 47 \in Nat
    BY DEF PACKET_LENGTH
  <2> QED BY <2>1, ZerosType
<1>3. q \in Seq(Octet) /\ Len(q) = 4 /\ r \in Seq(Octet) /\ Len(r) = 4
  BY TimeType, QuadType
<1> HIDE DEF one, zeros, q, r
<1>4. b \in Seq(Octet) /\ Len(b) = 48 /\ b[1] = 35
  <2>1. b \in Seq(Octet) /\ Len(b) = Len(one) + Len(zeros) /\ \A i \in 1 .. Len(one) : b[i] = one[i]
    <3>1. one \in Seq(Octet) /\ zeros \in Seq(Octet)
      BY <1>1, <1>2
    <3> QED BY <3>1, SliceOfConcat
  <2>2. Len(b) = 48 /\ 1 \in 1 .. Len(one)
    BY <2>1, <1>1, <1>2
  <2> QED BY <2>1, <2>2, <1>1
<1> HIDE DEF b
<1>5. p0 \in Seq(Octet) /\ Len(p0) = 40 /\ p0[1] = 35 /\ end = <<>> /\ end \in Seq(Octet) /\ Len(end) = 0
  <2>1. \A i \in 1 .. 40 : b[i] \in Octet
    <3>1. \A i \in 1 .. Len(b) : b[i] \in Octet
      BY <1>4, ElementOfSeq
    <3>2. \A i \in 1 .. 40 : i \in 1 .. Len(b)
      BY <1>4
    <3> QED BY <3>1, <3>2
  <2>2. /\ SubSeq(b, 1, 40) \in Seq(Octet)
        /\ Len(SubSeq(b, 1, 40)) = IF 1 <= 40 THEN 40 - 1 + 1 ELSE 0
        /\ \A i \in 1 .. 40 - 1 + 1 : SubSeq(b, 1, 40)[i] = b[1 + i - 1]
    BY <2>1, SubSeqProperties
  <2>3. SubSeq(b, 1, 40)[1] = b[1]
    BY <2>2
  <2>4. p0 = SubSeq(b, 1, 40)
    BY DEF Slice
  <2>5. end = SubSeq(b, 49, 48)
    BY <1>4 DEF From
  <2>6. SubSeq(b, 49, 48) = <<>>
    BY SubSeqEmpty
  <2>7. Len(SubSeq(b, 1, 40)) = 40
    BY <2>2
  <2>8. end = <<>> /\ <<>> \in Seq(Octet) /\ Len(<<>>) = 0
    BY <2>5, <2>6, EmptySeq
  <2> HIDE DEF end, p0
  <2>9. end \in Seq(Octet) /\ Len(end) = 0
    BY <2>8
  <2>10. p0 \in Seq(Octet) /\ Len(p0) = 40 /\ p0[1] = 35
    BY <2>2, <2>3, <2>4, <2>7, <1>4
  <2> QED BY <2>8, <2>9, <2>10
<1>6. Asked(time) = ((p0 \o q) \o r) \o end
  BY DEF Asked, write_timestamp, p0, q, r, end, b, one, zeros
<1> HIDE DEF p0, end
<1> DEFINE t == q \o r
           w == p0 \o t
<1>7. t \in Seq(Octet) /\ Len(t) = 8
  <2>1. q \in Seq(Octet) /\ r \in Seq(Octet)
    BY <1>3
  <2>2. t \in Seq(Octet) /\ Len(t) = Len(q) + Len(r)
    BY <2>1, SliceOfConcat
  <2> QED BY <2>2, <1>3
<1>8. Asked(time) = w
  <2>1. (p0 \o q) \o r = w
    <3>1. p0 \in Seq(Octet) /\ q \in Seq(Octet) /\ r \in Seq(Octet)
      BY <1>3, <1>5
    <3> QED BY <3>1, ConcatAssociative
  <2>2. w \in Seq(Octet)
    <3> HIDE DEF t
    <3> QED BY <1>5, <1>7, SliceOfConcat
  <2> HIDE DEF w
  <2>3. w \o <<>> = w
    BY <2>2, ConcatEmptySeq
  <2> QED BY <1>5, <1>6, <2>1, <2>3
<1>9. w \in Seq(Octet) /\ Len(w) = 48 /\ w[1] = 35 /\ Slice(w, 40, 48) = t
  <2> HIDE DEF t
  <2>1. /\ w \in Seq(Octet) /\ Len(w) = Len(p0) + Len(t) /\ \A i \in 1 .. Len(p0) : w[i] = p0[i]
        /\ Slice(w, Len(p0), Len(p0) + Len(t)) = t
    <3>1. p0 \in Seq(Octet) /\ t \in Seq(Octet)
      BY <1>5, <1>7
    <3> QED BY <3>1, SliceOfConcat
  <2>2. Len(p0) = 40 /\ Len(p0) + Len(t) = 48 /\ 1 \in 1 .. Len(p0)
    BY <1>5, <1>7
  <2> QED BY <2>1, <2>2, <1>5
<1> QED BY <1>8, <1>9 DEF t, q, r

\* b reads as a does, as far as a goes.
Kept(a, b) ==
    /\ b \in Seq(Octet)
    /\ \A i \in 1 .. Len(a) : b[i] = a[i]
    /\ \A from, to \in Nat : to <= Len(a) => Slice(b, from, to) = Slice(a, from, to)

\* Reading on composes.
LEMMA KeptOn ==
    ASSUME NEW a, NEW b, NEW c, NEW k \in Nat, NEW n \in Nat, Len(a) = k, Len(b) = n, k <= n,
           Kept(a, b), Kept(b, c)
    PROVE  Kept(a, c)
<1>1. c \in Seq(Octet)
  BY DEF Kept
<1>2. ASSUME NEW i \in 1 .. Len(a) PROVE c[i] = a[i]
  <2>1. i \in 1 .. Len(b)
    OBVIOUS
  <2>2. c[i] = b[i] /\ b[i] = a[i]
    BY <2>1 DEF Kept
  <2> QED BY <2>2
<1>3. ASSUME NEW from \in Nat, NEW to \in Nat, to <= Len(a)
      PROVE  Slice(c, from, to) = Slice(a, from, to)
  <2>1. to <= Len(b)
    BY <1>3
  <2>2. Slice(c, from, to) = Slice(b, from, to) /\ Slice(b, from, to) = Slice(a, from, to)
    BY <2>1, <1>3 DEF Kept
  <2> QED BY <2>2
<1> QED BY <1>1, <1>2, <1>3 DEF Kept

\* An answer is 48 octets, with each field where the parser looks for it.
LEMMA AnsweredFields ==
    ASSUME NEW server \in Servers, NEW now \in Times, NEW time \in Times
    PROVE  LET w == Answered(server, now, time.seconds \o time.fraction)
           IN  /\ w \in Seq(Octet) /\ Len(w) = 48
               /\ w[1] = First(server) /\ w[2] = server.stratum
               /\ Slice(w, 12, 16) = Zeros(4)
               /\ read_timestamp(w, 24) = time
               /\ read_timestamp(w, 32) = now
               /\ read_timestamp(w, 40) = now
<1> DEFINE h == <<First(server), server.stratum>>
           z == Zeros(22)
           s0 == time.seconds
           f0 == time.fraction
           s1 == now.seconds
           f1 == now.fraction
           p1 == h \o z
           p2 == p1 \o s0
           p3 == p2 \o f0
           p4 == p3 \o s1
           p5 == p4 \o f1
           p6 == p5 \o s1
           w == p6 \o f1
<1>1. First(server) \in Octet /\ server.stratum \in Octet
  <2>1. server.leap \in 0 .. 3 /\ server.version \in 0 .. 7 /\ server.mode \in 0 .. 7
        /\ server.stratum \in Octet
    BY NtpConstants
  <2> QED BY <2>1 DEF First, Octet
<1>2. h \in Seq(Octet) /\ Len(h) = 2 /\ h[1] = First(server) /\ h[2] = server.stratum
  <2> DEFINE f == First(server)
             g == server.stratum
  <2> HIDE DEF f, g
  <2>1. f \in Octet /\ g \in Octet
    BY <1>1 DEF f, g
  <2>2. <<f, g>> \in Seq(Octet) /\ Len(<<f, g>>) = 2 /\ <<f, g>>[1] = f /\ <<f, g>>[2] = g
    BY <2>1
  <2> QED BY <2>2 DEF f, g
<1>3. z \in Seq(Octet) /\ Len(z) = 22 /\ \A i \in 1 .. 22 : z[i] = 0
  <2>1. 22 \in Nat
    OBVIOUS
  <2> QED BY <2>1, ZerosType
<1>4. s0 \in Seq(Octet) /\ Len(s0) = 4 /\ f0 \in Seq(Octet) /\ Len(f0) = 4
      /\ s1 \in Seq(Octet) /\ Len(s1) = 4 /\ f1 \in Seq(Octet) /\ Len(f1) = 4
  BY TimeType, QuadType
<1>5. Answered(server, now, s0 \o f0) = w
  <2>1. p1 \in Seq(Octet)
    <3> HIDE DEF h, z
    <3> QED BY <1>2, <1>3, SliceOfConcat
  <2> HIDE DEF p1, s0, f0
  <2>2. p1 \o (s0 \o f0) = (p1 \o s0) \o f0
    <3>1. s0 \in Seq(Octet) /\ f0 \in Seq(Octet)
      BY <1>4
    <3> QED BY <2>1, <3>1, ConcatAssociative
  <2>3. Answered(server, now, s0 \o f0) = ((((p1 \o (s0 \o f0)) \o s1) \o f1) \o s1) \o f1
    BY DEF Answered, p1
  <2> QED BY <2>2, <2>3
\* Every prefix is read back whole, and so is what it ends with.
<1> HIDE DEF h, z, s0, f0, s1, f1
<1>6. \A a, b \in Seq(Octet) : /\ Kept(a, a \o b) /\ Len(a \o b) = Len(a) + Len(b)
                               /\ Slice(a \o b, Len(a), Len(a) + Len(b)) = b
  BY SliceOfConcat DEF Kept
<1>11. p1 \in Seq(Octet) /\ Len(p1) = 24 /\ Kept(h, p1) /\ Slice(p1, 2, 24) = z
  <2>1. p1 \in Seq(Octet)
    BY <1>2, <1>3, <1>6 DEF Kept
  <2>2. Kept(h, p1) /\ Len(p1) = Len(h) + Len(z) /\ Slice(p1, Len(h), Len(h) + Len(z)) = z
    BY <1>2, <1>3, <1>6
  <2>3. Len(h) + Len(z) = 24
    BY <1>2, <1>3
  <2> QED BY <2>1, <2>2, <2>3, <1>2
<1> HIDE DEF p1
<1>12. p2 \in Seq(Octet) /\ Len(p2) = 28 /\ Kept(p1, p2) /\ Slice(p2, 24, 28) = s0
  <2>1. p2 \in Seq(Octet)
    BY <1>4, <1>6, <1>11 DEF Kept
  <2>2. Kept(p1, p2) /\ Len(p2) = Len(p1) + Len(s0) /\ Slice(p2, Len(p1), Len(p1) + Len(s0)) = s0
    BY <1>4, <1>6, <1>11
  <2>3. Len(p1) + Len(s0) = 28
    BY <1>4, <1>11
  <2> QED BY <2>1, <2>2, <2>3, <1>11
<1> HIDE DEF p2
<1>13. p3 \in Seq(Octet) /\ Len(p3) = 32 /\ Kept(p2, p3) /\ Slice(p3, 28, 32) = f0
  <2>1. p3 \in Seq(Octet)
    BY <1>4, <1>6, <1>12 DEF Kept
  <2>2. Kept(p2, p3) /\ Len(p3) = Len(p2) + Len(f0) /\ Slice(p3, Len(p2), Len(p2) + Len(f0)) = f0
    BY <1>4, <1>6, <1>12
  <2>3. Len(p2) + Len(f0) = 32
    BY <1>4, <1>12
  <2> QED BY <2>1, <2>2, <2>3, <1>12
<1> HIDE DEF p3
<1>14. p4 \in Seq(Octet) /\ Len(p4) = 36 /\ Kept(p3, p4) /\ Slice(p4, 32, 36) = s1
  <2>1. p4 \in Seq(Octet)
    BY <1>4, <1>6, <1>13 DEF Kept
  <2>2. Kept(p3, p4) /\ Len(p4) = Len(p3) + Len(s1) /\ Slice(p4, Len(p3), Len(p3) + Len(s1)) = s1
    BY <1>4, <1>6, <1>13
  <2>3. Len(p3) + Len(s1) = 36
    BY <1>4, <1>13
  <2> QED BY <2>1, <2>2, <2>3, <1>13
<1> HIDE DEF p4
<1>15. p5 \in Seq(Octet) /\ Len(p5) = 40 /\ Kept(p4, p5) /\ Slice(p5, 36, 40) = f1
  <2>1. p5 \in Seq(Octet)
    BY <1>4, <1>6, <1>14 DEF Kept
  <2>2. Kept(p4, p5) /\ Len(p5) = Len(p4) + Len(f1) /\ Slice(p5, Len(p4), Len(p4) + Len(f1)) = f1
    BY <1>4, <1>6, <1>14
  <2>3. Len(p4) + Len(f1) = 40
    BY <1>4, <1>14
  <2> QED BY <2>1, <2>2, <2>3, <1>14
<1> HIDE DEF p5
<1>16. p6 \in Seq(Octet) /\ Len(p6) = 44 /\ Kept(p5, p6) /\ Slice(p6, 40, 44) = s1
  <2>1. p6 \in Seq(Octet)
    BY <1>4, <1>6, <1>15 DEF Kept
  <2>2. Kept(p5, p6) /\ Len(p6) = Len(p5) + Len(s1) /\ Slice(p6, Len(p5), Len(p5) + Len(s1)) = s1
    BY <1>4, <1>6, <1>15
  <2>3. Len(p5) + Len(s1) = 44
    BY <1>4, <1>15
  <2> QED BY <2>1, <2>2, <2>3, <1>15
<1> HIDE DEF p6
<1>17. w \in Seq(Octet) /\ Len(w) = 48 /\ Kept(p6, w) /\ Slice(w, 44, 48) = f1
  <2>1. w \in Seq(Octet)
    BY <1>4, <1>6, <1>16 DEF Kept
  <2>2. Kept(p6, w) /\ Len(w) = Len(p6) + Len(f1) /\ Slice(w, Len(p6), Len(p6) + Len(f1)) = f1
    BY <1>4, <1>6, <1>16
  <2>3. Len(p6) + Len(f1) = 48
    BY <1>4, <1>16
  <2> QED BY <2>1, <2>2, <2>3, <1>16
<1> HIDE DEF w
<1>18. Kept(p1, w) /\ Kept(p2, w) /\ Kept(p3, w) /\ Kept(p4, w) /\ Kept(p5, w) /\ Kept(h, w)
  <2>3. Kept(p5, w)
    <3>1. Len(p5) = 40 /\ Len(p6) = 44 /\ 40 \in Nat /\ 44 \in Nat /\ 40 <= 44
      BY <1>15, <1>16
    <3>2. Kept(p5, p6) /\ Kept(p6, w)
      BY <1>16, <1>17
    <3> QED BY <3>1, <3>2, KeptOn
  <2>4. Kept(p4, w)
    <3>1. Len(p4) = 36 /\ Len(p5) = 40 /\ 36 \in Nat /\ 40 \in Nat /\ 36 <= 40
      BY <1>14, <1>15
    <3>2. Kept(p4, p5) /\ Kept(p5, w)
      BY <1>15, <2>3
    <3> QED BY <3>1, <3>2, KeptOn
  <2>5. Kept(p3, w)
    <3>1. Len(p3) = 32 /\ Len(p4) = 36 /\ 32 \in Nat /\ 36 \in Nat /\ 32 <= 36
      BY <1>13, <1>14
    <3>2. Kept(p3, p4) /\ Kept(p4, w)
      BY <1>14, <2>4
    <3> QED BY <3>1, <3>2, KeptOn
  <2>6. Kept(p2, w)
    <3>1. Len(p2) = 28 /\ Len(p3) = 32 /\ 28 \in Nat /\ 32 \in Nat /\ 28 <= 32
      BY <1>12, <1>13
    <3>2. Kept(p2, p3) /\ Kept(p3, w)
      BY <1>13, <2>5
    <3> QED BY <3>1, <3>2, KeptOn
  <2>7. Kept(p1, w)
    <3>1. Len(p1) = 24 /\ Len(p2) = 28 /\ 24 \in Nat /\ 28 \in Nat /\ 24 <= 28
      BY <1>11, <1>12
    <3>2. Kept(p1, p2) /\ Kept(p2, w)
      BY <1>12, <2>6
    <3> QED BY <3>1, <3>2, KeptOn
  <2>8. Kept(h, w)
    <3>1. Len(h) = 2 /\ Len(p1) = 24 /\ 2 \in Nat /\ 24 \in Nat /\ 2 <= 24
      BY <1>2, <1>11
    <3>2. Kept(h, p1) /\ Kept(p1, w)
      BY <1>11, <2>7
    <3> QED BY <3>1, <3>2, KeptOn
  <2> QED BY <2>3, <2>4, <2>5, <2>6, <2>7, <2>8
<1>19. w[1] = First(server) /\ w[2] = server.stratum
  <2>1. \A i \in 1 .. Len(h) : w[i] = h[i]
    BY <1>18 DEF Kept
  <2>2. 1 \in 1 .. Len(h) /\ 2 \in 1 .. Len(h)
    BY <1>2
  <2> QED BY <2>1, <2>2, <1>2
<1>20. Slice(w, 24, 28) = s0 /\ Slice(w, 28, 32) = f0 /\ Slice(w, 32, 36) = s1
       /\ Slice(w, 36, 40) = f1 /\ Slice(w, 40, 44) = s1 /\ Slice(w, 44, 48) = f1
  <2>1. Slice(w, 24, 28) = s0
    <3> DEFINE k == 24
               n == 28
    <3>1. k \in Nat /\ n \in Nat /\ Len(p2) = n /\ Kept(p2, w) /\ Slice(p2, k, n) = s0
      BY <1>12, <1>18
    <3> HIDE DEF k, n
    <3>2. Slice(w, k, n) = Slice(p2, k, n)
      BY <3>1 DEF Kept
    <3> QED BY <3>1, <3>2 DEF k, n
  <2>2. Slice(w, 28, 32) = f0
    <3> DEFINE k == 28
               n == 32
    <3>1. k \in Nat /\ n \in Nat /\ Len(p3) = n /\ Kept(p3, w) /\ Slice(p3, k, n) = f0
      BY <1>13, <1>18
    <3> HIDE DEF k, n
    <3>2. Slice(w, k, n) = Slice(p3, k, n)
      BY <3>1 DEF Kept
    <3> QED BY <3>1, <3>2 DEF k, n
  <2>3. Slice(w, 32, 36) = s1
    <3> DEFINE k == 32
               n == 36
    <3>1. k \in Nat /\ n \in Nat /\ Len(p4) = n /\ Kept(p4, w) /\ Slice(p4, k, n) = s1
      BY <1>14, <1>18
    <3> HIDE DEF k, n
    <3>2. Slice(w, k, n) = Slice(p4, k, n)
      BY <3>1 DEF Kept
    <3> QED BY <3>1, <3>2 DEF k, n
  <2>4. Slice(w, 36, 40) = f1
    <3> DEFINE k == 36
               n == 40
    <3>1. k \in Nat /\ n \in Nat /\ Len(p5) = n /\ Kept(p5, w) /\ Slice(p5, k, n) = f1
      BY <1>15, <1>18
    <3> HIDE DEF k, n
    <3>2. Slice(w, k, n) = Slice(p5, k, n)
      BY <3>1 DEF Kept
    <3> QED BY <3>1, <3>2 DEF k, n
  <2>5. Slice(w, 40, 44) = s1
    <3> DEFINE k == 40
               n == 44
    <3>1. k \in Nat /\ n \in Nat /\ Len(p6) = n /\ Kept(p6, w) /\ Slice(p6, k, n) = s1
      BY <1>16, <1>17
    <3> HIDE DEF k, n
    <3>2. Slice(w, k, n) = Slice(p6, k, n)
      BY <3>1 DEF Kept
    <3> QED BY <3>1, <3>2 DEF k, n
  <2> QED BY <1>17, <2>1, <2>2, <2>3, <2>4, <2>5
<1>21. Slice(w, 12, 16) = Zeros(4)
  <2>1. Slice(w, 12, 16) = Slice(p1, 12, 16)
    <3> DEFINE k == 12
               n == 16
               m == 24
    <3>1. k \in Nat /\ n \in Nat /\ m \in Nat /\ Len(p1) = m /\ n <= m /\ Kept(p1, w)
      BY <1>11, <1>18
    <3> HIDE DEF k, n, m
    <3>2. Slice(w, k, n) = Slice(p1, k, n)
      BY <3>1 DEF Kept
    <3> QED BY <3>2 DEF k, n
  <2> DEFINE d == Slice(p1, 12, 16)
  <2>2. \A i \in 13 .. 16 : p1[i] = 0
    <3> SUFFICES ASSUME NEW i \in 13 .. 16 PROVE p1[i] = 0
      OBVIOUS
    <3>1. p1[i] = Slice(p1, 2, 24)[i - 2]
      <4>1. \A j \in 3 .. 24 : p1[j] \in Octet
        <5>1. \A j \in 1 .. Len(p1) : p1[j] \in Octet
          BY <1>11, ElementOfSeq
        <5>2. \A j \in 3 .. 24 : j \in 1 .. Len(p1)
          BY <1>11
        <5> QED BY <5>1, <5>2
      <4>2. \A j \in 1 .. 24 - 3 + 1 : SubSeq(p1, 3, 24)[j] = p1[3 + j - 1]
        BY <4>1, SubSeqProperties
      <4>3. i - 2 \in 1 .. 24 - 3 + 1 /\ 3 + (i - 2) - 1 = i
        OBVIOUS
      <4>4. Slice(p1, 2, 24) = SubSeq(p1, 3, 24)
        BY DEF Slice
      <4> QED BY <4>2, <4>3, <4>4
    <3>2. i - 2 \in 1 .. 22
      OBVIOUS
    <3> QED BY <3>1, <3>2, <1>3, <1>11
  <2>3. \A i \in 13 .. 16 : p1[i] \in Octet
    BY <2>2 DEF Octet
  <2>4. d = SubSeq(p1, 13, 16)
    BY DEF Slice
  <2>5. /\ SubSeq(p1, 13, 16) \in Seq(Octet)
        /\ Len(SubSeq(p1, 13, 16)) = IF 13 <= 16 THEN 16 - 13 + 1 ELSE 0
        /\ \A i \in 1 .. 16 - 13 + 1 : SubSeq(p1, 13, 16)[i] = p1[13 + i - 1]
    BY <2>3, SubSeqProperties
  <2>6. d \in Seq(Octet) /\ Len(d) = 4
    <3>1. Len(SubSeq(p1, 13, 16)) = 4
      BY <2>5
    <3> HIDE DEF d
    <3> QED BY <2>4, <2>5, <3>1
  <2> HIDE DEF d
  <2>7. \A i \in 1 .. 4 : d[i] = 0
    BY <2>2, <2>4, <2>5
  <2>8. 4 \in Nat
    OBVIOUS
  <2>9. Zeros(4) \in Seq(Octet) /\ Len(Zeros(4)) = 4 /\ \A i \in 1 .. 4 : Zeros(4)[i] = 0
    BY <2>8, ZerosType
  <2>10. d = Zeros(4)
    <3>1. \A i \in 1 .. Len(d) : d[i] = Zeros(4)[i]
      BY <2>6, <2>7, <2>9
    <3> QED BY <3>1, <2>6, <2>9, SeqEqual
  <2> QED BY <2>1, <2>10 DEF d
<1>22. read_timestamp(w, 24) = time /\ read_timestamp(w, 32) = now /\ read_timestamp(w, 40) = now
  <2>1. read_timestamp(w, 24) = [seconds |-> s0, fraction |-> f0]
    BY <1>20 DEF read_timestamp, Timestamp
  <2>2. read_timestamp(w, 32) = [seconds |-> s1, fraction |-> f1]
    BY <1>20 DEF read_timestamp, Timestamp
  <2>3. read_timestamp(w, 40) = [seconds |-> s1, fraction |-> f1]
    BY <1>20 DEF read_timestamp, Timestamp
  <2> QED BY <2>1, <2>2, <2>3, TimeType DEF s0, f0, s1, f1
<1> QED BY <1>5, <1>17, <1>19, <1>21, <1>22 DEF s0, f0

\* A result is a value or an error.
LEMMA Results ==
    /\ \A kind : ~IsOk(Err(kind))
    /\ \A value : IsOk(Ok(value))
<1>1. ASSUME NEW kind PROVE ~IsOk(Err(kind))
  <2>1. DOMAIN Err(kind) = {"error"}
    BY DEF Err
  <2>2. "ok" # "error"
    OBVIOUS
  <2> QED BY <2>1, <2>2 DEF IsOk
<1>2. ASSUME NEW value PROVE IsOk(Ok(value))
  <2>1. DOMAIN Ok(value) = {"ok"}
    BY DEF Ok
  <2> QED BY <2>1 DEF IsOk
<1> QED BY <1>1, <1>2

\* The first octet holds its three fields.
LEMMA FirstFields ==
    ASSUME NEW leap \in 0 .. 3, NEW version \in 0 .. 7, NEW mode \in 0 .. 7, NEW first,
           first = 64 * leap + 8 * version + mode
    PROVE  first \div 64 = leap /\ (first \div 8) % 8 = version /\ first % 8 = mode
<1>1. first \div 64 = leap
  OBVIOUS
<1>2. first \div 8 = 8 * leap + version
  OBVIOUS
<1>3. (8 * leap + version) % 8 = version
  OBVIOUS
<1>4. first % 8 = mode
  OBVIOUS
<1> QED BY <1>1, <1>2, <1>3, <1>4

\* A packet cut short is refused.
LEMMA ParseShort ==
    ASSUME NEW w \in Seq(Octet), Len(w) < 48, NEW expected
    PROVE  ~IsOk(ServerResponseParse(w, expected))
<1>1. ServerResponseParse(w, expected) = Err("Truncated")
  BY DEF ServerResponseParse, PACKET_LENGTH
<1> QED BY <1>1, Results

\* The client's own request is refused: it is not a server's.
LEMMA ParseAsked ==
    ASSUME NEW time \in Times, NEW expected
    PROVE  ~IsOk(ServerResponseParse(Asked(time), expected))
<1> DEFINE w == Asked(time)
<1>1. Len(w) = 48 /\ w[1] = 35
  BY AskedFields
<1>2. (35 \div 8) % 8 = 4 /\ 35 % 8 = 3
  OBVIOUS
<1> HIDE DEF w
<1>3. ServerResponseParse(w, expected) = Err("UnexpectedMode")
  BY <1>1, <1>2 DEF ServerResponseParse, PACKET_LENGTH, MODE_SERVER
<1> QED BY <1>3, Results DEF w

\* What a server's answer parses to.
LEMMA ParseAnswered ==
    ASSUME NEW server \in Servers, NEW now \in Times, NEW time \in Times, NEW expected \in Times
    PROVE  LET parsed == ServerResponseParse(Answered(server, now, time.seconds \o time.fraction), expected)
           IN  IF Usable(server) /\ expected = time
               THEN parsed = Ok([leap_indicator |-> server.leap, version |-> server.version,
                                 stratum |-> server.stratum, reference_id |-> Zeros(4),
                                 originate |-> expected, receive |-> now, transmit |-> now])
               ELSE ~IsOk(parsed)
<1> DEFINE w == Answered(server, now, time.seconds \o time.fraction)
           first == First(server)
           fields == [leap_indicator |-> server.leap, version |-> server.version,
                      stratum |-> server.stratum, reference_id |-> Zeros(4),
                      originate |-> time, receive |-> now, transmit |-> now]
<1>1. /\ Len(w) = 48 /\ w[1] = first /\ w[2] = server.stratum /\ Slice(w, 12, 16) = Zeros(4)
      /\ read_timestamp(w, 24) = time /\ read_timestamp(w, 32) = now /\ read_timestamp(w, 40) = now
  BY AnsweredFields
<1>2. server.leap \in 0 .. 3 /\ server.version \in 0 .. 7 /\ server.mode \in 0 .. 7
      /\ server.stratum \in 0 .. 255
  BY NtpConstants DEF Octet
<1>3. first \div 64 = server.leap /\ (first \div 8) % 8 = server.version /\ first % 8 = server.mode
  BY <1>2, FirstFields DEF First
<1> HIDE DEF w, first
<1>4. Originate(w) = time
  BY <1>1 DEF Originate
<1> DEFINE parsed == ServerResponseParse(w, expected)
<1>5. parsed =
        IF server.version \notin 3 .. 4 THEN Err("UnsupportedVersion")
        ELSE IF server.mode # 4 THEN Err("UnexpectedMode")
        ELSE IF server.stratum = 0 THEN Err("KissOfDeath")
        ELSE IF server.stratum > 15 THEN Err("InvalidStratum")
        ELSE IF server.leap = 3 THEN Err("Unsynchronized")
        ELSE IF time # expected THEN Err("OriginateTimestampMismatch")
        ELSE Ok(fields)
  <2>1. ~(Len(w) < 48)
    BY <1>1
  <2> QED BY <2>1, <1>1, <1>3, <1>4
          DEF ServerResponseParse, PACKET_LENGTH, MODE_SERVER, LEAP_UNSYNCHRONIZED
<1> HIDE DEF parsed, fields
<1>6. CASE Usable(server) /\ expected = time
  <2>1. parsed = Ok(fields)
    BY <1>2, <1>5, <1>6 DEF Usable
  <2> QED BY <2>1, <1>6 DEF fields, parsed, w
<1>7. CASE ~(Usable(server) /\ expected = time)
  <2>1. \E kind : parsed = Err(kind)
    BY <1>2, <1>5, <1>7 DEF Usable
  <2>2. ~IsOk(parsed)
    BY <2>1, Results
  <2> QED BY <2>2, <1>7 DEF parsed, w
<1> QED BY <1>6, <1>7

-----------------------------------------------------------------------------
\* Numbers of two octets and of four.
Half(n) == n \in Nat /\ n < 65536

\* A 16-bit number is written as its two octets,
LEMMA PairOfOctets ==
    ASSUME NEW a \in Nat, a < 256, NEW b \in Nat, b < 256
    PROVE  /\ Half(256 * a + b)
           /\ (256 * a + b) \div 256 = a /\ (256 * a + b) % 256 = b
<1>1. (256 * a + b) \div 256 = a
  OBVIOUS
<1>2. (256 * a + b) % 256 = b
  OBVIOUS
<1>3. Half(256 * a + b)
  BY DEF Half
<1> QED BY <1>1, <1>2, <1>3

\* and read from them.
LEMMA OctetsOfPair ==
    ASSUME NEW n, Half(n)
    PROVE  /\ n \div 256 \in Nat /\ n \div 256 < 256 /\ n % 256 \in Nat /\ n % 256 < 256
           /\ 256 * (n \div 256) + (n % 256) = n
BY DEF Half

\* Two pairs side by side.
LEMMA TwoAndTwo ==
    ASSUME NEW a, NEW b, NEW c, NEW d
    PROVE  <<a, b>> \o <<c, d>> = <<a, b, c, d>>
<1> DEFINE S == {a, b, c, d}
           x == <<a, b>>
           y == <<c, d>>
           z == <<a, b, c, d>>
           s == x \o y
<1>1. x \in Seq(S) /\ y \in Seq(S) /\ z \in Seq(S)
  OBVIOUS
<1>2. Len(x) = 2 /\ Len(y) = 2 /\ Len(z) = 4
  OBVIOUS
<1>3. x[1] = a /\ x[2] = b /\ y[1] = c /\ y[2] = d /\ z[1] = a /\ z[2] = b /\ z[3] = c /\ z[4] = d
  OBVIOUS
<1> HIDE DEF S, x, y, z
<1>4. /\ s \in Seq(S) /\ Len(s) = Len(x) + Len(y)
      /\ \A i \in 1 .. Len(x) + Len(y) : s[i] = IF i <= Len(x) THEN x[i] ELSE y[i - Len(x)]
  BY <1>1, ConcatProperties
<1> HIDE DEF s
<1>5. Len(s) = 4 /\ s[1] = a /\ s[2] = b /\ s[3] = c /\ s[4] = d
  BY <1>2, <1>3, <1>4
<1>6. \A i \in 1 .. Len(s) : s[i] = z[i]
  BY <1>3, <1>5
<1>7. s = z
  BY <1>1, <1>2, <1>4, <1>5, <1>6, SeqEqual
<1> QED BY <1>7 DEF s, x, y, z

\* Two halves side by side are their four octets, and are read back.
LEMMA Halves ==
    ASSUME NEW h, NEW l, Half(h), Half(l)
    PROVE  LET q == BigEndian(h) \o BigEndian(l)
           IN  /\ q = <<h \div 256, h % 256, l \div 256, l % 256>>
               /\ read_u16(q, 0) = h /\ read_u16(q, 2) = l
<1> DEFINE a == h \div 256
           b == h % 256
           c == l \div 256
           d == l % 256
           q == <<a, b, c, d>>
<1>1. 256 * a + b = h /\ 256 * c + d = l
  BY OctetsOfPair
<1>2. BigEndian(h) = <<a, b>> /\ BigEndian(l) = <<c, d>>
  BY DEF BigEndian
<1> HIDE DEF a, b, c, d
<1>3. BigEndian(h) \o BigEndian(l) = q
  BY <1>2, TwoAndTwo
<1>4. q[1] = a /\ q[2] = b /\ q[3] = c /\ q[4] = d
  OBVIOUS
<1> HIDE DEF q
<1>5. read_u16(q, 0) = 256 * a + b
  BY <1>4 DEF read_u16, At
<1>6. read_u16(q, 2) = 256 * c + d
  BY <1>4 DEF read_u16, At
<1> QED BY <1>1, <1>3, <1>5, <1>6 DEF a, b, c, d, q

\* A number of four octets is its two halves.
LEMMA QuadHalves ==
    ASSUME NEW q \in Quad
    PROVE  /\ Half(read_u16(q, 0)) /\ Half(read_u16(q, 2))
           /\ q = BigEndian(read_u16(q, 0)) \o BigEndian(read_u16(q, 2))
<1>1. q[1] \in Octet /\ q[2] \in Octet /\ q[3] \in Octet /\ q[4] \in Octet
  BY DEF Quad
<1>2. q = <<q[1], q[2], q[3], q[4]>>
  BY DEF Quad
<1>3. \A o \in Octet : o \in Nat /\ o < 256
  BY DEF Octet
<1> DEFINE a == q[1]
           b == q[2]
           c == q[3]
           d == q[4]
           h == read_u16(q, 0)
           l == read_u16(q, 2)
<1>4. h = 256 * a + b /\ l = 256 * c + d
  BY DEF read_u16, At
<1>5. a \in Nat /\ a < 256 /\ b \in Nat /\ b < 256 /\ c \in Nat /\ c < 256 /\ d \in Nat /\ d < 256
  BY <1>1, <1>3
<1> HIDE DEF a, b, c, d, h, l
<1>6. Half(h) /\ h \div 256 = a /\ h % 256 = b
  <2>1. Half(256 * a + b) /\ (256 * a + b) \div 256 = a /\ (256 * a + b) % 256 = b
    BY <1>5, PairOfOctets
  <2> QED BY <1>4, <2>1
<1>7. Half(l) /\ l \div 256 = c /\ l % 256 = d
  <2>1. Half(256 * c + d) /\ (256 * c + d) \div 256 = c /\ (256 * c + d) % 256 = d
    BY <1>5, PairOfOctets
  <2> QED BY <1>4, <2>1
<1>8. BigEndian(h) \o BigEndian(l) = <<h \div 256, h % 256, l \div 256, l % 256>>
  BY <1>6, <1>7, Halves
<1>9. BigEndian(h) \o BigEndian(l) = <<a, b, c, d>>
  BY <1>6, <1>7, <1>8
<1> QED BY <1>2, <1>6, <1>7, <1>9 DEF h, l, a, b, c, d

\* Subtracting the offset half by half, with the borrow, and adding it back,
\* with the carry.
LEMMA BorrowAndCarry ==
    ASSUME NEW h, NEW l, NEW hi, NEW lo, Half(h), Half(l), Half(hi), Half(lo)
    PROVE  LET low == l - lo
               borrow == IF low < 0 THEN 1 ELSE 0
               high == h - hi - borrow
               sum == (low % 65536) + lo
           IN  /\ (high < 0) <=> (h < hi \/ (h = hi /\ l < lo))
               /\ Half(low % 65536)
               /\ ~(high < 0) => /\ Half(high)
                                 /\ high + hi + (sum \div 65536) = h
                                 /\ sum % 65536 = l
<1>0. h \in Nat /\ h < 65536 /\ l \in Nat /\ l < 65536 /\ hi \in Nat /\ hi < 65536
      /\ lo \in Nat /\ lo < 65536
  BY DEF Half
<1>1. CASE l < lo
  <2>1. (l - lo) % 65536 = l - lo + 65536
    BY <1>0, <1>1
  <2>2. (l + 65536) \div 65536 = 1 /\ (l + 65536) % 65536 = l
    BY <1>0
  <2>3. ((l - lo) % 65536) + lo = l + 65536
    BY <1>0, <2>1
  <2> QED BY <1>0, <1>1, <2>1, <2>2, <2>3 DEF Half
<1>2. CASE ~(l < lo)
  <2>1. (l - lo) % 65536 = l - lo
    BY <1>0, <1>2
  <2>2. l \div 65536 = 0 /\ l % 65536 = l
    BY <1>0
  <2>3. ((l - lo) % 65536) + lo = l
    BY <1>0, <2>1
  <2> QED BY <1>0, <1>2, <2>1, <2>2, <2>3 DEF Half
<1> QED BY <1>1, <1>2

\* The Unix time of any timestamp of four-octet numbers.
LEMMA UnixTime ==
    ASSUME NEW now \in Times
    PROVE  LET seconds == now.seconds
               high == read_u16(UNIX_EPOCH_OFFSET_SECONDS, 0)
               low == read_u16(UNIX_EPOCH_OFFSET_SECONDS, 2)
               before == \/ read_u16(seconds, 0) < high
                         \/ read_u16(seconds, 0) = high /\ read_u16(seconds, 2) < low
           IN  IF before THEN unix_seconds(now) = {}
               ELSE \E u \in unix_seconds(now) :
                        LET sum == read_u16(u, 2) + low
                        IN  seconds = BigEndian(read_u16(u, 0) + high + (sum \div 65536))
                                      \o BigEndian(sum % 65536)
<1> DEFINE seconds == now.seconds
           hi == read_u16(UNIX_EPOCH_OFFSET_SECONDS, 0)
           lo == read_u16(UNIX_EPOCH_OFFSET_SECONDS, 2)
           h == read_u16(seconds, 0)
           l == read_u16(seconds, 2)
           low == l - lo
           borrow == IF low < 0 THEN 1 ELSE 0
           high == h - hi - borrow
           left == low % 65536
           sum == left + lo
           before == h < hi \/ (h = hi /\ l < lo)
           u == BigEndian(high) \o BigEndian(left)
<1>1. Half(h) /\ Half(l) /\ seconds = BigEndian(h) \o BigEndian(l)
  BY TimeType, QuadHalves
<1>2. hi = 33706 /\ lo = 32384
  BY DEF UNIX_EPOCH_OFFSET_SECONDS, read_u16, At
<1>3. unix_seconds(now) = IF high < 0 THEN {} ELSE {u}
  BY DEF unix_seconds
<1> HIDE DEF hi, lo, h, l, seconds
<1>4. Half(hi) /\ Half(lo)
  BY <1>2 DEF Half
<1>5. /\ (high < 0) <=> before
      /\ Half(left)
      /\ ~(high < 0) => Half(high) /\ high + hi + (sum \div 65536) = h /\ sum % 65536 = l
  BY <1>1, <1>4, BorrowAndCarry
<1> HIDE DEF high, left, before
<1>6. CASE before
  <2>1. unix_seconds(now) = {}
    BY <1>3, <1>5, <1>6
  <2> QED BY <2>1, <1>6 DEF before, h, l, hi, lo, seconds
<1>7. CASE ~before
  <2>1. Half(high) /\ Half(left) /\ high + hi + (sum \div 65536) = h /\ sum % 65536 = l
    BY <1>5, <1>7
  <2>2. read_u16(u, 0) = high /\ read_u16(u, 2) = left
    BY <2>1, Halves
  <2>3. unix_seconds(now) = {u}
    BY <1>3, <1>5, <1>7
  <2> HIDE DEF u
  <2>4. seconds = BigEndian(read_u16(u, 0) + hi + ((read_u16(u, 2) + lo) \div 65536))
                  \o BigEndian((read_u16(u, 2) + lo) % 65536)
    BY <1>1, <2>1, <2>2
  <2>5. \E v \in unix_seconds(now) :
            seconds = BigEndian(read_u16(v, 0) + hi + ((read_u16(v, 2) + lo) \div 65536))
                      \o BigEndian((read_u16(v, 2) + lo) % 65536)
    BY <2>3, <2>4
  <2> QED BY <2>5, <1>7 DEF before, h, l, hi, lo, seconds
<1> QED BY <1>6, <1>7

-----------------------------------------------------------------------------
\* Where the exchange stands: what is on the wire belongs to the request.
NtpInv ==
    /\ ntp_stage \in {"idle", "refused", "asked", "answered", "cut"}
    /\ ntp_stage \in {"idle", "refused"} => ntp_wire = <<>> /\ ntp_answer = {}
    /\ ntp_stage = "asked" =>
           ntp_answer = {} /\ \E time \in Times : ntp_request = {time} /\ ntp_wire = Asked(time)
    /\ ntp_stage = "answered" =>
           \E time, now \in Times, server \in Servers :
               /\ ntp_request = {time} /\ ntp_answer = {[server |-> server, now |-> now]}
               /\ ntp_wire = Answered(server, now, time.seconds \o time.fraction)
    /\ ntp_stage = "cut" =>
           /\ ntp_wire \in Seq(Octet) /\ Len(ntp_wire) < 48
           /\ \E now \in Times, server \in Servers : ntp_answer = {[server |-> server, now |-> now]}

\* The invariant holds at first.
LEMMA NtpInvInit == NtpInit => NtpInv
BY DEF NtpInit, NtpInv

\* Asking keeps it: a buffer too small leaves the wire empty.
LEMMA AskTimeInv ==
    ASSUME NtpInv, NEW time \in Times, NEW available \in Buffers, AskTime(time, available)
    PROVE  NtpInv'
<1> DEFINE encoded == encode_client_request(time, available)
<1>1. ntp_stage = "idle" /\ ntp_request' = {time} /\ ntp_answer' = ntp_answer /\ ntp_answer = {}
      /\ ntp_wire = <<>>
  BY DEF AskTime, NtpInv
<1>2. encoded = IF available < PACKET_LENGTH THEN Err("OutputTooSmall") ELSE Ok(Asked(time))
  BY DEF encode_client_request, Asked
<1>3. CASE available < PACKET_LENGTH
  <2>1. ~IsOk(encoded)
    BY <1>2, <1>3, Results
  <2>2. ntp_stage' = "refused" /\ ntp_wire' = ntp_wire
    BY <2>1 DEF AskTime
  <2> QED BY <1>1, <2>2 DEF NtpInv
<1>4. CASE ~(available < PACKET_LENGTH)
  <2>1. encoded = Ok(Asked(time))
    BY <1>2, <1>4
  <2>2. IsOk(encoded) /\ encoded.ok = Asked(time)
    BY <2>1, Results DEF Ok
  <2>3. ntp_stage' = "asked" /\ ntp_wire' = Asked(time)
    BY <2>2 DEF AskTime
  <2> QED BY <1>1, <2>3 DEF NtpInv
<1> QED BY <1>3, <1>4

\* Answering keeps it: the server copies the timestamp of the request on the wire.
LEMMA ServeTimeInv ==
    ASSUME NtpInv, NEW server \in Servers, NEW now \in Times, ServeTime(server, now)
    PROVE  NtpInv'
<1>1. PICK time \in Times : ntp_request = {time} /\ ntp_wire = Asked(time)
  BY DEF ServeTime, NtpInv
<1>2. Slice(ntp_wire, 40, 48) = time.seconds \o time.fraction
  BY <1>1, AskedFields
<1>3. ntp_wire' = Answered(server, now, time.seconds \o time.fraction)
  BY <1>2 DEF ServeTime, Answered, First
<1>4. ntp_stage' = "answered" /\ ntp_request' = {time}
      /\ ntp_answer' = {[server |-> server, now |-> now]}
  BY <1>1 DEF ServeTime
<1> QED BY <1>3, <1>4 DEF NtpInv

\* Losing an octet keeps it: what is left is shorter than a packet.
LEMMA CutTimeInv ==
    ASSUME NtpInv, CutTime
    PROVE  NtpInv'
<1>1. ntp_stage' = "cut" /\ ntp_answer' = ntp_answer
      /\ ntp_wire' = SubSeq(ntp_wire, 1, Len(ntp_wire) - 1) /\ ntp_wire # <<>>
  BY DEF CutTime
<1>2. \E now \in Times, server \in Servers : ntp_answer = {[server |-> server, now |-> now]}
  BY DEF CutTime, NtpInv
<1>3. ntp_wire \in Seq(Octet) /\ Len(ntp_wire) <= 48
  <2>1. CASE ntp_stage = "cut"
    <3>1. ntp_wire \in Seq(Octet) /\ Len(ntp_wire) < 48
      BY <2>1 DEF NtpInv
    <3>2. Len(ntp_wire) \in Nat
      BY <3>1, LenProperties
    <3> QED BY <3>1, <3>2
  <2>2. CASE ntp_stage = "answered"
    <3>1. PICK time \in Times, now \in Times, server \in Servers :
              ntp_wire = Answered(server, now, time.seconds \o time.fraction)
      BY <2>2 DEF NtpInv
    <3>2. ntp_wire \in Seq(Octet) /\ Len(ntp_wire) = 48
      BY <3>1, AnsweredFields
    <3> QED BY <3>2
  <2> QED BY <2>1, <2>2 DEF CutTime
<1>4. PICK n \in Nat : n = Len(ntp_wire) /\ n <= 48 /\ n # 0
  <2>1. Len(ntp_wire) \in Nat /\ Len(ntp_wire) # 0
    BY <1>1, <1>3, LenProperties, EmptySeq
  <2> QED BY <2>1, <1>3
<1>5. SubSeq(ntp_wire, 1, n - 1) \in Seq(Octet) /\ Len(SubSeq(ntp_wire, 1, n - 1)) = n - 1
  <2>1. \A i \in 1 .. n - 1 : ntp_wire[i] \in Octet
    <3>1. \A i \in 1 .. Len(ntp_wire) : ntp_wire[i] \in Octet
      BY <1>3, ElementOfSeq
    <3>2. \A i \in 1 .. n - 1 : i \in 1 .. Len(ntp_wire)
      BY <1>4
    <3> QED BY <3>1, <3>2
  <2>2. 1 \in Int /\ n - 1 \in Int
    OBVIOUS
  <2>3. SubSeq(ntp_wire, 1, n - 1) \in Seq(Octet)
        /\ Len(SubSeq(ntp_wire, 1, n - 1)) = IF 1 <= n - 1 THEN n - 1 - 1 + 1 ELSE 0
    BY <2>1, <2>2, SubSeqProperties
  <2>4. (IF 1 <= n - 1 THEN n - 1 - 1 + 1 ELSE 0) = n - 1
    BY <1>4
  <2> QED BY <2>3, <2>4
<1>6. ntp_wire' \in Seq(Octet) /\ Len(ntp_wire') < 48
  <2>1. ntp_wire' \in Seq(Octet) /\ Len(ntp_wire') = n - 1
    BY <1>1, <1>4, <1>5
  <2> QED BY <2>1, <1>4
<1> QED BY <1>1, <1>2, <1>6 DEF NtpInv

\* Every step keeps it.
LEMMA NtpInvStep == NtpInv /\ [NtpNext]_ntpVars => NtpInv'
<1> SUFFICES ASSUME NtpInv, [NtpNext]_ntpVars PROVE NtpInv'
  OBVIOUS
<1>1. CASE NtpNext
  BY <1>1, AskTimeInv, ServeTimeInv, CutTimeInv DEF NtpNext
<1>2. CASE UNCHANGED ntpVars
  BY <1>2 DEF NtpInv, ntpVars
<1> QED BY <1>1, <1>2

\* It says what the client takes.
LEMMA NtpInvExact == NtpInv => TimeIsExact
<1> SUFFICES ASSUME NtpInv PROVE TimeIsExact
  OBVIOUS
<1>1. UnixTimeIsExact
  <2> SUFFICES ASSUME NEW a \in ntp_answer PROVE a.now \in Times
    BY UnixTime DEF UnixTimeIsExact
  <2>1. PICK server \in Servers, now \in Times : ntp_answer = {[server |-> server, now |-> now]}
    BY DEF NtpInv
  <2> QED BY <2>1
<1>2. TimeIsForThisRequest
  <2> SUFFICES ASSUME NEW expected \in Times
               PROVE  LET parsed == ServerResponseParse(ntp_wire, expected)
                      IN  IF /\ ntp_stage = "answered" /\ \A a \in ntp_answer : Usable(a.server)
                             /\ ntp_request = {expected}
                          THEN \A a \in ntp_answer : parsed = Ok(
                                   [leap_indicator |-> a.server.leap, version |-> a.server.version,
                                    stratum |-> a.server.stratum, reference_id |-> Zeros(4),
                                    originate |-> expected, receive |-> a.now, transmit |-> a.now])
                          ELSE ~IsOk(parsed)
    BY DEF TimeIsForThisRequest
  <2>1. CASE ntp_stage = "answered"
    <3>1. PICK time \in Times, now \in Times, server \in Servers :
               /\ ntp_request = {time} /\ ntp_answer = {[server |-> server, now |-> now]}
               /\ ntp_wire = Answered(server, now, time.seconds \o time.fraction)
      BY <2>1 DEF NtpInv
    <3> DEFINE a0 == [server |-> server, now |-> now]
               parsed == ServerResponseParse(ntp_wire, expected)
    <3>2. a0.server = server /\ a0.now = now
      OBVIOUS
    <3>3. IF Usable(server) /\ expected = time
          THEN parsed = Ok([leap_indicator |-> server.leap, version |-> server.version,
                            stratum |-> server.stratum, reference_id |-> Zeros(4),
                            originate |-> expected, receive |-> now, transmit |-> now])
          ELSE ~IsOk(parsed)
      BY <3>1, ParseAnswered
    <3>4. ntp_answer = {a0} /\ (ntp_request = {expected} <=> expected = time)
      BY <3>1
    <3> HIDE DEF a0, parsed
    <3>5. CASE Usable(server) /\ expected = time
      BY <2>1, <3>2, <3>3, <3>4, <3>5 DEF parsed
    <3>6. CASE ~(Usable(server) /\ expected = time)
      BY <2>1, <3>2, <3>3, <3>4, <3>6 DEF parsed
    <3> QED BY <3>5, <3>6
  <2>2. CASE ntp_stage # "answered"
    <3>1. ~IsOk(ServerResponseParse(ntp_wire, expected))
      <4>1. CASE ntp_stage = "asked"
        BY <4>1, ParseAsked DEF NtpInv
      <4>2. CASE ntp_stage # "asked"
        <5>1. ntp_wire \in Seq(Octet) /\ Len(ntp_wire) < 48
          <6>1. CASE ntp_stage = "cut"
            BY <6>1 DEF NtpInv
          <6>2. CASE ntp_stage \in {"idle", "refused"}
            <7>1. ntp_wire = <<>> /\ <<>> \in Seq(Octet) /\ Len(<<>>) = 0
              BY <6>2, EmptySeq DEF NtpInv
            <7> QED BY <7>1
          <6> QED BY <2>2, <4>2, <6>1, <6>2 DEF NtpInv
        <5> QED BY <5>1, ParseShort
      <4> QED BY <4>1, <4>2
    <3> QED BY <2>2, <3>1
  <2> QED BY <2>1, <2>2
<1> QED BY <1>1, <1>2 DEF TimeIsExact

\* The client of ntp.rs takes the time of an answer exactly when a synchronised
\* server made it, whole, for this request: no cut packet, no earlier request's
\* answer, not its own request; and unix_seconds is exact.  For every time and server.
THEOREM TimeCorrect == NtpSpec => []TimeIsExact
BY NtpInvInit, NtpInvStep, NtpInvExact, PTL DEF NtpSpec
=============================================================================
