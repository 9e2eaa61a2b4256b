---------------------------- MODULE HostSnapshot ----------------------------
(***************************************************************************)
(* The modem's receive ring and diagnostic block in SFC work RAM, and the  *)
(* host that reads both over QUsb2Snes while the SFC keeps writing them.   *)
(*                                                                         *)
(* SFC (src/modem/buffer.asm, poll.asm, session.asm): modemPoll stores     *)
(* received bytes and modemReadByte takes them, each inside a section that *)
(* makes the snapshot sequence odd and even again; the AT session writes   *)
(* its status and the driver state outside any section.                    *)
(*                                                                         *)
(* Host (tools/ndm24-tools/src/qusb2snes.rs): read_stable_snapshot reads   *)
(* the sequence, the block and the sequence again; read_pending_rx reads   *)
(* the ring between two stable snapshots.  Every GetAddress is a step of   *)
(* its own; the block and the ring are each read in two parts, because the *)
(* SFC runs on while the bytes are fetched.                                *)
(***************************************************************************)
EXTENDS Integers, Sequences

CONSTANTS RingSize,      \* slots of the ring; 256 in the code, one is never used
          SequenceSpace, \* values of the 32-bit snapshot sequence
          MaxBytes,      \* bound on the bytes the line delivers
          MaxSections,   \* bound on the snapshot sections the SFC opens
          MaxSession     \* bound on the AT session's state changes

\* What the constants have to be; assumed where they get their values.  The 32-bit
\* sequence does not come round while one snapshot is read; every section adds two.
SnapshotConstants ==
    /\ RingSize \in Nat \ {0, 1}
    /\ {MaxBytes, MaxSections, MaxSession, SequenceSpace} \subseteq Nat
    /\ SequenceSpace > 2 * MaxSections

\* log, taken and lost are history: the bytes accepted, how many of them were
\* taken, and how many were dropped at a full ring.
VARIABLES ring, block, sfc, log, taken, lost, sections, reader

snapshotVars == <<ring, block, sfc, log, taken, lost, sections, reader>>

Slots == 0 .. RingSize - 1
Empty == 0

\* The fields of the diagnostic block that the readers depend on.
NewBlock == [seq |-> 0, rx_read |-> 0, rx_write |-> 0, rx_accepted |-> 0,
             at_status |-> 0, driver_state |-> 0]

\* `first` is the sequence read ahead of the block, `part` the block as fetched
\* so far, `before` the first stable snapshot of read_pending_rx (`have` says
\* there is one), `slots` the ring as fetched, `bytes` the result.
NewHost == [pc |-> "first", first |-> 0, part |-> NewBlock, before |-> NewBlock,
            have |-> FALSE, slots |-> <<>>, bytes |-> <<>>]

SnapshotInit ==
    /\ ring = [s \in Slots |-> Empty]
    /\ block = NewBlock
    /\ sfc = "idle"
    /\ log = <<>> /\ taken = 0 /\ lost = 0 /\ sections = 0
    /\ reader = NewHost

-----------------------------------------------------------------------------
\* The SFC.  `sfc` is the place in the routine under way.

NextSlot(s) == (s + 1) % RingSize
Bump(b) == [b EXCEPT !.seq = (@ + 1) % SequenceSpace]

modemSnapshotBegin(pc) ==
    /\ sfc = "idle" /\ sections < MaxSections
    /\ block' = Bump(block)
    /\ sfc' = pc
    /\ sections' = sections + 1
    /\ UNCHANGED <<ring, log, taken, lost, reader>>

modemSnapshotEnd ==
    /\ sfc = "end"
    /\ block' = Bump(block)
    /\ sfc' = "idle"
    /\ UNCHANGED <<ring, log, taken, lost, sections, reader>>

\* The ring is full when one slot is left: equal indices mean empty.
RingFull == NextSlot(block.rx_write) = block.rx_read

\* modemStoreReceivedByte: the byte goes into the ring before the index moves;
\* a full ring keeps what it has and drops the new byte.
StoreByte ==
    /\ sfc = "store"
    /\ Len(log) + lost < MaxBytes
    /\ IF RingFull
       THEN lost' = lost + 1 /\ sfc' = "more" /\ UNCHANGED ring
       ELSE /\ ring' = [ring EXCEPT ![block.rx_write] = Len(log) + lost + 1]
            /\ sfc' = "index"
            /\ UNCHANGED lost
    /\ UNCHANGED <<block, log, taken, sections, reader>>

AdvanceWrite ==
    /\ sfc = "index"
    /\ block' = [block EXCEPT !.rx_write = NextSlot(@)]
    /\ sfc' = "count"
    /\ UNCHANGED <<ring, log, taken, lost, sections, reader>>

\* modemIncrement32 modemReceiveAcceptedCount; the byte now counts as accepted.
CountAccepted ==
    /\ sfc = "count"
    /\ block' = [block EXCEPT !.rx_accepted = @ + 1]
    /\ log' = Append(log, ring[(block.rx_write - 1) % RingSize])
    /\ sfc' = "more"
    /\ UNCHANGED <<ring, taken, lost, sections, reader>>

\* modemPoll clocks another byte in the same section, or ends it.
PollMore ==
    /\ sfc = "more"
    /\ sfc' \in {"store", "end"}
    /\ UNCHANGED <<ring, block, log, taken, lost, sections, reader>>

\* modemPoll may find no byte at all.
PollNothing ==
    /\ sfc = "store"
    /\ sfc' = "end"
    /\ UNCHANGED <<ring, block, log, taken, lost, sections, reader>>

\* modemReadByte, inside its own section.
ReadByte ==
    /\ sfc = "read"
    /\ block.rx_read # block.rx_write
    /\ block' = [block EXCEPT !.rx_read = NextSlot(@)]
    /\ taken' = taken + 1
    /\ sfc' = "end"
    /\ UNCHANGED <<ring, log, lost, sections, reader>>

ReadNothing ==
    /\ sfc = "read"
    /\ block.rx_read = block.rx_write
    /\ sfc' = "end"
    /\ UNCHANGED <<ring, block, log, taken, lost, sections, reader>>

\* modemSessionPoll, modemAtBegin: a change of the AT session is a store of
\* modemAtStatus and then one of modemDriverState, with no section around them.
\* Both fields are represented by the number of the change they stem from.
SessionStatus ==
    /\ sfc = "idle" /\ block.at_status < MaxSession
    /\ block' = [block EXCEPT !.at_status = @ + 1]
    /\ sfc' = "state"
    /\ UNCHANGED <<ring, log, taken, lost, sections, reader>>

SessionState ==
    /\ sfc = "state"
    /\ block' = [block EXCEPT !.driver_state = block.at_status]
    /\ sfc' = "idle"
    /\ UNCHANGED <<ring, log, taken, lost, sections, reader>>

-----------------------------------------------------------------------------
\* The host.  Each step is one GetAddress, or one part of a longer one.

HostStep(h) ==
    /\ reader' = h
    /\ UNCHANGED <<ring, block, sfc, log, taken, lost, sections>>

\* The sequence ahead of the block: an odd one is tried again.
ReadFirst ==
    /\ reader.pc = "first"
    /\ block.seq % 2 = 0
    /\ HostStep([reader EXCEPT !.pc = "low", !.first = block.seq])

\* The block comes in address order: sequence, states and indices, then the rest.
ReadBlockLow ==
    /\ reader.pc = "low"
    /\ HostStep([reader EXCEPT !.pc = "high",
                             !.part = [block EXCEPT !.rx_accepted = 0, !.at_status = 0]])

ReadBlockHigh ==
    /\ reader.pc = "high"
    /\ IF reader.part.seq = reader.first
       THEN HostStep([reader EXCEPT !.pc = "last", !.part.rx_accepted = block.rx_accepted,
                                                !.part.at_status = block.at_status])
       ELSE HostStep([reader EXCEPT !.pc = "first", !.part = NewBlock])

\* The sequence behind the block: only an unchanged one makes the block stable.
Stable(seq) == seq = reader.first

SameRingReadOnly(a, b) == a.rx_read = b.rx_read

\* The ring has not moved between the snapshots around its read.
SameRing(a, b) ==
    /\ a.rx_read = b.rx_read
    /\ a.rx_write = b.rx_write
    /\ a.rx_accepted = b.rx_accepted

Span(from, to) == (to - from) % RingSize
pending_ring_bytes(slots, from, to) ==
    [i \in 1 .. Span(from, to) |-> slots[(from + i - 1) % RingSize]]

\* read_stable_snapshot tries again unless the sequence stood still.
Unstable ==
    /\ reader.pc = "last" /\ ~Stable(block.seq)
    /\ HostStep([reader EXCEPT !.pc = "first", !.part = NewBlock])

SnapshotBefore ==
    /\ reader.pc = "last" /\ Stable(block.seq) /\ ~reader.have
    /\ HostStep([NewHost EXCEPT !.pc = "ringLow", !.before = reader.part, !.have = TRUE])

\* The second snapshot: read_pending_rx returns, or starts over.
SnapshotAfter ==
    /\ reader.pc = "last" /\ Stable(block.seq) /\ reader.have
    /\ IF SameRing(reader.before, reader.part)
       THEN HostStep([reader EXCEPT !.pc = "done",
                                  !.bytes = pending_ring_bytes(reader.slots, reader.part.rx_read,
                                                               reader.part.rx_write)])
       ELSE HostStep(NewHost)

\* The ring itself, in two parts.
ReadRingLow ==
    /\ reader.pc = "ringLow"
    /\ HostStep([reader EXCEPT !.pc = "ringHigh",
                             !.slots = [s \in Slots |-> IF s < RingSize \div 2 THEN ring[s] ELSE Empty]])

ReadRingHigh ==
    /\ reader.pc = "ringHigh"
    /\ HostStep([reader EXCEPT !.pc = "first",
                             !.slots = [s \in Slots |-> IF s < RingSize \div 2 THEN @[s] ELSE ring[s]]])

\* Two seconds without success end the read with an error.
Deadline ==
    /\ reader.pc = "first"
    /\ HostStep([NewHost EXCEPT !.pc = "failed"])

SfcNext ==
    \/ modemSnapshotBegin("store") \/ modemSnapshotBegin("read")
    \/ StoreByte \/ AdvanceWrite \/ CountAccepted \/ PollMore \/ PollNothing
    \/ ReadByte \/ ReadNothing
    \/ modemSnapshotEnd
    \/ SessionStatus \/ SessionState

HostNext ==
    \/ ReadFirst \/ ReadBlockLow \/ ReadBlockHigh
    \/ Unstable \/ SnapshotBefore \/ SnapshotAfter
    \/ ReadRingLow \/ ReadRingHigh
    \/ Deadline

SnapshotNext == SfcNext \/ HostNext

SnapshotSpec == SnapshotInit /\ [][SnapshotNext]_snapshotVars

-----------------------------------------------------------------------------
\* The ring holds exactly the accepted bytes nobody has taken, in order, whatever
\* arrives while it is full: no unread byte is overwritten and none comes twice.
RingHoldsUnread ==
    sfc \notin {"index", "count"} =>
        pending_ring_bytes(ring, block.rx_read, block.rx_write)
            = SubSeq(log, taken + 1, Len(log))

\* A snapshot the host calls stable shows indices and counters of one moment.
SnapshotConsistent ==
    reader.have => reader.before.rx_write = reader.before.rx_accepted % RingSize

\* What read_pending_rx returns is what was in the ring at one moment: the
\* accepted bytes up to the snapshot's count that were not yet taken.
PendingRxExact ==
    reader.pc = "done" =>
        LET n == reader.part.rx_accepted
        IN  reader.bytes = SubSeq(log, n - Len(reader.bytes) + 1, n)

\* No byte is lost, repeated or torn between the ring and the host.
RingBytesExact == RingHoldsUnread /\ SnapshotConsistent /\ PendingRxExact
=============================================================================
