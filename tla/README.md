# Specification of the NDM24 modem driver and PPP stack

This directory holds TLA+ specifications of the SNES (SFC) driver for the NDM24
modem and of the Rust reference implementation it was developed against, the
TLC configurations that check them, and TLAPS proofs. Paths are relative to the
repository root (`src/...` is the assembly tree, `crates/...` the Rust one,
`docs/...` the documentation).

## 1. The system

```
 host tools (Rust, USB)                         peer (pppd / provider)
      | mailbox commands, snapshot reads                |
      v                                                 | PPP over the modem line
 +---- SFC, one main loop (src/reset.asm:123-149) ------+-----------------+
 | modemMailboxPoll  modemPoll  modemSessionPoll  pppReceivePoll          |
 | pppLcpPoll  pppPapPoll  pppChapPoll  pppIpcpPoll  pppIpv4Poll          |
 | pppIcmpRequestPoll  pppNtpPoll  pppDnsPoll  ...   pppTransmitPoll      |
 +-------- NMI (src/vBlank.asm): frame counter, display -----------------+
 crates/ndm24-ppp: the same protocols as host-tested reference machines
```

| component | state | operations | interacts through |
|---|---|---|---|
| LCP reference machine (`lcp/negotiation.rs`) | automaton state, local options, three identifiers, retry budget, deadline, peer configuration, acknowledged Magic-Number | `open`, `close`, `lower_down`, `poll_timeout`, `reject_protocol`, `receive` | returned `Action`s: packets, ThisLayerUp/Down/Finished |
| PAP and IPCP reference clients | automaton, identifier, budget, deadline, addresses | as LCP | returned actions |
| codecs (`lib.rs`, `lcp.rs`, `pap.rs`, `chap.rs`, `ipcp.rs`, `ipv4.rs`, `icmp.rs`, `udp.rs`, `ntp.rs`, `dns.rs`) | decoder: synchronisation, escape, partial frame | push a byte, encode a frame, parse and build packets | values |
| SFC receive buffer (`receive.asm`, `framing.asm`) | ownership flags, one frame, `pppFrameReady`, NO CARRIER matcher | start, stop, poll, release | `pppFrameReady`/`pppLastProtocol`, read by five pollers |
| SFC encoder (`transmit.asm`) | one frame in transmission | begin, abort, poll | `pppTransmitActive`, used by every layer |
| SFC LCP, PAP, CHAP, IPCP | automaton, pending (and deferred) action, timer, budget | poll; open and close for LCP | each other's state bytes, the two buffers |
| SFC IPv4, ICMP, UDP, NTP, DNS | pending Echo Reply, requester states | poll, request | the two buffers |
| credentials (`papCredentials.asm`) | transient flag, peer id, password | initialize, clear, set | mailbox, PAP, CHAP |
| modem session and mailbox (`modem/`) | driver state, AT transaction, command sequence | initialize, AT command, poll | `modemDriverState`, RX/TX rings |
| diagnostics, clock, UI, speed test | counters, calendar, tiles | poll | read by the host or the display |
| host tools | sessions over USB, a dialling program's position and what it has to undo | mailbox call, stable reads, dial, test, trace | mailbox, snapshot area |
| width lint (`xtask/src/asm_lint.rs`) | worklist, states met per statement | analyse every procedure under every entry | the assembly tree, before every ROM build |

What is hard about it: the pollers are cooperative and short, but they share one
receive buffer, one encoder and one pending slot per layer, and every one of
them re-derives from four state bytes who owns what. Between two pollers the
line may be lost, between two iterations a timer may expire, the host may open,
close, stop or redial, and the peer may send anything, renegotiate from Opened,
challenge again or hang up. Unit tests on the SFC run each poller on a prepared
state; what they hardly reach is the *sequence* of pollers of one iteration.
The host shares work RAM with the SFC and sees every intermediate store; its own
time limits and the SFC's are not the same. The codecs are straight-line code,
but their mistakes sit at boundaries (a length octet, a block of the digest, a
full ring between an escape and its octet). The hazards are listed one by one in
`PROJECT.json`.

Properties that make the parts correct:

* LCP machine: the layer above is told the truth; a timer runs exactly while the
  machine waits; the configuration in force was really acknowledged; budgets
  are bounded.
* SFC pollers: nobody waits with nothing to wake it; a held frame reaches its
  owner and is eventually released; an encoder frame is only discarded with the
  line or by its owner; nothing survives a connection; IPCP runs only over the
  authentication the peer asked for; a close completes and is final; silence and
  hang-ups are noticed.
* PAP and IPCP clients: every retry is counted, only the current request's answer
  counts, the caller is told the addresses that are in force, and Configure
  negotiation is an implementation of one abstract handshake.
* Codecs: what is sent is what is read, whatever is padded on; what is cut or
  damaged is refused; a fault on the line costs only the frames it touches.
* Shared memory: an accepted snapshot is one the SFC had, a mailbox call gets its
  own answer and runs once.
* Requesters and programs: an answer belongs to its request, a wait is bounded,
  a cleanup reaches the SFC whatever failed before.
* Width lint: what it accepts runs in the widths it was assembled for. (It does not
  hold without exception: section 5.)

## 2. Modules

### Reference LCP machine

| module | models |
|---|---|
| `LcpOptions` | `evaluate_peer_request`, `apply_nak`, `apply_reject`, `next_magic`: an option is its type, whether its length is right, and its value |
| `LcpMachine` | every method of `Machine` as an operator from a machine record to `[machine, actions]` |
| `LcpSession` | the caller and an arbitrary peer around one machine; history variables `signals`, `upper`, `verdict` |
| `LcpSessionProofs` | the theorems of section 4 |
| `MCReference` | the instance TLC checks, together with the codecs |

`restart_deadline_ms` is kept as "is set": `poll_timeout` before the deadline
changes nothing, so the action is the call made after it. The local option
list is kept by position, with `None` for an option a Reject removed, because
the code replaces and drops options and never adds or reorders one. Identifiers
and Magic-Numbers wrap modulo `IdSpace` and `MagicSpace`.

`ConfigureHandshake` is what a Configure negotiation promises the layer above, in
three Booleans: the peer acknowledged our request, we acknowledged the peer's,
the layer above was told Up. `LcpSession` and `IpcpSession` instantiate it with
`heard`, `said` and `up` read off the automaton state and the history of signals,
and check it as `ImplementsHandshake` and `IpcpImplementsHandshake`. Both are also
proved.

### Reference PAP and IPCP clients

| module | models |
|---|---|
| `PapClient` | `pap/client.rs` with the shared transmitter it waits for and an authenticator behind a line that loses, delays and duplicates |
| `IpcpClient` | `ipcp/client.rs`: every method as an operator from a client record to a transition |
| `IpcpSession` | the caller and an arbitrary peer around it; history of what the caller was told, what was sent and acknowledged |
| `ClientProofs` | the theorems of section 4 about both |
| `MCClients` | both clients for TLC |

The names both clients of the code share (`receive`, `lower_down`, `Client::new`) carry
the prefix `ipcp_` or `Ipcp` in the IPCP modules, so that one module can extend both.

### Codecs

| module | models |
|---|---|
| `Framing`, `FramedLine` | `lib.rs`: FCS, `encode_async`, `AsyncEncoder`, `AsyncDecoder`, octet by octet, joined by a bounded ring and a faulty line |
| `Octets`, `ControlCodec`, `ControlExchange` | `lcp.rs`, `pap.rs`, `chap.rs`, `ipcp.rs` over octet strings; the packets, padded or cut, and arbitrary octets |
| `ChapDigest` | the streaming and padding of `chap.rs`'s MD5; `compress` is a function of the blocks it gets, so the list of blocks stands for its value |
| `IpCodec`, `IpExchange` | `ipv4.rs`, `icmp.rs`, `udp.rs` |
| `NtpExchange` | `ntp.rs`; the servers' answers are external |
| `DnsCodec`, `DnsExchange` | `dns.rs`; the resolvers' answers are external |
| `WireProofs` | the theorems of section 4 about the frame encoder, the digest and the NTP client |
| `MCReference` | all of them for TLC: the packets, names, times and damage tried |

Here the data is the subject, so octets are numbers and parsers are translated
check by check in the order of the code, which decides the error a packet gets.

### Host and SFC

| module | models |
|---|---|
| `HostSnapshot` | the RX ring (`buffer.asm`), `modemPoll`, the snapshot sequence, the AT session's stores, and `read_stable_snapshot` / `read_pending_rx` of `qusb2snes.rs` |
| `Mailbox` | `modemMailboxPoll` store by store, deferred commands, the NMI that delivers a payload, and `mailbox_command_with_arguments` |
| `Requesters` | `icmpRequest.asm`, `ntp.asm`, `dns.asm`: begin, send, deadline on the wrapping frame counter, correlation; and the host procedures that poll them |
| `ChargedCall` | `nifty_dial.rs` with `credentials.rs`, and `ppp_dial.rs`: scripts of questions, checks, mailbox calls and waits, each of which may fail, against the SFC they drive |
| `SfcServiceProofs` (requesters and snapshot), `MailboxProofs`, `ChargedCallProofs` | the theorems of section 4 |
| `MCHost` | the last three models under fairness; `HostSnapshot` and the requesters' safety are in `MCSfcSafety` |

In the first two every read over USB and every store is a step of its own. In
`ChargedCall` a mailbox call is read, write, execute, answer, and the SFC is
reduced to what the scripts change and look at.

Some handlers of the mailbox store the result before the status and some after it. All
but one do both before they commit the sequence. The exception is a QUICK_TEST that
fails (mailbox.asm:65-69): its sequence was committed when it started, so FAILED is
visible as a final answer two instructions before its result. That the host does
not report the old result rests on its second, equal read, and on time: between the two reads
it sleeps for 10 ms (qusb2snes.rs:827), which outlasts two instructions. The guard of
`ReadBegin` states this, and it is the only assumption about time in `Mailbox`.

In `Requesters` starting a request includes what the mailbox does before it asks for
one: it copies destination, or resolver and name, into the requester's variables (`Stored`), also when
the request is then refused as busy. So the request under way may be sent to, or its
answer compared with, what a refused request wrote. `host.to` and the `question` of a
reply follow this. A DNS answer is accepted by transaction id and source; its name is not
compared. The `transmitFailed` exits of the pollers are left out because they
cannot be reached: what `pppIpv4BeginTransmit` tests is what the poller has just tested.

### Width lint

| module | models |
|---|---|
| `AsmLint` | the analysis: `merge_state`, `transfer`, the checks, returns, local calls; a procedure is its statements with labels resolved |
| `AsmRun` | ca65 and the 65816 (external): an accepted procedure is assembled and executed, with a stack of bytes |

The families of procedures TLC tries, every body of 4 or 5 statements over an
alphabet, are in `MCSfcSafety`. `Followed` names three shapes the lint accepts without
following them: an immediate whose encoding depends on a `plp_m*_i*` or `inc32` before it in the text,
`inc32` met in A8, and a local subroutine that pulls what its caller pushed. Procedures of these
shapes are in the families. `FollowedIsSafe` is the claim about the others, and
`AcceptedIsSafe`, the documented claim about all of them, is refuted (section 5). Without any one
of the three conditions TLC refutes `FollowedIsSafe` too.

### SFC main loop

| module | models |
|---|---|
| `SfcLink` | the shared state record, `receive.asm`, `transmit.asm` |
| `SfcLcp` | `lcpPoll.asm`, `lcpNegotiation.asm`, `lcpTimer.asm`, verdicts of `lcpOptions.asm` |
| `SfcAuth` | `pap.asm`, `papPoll.asm`, `chap.asm`, `chapPoll.asm`, `papCredentials.asm` |
| `SfcIpcp` | `ipcp.asm`, `ipcpPoll.asm`, `ipv4Poll.asm`, the Echo answer of `icmp.asm`, the requesters as senders |
| `SfcPpp` | the loop: mailbox, modem session, the pollers in the order of `reset.asm`, ticks, the peer; the properties |
| `SfcApproval` | `SfcPpp` with a record of what the peer approved |
| `SfcLayerProofs`, `SfcPppProofs` | the theorems of section 4: the pollers one by one, then the loop |
| `SfcPeers` | the frames peers send and the commands hosts give, per question asked |
| `MCSfcPpp` | the loop alone, for the findings |
| `MCSfcSafety` | the loop, the ring, the requesters and the lint for TLC |
| `MCSfcProgress` | the loop under fairness for TLC |

A poller is an operator from the shared state to the state it leaves, named like
its `.proc`; a local label of the assembly that is jumped to from several places
(`@timer`, `@servicePending`, `@lowerDown`) is an operator of its own. Each is
one action (`LcpPoll`, `PapPoll`, ... in `SfcPpp`) because nothing but the NMI preempts the loop, and the NMI touches
only the frame counter, the poll ticks and the display. Timeouts,
sent packets, opening, closing and resets are operators on the record of one layer
(`LcpTimeout(l)`, `LcpSent(l)`, ...), so that they can be reasoned about without the
others. A deadline passing is
`TickLcp`, `TickPap`, `TickIpcp`, offered at the top of the loop: each deadline
is read by one poller once per iteration, so ticking there loses no order.

Data is abstracted as follows.

* A received frame is its protocol and what it is to its consumer (`Frames`):
  for LCP, a request that is acknowledged (with the authentication it asks for),
  Nak'ed or Rejected, an answer to our request, a Terminate, an Echo, an unknown
  code, or something ignored. Validation of lengths, option bytes and checksums
  is that split.
* Of a request identifier the model keeps `known`: whether the peer can have
  seen the current value, because the code accepts an answer only if its
  identifier is the current one. A restarted identifier (LCP restarts at 0, IPCP
  at 1) is `known` at once, since an old request may have carried it.
* The encoder holds the owner of its frame, with LCP's Terminate-Ack told apart,
  because `ipcpPoll.asm` inspects the bytes for it.
* `chap.matches` says whether `pppChapLastIdentifier`, which the next Response
  carries, is that of the stored Challenge.
* `modemDriverState` OFF and ERROR are both `Off`; RESETTING and PROBING are
  `Resetting`; AT_COMMAND, which returns to READY, is `Ready`.
* Timer state is off, armed or expired; counters are kept.

## 3. Runs

Parts that share nothing are checked in one run without multiplying their states:
a variable (`works`, `part`, `scenario`) chosen in the initial state says which of
them takes the steps of a behaviour, and the others rest. A part that is proved about
is extended by the MC module, rests in one of its initial states and has its constants
in the cfg: the run checks the very definition the theorem states. The other parts are
instances with constants of their own, and a property of theirs is guarded by the
variable. A property of a part whose name ends in `Exact`, `Kept`, `Safe`, `Agrees` or
`Delivers` is a conjunction of parts stated one by one where the component is.

| run | part | question | bounds |
|---|---|---|---|
| `sfc_safety` | plain | types, `NoLayerWaitsSilently`, `NetworkFramesNeedNetwork`, `LineLossCleansUp`, `CloseIsFinal`, `TerminateAckSurvives` over an unauthenticated link | two attempts per request, every kind of LCP and IPCP packet class, echo requests, unknown protocols; the host opens, closes, starts, stops, dials, hangs up, reinitializes |
| | auth | the same and `NetworkNeedsApproval` with PAP and CHAP | one Configure and two PAP attempts, renegotiation between PAP and CHAP, staged credentials |
| | snapshot | `RingBytesExact` | ring of 3, 4 bytes (so it fills and wraps), 5 sections; the sequence does not wrap during one read |
| | requests | `RequestsKept`, `OnlyOwnAnswerOrTimeEnds` | all three protocols, clock of 8 with a timeout of 2 (it wraps), a main loop that may stall one frame, two calls |
| | lint | `FollowedIsSafe` | twelve families of bodies of 4 or 5 statements, over branches, saved registers, local calls, raw words, memory, `inc32`, `plp_m16_i16` and interrupts; branches go to the start, the last statement or the return (in the first family also into the middle) |
| `sfc_progress` | close | `CloseCompletes` | two Terminate-Requests, a peer that keeps sending requests, Acks, Naks, Terminates and unknown codes |
| | loss | `LossEndsWaiting`, `LossIsNoticed` while nobody closes PPP | one attempt per request |
| `clients` | PAP | types, `BudgetAccounts`, `LatestAttemptDecides`, `PhaseEnds` | 8 identifiers, 3 tries, 7 attempts over all phases. An identifier space larger than the attempts that can be under way is what makes the claim true: 256 in the code |
| | IPCP | `IpcpNegotiationAgrees`, `IpcpImplementsHandshake`, `SilenceEndsNegotiation` | 3 identifiers, 2 addresses and "unspecified", 2 tries, option lists of every verdict |
| `host` | mailbox | `CommandsExact`, `CallAnswered` | 2 values per half of the sequence, every starting sequence (so both halves carry and wrap), two calls of six command classes, one of them given up |
| | ntp | `SentRequestEnds` | NTP, as the requesters above |
| | call | `CleanupReachesSfc`, `DialOnceEquipped`, `NetworkIsClosed` | the scripts as they are, from every state the SFC may be in; any step may fail, the workflow may be cancelled anywhere |
| `reference` | lcp | `TypeOK`, `LayerAgreement`, `TimerCoversWaiting`, `AckedConfigurationInForce`, `OwnMagicIsAcknowledged`, `ImplementsHandshake` | 3 identifiers (so they wrap), 3 Magic-Numbers, budgets 2 and 2, one local option, eight peer option lists covering every verdict; every packet code with every identifier |
| | line | `EncoderMatchesBatch`, `LineDelivers` | ring of 2, two or three frames with octets that need escaping, two faults among drop, change, add |
| | control | `ControlPacketsExact` | every field up to 7 octets over five values, every packet of a small set with fields at the edges of their length octets, padded by up to 2, cut anywhere |
| | chap | `DigestExact` | blocks of 8 with a 2-octet length (64 and 8 in the code): secrets and challenges of 0..40 octets, five blocks |
| | ip | `IpPacketsExact` | payloads of even, odd and no length, one whose checksum is zero, header options, one octet changed anywhere, cut anywhere |
| | ntp | `TimeIsExact` | times around 1970 and the 32-bit ends, every header field that decides, buffers of 47 and 48 octets, answers cut anywhere |
| | dns | `NamesAreExact` | names at the limits of label and total length, answers with other records first, truncations |
| `sfc_response_frame`, `sfc_lower_down`, `sfc_hangup`, `sfc_carry_over`, `sfc_chap_response` | | five statements of the documentation the code does not keep (section 5) | one attempt per request |
| `ipcp_ack_match` | | that an accepted Ack is one of the options that were sent (section 5) | as IPCP above |
| `lint` | | `AcceptedIsSafe`: that every accepted procedure is safe (section 5) | as lint above |

The bounds are enough in this sense: every counter takes the values 0, "some"
and "maximum"; the pending, deferred and timer slots take every value; and both
buffers are full or empty in every combination. More retries repeat states that
differ in the counter only. Deadlock is checked in `sfc_progress`, for the SFC
loop. It is not in the others, where a finished program, an
exhausted bound on calls or a parsed packet is an end: there the liveness
properties say what must not be waited for.

**Fairness** (`FairSpec` of `SfcPpp`, per scenario in `MCSfcProgress`).
`WF(Loop)`: the main loop never stops, no poller blocks. `SF(TransmitFinishes)`: the modem keeps taking octets, so a frame that is
offered to the ring again and again leaves it (`pppTransmitPoll` moves up to 32
octets per iteration). `SF(Tick...)`: the NMI keeps counting frames, so a timer
that stays armed expires; strong, because the tick is offered only at the top of
the loop. Nothing is assumed of the peer, the host or the modem's answers.
In the other modules: `IpcpSession` and `PapClient`, the caller keeps calling
`poll_timeout` or `timeout` and the transmitter takes a pending request; `Mailbox`,
the SFC's main loop runs, the NMI comes, the host keeps reading and the modem
session ends an AT transaction (it has its own timeout); `Requesters`, the frame
counter counts and the poller runs, and nothing is assumed of the transmitter; `ChargedCall`, the host's limits expire and
the SFC's pollers run, nothing is assumed of the modem or the peer. `MCHost` states
one condition where each of its three parts has one; the part at work is fixed in a
behaviour, so this is the conjunction of the conditions of the part.

`SentRequestEnds` starts from WAITING. A request in REQUESTED waits for the encoder, the
loop polls other senders first in every pass (reset.asm:136-146), and REQUESTED has no deadline
(ntp.asm:205-212): as long as the others keep the encoder, it waits, and later requests are
refused as busy.

Every property is broken by a mutant of the code listed in `PROJECT.json`: the
operators with a suffix such as `Forgets`, `KeepsTx`, `Forever`, `NoWrap` next to
the definition they alter are those mutants and are used nowhere else.

## 4. Proofs

Every theorem holds for all values of the constants its assumptions allow.

### The LCP machine (`LcpSessionProofs`)

* `TypeCorrect`, `LayersAgree`, `TimerCovers`, `ConfigurationAgreed`,
  `OwnMagicAcknowledged`: the invariants of the LCP part of `reference`;
* `RefinesHandshake`: the machine implements `ConfigureHandshake`;
* `BudgetIsBounded`, the retransmission budget never exceeds its maximum, and
  `SignalsAlternating`, Up and Down alternate: proved only, no run repeats them.

The inductive invariant `IInv` is the conjunction of the six state predicates. They are carried
together because no part stands without the types: that the record stays a
machine needs the types of what the option operators return, and every other
part needs that record. `AckedConfigurationInForce` and `OwnMagicIsAcknowledged`
hold only as stated over two states each (Ack-Sent and Opened, Ack-Received and
Opened): the weaker claims about Opened alone are not inductive, since one packet
leads from the earlier state to Opened without touching the field. For the same
reason the budget is bounded in Opened too, from where renegotiation takes it
over. `SignalsAlternate` follows from `LayerAgreement` before the step. The proof
has one lemma per method of the machine, saying which fields the method leaves
and which state it enters, and one step per action of `Next`. For the refinement a
lemma per method lists the pairs of automaton states it may lead between
(`MachineMoves`); with `LayerAgreement`, which says when the layer above is up, each
pair is a step or a stutter of the handshake.

The assumptions are: identifiers and Magic-Numbers have at least two values and
the Magic increment is not a multiple of the space (in the code 256, 2^32 and
0x9e3779b9); option lists are sequences of options; `None` is none of the values
it stands apart from.

### The PAP and IPCP clients (`ClientProofs`)

Of the PAP client, for every identifier space and retry limit allowed by
`PapAssumption`: `TypeCorrect`, `BudgetCorrect` and `LatestDecides`. The invariant
behind the last says that every request and reply under way carries the
identifier its attempt was given, and that the attempts of the bound fit in the
identifier space, so two of them never share one: without it a late reply to an
old attempt could not be told from the current one.

Of the IPCP client, under `IpcpConstants` (two identifiers or more, addresses
other than "unspecified", any option lists): `NegotiationStaysAgreed`
(`IpcpNegotiationAgrees`) and `IpcpRefinesHandshake`. The five parts of the run's
property are inductive as they stand, together: a Nak that is ignored after it was half
applied is the one step that breaks the agreement, and `halfApplied` records it.

### The SFC main loop (`SfcLayerProofs`, `SfcPppProofs`)

* `TypesKept`; `NobodyWaitsSilently`: no layer waits for the peer without a timer
  or something to send after which one runs;
* `NetworkFramesAborted`: no network frame is in the encoder while IPCP is down;
* `LineLossCleaned`: after a lost line, a pass of the loop leaves no layer up and no
  frame behind;
* `AckSurvives` and `ClosedForGood`: the action properties `TerminateAckSurvives` and
  `CloseIsFinal`;
* `NetworkIsAuthenticated`: IPCP leaves Closed only over the approval the peer
  negotiated for (`SfcApproval`).

They hold for every set of peer frames and host commands and every retry limit above
zero. `SfcLayerProofs` has a lemma per operator of the four layers. Each is stated as a
move: from a sound shared state the operator leads to a sound one, touches no other
layer, leaves the encoder alone except in the ways its code may (a response goes out,
its own frame is aborted), and opens nothing it should not. Moves compose
(`LcpMovesTrans`, ...), so a poller's lemma follows the branches of the poller. Soundness
is the strengthening `NoLayerWaitsSilently` needs: a pending response counts only if a
deferred request follows it, and a pending Terminate-Ack counts except in Closing.

`SfcPppProofs` puts the pollers in the order of the loop. Its `IInv` says, besides
soundness, what each layer has already been told at each place in the loop:
`LineLost` (after LCP's poller a lost line has closed LCP and emptied both buffers),
`PapFollowsLcp` and `ChapFollowsLcp` (an authentication client that is active finds LCP
open once it has been polled, and open or closing before), `NetworkDown` (after IPCP's
poller it is closed unless the layers below are up, and closed IPCP owns no frame).
The claims about line loss and network frames are only true at certain places of the
loop; these parts are what carries them from one pass to the next. `Approved`
is the additional part for authentication: while LCP is up, a client that has succeeded
under the negotiated protocol was accepted since LCP opened.

### Requesters (`SfcServiceProofs`)

`RequestsAreKept` (`RequestsKept`) and `OnlyOwnAnswersEnd` hold for any requesters,
counter range, timeout, stall and tag space allowed by `RequesterConstants`. The
invariant `RInv` adds to the two properties: tags are no greater than the number of calls
made (`TagsFresh`), so none comes round; a reply whose tag is that of the request under
way answers that request (`RepliesOwned`); what a finished request holds is its own
answer, and the host that polls waits for the request its call started (`AnswersKept`,
`CallServed`); and `InTime`: frame counter and deadline are `age - Timeout` apart, modulo
the counter, and a request is past its timeout only since it was last polled. From
`InTime` the signed comparison is exact, because timeout and stall fit in half the
counter's range (`ExpiredIsOld` and its converse). The proof also needs `Timeout > 0`,
which was missing at first: with a timeout of zero and an odd counter range the
comparison would miss a deadline that has passed. Every timeout of the code is positive.

### Ring and snapshot (`SfcServiceProofs`)

`RingBytesAreExact` (`RingBytesExact`) holds for every ring of two slots or more. `RingInv`:
the sequence counts begun and ended sections (`Counted`), the indices are the
numbers of bytes accepted and taken modulo the ring, less than a ring apart
(`Indexed`), and the slots between them hold the unread bytes, also in the middle of
`modemStoreReceivedByte` (`Unread`). `HostInv`: as long as the sequence is the one the
host read first, no section has been opened since (`Watching`), so what it has
fetched of the block is still there (`Fetching`); the first snapshot was a state of the
ring (`Snapped`); a slot fetched since still holds what it held then, as long as the
counters have not moved (`Fetched`); and so the bytes returned were in the ring
(`Returned`). The assumption is that the sequence does not come round during one
behaviour (`SequenceSpace > 2 * MaxSections`); in the code it has 32 bits and a read lasts at
most two seconds.

### Mailbox (`MailboxProofs`)

`CommandsAreExact` (`CommandsExact`) holds for every width of the sequence's halves of at
least one bit and any number of calls and of calls given up. `Ordered`: calls are delivered and
carried out in the order of their numbers. `Noticed`: a command that was carried out
is not noticed again unless a newer call is in the mailbox; this gives
`ExecutedAtMostOnce`, with calls given up and with sequence numbers used again. `Own` follows
one call through its stages while none was given up: sent, delivered, being answered,
taken by the host, with result and output those of the call once its status is final
and its result stored. The argument rests on two facts: the sequence of a
call and its successor differ in the low half (`SuccessorDiffers`), so that comparing and
committing the halves in two steps cannot confuse them; and a read that is torn
between two states of the mailbox shows a final status under the call's sequence only
if its result was already stored, or if it is the FAILED of a QUICK_TEST whose result is
about to be stored or was stored during the read (`ViewTrue`). This is the one case
in which the host needs its second read: under the assumption about time above, a read
begun after the first sees the result, so two reads agree only if both show it.

### The dialling programs (`ChargedCallProofs`)

`CleanupAlwaysReaches` (`CleanupReachesSfc`) and `DialsOnceEquipped` (`DialOnceEquipped`)
hold for any number of setup commands. First the scripts are read off their definitions:
where READY, STAGED, OPEN, RECEIVE_START and DIAL stand and that DIAL stands nowhere else
(`NiftyPlaces`, `PppDialPlaces`, `DialPlace`), then where a step that went well
(`NextStepOnward`), failed (`AfterFailureFailing`) or ran out of time leads. The invariant
`IInv` says:

* `Course`: which blocks a program passes through, and what it has noted in them;
* `Own`: unless a command was left behind, the mailbox holds the call the program is
  making, so that what the SFC carries out is the step the program is at;
* `Clean`: what the cleanup has already taken off the SFC, command by command; nothing
  else on the SFC brings it back;
* `NotDialled`: before the dial command is written nothing was dialled, and a dial command
  waiting in the mailbox is the first;
* `NoLink`: without a call there is no link, apart from one that was there at the
  start and that the READY check turns away. This is what `Staged` needs: the SFC wipes
  the credentials when authentication ends or an open link goes down, and no such step can fall between the
  check of the credentials and the call;
* `Staged`: from the check on both credentials are there, from the open command on LCP is
  wanted, from the start command on receive is owned, also while the dial command waits
  in the mailbox of a program that has already given up.

The exception in `CleanupReachesSfc` is needed: once a command was left behind, the next
call reuses its sequence number, `Own` fails and so would the property (section 5,
remarks).

### The wire (`WireProofs`)

`EncoderCorrect` (`EncoderMatchesBatch`) holds for every frame of octets, every ACCM, ring
and faulty line. The batch encoder and the FCS are recursive over the frame, so each is
first unfolded into a table with one entry per octet (`FcsTableStep`, `EncodedTableStep`);
that the table exists is an induction over the length of the frame, which
`CountedInduction` derives from the well-foundedness of the naturals (a smallest
counterexample), because the library's own induction rule cannot be instantiated here.
`InStep` then says where the restartable encoder stands in that table: its running FCS is
the entry of the octets it has finished, and the number of octets emitted is the length of
the entry before the octet under way, one more between an escape and the octet it escapes.
`peek` shows the octet of the table at that place (`PeekMatches`) and `advance` moves one place on
(`AdvanceInStep`), through the opening flag, the frame, both octets of the FCS and the
closing flag.

`DigestCorrect` (`DigestExact`) holds for every block size, every length field shorter than a
block and parts of any length. `UpdateAbsorbs`: from a state with whole blocks compressed
and less than a block buffered, `update` leads to such a state, in the three cases of the code
(the buffer empty, filled by the input, or not filled), and the compressed and the
buffered octets together are those before and the input. `FinalizePads`: the padding
`finalize` chooses brings the message and its length to a whole number of blocks, with one
block more when the length does not fit, and leaves nothing buffered. The invariant `DigestInv`
ties the state to the octets fed so far.

`TimeCorrect` (`TimeIsExact`) holds for all timestamps and all server headers, usable or not.
`AskedFields` and `AnsweredFields` place every field of the 48 octets where the parser looks for it;
`ParseAnswered`, `ParseAsked` and `ParseShort` say what the parser makes of an answer, of the
client's own request and of a packet cut short; `BorrowAndCarry` is the arithmetic of
`unix_seconds`. `NtpInv` says which request and which answer the octets in flight belong to.

Assumed are the sizes the code has: octets are 0 to 255, the ACCM covers the 32 control
octets, a block is longer than its length field (64 and 8), an NTP number is four octets.

### Only model-checked

* Liveness under fairness: `CloseCompletes`, `LossEndsWaiting`, `LossIsNoticed`,
  `PhaseEnds`, `SilenceEndsNegotiation`, `CallAnswered`, `SentRequestEnds`, `NetworkIsClosed`.
  The prover has no rule for fairness.
* `ControlPacketsExact`, `IpPacketsExact` and `NamesAreExact`: their modules use recursive operators,
  over option lists, checksum words and resource records.
* `LineDelivers`: it is a statement about the faults of the run. Two faults in the right
  octets of a long frame can give the same FCS, so it does not hold for every frame.
* `FollowedIsSafe`: the analysis is recursive over a worklist.

## 5. Findings

Places where the code does not do what a comment or the documentation says; each
has a run whose counterexample shows it.

1. `sfc_response_frame`. An LCP answer that finds the encoder busy keeps its
   action but not its frame: in the same iteration `pppIpcpPoll` (or PAP or CHAP
   before they have opened) releases it, and the answer is later built from
   whatever came next. docs/ppp.md:386 and :388, lcpPoll.asm:155.
2. `sfc_lower_down`. IPCP's lower-down spares a Terminate-Ack and aborts any
   other frame, among them the Configure-Ack that caused the lower-down and the
   CHAP Response to a second Challenge. Retransmission repairs both.
   docs/ppp.md:417, ipcpPoll.asm:123-125.
3. `sfc_hangup`. After an administrative close, a frame already in the buffer is
   never released, the ring never drained, NO CARRIER never read.
   docs/ppp.md:425.
4. `sfc_carry_over`. A pending Echo Reply outlives the connection.
   docs/ppp.md:433-434.
5. `sfc_chap_response`. A CHAP frame that arrives while a Response is waiting for
   the encoder changes the identifier of that Response. chap.asm:344,
   docs/ppp.md:491-492.
6. `ipcp_ack_match`. A Configure-Nak or -Reject with a good option before a bad one
   is reported as ignored but has changed the client's addresses. A Configure-Ack is
   compared with the changed addresses: in the run one of an address the client never
   sent is accepted, and the client goes to AckReceived. docs/ppp.md:247.
7. `lint`. The width lint accepts three shapes that are unsafe when run. In a
   procedure entered in A8, `inc32` leaves A16, so that a `sta` after it writes two
   bytes into a one-byte allocation (this is TLC's counterexample). An immediate after
   a `plp_m16_i16` in the text that is reached by a branch from before it is encoded in 16 bits
   and executed in 8. A local subroutine that pulls and pushes back its caller's
   item pulls its own return address. asm_lint.rs:861, :446, :639-650; docs/assembly-width.md:25-28,
   :68-75, utility.asm:77-79. In the assembly sources the one use of `inc32` is met in A16.

Observations: seen in the code while modelling, where a document says otherwise.
No run is kept for them; the models contain the behaviour.

* The AT session stores its status and the driver state outside any snapshot
  section (session.asm:157; docs/ndm24-driver.md:107).
* Deferred mailbox commands are committed while RUNNING, before their result
  (mailbox.asm:229; docs/ndm24-driver.md:73).
* The host gives up dialling after 60 s, 5 s before the SFC does, and the cleanup
  does not hang up: a call may be left connected (nifty_dial.rs:24;
  docs/nifty-dial.md:49, :89-90).

Remarks, seen while modelling and not stated by any document:

* docs/ppp.md:309 and :330 still say that CHAP is Nak'ed to PAP; the code and
  docs/ppp.md:484-487 accept CHAP-MD5.
* A host that gave up a call the SFC had not taken reuses its sequence number: the
  next call may be reported as passed without having been executed. This is why
  `CleanupReachesSfc` excludes `unanswered`.
* QUICK_TEST issued while a call is CONNECTED and an AT transaction RUNNING stays
  RUNNING; a PRBS test that ends late overwrites the status of a later command.
* A ping or DNS query refused as busy has overwritten the destination, or resolver and
  name, of the one under way, which then fails to recognise its own answer or asks
  something else (mailbox.asm:431-438, :458-472).
* `pppNtpReceive` fails a request on a stray answer even if it is queued or done.
* The lint accepts a procedure that falls off its end, a tail `jmp` into another
  procedure, and RTS for RTL; a recursive local subroutine keeps the worklist
  growing. `MCSfcSafety` leaves these out of its families.

## 6. Not modelled, and the plan

| step | content | state |
|---|---|---|
| 1 | `LcpOptions`, `LcpMachine`, `LcpSession`, proofs | done |
| 2 | `SfcLink`, `SfcLcp`, `SfcAuth`, `SfcIpcp`, `SfcPpp`, `SfcApproval` | done |
| 3 | PAP and IPCP reference clients, the handshake LCP and IPCP implement | done, with proofs |
| 4 | framing and packet codecs | done |
| 5 | byte rings, mailbox with the host's side, snapshot lock with the host's reader | done |
| 6 | ICMP, NTP and DNS requesters | done |
| 7 | the dialling programs; the width lint | done |
| 8 | proofs: IPCP's invariants, the handshake as a theorem for LCP and IPCP, the ring, the mailbox and the deadline arithmetic for every size | done |
| 9 | an inductive invariant for the SFC loop | done |
| 10 | proofs about `ChargedCall`: `CleanupReachesSfc`, `DialOnceEquipped` | done |
| 11 | proofs about the codecs: encoder, digest, NTP client | done |
| 12 | two reference machines over channels that lose and delay | planned |

Left out for good: the bit timing of `transfer9.asm`, the display, the
controller, the calendar, MD5's compression function, the code generator and its
constants, the test and trace tools' command lines and patterns, the lint's text
handling, the build tooling and the lab server scripts.
