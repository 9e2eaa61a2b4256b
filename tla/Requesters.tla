----------------------------- MODULE Requesters -----------------------------
(***************************************************************************)
(* The three one-shot clients of the SFC (icmpRequest.asm, ntp.asm,        *)
(* dns.asm) and the host procedures that drive them (qusb2snes.rs:         *)
(* icmp_echo, ntp_request, dns_query).                                     *)
(*                                                                         *)
(* A host procedure notes the response count, starts the request through   *)
(* the mailbox (module Mailbox: here one step) and polls the diagnostic    *)
(* snapshot.  The SFC sends when the shared transmitter is idle, sets a    *)
(* deadline on the wrapping frame counter and correlates what arrives.     *)
(* The network loses, delays, repeats and reorders answers.                *)
(***************************************************************************)
EXTENDS Integers

CONSTANTS Protocols,  \* the clients at work, among ICMP, NTP and DNS
          ClockSpace, \* values of the frame counter's low half: 2^16
          Timeout,    \* frames until a request expires
          MaxStall,   \* frames the main loop may take for one pass
          TagSpace,   \* values of sequence number, cookie and transaction id
          Destinations, \* what a request may ask: an address, or a resolver and a name
          MaxCalls    \* bound on the host's calls

\* What the constants have to be; assumed where they get their values.  The signed
\* comparison of frame and deadline needs half the counter's range and a timeout of
\* a frame or more, and no tag comes round while an answer to its first use may
\* still arrive.
RequesterConstants ==
    /\ Protocols \subseteq {"ICMP", "NTP", "DNS"} /\ Protocols # {}
    /\ {ClockSpace, Timeout, MaxStall, TagSpace, MaxCalls} \subseteq Nat
    /\ Destinations # {}
    /\ Timeout > 0
    /\ 2 * (Timeout + MaxStall) < ClockSpace
    /\ MaxCalls + 1 < TagSpace

VARIABLES requester, \* per protocol: its state, tag, deadline and counters
          clock, age, unpolled, busy, link, replies, host

requesterVars == <<requester, clock, age, unpolled, busy, link, replies, host>>

Pending == {"REQUESTED", "WAITING"}
\* age, call and answer are history: frames since the request was sent, the call it
\* serves, and what the answer that was taken answers.
Anywhere == CHOOSE d \in Destinations : TRUE
NoAnswer == [call |-> 0, to |-> Anywhere]
AgeCap == Timeout + MaxStall + 1

RequestersInit ==
    /\ requester = [p \in Protocols |-> [state |-> "IDLE", tag |-> 0, deadline |-> 0,
                                         responses |-> 0, target |-> Anywhere,
                                         call |-> 0, answer |-> NoAnswer]]
    /\ clock \in 0 .. ClockSpace - 1
    /\ age = [p \in Protocols |-> 0]
    /\ unpolled = [p \in Protocols |-> 0]
    /\ busy = FALSE
    /\ link = TRUE
    /\ replies = {}
    /\ host = [pc |-> "idle", protocol |-> CHOOSE p \in Protocols : TRUE, call |-> 0,
               to |-> Anywhere, before |-> 0, outcome |-> "none", answer |-> NoAnswer]

Set(p, r) == requester' = [requester EXCEPT ![p] = r]
Failed(p) == [requester[p] EXCEPT !.state = "FAILED"]

-----------------------------------------------------------------------------
\* Starting a request: pppIcmpRequestBegin, pppNtpRequest, pppDnsRequest.

NextTagKeepsCookie(p) == IF p = "NTP" THEN requester[p].tag ELSE (requester[p].tag + 1) % TagSpace

\* inc sequence, inc cookie, inc transaction id; the last one never is zero.
NextTag(p) ==
    LET n == (requester[p].tag + 1) % TagSpace
    IN  IF p = "DNS" /\ n = 0 THEN 1 ELSE n

\* The mailbox copies destination, or resolver and name, before it asks for the
\* request: also over those of the one under way.
Stored(p, to) == IF p = "NTP" THEN requester[p] ELSE [requester[p] EXCEPT !.target = to]

Accepts(p, valid) == requester[p].state \notin Pending /\ link /\ valid

\* What starting does to the requester: busy leaves its state alone, a closed link or
\* an invalid name fails.
Begin(p, call, to, valid) ==
    LET r == Stored(p, to)
    IN  IF requester[p].state \in Pending THEN r
        ELSE IF Accepts(p, valid)
        THEN [r EXCEPT !.state = "REQUESTED", !.tag = NextTag(p), !.deadline = 0, !.call = call]
        ELSE [r EXCEPT !.state = "FAILED"]

-----------------------------------------------------------------------------
\* The main loop: pppIcmpRequestPoll, pppNtpPoll, pppDnsPoll.

Polled(p) == unpolled' = [unpolled EXCEPT ![p] = 0]

PollLinkClosed(p) ==
    /\ requester[p].state \in Pending /\ ~link
    /\ Set(p, Failed(p))
    /\ Polled(p)
    /\ UNCHANGED <<clock, age, busy, link, replies, host>>

\* The shared transmitter must be idle; the deadline runs from here.  What is asked is
\* what the mailbox stored last.  (transmitFailed cannot be reached: what
\* pppIpv4BeginTransmit tests is what was just tested here.)
PollBuild(p) ==
    /\ requester[p].state = "REQUESTED" /\ link /\ ~busy
    /\ Set(p, [requester[p] EXCEPT !.state = "WAITING", !.deadline = (clock + Timeout) % ClockSpace])
    /\ busy' = TRUE
    /\ replies' = replies \cup {[protocol |-> p, tag |-> requester[p].tag,
                                question |-> [call |-> requester[p].call,
                                              to |-> requester[p].target]]}
    /\ age' = [age EXCEPT ![p] = 0]
    /\ Polled(p)
    /\ UNCHANGED <<clock, link, host>>

ExpiredNever(p) == FALSE

\* sec; sbc deadline; bmi: a signed 16-bit difference.
Expired(p) == (clock - requester[p].deadline) % ClockSpace < ClockSpace \div 2

PollTimeout(p) ==
    /\ requester[p].state = "WAITING" /\ link /\ Expired(p)
    /\ Set(p, Failed(p))
    /\ Polled(p)
    /\ UNCHANGED <<clock, age, busy, link, replies, host>>

PollWaits(p) ==
    /\ requester[p].state = "WAITING" /\ link /\ ~Expired(p)
    /\ unpolled[p] > 0
    /\ Polled(p)
    /\ UNCHANGED <<requester, clock, age, busy, link, replies, host>>

\* What the receive routines do with a candidate that is not the answer: NTP fails
\* the request, even a finished one; ICMP and DNS count it and stay as they are.
NotTheAnswerFails(p) == Failed(p)
NotTheAnswer(p) == IF p = "NTP" THEN Failed(p) ELSE requester[p]

\* An answer arrives; NTP and DNS answers may carry an error of their own.  Its source
\* is compared with the destination as it is now.  Two DNS questions may go to the same
\* resolver: the name is not compared.
Receive(p, reply, good, same) ==
    /\ reply.protocol = p
    /\ good \/ p # "ICMP"
    /\ same => p = "DNS"
    /\ LET r == requester[p]
           matches == /\ r.state = "WAITING" /\ reply.tag = r.tag
                      /\ reply.question.to = r.target \/ same
       IN  Set(p, IF ~matches THEN NotTheAnswer(p)
                  ELSE IF good
                  THEN [r EXCEPT !.state = "RECEIVED", !.responses = @ + 1,
                                 !.answer = reply.question]
                  ELSE [Failed(p) EXCEPT !.answer = reply.question])
    /\ UNCHANGED <<clock, age, unpolled, busy, link, replies, host>>

\* pppTransmitPoll finishes a frame; other layers use the transmitter too.
TransmitterFrees == busy /\ busy' = FALSE
                    /\ UNCHANGED <<requester, clock, age, unpolled, link, replies, host>>
OthersTransmit == ~busy /\ busy' = TRUE
                  /\ UNCHANGED <<requester, clock, age, unpolled, link, replies, host>>

\* IPCP leaves Opened or reaches it again.
LinkChanges ==
    /\ link' = ~link
    /\ UNCHANGED <<requester, clock, age, unpolled, busy, replies, host>>

\* A frame passes; the main loop polls a waiting requester every MaxStall frames.
Tick ==
    /\ \A p \in Protocols : requester[p].state = "WAITING" => unpolled[p] < MaxStall
    /\ \E p \in Protocols : requester[p].state = "WAITING"
    /\ clock' = (clock + 1) % ClockSpace
    /\ age' = [p \in Protocols |->
                 IF requester[p].state = "WAITING" /\ age[p] < AgeCap THEN age[p] + 1 ELSE 0]
    /\ unpolled' = [p \in Protocols |->
                      IF requester[p].state = "WAITING" THEN unpolled[p] + 1 ELSE 0]
    /\ UNCHANGED <<requester, busy, link, replies, host>>

-----------------------------------------------------------------------------
\* The host.

\* The response count before the call.  NTP asks the peer, always.
ReadBefore(p) ==
    /\ host.pc = "idle" /\ host.call < MaxCalls
    /\ \E to \in Destinations :
          /\ p = "NTP" => to = Anywhere
          /\ host' = [host EXCEPT !.pc = "command", !.protocol = p, !.call = host.call + 1,
                                  !.to = to, !.before = requester[p].responses,
                                  !.outcome = "none", !.answer = NoAnswer]
    /\ UNCHANGED <<requester, clock, age, unpolled, busy, link, replies>>

\* The mailbox command; a failing one is the procedure's error.
Command(p) ==
    /\ host.pc = "command" /\ host.protocol = p
    /\ \E valid \in IF p = "DNS" THEN BOOLEAN ELSE {TRUE} :
          /\ Set(p, Begin(p, host.call, host.to, valid))
          /\ host' = IF Accepts(p, valid) THEN [host EXCEPT !.pc = "poll"]
                     ELSE [host EXCEPT !.pc = "idle", !.outcome = "error"]
    /\ UNCHANGED <<clock, age, unpolled, busy, link, replies>>

\* @dnsQueryInvalid: a name of no length, or too long, is not even copied.
InvalidLength(p) ==
    /\ host.pc = "command" /\ host.protocol = p /\ p = "DNS"
    /\ host' = [host EXCEPT !.pc = "idle", !.outcome = "error"]
    /\ UNCHANGED <<requester, clock, age, unpolled, busy, link, replies>>

\* A stable snapshot shows the answer or the failure.
PollSnapshot(p) ==
    /\ host.pc = "poll" /\ host.protocol = p
    /\ \/ /\ requester[p].state = "RECEIVED" /\ requester[p].responses # host.before
          /\ host' = [host EXCEPT !.pc = "idle", !.outcome = "ok", !.answer = requester[p].answer]
       \/ /\ requester[p].state = "FAILED"
          /\ host' = [host EXCEPT !.pc = "idle", !.outcome = "error"]
    /\ UNCHANGED <<requester, clock, age, unpolled, busy, link, replies>>

\* The host's own timeout: the request goes on without it.
GiveUp(p) ==
    /\ host.pc \in {"command", "poll"} /\ host.protocol = p
    /\ host' = [host EXCEPT !.pc = "idle", !.outcome = "error"]
    /\ UNCHANGED <<requester, clock, age, unpolled, busy, link, replies>>

HostCall(p) == ReadBefore(p) \/ Command(p) \/ InvalidLength(p) \/ PollSnapshot(p) \/ GiveUp(p)

icmp_echo == "ICMP" \in Protocols /\ HostCall("ICMP")
ntp_request == "NTP" \in Protocols /\ HostCall("NTP")
dns_query == "DNS" \in Protocols /\ HostCall("DNS")

-----------------------------------------------------------------------------
Poll(p) == PollLinkClosed(p) \/ PollBuild(p) \/ PollTimeout(p) \/ PollWaits(p)

RequestersNext ==
    \/ \E p \in Protocols : Poll(p)
    \/ \E p \in Protocols, reply \in replies, good, same \in BOOLEAN :
          Receive(p, reply, good, same)
    \/ TransmitterFrees \/ OthersTransmit \/ LinkChanges \/ Tick
    \/ icmp_echo \/ ntp_request \/ dns_query

RequestersSpec == RequestersInit /\ [][RequestersNext]_requesterVars

-----------------------------------------------------------------------------
\* The answer a host procedure reports is the answer to the request it started, sent
\* where it was to be sent, whatever answers to earlier, abandoned or expired requests
\* still arrive and whatever a refused request wrote over the one under way.
AnswerIsOwn == host.outcome = "ok" => host.answer = [call |-> host.call, to |-> host.to]

\* A request waits no longer than its timeout and one pass of the main loop, also
\* when the frame counter wraps in between.
WaitBounded ==
    \A p \in Protocols : requester[p].state = "WAITING" => age[p] <= Timeout + MaxStall

\* A step that ends a waiting ping or DNS query is its own answer, the deadline or
\* the loss of the link.
EndsByOwnAnswerOrTime ==
    \A p \in Protocols \ {"NTP"} :
       (requester[p].state = "WAITING" /\ requester'[p].state # "WAITING") =>
          \/ ~link
          \/ age[p] >= Timeout
          \/ requester'[p].answer.call = requester[p].call

\* A waiting ping or DNS query ends by its own answer, by its deadline or with the
\* link; a stray answer does not end it, nor does the deadline come early.
OnlyOwnAnswerOrTimeEnds == [][EndsByOwnAnswerOrTime]_requesterVars

\* A request was sent and waits for its answer.
IsWaiting(p) == requester[p].state = "WAITING"

\* What a caller may rely on.
RequestsKept == AnswerIsOwn /\ WaitBounded
=============================================================================
