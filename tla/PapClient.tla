----------------------------- MODULE PapClient -----------------------------
(***************************************************************************)
(* The PAP client of crates/ndm24-ppp/src/pap/client.rs, the peer that     *)
(* authenticates itself, with the shared transmitter it waits for and an   *)
(* authenticator behind a line that loses, delays and duplicates frames.   *)
(*                                                                         *)
(* The history variable `attempt` counts the Authenticate-Requests handed  *)
(* to the transmitter since the client was created; every request and      *)
(* every reply carries the attempt it belongs to, which the code cannot    *)
(* see, and `decidedBy` is the attempt whose reply the client last         *)
(* accepted.  `sentInPhase` counts the requests of one authentication      *)
(* phase.                                                                  *)
(***************************************************************************)
EXTENDS Integers

CONSTANTS IdSpace,          \* identifiers are 0 .. IdSpace - 1 (256 in the code)
          MaxAuthenticate,  \* Client::new's max_authenticate
          MaxAttempts       \* bound on the requests of one behaviour

ASSUME PapAssumption ==
    /\ IdSpace \in Nat \ {0, 1}
    /\ MaxAuthenticate \in Nat \ {0}
    /\ MaxAttempts \in Nat
    /\ MaxAttempts < IdSpace

VARIABLES client, built, attempt, requests, decidedBy, sentInPhase

vars == <<client, built, attempt, requests, decidedBy, sentInPhase>>

NoPacket == -1
Identifiers == 0 .. IdSpace - 1
States == {"Inactive", "RequestPending", "WaitingForReply", "Opened", "Failed"}
Failures == {"none", "Rejected", "RetryLimitExceeded"}

Clients == [state : States, next_identifier : Identifiers,
            current_identifier : Identifiers, attempts_remaining : Nat,
            failure : Failures]

\* The replies that may be in flight: the authenticator answers any request it
\* was ever sent, and the line may hold the answer back or deliver it twice.
\* wf says whether the Message field parses.
Replies ==
    {[code |-> code, wf |-> wf, id |-> q.id, attempt |-> q.attempt] :
        code \in {"Ack", "Nak", "other"}, wf \in BOOLEAN, q \in requests}

NewClient == [state |-> "Inactive", next_identifier |-> 1, current_identifier |-> 0,
              attempts_remaining |-> 0, failure |-> "none"]

Init ==
    /\ client = NewClient
    /\ built = NoPacket
    /\ attempt = 0
    /\ requests = {}
    /\ decidedBy = 0
    /\ sentInPhase = 0

-----------------------------------------------------------------------------
lower_upRestartsIdentifiers(c, pap_required) ==
    [c EXCEPT !.attempts_remaining = MaxAuthenticate,
              !.next_identifier = 1,
              !.failure = "none",
              !.state = IF pap_required THEN "RequestPending" ELSE "Opened"]

\* The identifier counter survives: only the budget and the failure restart.
lower_up(c, pap_required) ==
    [c EXCEPT !.attempts_remaining = MaxAuthenticate,
              !.failure = "none",
              !.state = IF pap_required THEN "RequestPending" ELSE "Opened"]

lower_down(c) ==
    [c EXCEPT !.state = "Inactive", !.current_identifier = 0,
              !.attempts_remaining = 0, !.failure = "none"]

request_sentNoWrap(c) ==
    [c EXCEPT !.current_identifier = c.next_identifier,
              !.next_identifier = @ + 1,
              !.attempts_remaining = @ - 1,
              !.state = "WaitingForReply"]

\* request_sent in RequestPending; in any other state it returns false.
request_sent(c) ==
    [c EXCEPT !.current_identifier = c.next_identifier,
              !.next_identifier = (@ + 1) % IdSpace,
              !.attempts_remaining = @ - 1,
              !.state = "WaitingForReply"]

timeoutUnbounded(c) == [c EXCEPT !.state = "RequestPending"]

timeoutNeverFails(c) ==
    IF c.attempts_remaining = 0 THEN c ELSE [c EXCEPT !.state = "RequestPending"]

\* timeout in WaitingForReply; in any other state it returns false.
timeout(c) ==
    IF c.attempts_remaining = 0
    THEN [c EXCEPT !.state = "Failed", !.failure = "RetryLimitExceeded"]
    ELSE [c EXCEPT !.state = "RequestPending"]

\* The replies receive does not ignore.
Accepts(c, r) ==
    /\ c.state = "WaitingForReply"
    /\ r.code \in {"Ack", "Nak"}
    /\ r.id = c.current_identifier
    /\ r.wf

receive(c, r) ==
    IF ~Accepts(c, r) THEN c
    ELSE IF r.code = "Ack" THEN [c EXCEPT !.state = "Opened"]
    ELSE [c EXCEPT !.state = "Failed", !.failure = "Rejected"]

-----------------------------------------------------------------------------
\* The layer below comes up with or without PAP, and goes down at any time.
LowerUp(pap_required) ==
    /\ client.state = "Inactive"
    /\ attempt + MaxAuthenticate <= MaxAttempts
    /\ client' = lower_up(client, pap_required)
    /\ sentInPhase' = 0
    /\ built' = NoPacket
    /\ UNCHANGED <<attempt, requests, decidedBy>>

LowerDown ==
    /\ client.state # "Inactive"
    /\ client' = lower_down(client)
    /\ UNCHANGED <<built, attempt, requests, decidedBy, sentInPhase>>

\* build_pending_request: the packet waits for the shared transmitter; building
\* it again while the transmitter is busy changes nothing.
BuildPendingRequest ==
    /\ client.state = "RequestPending"
    /\ built # client.next_identifier
    /\ built' = client.next_identifier
    /\ UNCHANGED <<client, attempt, requests, decidedBy, sentInPhase>>

\* The transmitter accepts the packet and the caller commits it.
RequestSent ==
    /\ client.state = "RequestPending"
    /\ built # NoPacket
    /\ client' = request_sent(client)
    /\ attempt' = attempt + 1
    /\ requests' = requests \cup {[id |-> built, attempt |-> attempt + 1]}
    /\ sentInPhase' = sentInPhase + 1
    /\ built' = NoPacket
    /\ UNCHANGED decidedBy

Timeout ==
    /\ client.state = "WaitingForReply"
    /\ client' = timeout(client)
    /\ UNCHANGED <<built, attempt, requests, decidedBy, sentInPhase>>

\* A reply to any request ever sent arrives, however late and however often.
Receive(r) ==
    /\ client' = receive(client, r)
    /\ decidedBy' = IF Accepts(client, r) THEN r.attempt ELSE decidedBy
    /\ UNCHANGED <<built, attempt, requests, sentInPhase>>

Next ==
    \/ \E required \in BOOLEAN : LowerUp(required)
    \/ LowerDown
    \/ BuildPendingRequest
    \/ RequestSent
    \/ Timeout
    \/ \E r \in Replies : Receive(r)

Spec == Init /\ [][Next]_vars

\* The caller keeps building, the transmitter drains and the timer runs.
Fairness == WF_vars(BuildPendingRequest) /\ WF_vars(RequestSent) /\ WF_vars(Timeout)
FairSpec == Spec /\ Fairness

-----------------------------------------------------------------------------
\* The client record, the packets in flight and the counters keep their types.
TypeOK ==
    /\ client \in Clients
    /\ built \in Identifiers \cup {NoPacket}
    /\ attempt \in 0 .. MaxAttempts
    /\ requests \subseteq [id : Identifiers, attempt : Nat]
    /\ decidedBy \in Nat
    /\ sentInPhase \in Nat

\* Authentication succeeds or is rejected only by a reply to the last request
\* sent: a late reply to an earlier attempt, to a retransmitted one or to one of
\* a phase before the link went down never decides (pap/client.rs receive).
\* Holds while fewer than IdSpace requests are in flight.
LatestAttemptDecides ==
    [][\/ client.state # "Inactive" /\ client.state # "Opened" /\ client'.state = "Opened"
       \/ client.failure # "Rejected" /\ client'.failure = "Rejected"
       => decidedBy' = attempt]_vars

\* One phase hands at most Max-Authenticate requests to the transmitter, however
\* builds, timeouts and late replies interleave; the budget accounts for every
\* one of them, and request_sent never takes it below zero (attempts_remaining is
\* an unsigned 8-bit count).
BudgetAccounts ==
    /\ sentInPhase <= MaxAuthenticate
    /\ client.state = "RequestPending" => client.attempts_remaining > 0
    /\ client.state \in {"RequestPending", "WaitingForReply"} =>
           client.attempts_remaining = MaxAuthenticate - sentInPhase

\* A phase always ends: with the timer running, the client does not wait for
\* ever for a silent authenticator.
PhaseEnds ==
    client.state \in {"RequestPending", "WaitingForReply"}
        ~> client.state \in {"Opened", "Failed", "Inactive"}
=============================================================================
