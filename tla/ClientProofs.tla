---------------------------- MODULE ClientProofs ----------------------------
(***************************************************************************)
(* Proofs about the two reference clients.                                 *)
(*                                                                         *)
(* PapClient: for every identifier space, every budget and every number of *)
(* attempts below the identifier space.                                    *)
(*                                                                         *)
(* IpcpSession: for every set of addresses, every retry budget and         *)
(* identifier width, and against every peer whose packets carry options.   *)
(***************************************************************************)
EXTENDS PapClient, IpcpSession, TLAPS

\* What the identifiers have to do with the attempts they stand for: the
\* identifier counter is one ahead of the attempts, a request's identifier is
\* its attempt, and the identifier waited for is that of the last attempt.
Identified ==
    /\ client.next_identifier = IF attempt + 1 = IdSpace THEN 0 ELSE attempt + 1
    /\ client.state = "WaitingForReply" => client.current_identifier = attempt
    /\ client.state = "RequestPending" => built \in {NoPacket, client.next_identifier}
    /\ client.state = "WaitingForReply" => built = NoPacket
    /\ \A q \in requests : q.id = q.attempt /\ q.attempt <= attempt

\* The attempts still to come fit into the bound.
AttemptsFit ==
    client.state \in {"RequestPending", "WaitingForReply"} =>
        attempt + client.attempts_remaining <= MaxAttempts

PapInv == TypeOK /\ BudgetAccounts /\ Identified /\ AttemptsFit

\* Wrapping addition of one.
LEMMA WrapOfSuccessor ==
    ASSUME NEW n \in Nat, n + 1 <= IdSpace
    PROVE  (n + 1) % IdSpace = IF n + 1 = IdSpace THEN 0 ELSE n + 1
  BY PapAssumption

\* The client record built by Client::new satisfies the invariant.
LEMMA PapInitInv == Init => PapInv
  BY PapAssumption DEF Init, PapInv, TypeOK, BudgetAccounts, Identified, AttemptsFit,
     NewClient, Clients, States, Failures, Identifiers, NoPacket

\* Every call of the client and every reply preserves the invariant.
LEMMA PapNextInv == PapInv /\ [Next]_vars => PapInv'
<1> SUFFICES ASSUME PapInv, [Next]_vars PROVE PapInv'
  OBVIOUS
<1> USE PapAssumption DEF PapInv
<1>0. 0 \in Identifiers
  BY DEF Identifiers
<1>1. ASSUME NEW required \in BOOLEAN, LowerUp(required) PROVE PapInv'
  <2>1. PICK s \in {"RequestPending", "Opened"} :
            client' = [client EXCEPT !.attempts_remaining = MaxAuthenticate,
                                     !.failure = "none", !.state = s]
    BY <1>1, Zenon DEF LowerUp, lower_up
  <2>a. TypeOK'
    BY <1>1, <2>1 DEF LowerUp, TypeOK, Clients, States, Failures, Identifiers, NoPacket
  <2>b. BudgetAccounts'
    BY <1>1, <2>1 DEF LowerUp, TypeOK, BudgetAccounts, Clients
  <2>c. Identified'
    BY <1>1, <2>1 DEF LowerUp, TypeOK, Identified, Clients, NoPacket
  <2>d. AttemptsFit'
    BY <1>1, <2>1 DEF LowerUp, TypeOK, AttemptsFit, Clients
  <2> QED
    BY <2>a, <2>b, <2>c, <2>d
<1>2. CASE LowerDown
  <2>a. TypeOK'
    BY <1>0, <1>2 DEF LowerDown, lower_down, TypeOK, Clients, States, Failures
  <2>b. BudgetAccounts'
    BY <1>2 DEF LowerDown, lower_down, TypeOK, BudgetAccounts, Clients
  <2>c. Identified'
    BY <1>2 DEF LowerDown, lower_down, TypeOK, Identified, Clients, NoPacket
  <2>d. AttemptsFit'
    BY <1>2 DEF LowerDown, lower_down, TypeOK, AttemptsFit, Clients
  <2> QED
    BY <2>a, <2>b, <2>c, <2>d
<1>3. CASE BuildPendingRequest
  BY <1>3 DEF BuildPendingRequest, TypeOK, BudgetAccounts, Identified, AttemptsFit,
     Clients, States, Failures, Identifiers, NoPacket
<1>4. CASE RequestSent
  <2>1. /\ client \in Clients /\ attempt \in Nat /\ sentInPhase \in Nat
        /\ client.state = "RequestPending"
        /\ client.attempts_remaining > 0 /\ client.attempts_remaining \in Nat
        /\ attempt + 1 <= MaxAttempts
        /\ client.next_identifier = attempt + 1
        /\ built = attempt + 1
    BY <1>4 DEF RequestSent, TypeOK, BudgetAccounts, Identified, AttemptsFit,
       Clients, Identifiers, NoPacket
  <2>2. (client.next_identifier + 1) % IdSpace
           = IF attempt + 2 = IdSpace THEN 0 ELSE attempt + 2
    <3>1. client.next_identifier + 1 <= IdSpace /\ client.next_identifier \in Nat
      BY <2>1
    <3>2. (client.next_identifier + 1) % IdSpace
             = IF client.next_identifier + 1 = IdSpace THEN 0 ELSE client.next_identifier + 1
      BY <3>1, WrapOfSuccessor
    <3> QED
      BY <2>1, <3>2
  <2>3. /\ client'.state = "WaitingForReply"
        /\ client'.current_identifier = attempt + 1
        /\ client'.next_identifier = IF attempt + 2 = IdSpace THEN 0 ELSE attempt + 2
        /\ client'.attempts_remaining = client.attempts_remaining - 1
        /\ client'.failure = client.failure
    BY <1>4, <2>1, <2>2 DEF RequestSent, request_sent, Clients
  <2>4. client' \in Clients
    <3>1. client' = [client EXCEPT !.current_identifier = attempt + 1,
                                   !.next_identifier = IF attempt + 2 = IdSpace THEN 0 ELSE attempt + 2,
                                   !.attempts_remaining = client.attempts_remaining - 1,
                                   !.state = "WaitingForReply"]
      BY <1>4, <2>1, <2>2 DEF RequestSent, request_sent, Clients
    <3>2. /\ attempt + 1 \in Identifiers
          /\ (IF attempt + 2 = IdSpace THEN 0 ELSE attempt + 2) \in Identifiers
          /\ client.attempts_remaining - 1 \in Nat
      BY <2>1 DEF Identifiers
    <3> DEFINE next == IF attempt + 2 = IdSpace THEN 0 ELSE attempt + 2
               left == client.attempts_remaining - 1
    <3>3. next \in Identifiers /\ left \in Nat
      BY <3>2
    <3>4. client' = [client EXCEPT !.current_identifier = attempt + 1,
                                   !.next_identifier = next,
                                   !.attempts_remaining = left,
                                   !.state = "WaitingForReply"]
      BY <3>1
    <3> HIDE DEF next, left
    <3> QED
      BY <3>2, <3>3, <3>4, <2>1 DEF Clients, States
  <2>5. TypeOK'
    BY <1>4, <2>1, <2>4 DEF RequestSent, TypeOK, Identifiers, NoPacket
  <2>6. BudgetAccounts'
    BY <1>4, <2>1, <2>3 DEF RequestSent, BudgetAccounts, TypeOK
  <2>7. Identified'
    BY <1>4, <2>1, <2>3 DEF RequestSent, Identified, TypeOK
  <2>8. AttemptsFit'
    BY <1>4, <2>1, <2>3 DEF RequestSent, AttemptsFit
  <2> QED
    BY <2>5, <2>6, <2>7, <2>8
<1>5. CASE Timeout
  <2>1. \/ client' = [client EXCEPT !.state = "Failed", !.failure = "RetryLimitExceeded"]
        \/ /\ client' = [client EXCEPT !.state = "RequestPending"]
           /\ client.attempts_remaining # 0
    BY <1>5 DEF Timeout, timeout
  <2>a. TypeOK'
    BY <1>5, <2>1 DEF Timeout, TypeOK, Clients, States, Failures
  <2>b. BudgetAccounts'
    <3>1. CASE client' = [client EXCEPT !.state = "Failed", !.failure = "RetryLimitExceeded"]
      BY <1>5, <3>1 DEF Timeout, TypeOK, BudgetAccounts, Clients
    <3>2. CASE client' = [client EXCEPT !.state = "RequestPending"] /\ client.attempts_remaining # 0
      <4>1. client'.attempts_remaining = client.attempts_remaining
        BY <3>2 DEF TypeOK, Clients
      <4>2. client.attempts_remaining \in Nat
        BY DEF TypeOK, Clients
      <4> QED
        BY <1>5, <3>2, <4>1, <4>2 DEF Timeout, BudgetAccounts
    <3> QED
      BY <2>1, <3>1, <3>2
  <2>c. Identified'
    BY <1>5, <2>1 DEF Timeout, TypeOK, Identified, Clients, NoPacket
  <2>d. AttemptsFit'
    BY <1>5, <2>1 DEF Timeout, TypeOK, AttemptsFit, Clients
  <2> QED
    BY <2>a, <2>b, <2>c, <2>d
<1>6. ASSUME NEW r \in Replies, Receive(r) PROVE PapInv'
  <2>1. r.attempt \in Nat
    BY DEF Replies, TypeOK
  <2> QED
    BY <1>6, <2>1 DEF Receive, receive, TypeOK, BudgetAccounts, Identified, AttemptsFit,
       Clients, States, Failures, Identifiers, NoPacket
<1>7. CASE UNCHANGED vars
  BY <1>7 DEF vars, TypeOK, BudgetAccounts, Identified, AttemptsFit
<1> QED
  BY <1>1, <1>2, <1>3, <1>4, <1>5, <1>6, <1>7 DEF Next

\* The client record, the packets in flight and the counters keep their types.
THEOREM TypeCorrect == Spec => []TypeOK
<1>1. PapInv => TypeOK
  BY DEF PapInv
<1> QED
  BY PapInitInv, PapNextInv, <1>1, PTL DEF Spec

\* One authentication phase never hands more than Max-Authenticate requests to
\* the transmitter and never takes attempts_remaining below zero.
THEOREM BudgetCorrect == Spec => []BudgetAccounts
<1>1. PapInv => BudgetAccounts
  BY DEF PapInv
<1> QED
  BY PapInitInv, PapNextInv, <1>1, PTL DEF Spec

\* Only a reply to the last request sent ends the wait, whatever replies of
\* earlier attempts or earlier phases arrive, as long as fewer requests are sent
\* than there are identifiers.
THEOREM LatestDecides == Spec => LatestAttemptDecides
<1> DEFINE Decides ==
        \/ client.state # "Inactive" /\ client.state # "Opened" /\ client'.state = "Opened"
        \/ client.failure # "Rejected" /\ client'.failure = "Rejected"
<1>1. PapInv /\ [Next]_vars => [Decides => decidedBy' = attempt]_vars
  <2> SUFFICES ASSUME PapInv, Next, Decides PROVE decidedBy' = attempt
    OBVIOUS
  <2> USE PapAssumption DEF PapInv, TypeOK, Clients
  <2>1. ASSUME NEW required \in BOOLEAN, LowerUp(required) PROVE FALSE
    BY <2>1 DEF LowerUp, lower_up
  <2>2. CASE LowerDown
    BY <2>2 DEF LowerDown, lower_down
  <2>3. CASE BuildPendingRequest
    BY <2>3 DEF BuildPendingRequest
  <2>4. CASE RequestSent
    BY <2>4 DEF RequestSent, request_sent
  <2>5. CASE Timeout
    BY <2>5 DEF Timeout, timeout
  <2>6. ASSUME NEW r \in Replies, Receive(r) PROVE decidedBy' = attempt
    <3>1. Accepts(client, r)
      BY <2>6 DEF Receive, receive
    <3>2. r.id = r.attempt
      BY DEF Replies, Identified
    <3> QED
      BY <2>6, <3>1, <3>2 DEF Receive, Accepts, Identified
  <2> QED
    BY <2>1, <2>2, <2>3, <2>4, <2>5, <2>6 DEF Next
<1> QED
  BY PapInitInv, PapNextInv, <1>1, PTL DEF Spec, LatestAttemptDecides

-----------------------------------------------------------------------------
\* The IPCP client.

\* The inductive invariant is the run's property itself, as its parts.
IInv == /\ IpcpTypeOK /\ TimerCoversWaiting
        /\ ToldAddressesInForce /\ AwaitsWhatItSent /\ PeerAddressWasAcknowledged

Told == [addr : [AskedTypes -> AnyAddress], peer : AnyAddress]

-----------------------------------------------------------------------------
\* Addresses the layer above is told are not "none".
LEMMA ToldIsNotNone == \A a, p : [addr |-> a, peer |-> p] # None
<1> SUFFICES ASSUME NEW a, NEW p, [addr |-> a, peer |-> p] = None PROVE FALSE
  OBVIOUS
<1>1. DOMAIN [addr |-> a, peer |-> p] = {"addr", "peer"}
  OBVIOUS
<1>2. DOMAIN None = {"none"}
  BY DEF None
<1> QED BY <1>1, <1>2

\* What is asked for is decided by the flags, the addresses and the identifier.
LEMMA SameRequest ==
    ASSUME NEW c, NEW n, n.ask = c.ask, n.addr = c.addr,
           n.request_identifier = c.request_identifier
    PROVE  Request(n) = Request(c)
  BY DEF Request, local_options

\* What the lists of actions the client returns do to the line and the layer above.
Quiet(a) == a.type \notin {"up", "down"} /\ (a.type = "send" => a.packet.code # "ConfReq")
LEMMA TakeNothing ==
    ASSUME NEW n, NEW g, Take([client |-> n, actions |-> <<>>, ignored |-> g])
    PROVE  ipcp' = n /\ upper' = upper /\ sent' = sent
<1>1. OfType(<<>>, "up") = {} /\ OfType(<<>>, "down") = {} /\ Requests(<<>>) = {}
  BY DEF OfType, Requests
<1> QED BY <1>1 DEF Take

LEMMA TakeQuiet ==
    ASSUME NEW n, NEW a, Quiet(a), Take(Transition(n, <<a>>))
    PROVE  ipcp' = n /\ upper' = upper /\ sent' = sent
<1>1. OfType(<<a>>, "up") = {} /\ OfType(<<a>>, "down") = {} /\ Requests(<<a>>) = {}
  BY DEF OfType, Requests, Quiet
<1> QED BY <1>1 DEF Take, Transition

LEMMA TakeRequest ==
    ASSUME NEW n, NEW c, Take(Transition(n, <<Send(Request(c))>>))
    PROVE  ipcp' = n /\ upper' = upper /\ sent' = Request(c)
<1> DEFINE s == <<Send(Request(c))>>
<1>1. Send(Request(c)).type = "send" /\ Send(Request(c)).packet = Request(c)
      /\ Request(c).code = "ConfReq"
  BY DEF Send, Request, Packet
<1>2. OfType(s, "up") = {} /\ OfType(s, "down") = {} /\ Requests(s) = {1}
  <2> HIDE DEF s
  <2>1. s[1] = Send(Request(c)) /\ DOMAIN s = {1}
    BY DEF s
  <2> QED BY <1>1, <2>1 DEF OfType, Requests
<1>3. s[CHOOSE i \in Requests(s) : TRUE].packet = Request(c)
  BY <1>1, <1>2
<1> HIDE DEF s
<1> QED BY <1>2, <1>3 DEF Take, Transition, s

LEMMA TakeDown ==
    ASSUME NEW n, Take(Transition(n, <<ThisLayerDown>>))
    PROVE  ipcp' = n /\ upper' = None /\ sent' = sent
<1>1. OfType(<<ThisLayerDown>>, "up") = {} /\ OfType(<<ThisLayerDown>>, "down") = {1}
      /\ Requests(<<ThisLayerDown>>) = {}
  BY DEF OfType, Requests, ThisLayerDown
<1> QED BY <1>1 DEF Take, Transition

LEMMA TakeUp ==
    ASSUME NEW n, NEW o, Take(Transition(n, <<ThisLayerUp(o)>>))
    PROVE  ipcp' = n /\ upper' = addresses(o) /\ sent' = sent
<1> DEFINE s == <<ThisLayerUp(o)>>
<1>1. s[1].type = "up" /\ s[1].addresses = addresses(o) /\ DOMAIN s = {1}
  BY DEF ThisLayerUp
<1>2. Take([client |-> n, actions |-> s, ignored |-> FALSE])
  BY DEF Transition
<1> HIDE DEF s
<1>3. OfType(s, "up") = {1} /\ Requests(s) = {}
  BY <1>1 DEF OfType, Requests
<1> QED BY <1>1, <1>2, <1>3 DEF Take

LEMMA TakeAnswerUp ==
    ASSUME NEW n, NEW o, NEW a, Quiet(a), Take(Transition(n, <<a, ThisLayerUp(o)>>))
    PROVE  ipcp' = n /\ upper' = addresses(o) /\ sent' = sent
<1> DEFINE s == <<a, ThisLayerUp(o)>>
<1>1. s[1] = a /\ s[2].type = "up" /\ s[2].addresses = addresses(o) /\ DOMAIN s = {1, 2}
  BY DEF ThisLayerUp
<1>2. Take([client |-> n, actions |-> s, ignored |-> FALSE])
  BY DEF Transition
<1> HIDE DEF s
<1>3. OfType(s, "up") = {2} /\ Requests(s) = {}
  BY <1>1 DEF OfType, Requests, Quiet
<1> QED BY <1>1, <1>2, <1>3 DEF Take

LEMMA TakeDownRequest ==
    ASSUME NEW n, NEW c, Take(Transition(n, <<ThisLayerDown, Send(Request(c))>>))
    PROVE  ipcp' = n /\ upper' = None /\ sent' = Request(c)
<1> DEFINE s == <<ThisLayerDown, Send(Request(c))>>
<1>0. Request(c).code = "ConfReq"
  BY DEF Request, Packet
<1>1. s[1].type = "down" /\ s[2].type = "send" /\ s[2].packet = Request(c) /\ DOMAIN s = {1, 2}
  BY DEF ThisLayerDown, Send
<1>2. Take([client |-> n, actions |-> s, ignored |-> FALSE])
  BY DEF Transition
<1> HIDE DEF s
<1>3. OfType(s, "up") = {} /\ OfType(s, "down") = {1} /\ Requests(s) = {2}
  BY <1>0, <1>1 DEF OfType, Requests
<1> QED BY <1>1, <1>2, <1>3 DEF Take

LEMMA TakeDownRequestAnswer ==
    ASSUME NEW n, NEW c, NEW a, Quiet(a),
           Take(Transition(n, <<ThisLayerDown, Send(Request(c)), a>>))
    PROVE  ipcp' = n /\ upper' = None /\ sent' = Request(c)
<1> DEFINE s == <<ThisLayerDown, Send(Request(c)), a>>
<1>0. Request(c).code = "ConfReq"
  BY DEF Request, Packet
<1>1. /\ s[1].type = "down" /\ s[2].type = "send" /\ s[2].packet = Request(c) /\ s[3] = a
      /\ DOMAIN s = {1, 2, 3}
  BY DEF ThisLayerDown, Send
<1>2. Take([client |-> n, actions |-> s, ignored |-> FALSE])
  BY DEF Transition
<1> HIDE DEF s
<1>3. OfType(s, "up") = {} /\ OfType(s, "down") = {1} /\ Requests(s) = {2}
  BY <1>0, <1>1 DEF OfType, Requests, Quiet
<1> QED BY <1>1, <1>2, <1>3 DEF Take

-----------------------------------------------------------------------------
\* What the operators of the client return.
LEMMA InitialTypes ==
    ASSUME IpcpConstants
    PROVE  /\ InitialAddr \in [AskedTypes -> AnyAddress] /\ AskAll \in [AskedTypes -> BOOLEAN]
           /\ PreferredPeer \in AnyAddress /\ MaxConfigure \in Nat /\ 0 \in IpcpIdentifiers
  BY DEF IpcpConstants, InitialAddr, AskAll, AnyAddress, IpcpIdentifiers

LEMMA AllocateType ==
    ASSUME IpcpConstants, NEW c \in IpcpClients PROVE Allocate(c) \in IpcpIdentifiers
<1>1. c.next_identifier \in Nat /\ IpcpIdSpace \in Nat /\ IpcpIdSpace > 0
  BY DEF IpcpConstants, IpcpClients, IpcpIdentifiers
<1> QED BY <1>1 DEF Allocate, IpcpIdentifiers

LEMMA ForgetType ==
    ASSUME IpcpConstants, NEW c \in IpcpClients, NEW s \in IpcpStates
    PROVE  Forget(c, s) \in IpcpClients /\ Forget(c, s).state = s
           /\ Forget(c, s).peer_address = PreferredPeer
  BY InitialTypes DEF Forget, IpcpClients

LEMMA SaturatingDecType == ASSUME NEW k \in Nat PROVE SaturatingDec(k) \in Nat
  BY DEF SaturatingDec

LEMMA SendNewRequestType ==
    ASSUME IpcpConstants, NEW c \in IpcpClients, NEW reset \in BOOLEAN
    PROVE  LET n == send_new_request(c, reset)
           IN  /\ n \in IpcpClients /\ n.state = c.state /\ n.deadline = TRUE
               /\ n.peer_address = c.peer_address /\ n.addr = c.addr /\ n.ask = c.ask
<1>1. c.restart_remaining \in Nat /\ MaxConfigure \in Nat
  BY InitialTypes DEF IpcpClients
<1>2. PICK k \in Nat : k = SaturatingDec(IF reset THEN MaxConfigure ELSE c.restart_remaining)
  BY <1>1, SaturatingDecType
<1>3. PICK a \in IpcpIdentifiers : a = Allocate(c)
  BY AllocateType
<1>4. send_new_request(c, reset) =
          [c EXCEPT !.request_identifier = a, !.next_identifier = a,
                    !.restart_remaining = k, !.deadline = TRUE]
  BY <1>2, <1>3 DEF send_new_request
<1> QED BY <1>4 DEF IpcpClients

\* An acknowledged peer request carries proper addresses only.
LEMMA EvaluationType ==
    ASSUME IpcpConstants, NEW opts \in Seq(Options), NEW e, e = evaluate_peer_request(opts)
    PROVE  e.code \in {"ConfAck", "ConfNak", "ConfRej"} /\ e.peer \in AnyAddress
<1> DEFINE carrier == {i \in DOMAIN opts : opts[i].type = "IpAddress"}
<1>0. Unspecified \in AnyAddress
  BY DEF AnyAddress
<1>1. CASE \E i \in DOMAIN opts : Disposition(opts, i) = "Reject"
  BY <1>0, <1>1 DEF evaluate_peer_request
<1>2. CASE /\ \A i \in DOMAIN opts : Disposition(opts, i) # "Reject"
           /\ \E i \in DOMAIN opts : Disposition(opts, i) = "Nak"
  BY <1>0, <1>2 DEF evaluate_peer_request
<1>3. CASE \A i \in DOMAIN opts : Disposition(opts, i) \notin {"Reject", "Nak"}
  <2>1. e.code = "ConfAck" /\ e.peer = IF carrier = {} THEN Unspecified
                                       ELSE opts[CHOOSE i \in carrier : TRUE].addr
    BY <1>3 DEF evaluate_peer_request
  <2>2. \A i \in DOMAIN opts : opts[i].addr \in Addresses
    BY <1>3 DEF Disposition
  <2>3. carrier # {} => (CHOOSE i \in carrier : TRUE) \in carrier
    OBVIOUS
  <2> QED BY <1>0, <2>1, <2>2, <2>3 DEF AnyAddress
<1> QED BY <1>1, <1>2, <1>3

\* A Nak without duplicates sets addresses to proper ones, as far as it is applied.
LEMMA NakType ==
    ASSUME IpcpConstants, NEW c \in IpcpClients, NEW opts \in Seq(Options), ~HasDuplicates(opts)
    PROVE  LET n == NakApplied(c, opts)
           IN  /\ n \in IpcpClients /\ n.state = c.state /\ n.deadline = c.deadline
               /\ n.peer_address = c.peer_address
<1>1. ASSUME NEW t \in NakAccepted(c, opts) PROVE Value(opts, t) \in AnyAddress
  <2>1. PICK i \in DOMAIN opts : /\ \A j \in 1 .. i : opts[j].addr \in Addresses
                                 /\ t = opts[i].type
    BY <1>1 DEF NakAccepted, AcceptedTypes
  <2>2. i \in 1 .. i
    BY <2>1
  <2>3. \A k \in DOMAIN opts : opts[k].type = t => k = i
    BY <2>1 DEF HasDuplicates, Duplicated
  <2>4. (CHOOSE k \in DOMAIN opts : opts[k].type = t) = i
    BY <2>1, <2>3
  <2> QED BY <2>1, <2>2, <2>4 DEF Value, AnyAddress
<1>2. PICK a \in [AskedTypes -> AnyAddress] : NakApplied(c, opts) = [c EXCEPT !.addr = a]
  BY <1>1 DEF NakApplied, IpcpClients
<1> QED BY <1>2 DEF IpcpClients

\* A Reject clears flags and addresses, as far as it is applied.
LEMMA RejectType ==
    ASSUME IpcpConstants, NEW c \in IpcpClients, NEW opts
    PROVE  LET n == RejectApplied(c, opts)
           IN  /\ n \in IpcpClients /\ n.state = c.state /\ n.deadline = c.deadline
               /\ n.peer_address = c.peer_address
<1>1. PICK a \in [AskedTypes -> AnyAddress], f \in [AskedTypes -> BOOLEAN] :
          RejectApplied(c, opts) = [c EXCEPT !.ask = f, !.addr = a]
  <2> DEFINE f == [t \in AskedTypes |-> c.ask[t] /\ t \notin RejectAccepted(c, opts)]
             a == [t \in AskedTypes |-> IF t \in RejectAccepted(c, opts) \ {"IpAddress"}
                                        THEN Unspecified ELSE c.addr[t]]
  <2>1. f \in [AskedTypes -> BOOLEAN]
    OBVIOUS
  <2>2. a \in [AskedTypes -> AnyAddress]
    BY DEF IpcpClients, AnyAddress
  <2>3. RejectApplied(c, opts) = [c EXCEPT !.ask = f, !.addr = a]
    BY DEF RejectApplied
  <2> QED BY <2>1, <2>2, <2>3
<1> QED BY <1>1 DEF IpcpClients

-----------------------------------------------------------------------------
\* The kinds of step.

\* Nothing is told and nothing asked: the request stays as it is.
LEMMA KeepStep ==
    ASSUME IInv, NEW n \in IpcpClients, ipcp' = n, upper' = upper, sent' = sent,
           verdict' = n.peer_address, halfApplied' = halfApplied,
           n.ask = ipcp.ask, n.addr = ipcp.addr,
           n.request_identifier = ipcp.request_identifier,
           n.state = "Opened" <=> ipcp.state = "Opened",
           n.state = "Opened" => n.peer_address = ipcp.peer_address,
           n.state \in Negotiating => ipcp.state \in Negotiating,
           n.deadline <=> n.state \in Negotiating
    PROVE  IInv'
<1>1. Request(n) = Request(ipcp)
  BY SameRequest
<1>2. IpcpTypeOK'
  BY DEF IInv, IpcpTypeOK, IpcpClients
<1>3. ToldAddressesInForce'
  BY DEF IInv, ToldAddressesInForce, addresses
<1>4. AwaitsWhatItSent'
  BY <1>1 DEF IInv, AwaitsWhatItSent, Negotiating
<1> QED BY <1>2, <1>3, <1>4 DEF IInv, TimerCoversWaiting, PeerAddressWasAcknowledged

\* A new or repeated request goes out and the layer above is down.
LEMMA AskStep ==
    ASSUME IInv, NEW n \in IpcpClients, ipcp' = n, upper' = None, sent' = Request(n),
           verdict' = n.peer_address, halfApplied' \in BOOLEAN,
           n.state \in Negotiating, n.deadline = TRUE
    PROVE  IInv'
  BY DEF IInv, IpcpTypeOK, ToldAddressesInForce, AwaitsWhatItSent, TimerCoversWaiting,
     PeerAddressWasAcknowledged, Negotiating, IpcpClients

\* The second acknowledgement opens the layer.
LEMMA UpStep ==
    ASSUME IInv, NEW n \in IpcpClients, ipcp' = n, upper' = addresses(n), sent' = sent,
           verdict' = n.peer_address, halfApplied' = halfApplied,
           n.ask = ipcp.ask, n.addr = ipcp.addr,
           n.request_identifier = ipcp.request_identifier,
           ipcp.state \in Negotiating, n.state = "Opened", n.deadline = FALSE
    PROVE  IInv'
<1>1. Request(n) = Request(ipcp)
  BY SameRequest
<1>2. addresses(n) # None
  BY ToldIsNotNone DEF addresses
<1>3. addresses(n) \in Told
  BY DEF addresses, Told, IpcpClients
<1>4. IpcpTypeOK'
  BY <1>3 DEF IInv, IpcpTypeOK, Told, IpcpClients
<1>5. ToldAddressesInForce'
  BY <1>2 DEF ToldAddressesInForce
<1>6. AwaitsWhatItSent'
  BY <1>1 DEF IInv, AwaitsWhatItSent, Negotiating
<1> QED BY <1>4, <1>5, <1>6 DEF IInv, TimerCoversWaiting, PeerAddressWasAcknowledged, Negotiating

\* The negotiation ends.
LEMMA DownStep ==
    ASSUME IInv, NEW n \in IpcpClients, ipcp' = n, upper' = None,
           verdict' = n.peer_address, halfApplied' \in BOOLEAN,
           n.state \in {"Closed", "Stopped"}, n.deadline = FALSE
    PROVE  IInv'
  BY DEF IInv, IpcpTypeOK, ToldAddressesInForce, AwaitsWhatItSent, TimerCoversWaiting,
     PeerAddressWasAcknowledged, Negotiating, IpcpClients

\* A refused Nak or Reject leaves what it did before the option it refused.
LEMMA HalfStep ==
    ASSUME IInv, NEW n \in IpcpClients, ipcp' = n, upper' = upper, sent' = sent,
           verdict' = verdict, halfApplied' = (halfApplied \/ n # ipcp),
           n.state = ipcp.state, n.deadline = ipcp.deadline,
           n.peer_address = ipcp.peer_address
    PROVE  IInv'
<1>1. CASE n = ipcp
  BY <1>1 DEF IInv, IpcpTypeOK, ToldAddressesInForce, AwaitsWhatItSent, TimerCoversWaiting,
     PeerAddressWasAcknowledged
<1>2. CASE n # ipcp
  BY <1>2 DEF IInv, IpcpTypeOK, ToldAddressesInForce, AwaitsWhatItSent, TimerCoversWaiting,
     PeerAddressWasAcknowledged, IpcpClients
<1> QED BY <1>1, <1>2

-----------------------------------------------------------------------------
\* The calls and the packets, one by one.

LEMMA InitIInv == ASSUME IpcpConstants PROVE IpcpInit => IInv
<1> SUFFICES ASSUME IpcpInit PROVE IInv
  OBVIOUS
<1>1. ipcp \in IpcpClients /\ ipcp.state = "Closed" /\ ipcp.deadline = FALSE
      /\ ipcp.peer_address = PreferredPeer
  BY InitialTypes DEF IpcpInit, NewIpcpClient, IpcpClients, IpcpStates
<1> QED
  BY <1>1, InitialTypes DEF IpcpInit, IInv, IpcpTypeOK, ToldAddressesInForce, AwaitsWhatItSent,
     TimerCoversWaiting, PeerAddressWasAcknowledged, Negotiating

LEMMA OpenStep == ASSUME IpcpConstants, IInv, Open PROVE IInv'
<1>1. ipcp \in IpcpClients /\ upper = None
  BY DEF IInv, IpcpTypeOK, ToldAddressesInForce, Open
<1>2. PICK f \in IpcpClients : f = Forget(ipcp, "RequestSent") /\ f.state = "RequestSent"
                           /\ f.peer_address = PreferredPeer
  BY <1>1, ForgetType DEF IpcpStates
<1>3. PICK n \in IpcpClients : n = send_new_request(f, TRUE) /\ n.state = "RequestSent"
                           /\ n.deadline = TRUE /\ n.peer_address = PreferredPeer
  <2> DEFINE new == send_new_request(f, TRUE)
  <2>1. new \in IpcpClients /\ new.state = "RequestSent" /\ new.deadline = TRUE
        /\ new.peer_address = PreferredPeer
    BY <1>2, SendNewRequestType
  <2> QED BY <2>1
<1>4. Take(Transition(n, <<Send(Request(n))>>))
  BY <1>2, <1>3 DEF Open, open
<1>5. ipcp' = n /\ upper' = None /\ sent' = Request(n)
  BY <1>1, <1>4, TakeRequest
<1> QED BY <1>3, <1>5, AskStep DEF Open, Negotiating

LEMMA LowerDownStep == ASSUME IpcpConstants, IInv, IpcpLowerDown PROVE IInv'
<1>1. ipcp \in IpcpClients
  BY DEF IInv, IpcpTypeOK
<1>2. PICK f \in IpcpClients : f = Forget(ipcp, "Closed") /\ f.state = "Closed"
                           /\ f.peer_address = PreferredPeer
  BY <1>1, ForgetType DEF IpcpStates
<1>3. PICK n \in IpcpClients : n = [f EXCEPT !.deadline = FALSE, !.restart_remaining = 0]
                           /\ n.state = "Closed" /\ n.deadline = FALSE
                           /\ n.peer_address = PreferredPeer
  <2> DEFINE new == [f EXCEPT !.deadline = FALSE, !.restart_remaining = 0]
  <2>1. new \in IpcpClients /\ new.state = "Closed" /\ new.deadline = FALSE
        /\ new.peer_address = PreferredPeer
    BY <1>2 DEF IpcpClients
  <2> QED BY <2>1
<1>4. CASE ipcp.state = "Opened"
  <2>1. Take(Transition(n, <<ThisLayerDown>>))
    BY <1>2, <1>3, <1>4 DEF IpcpLowerDown, ipcp_lower_down
  <2>2. ipcp' = n /\ upper' = None
    BY <2>1, TakeDown
  <2> QED BY <1>3, <2>2, DownStep DEF IpcpLowerDown
<1>5. CASE ipcp.state # "Opened"
  <2>1. Take([client |-> n, actions |-> <<>>, ignored |-> FALSE])
    BY <1>2, <1>3, <1>5 DEF IpcpLowerDown, ipcp_lower_down, Transition
  <2>2. upper = None
    BY <1>5 DEF IInv, ToldAddressesInForce
  <2>3. ipcp' = n /\ upper' = None
    BY <2>1, <2>2, TakeNothing
  <2> QED BY <1>3, <2>3, DownStep DEF IpcpLowerDown
<1> QED BY <1>4, <1>5

LEMMA PollTimeoutStep == ASSUME IpcpConstants, IInv, PollTimeout PROVE IInv'
<1>1. /\ ipcp \in IpcpClients /\ verdict = ipcp.peer_address /\ halfApplied \in BOOLEAN
      /\ ipcp.deadline <=> ipcp.state \in Negotiating
      /\ UNCHANGED <<verdict, halfApplied>> /\ Take(poll_timeout(ipcp))
      /\ ipcp.deadline \in BOOLEAN /\ ipcp.restart_remaining \in Nat
  BY DEF IInv, IpcpTypeOK, TimerCoversWaiting, PeerAddressWasAcknowledged, PollTimeout, IpcpClients
<1>2. CASE ipcp.state \notin Negotiating
  <2>1. PICK n \in IpcpClients : n = [ipcp EXCEPT !.deadline = FALSE]
                             /\ n.state = ipcp.state /\ n.deadline = FALSE
                             /\ n.ask = ipcp.ask /\ n.addr = ipcp.addr
                             /\ n.request_identifier = ipcp.request_identifier
                             /\ n.peer_address = ipcp.peer_address
    <3> DEFINE new == [ipcp EXCEPT !.deadline = FALSE]
    <3>1. new \in IpcpClients /\ new.state = ipcp.state /\ new.deadline = FALSE
          /\ new.ask = ipcp.ask /\ new.addr = ipcp.addr
          /\ new.request_identifier = ipcp.request_identifier
          /\ new.peer_address = ipcp.peer_address
      BY <1>1 DEF IpcpClients
    <3> QED BY <3>1
  <2>2. Take([client |-> n, actions |-> <<>>, ignored |-> FALSE])
    BY <1>1, <1>2, <2>1 DEF poll_timeout, Nothing, Transition
  <2>3. ipcp' = n /\ upper' = upper /\ sent' = sent
    BY <2>2, TakeNothing
  <2> QED BY <1>1, <1>2, <2>1, <2>3, KeepStep
<1>3. CASE ipcp.state \in Negotiating /\ ipcp.restart_remaining = 0
  <2>1. PICK n \in IpcpClients : n = [ipcp EXCEPT !.state = "Stopped", !.deadline = FALSE]
                             /\ n.state = "Stopped" /\ n.deadline = FALSE
                             /\ n.peer_address = ipcp.peer_address
    <3> DEFINE new == [ipcp EXCEPT !.state = "Stopped", !.deadline = FALSE]
    <3>1. new \in IpcpClients /\ new.state = "Stopped" /\ new.deadline = FALSE
          /\ new.peer_address = ipcp.peer_address
      BY <1>1 DEF IpcpClients, IpcpStates
    <3> QED BY <3>1
  <2>2. Take(Transition(n, <<ThisLayerFinished>>))
    BY <1>1, <1>3, <2>1 DEF poll_timeout
  <2>3. Quiet(ThisLayerFinished)
    BY DEF Quiet, ThisLayerFinished
  <2>4. upper = None
    BY <1>3 DEF IInv, ToldAddressesInForce, Negotiating
  <2>5. ipcp' = n /\ upper' = None
    BY <2>2, <2>3, <2>4, TakeQuiet
  <2> QED BY <1>1, <2>1, <2>5, DownStep
<1>4. CASE ipcp.state \in Negotiating /\ ipcp.restart_remaining # 0
  <2>1. PICK k \in Nat : k = ipcp.restart_remaining - 1
    BY <1>1, <1>4
  <2>2. PICK z \in Negotiating : z = IF ipcp.state = "AckReceived" THEN "RequestSent"
                                     ELSE ipcp.state
    BY <1>4 DEF Negotiating
  <2>3. PICK n \in IpcpClients : n = [ipcp EXCEPT !.restart_remaining = k, !.state = z]
                             /\ n.state = z /\ n.deadline = ipcp.deadline
                             /\ n.ask = ipcp.ask /\ n.addr = ipcp.addr
                             /\ n.request_identifier = ipcp.request_identifier
                             /\ n.peer_address = ipcp.peer_address
    <3> DEFINE new == [ipcp EXCEPT !.restart_remaining = k, !.state = z]
    <3>1. new \in IpcpClients /\ new.state = z /\ new.deadline = ipcp.deadline
          /\ new.ask = ipcp.ask /\ new.addr = ipcp.addr
          /\ new.request_identifier = ipcp.request_identifier
          /\ new.peer_address = ipcp.peer_address
      BY <1>1 DEF IpcpClients, IpcpStates, Negotiating
    <3> QED BY <3>1
  <2>4. Take(Transition(n, <<Send(Request(ipcp))>>))
    BY <1>1, <1>4, <2>1, <2>2, <2>3 DEF poll_timeout
  <2>5. upper = None
    BY <1>4 DEF IInv, ToldAddressesInForce, Negotiating
  <2>6. ipcp' = n /\ upper' = None /\ sent' = Request(ipcp)
    BY <2>4, <2>5, TakeRequest
  <2>7. Request(n) = Request(ipcp)
    BY <2>3, SameRequest
  <2> QED BY <1>1, <1>4, <2>3, <2>6, <2>7, AskStep
<1> QED BY <1>2, <1>3, <1>4

\* An ignored packet.
LEMMA IgnoredStep ==
    ASSUME IInv, Take(Ignored(ipcp)), UNCHANGED <<verdict, halfApplied>>
    PROVE  IInv'
<1>1. ipcp' = ipcp /\ upper' = upper /\ sent' = sent
  BY TakeNothing DEF Ignored
<1> QED
  BY <1>1 DEF IInv, IpcpTypeOK, ToldAddressesInForce, AwaitsWhatItSent, TimerCoversWaiting,
     PeerAddressWasAcknowledged

\* The peer's request: it is answered, and the address it asks for adopted.
LEMMA ConfigureRequestStep ==
    ASSUME IpcpConstants, IInv, NEW p \in PeerPackets,
           ipcp.state \in Negotiating \cup {"Opened"},
           Take(receive_configure_request(ipcp, p)), p.wf, UNCHANGED halfApplied,
           verdict' = IF evaluate_peer_request(p.opts).peer # Unspecified
                      THEN evaluate_peer_request(p.opts).peer ELSE verdict
    PROVE  IInv'
<1>1. /\ ipcp \in IpcpClients /\ verdict = ipcp.peer_address /\ halfApplied \in BOOLEAN
      /\ ipcp.deadline <=> ipcp.state \in Negotiating
      /\ ipcp.deadline \in BOOLEAN
  BY DEF IInv, IpcpTypeOK, TimerCoversWaiting, PeerAddressWasAcknowledged, IpcpClients
<1>2. PICK e : e = evaluate_peer_request(p.opts)
  OBVIOUS
<1>3. e.code \in {"ConfAck", "ConfNak", "ConfRej"} /\ e.peer \in AnyAddress
  BY <1>2, EvaluationType DEF PeerPackets, IpcpConstants
<1>4. PICK v \in AnyAddress : v = IF e.peer = Unspecified THEN ipcp.peer_address ELSE e.peer
  BY <1>1, <1>3 DEF IpcpClients
<1>5. verdict' = v
  BY <1>1, <1>2, <1>4
<1>6. PICK a \in IpcpClients :
          /\ a = [ipcp EXCEPT !.peer_address = v]
          /\ a.state = ipcp.state /\ a.deadline = ipcp.deadline
          /\ a.ask = ipcp.ask /\ a.addr = ipcp.addr
          /\ a.request_identifier = ipcp.request_identifier /\ a.peer_address = v
  <2> DEFINE new == [ipcp EXCEPT !.peer_address = v]
  <2>1. new \in IpcpClients /\ new.state = ipcp.state /\ new.deadline = ipcp.deadline
        /\ new.ask = ipcp.ask /\ new.addr = ipcp.addr
        /\ new.request_identifier = ipcp.request_identifier /\ new.peer_address = v
    BY <1>1 DEF IpcpClients
  <2> QED BY <2>1
<1>7. PICK w : w = Send(Packet(e.code, p.id, e.data))
  OBVIOUS
<1>8. Quiet(w)
  BY <1>3, <1>7 DEF Quiet, Send, Packet
<1>9. PICK z \in {"AckSent", "RequestSent"} :
          z = IF e.code = "ConfAck" THEN "AckSent" ELSE "RequestSent"
  OBVIOUS
<1>10. CASE ipcp.state = "Opened"
  <2>1. PICK m \in IpcpClients : m = send_new_request(a, TRUE) /\ m.deadline = TRUE
                             /\ m.peer_address = v
    <3> DEFINE new == send_new_request(a, TRUE)
    <3>1. new \in IpcpClients /\ new.deadline = TRUE /\ new.peer_address = v
      BY <1>6, SendNewRequestType
    <3> QED BY <3>1
  <2>2. PICK n \in IpcpClients : n = [m EXCEPT !.state = z] /\ n.state = z /\ n.deadline = TRUE
                             /\ n.peer_address = v /\ n.ask = m.ask /\ n.addr = m.addr
                             /\ n.request_identifier = m.request_identifier
    <3> DEFINE new == [m EXCEPT !.state = z]
    <3>1. new \in IpcpClients /\ new.state = z /\ new.deadline = TRUE /\ new.peer_address = v
          /\ new.ask = m.ask /\ new.addr = m.addr
          /\ new.request_identifier = m.request_identifier
      BY <2>1 DEF IpcpClients, IpcpStates
    <3> QED BY <3>1
  <2>3. Take(Transition(n, <<ThisLayerDown, Send(Request(m)), w>>))
    BY <1>2, <1>4, <1>6, <1>7, <1>9, <1>10, <2>1, <2>2 DEF receive_configure_request
  <2>4. ipcp' = n /\ upper' = None /\ sent' = Request(m)
    BY <1>8, <2>3, TakeDownRequestAnswer
  <2>5. Request(n) = Request(m)
    BY <2>2, SameRequest
  <2> QED BY <1>1, <1>5, <1>9, <2>2, <2>4, <2>5, AskStep DEF Negotiating
<1>11. CASE ipcp.state = "AckReceived" /\ e.code = "ConfAck"
  <2>1. PICK o \in IpcpClients : o = [a EXCEPT !.state = "Opened", !.deadline = FALSE]
                             /\ o.state = "Opened" /\ o.deadline = FALSE /\ o.peer_address = v
                             /\ o.ask = a.ask /\ o.addr = a.addr
                             /\ o.request_identifier = a.request_identifier
    <3> DEFINE new == [a EXCEPT !.state = "Opened", !.deadline = FALSE]
    <3>1. new \in IpcpClients /\ new.state = "Opened" /\ new.deadline = FALSE
          /\ new.peer_address = v /\ new.ask = a.ask /\ new.addr = a.addr
          /\ new.request_identifier = a.request_identifier
      BY <1>6 DEF IpcpClients, IpcpStates
    <3> QED BY <3>1
  <2>2. Take(Transition(o, <<w, ThisLayerUp(o)>>))
    BY <1>2, <1>4, <1>6, <1>7, <1>11, <2>1 DEF receive_configure_request
  <2>3. ipcp' = o /\ upper' = addresses(o) /\ sent' = sent
    BY <1>8, <2>2, TakeAnswerUp
  <2> QED BY <1>5, <1>6, <1>11, <2>1, <2>3, UpStep DEF Negotiating
<1>12. CASE ipcp.state = "AckReceived" /\ e.code # "ConfAck"
  <2>1. Take(Transition(a, <<w>>))
    BY <1>2, <1>4, <1>6, <1>7, <1>12 DEF receive_configure_request
  <2>2. ipcp' = a /\ upper' = upper /\ sent' = sent
    BY <1>8, <2>1, TakeQuiet
  <2> QED BY <1>1, <1>5, <1>6, <1>12, <2>2, KeepStep
<1>13. CASE ipcp.state \in {"RequestSent", "AckSent"}
  <2>1. PICK n \in IpcpClients : n = [a EXCEPT !.state = z] /\ n.state = z
                             /\ n.deadline = a.deadline /\ n.peer_address = v
                             /\ n.ask = a.ask /\ n.addr = a.addr
                             /\ n.request_identifier = a.request_identifier
    <3> DEFINE new == [a EXCEPT !.state = z]
    <3>1. new \in IpcpClients /\ new.state = z /\ new.deadline = a.deadline /\ new.peer_address = v
          /\ new.ask = a.ask /\ new.addr = a.addr
          /\ new.request_identifier = a.request_identifier
      BY <1>6 DEF IpcpClients, IpcpStates
    <3> QED BY <3>1
  <2>2. Take(Transition(n, <<w>>))
    BY <1>2, <1>4, <1>6, <1>7, <1>9, <1>13, <2>1 DEF receive_configure_request
  <2>3. ipcp' = n /\ upper' = upper /\ sent' = sent
    BY <1>8, <2>2, TakeQuiet
  <2>4. /\ n.ask = ipcp.ask /\ n.addr = ipcp.addr
        /\ n.request_identifier = ipcp.request_identifier
        /\ n.deadline /\ n.state \in Negotiating /\ ipcp.state \in Negotiating
        /\ n.state # "Opened" /\ ipcp.state # "Opened"
    BY <1>1, <1>6, <1>13, <2>1 DEF Negotiating
  <2> QED BY <1>5, <2>1, <2>3, <2>4, KeepStep
<1> QED BY <1>10, <1>11, <1>12, <1>13 DEF Negotiating

\* The peer's Ack of the request as it stands.
LEMMA ConfigureAckStep ==
    ASSUME IpcpConstants, IInv, NEW p \in PeerPackets,
           ipcp.state \in Negotiating \cup {"Opened"},
           Take(receive_configure_ack(ipcp, p)), UNCHANGED <<verdict, halfApplied>>,
           ~(p.id # ipcp.request_identifier \/ ~p.wf \/ p.opts # local_options(ipcp))
    PROVE  IInv'
<1>1. /\ ipcp \in IpcpClients /\ verdict = ipcp.peer_address /\ halfApplied \in BOOLEAN
      /\ ipcp.deadline <=> ipcp.state \in Negotiating
      /\ ipcp.deadline \in BOOLEAN /\ MaxConfigure \in Nat
  BY InitialTypes DEF IInv, IpcpTypeOK, TimerCoversWaiting, PeerAddressWasAcknowledged, IpcpClients
<1>2. CASE ipcp.state = "RequestSent"
  <2>1. PICK n \in IpcpClients : n = [ipcp EXCEPT !.state = "AckReceived", !.restart_remaining = MaxConfigure]
                             /\ n.state = "AckReceived" /\ n.deadline = ipcp.deadline
                             /\ n.ask = ipcp.ask /\ n.addr = ipcp.addr
                             /\ n.request_identifier = ipcp.request_identifier
                             /\ n.peer_address = ipcp.peer_address
    <3> DEFINE new == [ipcp EXCEPT !.state = "AckReceived", !.restart_remaining = MaxConfigure]
    <3>1. new \in IpcpClients /\ new.state = "AckReceived" /\ new.deadline = ipcp.deadline
          /\ new.ask = ipcp.ask /\ new.addr = ipcp.addr
          /\ new.request_identifier = ipcp.request_identifier
          /\ new.peer_address = ipcp.peer_address
      BY <1>1 DEF IpcpClients, IpcpStates
    <3> QED BY <3>1
  <2>2. Take([client |-> n, actions |-> <<>>, ignored |-> FALSE])
    BY <1>2, <2>1 DEF receive_configure_ack, Nothing, Transition
  <2>3. ipcp' = n /\ upper' = upper /\ sent' = sent
    BY <2>2, TakeNothing
  <2> QED BY <1>1, <1>2, <2>1, <2>3, KeepStep DEF Negotiating
<1>3. CASE ipcp.state = "AckSent"
  <2>1. PICK o \in IpcpClients : o = [ipcp EXCEPT !.state = "Opened", !.restart_remaining = MaxConfigure, !.deadline = FALSE]
                             /\ o.state = "Opened" /\ o.deadline = FALSE
                             /\ o.ask = ipcp.ask /\ o.addr = ipcp.addr
                             /\ o.request_identifier = ipcp.request_identifier
                             /\ o.peer_address = ipcp.peer_address
    <3> DEFINE new == [ipcp EXCEPT !.state = "Opened", !.restart_remaining = MaxConfigure, !.deadline = FALSE]
    <3>1. new \in IpcpClients /\ new.state = "Opened" /\ new.deadline = FALSE
          /\ new.ask = ipcp.ask /\ new.addr = ipcp.addr
          /\ new.request_identifier = ipcp.request_identifier
          /\ new.peer_address = ipcp.peer_address
      BY <1>1 DEF IpcpClients, IpcpStates
    <3> QED BY <3>1
  <2>2. Take(Transition(o, <<ThisLayerUp(o)>>))
    BY <1>3, <2>1 DEF receive_configure_ack
  <2>3. ipcp' = o /\ upper' = addresses(o) /\ sent' = sent
    BY <2>2, TakeUp
  <2> QED BY <1>1, <1>3, <2>1, <2>3, UpStep DEF Negotiating
<1>4. CASE ipcp.state \in {"AckReceived", "Opened"}
  <2>1. PICK m \in IpcpClients : m = [ipcp EXCEPT !.state = "RequestSent"]
                             /\ m.state = "RequestSent" /\ m.peer_address = ipcp.peer_address
    <3> DEFINE new == [ipcp EXCEPT !.state = "RequestSent"]
    <3>1. new \in IpcpClients /\ new.state = "RequestSent" /\ new.peer_address = ipcp.peer_address
      BY <1>1 DEF IpcpClients, IpcpStates
    <3> QED BY <3>1
  <2>2. PICK n \in IpcpClients : n = send_new_request(m, FALSE)
                             /\ n.state = "RequestSent" /\ n.deadline = TRUE /\ n.peer_address = ipcp.peer_address
    <3> DEFINE new == send_new_request(m, FALSE)
    <3>1. new \in IpcpClients /\ new.state = "RequestSent" /\ new.deadline = TRUE
          /\ new.peer_address = ipcp.peer_address
      BY <2>1, SendNewRequestType
    <3> QED BY <3>1
  <2>3. CASE ipcp.state = "AckReceived"
    <3>1. Take(Transition(n, <<Send(Request(n))>>))
      BY <2>1, <2>2, <2>3 DEF receive_configure_ack
    <3>2. upper = None
      BY <2>3 DEF IInv, ToldAddressesInForce
    <3>3. ipcp' = n /\ upper' = None /\ sent' = Request(n)
      BY <3>1, <3>2, TakeRequest
    <3> QED BY <1>1, <2>2, <3>3, AskStep DEF Negotiating
  <2>4. CASE ipcp.state = "Opened"
    <3>1. Take(Transition(n, <<ThisLayerDown, Send(Request(n))>>))
      BY <2>1, <2>2, <2>4 DEF receive_configure_ack
    <3>2. ipcp' = n /\ upper' = None /\ sent' = Request(n)
      BY <3>1, TakeDownRequest
    <3> QED BY <1>1, <2>2, <3>2, AskStep DEF Negotiating
  <2> QED BY <1>4, <2>3, <2>4
<1> QED BY <1>2, <1>3, <1>4 DEF Negotiating

\* A Nak or Reject that was applied as a whole: the client asks again.
LEMMA NegativeStep ==
    ASSUME IpcpConstants, IInv, NEW c \in IpcpClients, c.state = ipcp.state,
           c.peer_address = ipcp.peer_address,
           ipcp.state \in Negotiating \cup {"Opened"},
           Take(after_negative_response(c)), UNCHANGED verdict, halfApplied' \in BOOLEAN
    PROVE  IInv'
<1>1. verdict = ipcp.peer_address
  BY DEF IInv, PeerAddressWasAcknowledged
<1>2. PICK z \in Negotiating : z = IF c.state = "AckSent" THEN c.state ELSE "RequestSent"
  BY DEF Negotiating
<1>3. PICK m \in IpcpClients : m = [c EXCEPT !.state = z]
                           /\ m.state = z /\ m.peer_address = ipcp.peer_address
  <2> DEFINE new == [c EXCEPT !.state = z]
  <2>1. new \in IpcpClients /\ new.state = z /\ new.peer_address = ipcp.peer_address
    BY DEF IpcpClients, IpcpStates, Negotiating
  <2> QED BY <2>1
<1>4. PICK g \in BOOLEAN : g = (c.state \in {"RequestSent", "AckSent"})
  <2>1. (c.state \in {"RequestSent", "AckSent"}) \in BOOLEAN
    OBVIOUS
  <2> QED BY <2>1, Zenon
<1>5. PICK n \in IpcpClients : n = send_new_request(m, g)
                           /\ n.state = z /\ n.deadline = TRUE /\ n.peer_address = ipcp.peer_address
  <2> DEFINE new == send_new_request(m, g)
  <2>1. new \in IpcpClients /\ new.state = z /\ new.deadline = TRUE
        /\ new.peer_address = ipcp.peer_address
    BY <1>3, SendNewRequestType
  <2> QED BY <2>1
<1>6. CASE ipcp.state = "Opened"
  <2>1. Take(Transition(n, <<ThisLayerDown, Send(Request(n))>>))
    BY <1>2, <1>3, <1>4, <1>5, <1>6 DEF after_negative_response
  <2>2. ipcp' = n /\ upper' = None /\ sent' = Request(n)
    BY <2>1, TakeDownRequest
  <2> QED BY <1>1, <1>5, <2>2, AskStep
<1>7. CASE ipcp.state \in Negotiating
  <2>0. c.state # "Opened"
    BY <1>7 DEF Negotiating
  <2>1. Take(Transition(n, <<Send(Request(n))>>))
    BY <1>2, <1>3, <1>4, <1>5, <2>0 DEF after_negative_response
  <2>2. upper = None
    BY <1>7 DEF IInv, ToldAddressesInForce, Negotiating
  <2>3. ipcp' = n /\ upper' = None /\ sent' = Request(n)
    BY <2>1, <2>2, TakeRequest
  <2> QED BY <1>1, <1>5, <2>3, AskStep
<1> QED BY <1>6, <1>7

\* A Nak or Reject that is refused at some option.
LEMMA RefusedStep ==
    ASSUME IInv, NEW n \in IpcpClients, n.state = ipcp.state, n.deadline = ipcp.deadline,
           n.peer_address = ipcp.peer_address, Take(Ignored(n)), UNCHANGED verdict,
           halfApplied' = (halfApplied \/ n # ipcp)
    PROVE  IInv'
<1>1. ipcp' = n /\ upper' = upper /\ sent' = sent
  BY TakeNothing DEF Ignored
<1> QED BY <1>1, HalfStep

\* What Receive records of a packet the client ignored, or did not.
LEMMA ReceiveRecords ==
    ASSUME NEW p, IpcpReceive(p), NEW t, t = ipcp_receive(ipcp, p)
    PROVE  /\ Take(t)
           /\ halfApplied' = (halfApplied \/ (t.ignored /\ t.client # ipcp))
           /\ verdict' = IF p.code = "ConfReq" /\ ~t.ignored
                            /\ evaluate_peer_request(p.opts).peer # Unspecified
                         THEN evaluate_peer_request(p.opts).peer ELSE verdict
  BY DEF IpcpReceive

\* Every packet a peer could send.
LEMMA ReceiveStep ==
    ASSUME IpcpConstants, IInv, NEW p \in PeerPackets, IpcpReceive(p)
    PROVE  IInv'
<1>1. ipcp \in IpcpClients /\ halfApplied \in BOOLEAN
  BY DEF IInv, IpcpTypeOK
<1>2. /\ p.opts \in Seq(Options) /\ p.wf \in BOOLEAN
      /\ p.code \in {"ConfReq", "ConfAck", "ConfNak", "ConfRej", "other"}
  BY DEF PeerPackets, IpcpConstants, Codes
<1>3. PICK t : t = ipcp_receive(ipcp, p)
  OBVIOUS
<1>4. /\ Take(t)
      /\ halfApplied' = (halfApplied \/ (t.ignored /\ t.client # ipcp))
      /\ verdict' = IF p.code = "ConfReq" /\ ~t.ignored
                       /\ evaluate_peer_request(p.opts).peer # Unspecified
                    THEN evaluate_peer_request(p.opts).peer ELSE verdict
  BY <1>3, ReceiveRecords
<1>5. \A n : Ignored(n).ignored = TRUE /\ Ignored(n).client = n
  BY DEF Ignored
<1>6. \A n, a : Transition(n, a).ignored = FALSE
  BY DEF Transition
<1>7. ASSUME t = Ignored(ipcp) PROVE IInv'
  <2>1. halfApplied' = halfApplied /\ verdict' = verdict
    BY <1>1, <1>4, <1>5, <1>7
  <2> QED BY <1>4, <1>7, <2>1, IgnoredStep
<1>8. ASSUME NEW n \in IpcpClients, n.state = ipcp.state, n.deadline = ipcp.deadline,
             n.peer_address = ipcp.peer_address, t = Ignored(n)
      PROVE  IInv'
  <2>1. halfApplied' = (halfApplied \/ n # ipcp) /\ verdict' = verdict
    BY <1>4, <1>5, <1>8
  <2> QED BY <1>4, <1>8, <2>1, RefusedStep
<1>9. ASSUME NEW c \in IpcpClients, c.state = ipcp.state, c.peer_address = ipcp.peer_address,
             ipcp.state \in Negotiating \cup {"Opened"}, p.code # "ConfReq",
             t = after_negative_response(c)
      PROVE  IInv'
  <2>1. halfApplied' \in BOOLEAN /\ verdict' = verdict
    BY <1>1, <1>4, <1>9
  <2> QED BY <1>4, <1>9, <2>1, NegativeStep
<1>10. CASE ipcp.state \in {"Closed", "Stopped"}
  BY <1>3, <1>7, <1>10 DEF ipcp_receive
<1>11. CASE ipcp.state \in Negotiating \cup {"Opened"}
  <2>0. ipcp.state \notin {"Closed", "Stopped"}
    BY <1>11 DEF Negotiating
  <2>1. CASE p.code = "ConfReq"
    <3>1. t = receive_configure_request(ipcp, p)
      BY <1>3, <2>0, <2>1 DEF ipcp_receive
    <3>2. CASE ~p.wf
      BY <1>7, <3>1, <3>2 DEF receive_configure_request
    <3>3. CASE p.wf
      <4>1. t.ignored = FALSE
        BY <3>1, <3>3 DEF receive_configure_request, Transition
      <4>2. halfApplied' = halfApplied
        BY <1>1, <1>4, <4>1
      <4> QED BY <1>4, <1>11, <2>1, <3>1, <3>3, <4>1, <4>2, ConfigureRequestStep
    <3> QED BY <1>2, <3>2, <3>3
  <2>2. CASE p.code = "ConfAck"
    <3>1. t = receive_configure_ack(ipcp, p)
      BY <1>3, <2>0, <2>2 DEF ipcp_receive
    <3>2. CASE p.id # ipcp.request_identifier \/ ~p.wf \/ p.opts # local_options(ipcp)
      BY <1>7, <3>1, <3>2 DEF receive_configure_ack
    <3>3. CASE ~(p.id # ipcp.request_identifier \/ ~p.wf \/ p.opts # local_options(ipcp))
      <4>1. t.ignored = FALSE
        BY <3>1, <3>3 DEF receive_configure_ack, Transition, Nothing
      <4>2. halfApplied' = halfApplied /\ verdict' = verdict
        BY <1>1, <1>4, <2>2, <4>1
      <4> QED BY <1>4, <1>11, <3>1, <3>3, <4>2, ConfigureAckStep
    <3> QED BY <3>2, <3>3
  <2>3. CASE p.code = "ConfNak"
    <3>1. t = receive_configure_nak(ipcp, p)
      BY <1>3, <2>0, <2>3 DEF ipcp_receive
    <3>2. CASE p.id # ipcp.request_identifier \/ ~p.wf \/ HasDuplicates(p.opts) \/ p.opts = <<>>
      BY <1>7, <3>1, <3>2 DEF receive_configure_nak
    <3>3. CASE ~(p.id # ipcp.request_identifier \/ ~p.wf \/ HasDuplicates(p.opts) \/ p.opts = <<>>)
      <4>1. PICK n : n = NakApplied(ipcp, p.opts)
        OBVIOUS
      <4>2. /\ n \in IpcpClients /\ n.state = ipcp.state /\ n.deadline = ipcp.deadline
            /\ n.peer_address = ipcp.peer_address
        BY <1>1, <1>2, <3>3, <4>1, NakType
      <4>3. t = Ignored(n) \/ t = after_negative_response(n)
        BY <3>1, <3>3, <4>1 DEF receive_configure_nak
      <4> QED BY <1>8, <1>9, <1>11, <2>3, <4>2, <4>3
    <3> QED BY <3>2, <3>3
  <2>4. CASE p.code = "ConfRej"
    <3>1. t = receive_configure_reject(ipcp, p)
      BY <1>3, <2>0, <2>4 DEF ipcp_receive
    <3>2. CASE p.id # ipcp.request_identifier \/ ~p.wf \/ HasDuplicates(p.opts) \/ p.opts = <<>>
      BY <1>7, <3>1, <3>2 DEF receive_configure_reject
    <3>3. CASE ~(p.id # ipcp.request_identifier \/ ~p.wf \/ HasDuplicates(p.opts) \/ p.opts = <<>>)
      <4>1. PICK n : n = RejectApplied(ipcp, p.opts)
        OBVIOUS
      <4>2. /\ n \in IpcpClients /\ n.state = ipcp.state /\ n.deadline = ipcp.deadline
            /\ n.peer_address = ipcp.peer_address
        BY <1>1, <4>1, RejectType
      <4>3. t = Ignored(n) \/ t = after_negative_response(n)
        BY <3>1, <3>3, <4>1 DEF receive_configure_reject
      <4> QED BY <1>8, <1>9, <1>11, <2>4, <4>2, <4>3
    <3> QED BY <3>2, <3>3
  <2>5. CASE p.code = "other"
    BY <1>3, <1>7, <2>0, <2>5 DEF ipcp_receive
  <2> QED BY <1>2, <2>1, <2>2, <2>3, <2>4, <2>5
<1> QED BY <1>1, <1>10, <1>11 DEF IpcpClients, IpcpStates, Negotiating

LEMMA NextIInv == ASSUME IpcpConstants PROVE IInv /\ [IpcpNext]_ipcpVars => IInv'
<1> SUFFICES ASSUME IInv, [IpcpNext]_ipcpVars PROVE IInv'
  OBVIOUS
<1>1. CASE UNCHANGED ipcpVars
  BY <1>1 DEF ipcpVars, IInv, IpcpTypeOK, ToldAddressesInForce, AwaitsWhatItSent, TimerCoversWaiting,
     PeerAddressWasAcknowledged
<1> QED BY <1>1, OpenStep, LowerDownStep, PollTimeoutStep, ReceiveStep DEF IpcpNext

\* What was said, to the layer above and to the peer, is what is in force: the layer
\* above is told Up exactly while the client is Opened and with the addresses in
\* force, the request whose Ack is accepted is the one on the line, the peer's
\* address was acknowledged in this negotiation, and a deadline runs exactly while
\* the client waits; up to the half-applied Nak or Reject of ipcp/client.rs.
THEOREM NegotiationStaysAgreed ==
    ASSUME IpcpConstants PROVE IpcpSpec => []IpcpNegotiationAgrees
<1>1. IInv => IpcpNegotiationAgrees
  BY DEF IInv, IpcpNegotiationAgrees
<1> QED BY <1>1, InitIInv, NextIInv, PTL DEF IpcpSpec

-----------------------------------------------------------------------------
\* The refinement of ConfigureHandshake.

\* The states in which neither request stands acknowledged, and the moves of the
\* client: as in LCP, one acknowledgement at a time, Opened with the second.
Idle == {"Closed", "RequestSent", "Stopped"}
Moves(from, to) ==
    \/ to \in Idle
    \/ to = from
    \/ from = "RequestSent" /\ to \in {"AckReceived", "AckSent"}
    \/ from \in {"AckReceived", "AckSent"} /\ to = "Opened"
    \/ from = "Opened" /\ to = "AckSent"
MovesTo(t) == Moves(ipcp.state, t.client.state)

\* A call moves the client as Moves says.
LEMMA CallMoves ==
    ASSUME IpcpConstants, ipcp \in IpcpClients
    PROVE  MovesTo(open(ipcp)) /\ MovesTo(ipcp_lower_down(ipcp)) /\ MovesTo(poll_timeout(ipcp))
<1>0. \A n, a : Transition(n, a).client = n
  BY DEF Transition
<1>1. MovesTo(open(ipcp))
  <2>1. Forget(ipcp, "RequestSent") \in IpcpClients /\ Forget(ipcp, "RequestSent").state = "RequestSent"
    BY ForgetType DEF IpcpStates
  <2>2. send_new_request(Forget(ipcp, "RequestSent"), TRUE).state = "RequestSent"
    BY <2>1, SendNewRequestType
  <2> QED BY <1>0, <2>2 DEF open, Nothing, MovesTo, Moves, Idle
<1>2. MovesTo(ipcp_lower_down(ipcp))
  <2>1. Forget(ipcp, "Closed") \in IpcpClients /\ Forget(ipcp, "Closed").state = "Closed"
    BY ForgetType DEF IpcpStates
  <2>2. [Forget(ipcp, "Closed") EXCEPT !.deadline = FALSE, !.restart_remaining = 0].state = "Closed"
    BY <2>1 DEF IpcpClients
  <2>3. ipcp_lower_down(ipcp).client =
            [Forget(ipcp, "Closed") EXCEPT !.deadline = FALSE, !.restart_remaining = 0]
    BY <1>0 DEF ipcp_lower_down
  <2> QED BY <2>2, <2>3 DEF MovesTo, Moves, Idle
<1>3. MovesTo(poll_timeout(ipcp))
  <2>1. CASE ~(ipcp.deadline /\ ipcp.state \in Negotiating)
    <3>1. [ipcp EXCEPT !.deadline = FALSE].state = ipcp.state
      BY DEF IpcpClients
    <3> QED BY <1>0, <2>1, <3>1 DEF poll_timeout, Nothing, MovesTo, Moves
  <2>2. CASE ipcp.deadline /\ ipcp.state \in Negotiating /\ ipcp.restart_remaining = 0
    <3>1. [ipcp EXCEPT !.state = "Stopped", !.deadline = FALSE].state = "Stopped"
      BY DEF IpcpClients
    <3>2. poll_timeout(ipcp).client = [ipcp EXCEPT !.state = "Stopped", !.deadline = FALSE]
      BY <1>0, <2>2 DEF poll_timeout
    <3> QED BY <3>1, <3>2 DEF MovesTo, Moves, Idle
  <2>3. CASE ipcp.deadline /\ ipcp.state \in Negotiating /\ ipcp.restart_remaining # 0
    <3>1. PICK k : k = ipcp.restart_remaining - 1
      OBVIOUS
    <3>2. PICK z : z = IF ipcp.state = "AckReceived" THEN "RequestSent" ELSE ipcp.state
      OBVIOUS
    <3>3. [ipcp EXCEPT !.restart_remaining = k, !.state = z].state = z
      BY DEF IpcpClients
    <3>4. poll_timeout(ipcp).client = [ipcp EXCEPT !.restart_remaining = k, !.state = z]
      BY <1>0, <2>3, <3>1, <3>2 DEF poll_timeout
    <3> QED BY <3>2, <3>3, <3>4 DEF MovesTo, Moves, Idle
  <2> QED BY <2>1, <2>2, <2>3
<1> QED BY <1>1, <1>2, <1>3

\* So does a packet.
LEMMA PacketMoves ==
    ASSUME IpcpConstants, ipcp \in IpcpClients, NEW p \in PeerPackets
    PROVE  MovesTo(ipcp_receive(ipcp, p))
<1>0. /\ \A n, a : Transition(n, a).client = n
      /\ \A n : Ignored(n).client = n
  BY DEF Transition, Ignored
<1>a. p.opts \in Seq(Options) /\ p.code \in {"ConfReq", "ConfAck", "ConfNak", "ConfRej", "other"}
  BY DEF PeerPackets, IpcpConstants, Codes
<1>b. ipcp.state \in IpcpStates
  BY DEF IpcpClients
<1>1. MovesTo(Ignored(ipcp))
  BY <1>0 DEF MovesTo, Moves
<1>2. MovesTo(receive_configure_request(ipcp, p)) \/ ipcp.state \in {"Closed", "Stopped"}
  <2> SUFFICES ASSUME ipcp.state \in {"RequestSent", "AckReceived", "AckSent", "Opened"}
               PROVE  MovesTo(receive_configure_request(ipcp, p))
    BY <1>b DEF IpcpStates
  <2>1. PICK e : e = evaluate_peer_request(p.opts)
    OBVIOUS
  <2>2. PICK v : v = IF e.peer = Unspecified THEN ipcp.peer_address ELSE e.peer
    OBVIOUS
  <2>3. v \in AnyAddress
    BY <1>a, <2>1, <2>2, EvaluationType DEF IpcpClients
  <2>4. PICK a : a = [ipcp EXCEPT !.peer_address = v]
    OBVIOUS
  <2>5. a \in IpcpClients /\ a.state = ipcp.state
    BY <2>3, <2>4 DEF IpcpClients
  <2>6. PICK z : z = IF e.code = "ConfAck" THEN "AckSent" ELSE "RequestSent"
    OBVIOUS
  <2>7. CASE ~p.wf
    BY <1>1, <2>7 DEF receive_configure_request
  <2>8. CASE p.wf /\ ipcp.state = "Opened"
    <3>1. PICK n \in IpcpClients : n = send_new_request(a, TRUE)
      BY <2>5, SendNewRequestType
    <3>2. receive_configure_request(ipcp, p).client = [n EXCEPT !.state = z]
      BY <1>0, <2>1, <2>2, <2>4, <2>6, <2>8, <3>1 DEF receive_configure_request
    <3>3. [n EXCEPT !.state = z].state = z
      BY <3>1 DEF IpcpClients
    <3> QED BY <2>6, <2>8, <3>2, <3>3 DEF MovesTo, Moves, Idle
  <2>9. CASE p.wf /\ ipcp.state = "AckReceived" /\ e.code = "ConfAck"
    <3>1. receive_configure_request(ipcp, p).client =
              [a EXCEPT !.state = "Opened", !.deadline = FALSE]
      BY <1>0, <2>1, <2>2, <2>4, <2>9 DEF receive_configure_request
    <3>2. [a EXCEPT !.state = "Opened", !.deadline = FALSE].state = "Opened"
      BY <2>5 DEF IpcpClients
    <3> QED BY <2>9, <3>1, <3>2 DEF MovesTo, Moves
  <2>10. CASE p.wf /\ ipcp.state = "AckReceived" /\ e.code # "ConfAck"
    <3>1. receive_configure_request(ipcp, p).client = a
      BY <1>0, <2>1, <2>2, <2>4, <2>10 DEF receive_configure_request
    <3> QED BY <2>5, <3>1 DEF MovesTo, Moves
  <2>11. CASE p.wf /\ ipcp.state \in {"RequestSent", "AckSent"}
    <3>1. receive_configure_request(ipcp, p).client = [a EXCEPT !.state = z]
      BY <1>0, <2>1, <2>2, <2>4, <2>6, <2>11 DEF receive_configure_request
    <3>2. [a EXCEPT !.state = z].state = z
      BY <2>5 DEF IpcpClients
    <3> QED BY <2>6, <2>11, <3>1, <3>2 DEF MovesTo, Moves, Idle
  <2> QED BY <2>7, <2>8, <2>9, <2>10, <2>11
<1>3. MovesTo(receive_configure_ack(ipcp, p))
  <2>1. PICK m : m = [ipcp EXCEPT !.state = "RequestSent"]
    OBVIOUS
  <2>2. m \in IpcpClients /\ m.state = "RequestSent"
    BY <2>1 DEF IpcpClients, IpcpStates
  <2>3. send_new_request(m, FALSE).state = "RequestSent"
    BY <2>2, SendNewRequestType
  <2>4. CASE p.id # ipcp.request_identifier \/ ~p.wf \/ p.opts # local_options(ipcp)
    BY <1>1, <2>4 DEF receive_configure_ack
  <2>5. CASE ~(p.id # ipcp.request_identifier \/ ~p.wf \/ p.opts # local_options(ipcp))
    <3>1. CASE ipcp.state = "RequestSent"
      <4>1. receive_configure_ack(ipcp, p).client =
                [ipcp EXCEPT !.state = "AckReceived", !.restart_remaining = MaxConfigure]
        BY <1>0, <2>5, <3>1 DEF receive_configure_ack, Nothing
      <4>2. [ipcp EXCEPT !.state = "AckReceived",
                           !.restart_remaining = MaxConfigure].state = "AckReceived"
        BY DEF IpcpClients
      <4> QED BY <3>1, <4>1, <4>2 DEF MovesTo, Moves
    <3>2. CASE ipcp.state = "AckSent"
      <4>1. receive_configure_ack(ipcp, p).client =
                [ipcp EXCEPT !.state = "Opened", !.restart_remaining = MaxConfigure,
                               !.deadline = FALSE]
        BY <1>0, <2>5, <3>2 DEF receive_configure_ack
      <4>2. [ipcp EXCEPT !.state = "Opened", !.restart_remaining = MaxConfigure,
                           !.deadline = FALSE].state = "Opened"
        BY DEF IpcpClients
      <4> QED BY <3>2, <4>1, <4>2 DEF MovesTo, Moves
    <3>3. CASE ipcp.state \notin {"RequestSent", "AckSent"}
      <4>1. receive_configure_ack(ipcp, p).client = send_new_request(m, FALSE)
        BY <1>0, <2>1, <2>5, <3>3 DEF receive_configure_ack
      <4> QED BY <2>3, <4>1 DEF MovesTo, Moves, Idle
    <3> QED BY <3>1, <3>2, <3>3
  <2> QED BY <2>4, <2>5
<1>4. ASSUME NEW c \in IpcpClients, c.state = ipcp.state PROVE MovesTo(after_negative_response(c))
  <2>1. PICK z : z = IF c.state = "AckSent" THEN c.state ELSE "RequestSent"
    OBVIOUS
  <2>2. PICK m : m = [c EXCEPT !.state = z]
    OBVIOUS
  <2>3. m \in IpcpClients /\ m.state = z
    BY <1>4, <2>1, <2>2 DEF IpcpClients, IpcpStates
  <2>4. PICK g \in BOOLEAN : g = (c.state \in {"RequestSent", "AckSent"})
    <3>1. (c.state \in {"RequestSent", "AckSent"}) \in BOOLEAN
      OBVIOUS
    <3> QED BY <3>1, Zenon
  <2>5. send_new_request(m, g).state = z
    BY <2>3, SendNewRequestType
  <2>6. after_negative_response(c).client = send_new_request(m, g)
    BY <1>0, <2>1, <2>2, <2>4 DEF after_negative_response
  <2> QED BY <1>4, <2>1, <2>5, <2>6 DEF MovesTo, Moves, Idle
<1>5. MovesTo(receive_configure_nak(ipcp, p))
  <2>1. CASE p.id # ipcp.request_identifier \/ ~p.wf \/ HasDuplicates(p.opts) \/ p.opts = <<>>
    BY <1>1, <2>1 DEF receive_configure_nak
  <2>2. CASE ~(p.id # ipcp.request_identifier \/ ~p.wf \/ HasDuplicates(p.opts) \/ p.opts = <<>>)
    <3>1. NakApplied(ipcp, p.opts) \in IpcpClients /\ NakApplied(ipcp, p.opts).state = ipcp.state
      BY <1>a, <2>2, NakType
    <3>2. MovesTo(Ignored(NakApplied(ipcp, p.opts)))
      BY <1>0, <3>1 DEF MovesTo, Moves
    <3> QED BY <1>4, <2>2, <3>1, <3>2 DEF receive_configure_nak
  <2> QED BY <2>1, <2>2
<1>6. MovesTo(receive_configure_reject(ipcp, p))
  <2>1. RejectApplied(ipcp, p.opts) \in IpcpClients
        /\ RejectApplied(ipcp, p.opts).state = ipcp.state
    BY RejectType
  <2>2. MovesTo(Ignored(RejectApplied(ipcp, p.opts)))
    BY <1>0, <2>1 DEF MovesTo, Moves
  <2> QED BY <1>1, <1>4, <2>1, <2>2 DEF receive_configure_reject
<1> QED BY <1>a, <1>1, <1>2, <1>3, <1>5, <1>6 DEF ipcp_receive

\* A move of the client, with a layer above that was told Up exactly while Opened
\* before and after it, is a step of the handshake or none.
LEMMA HandshakeStep ==
    ASSUME upper # None <=> ipcp.state = "Opened", (upper # None <=> ipcp.state = "Opened")',
           Moves(ipcp.state, ipcp'.state)
    PROVE  [Handshake!Next]_(Handshake!handshake)
<1> USE DEF Handshake!Next, Handshake!handshake, Handshake!Restart, Handshake!AnswerPeer,
            Handshake!PeerAcks, Handshake!AskAgain
<1>1. CASE ipcp'.state \in Idle
  <2>1. Handshake!Restart
    BY <1>1 DEF Idle
  <2> QED BY <2>1
<1>2. CASE ipcp'.state = ipcp.state
  BY <1>2
<1>3. CASE ipcp.state = "RequestSent" /\ ipcp'.state = "AckReceived"
  <2>1. Handshake!PeerAcks
    BY <1>3
  <2> QED BY <2>1
<1>4. CASE ipcp.state \in {"RequestSent", "Opened"} /\ ipcp'.state = "AckSent"
  <2>1. Handshake!AnswerPeer(TRUE)
    <3>1. (ipcp.state \in {"AckSent", "Opened"})' = TRUE
      BY <1>4
    <3>2. (ipcp.state \in {"AckReceived", "Opened"})' = FALSE
      BY <1>4
    <3>3. (upper # None)' = FALSE
      BY <1>4
    <3>4. (ipcp.state \in {"AckReceived", "Opened"} /\ ~(upper # None)) = FALSE
      BY <1>4
    <3>5. (ipcp.state \in {"AckReceived", "Opened"} /\ ~(upper # None) /\ TRUE) = FALSE
      BY <3>4
    <3> QED BY <3>1, <3>2, <3>3, <3>4, <3>5
  <2> QED BY <2>1
<1>5. CASE ipcp.state = "AckReceived" /\ ipcp'.state = "Opened"
  <2>1. Handshake!AnswerPeer(TRUE)
    BY <1>5
  <2> QED BY <2>1
<1>6. CASE ipcp.state = "AckSent" /\ ipcp'.state = "Opened"
  <2>1. Handshake!PeerAcks
    BY <1>6
  <2> QED BY <2>1
<1> QED BY <1>1, <1>2, <1>3, <1>4, <1>5, <1>6 DEF Moves

\* The IPCP client implements the Configure handshake: whatever the peer sends and
\* the caller does, ThisLayerUp stands for two acknowledged requests, and every
\* transition of ipcp/client.rs is a handshake step or invisible.
THEOREM IpcpRefinesHandshake == ASSUME IpcpConstants PROVE IpcpSpec => IpcpImplementsHandshake
<1>1. IpcpInit => Handshake!Init
  BY DEF IpcpInit, NewIpcpClient, Handshake!Init
<1>2. IInv /\ IInv' /\ [IpcpNext]_ipcpVars => [Handshake!Next]_(Handshake!handshake)
  <2> SUFFICES ASSUME IInv, IInv', [IpcpNext]_ipcpVars PROVE [Handshake!Next]_(Handshake!handshake)
    OBVIOUS
  <2>1. /\ ipcp \in IpcpClients
        /\ upper # None <=> ipcp.state = "Opened"
        /\ (upper # None <=> ipcp.state = "Opened")'
    BY DEF IInv, IpcpTypeOK, ToldAddressesInForce
  <2>2. Moves(ipcp.state, ipcp'.state)
    <3>1. ASSUME NEW t, Take(t), MovesTo(t) PROVE Moves(ipcp.state, ipcp'.state)
      BY <3>1 DEF Take, MovesTo
    <3>2. CASE UNCHANGED ipcpVars
      BY <3>2 DEF ipcpVars, Moves
    <3>3. CASE Open \/ IpcpLowerDown \/ PollTimeout
      BY <2>1, <3>1, <3>3, CallMoves DEF Open, IpcpLowerDown, PollTimeout
    <3>4. CASE \E p \in PeerPackets : IpcpReceive(p)
      BY <2>1, <3>1, <3>4, PacketMoves DEF IpcpReceive
    <3> QED BY <3>2, <3>3, <3>4 DEF IpcpNext
  <2> QED BY <2>1, <2>2, HandshakeStep
<1> QED BY <1>1, <1>2, InitIInv, NextIInv, PTL DEF IpcpSpec, IpcpImplementsHandshake, Handshake!Spec
=============================================================================
