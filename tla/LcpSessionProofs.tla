-------------------------- MODULE LcpSessionProofs --------------------------
(***************************************************************************)
(* What holds of the LCP reference machine for every option list, policy,  *)
(* retry budget and identifier width, and against every peer.              *)
(***************************************************************************)
EXTENDS LcpSession, SequenceTheorems, WellFoundedInduction, TLAPS

\* LayerSignals on the action lists the machine returns.
LEMMA SignalsOfTuples ==
    /\ LayerSignals(<<>>) = {}
    /\ \A a : LayerSignals(<<a>>) = {a.type} \ {"send"}
    /\ \A a, b : LayerSignals(<<a, b>>) = {a.type, b.type} \ {"send"}
    /\ \A a, b, c : LayerSignals(<<a, b, c>>) = {a.type, b.type, c.type} \ {"send"}
<1>1. LayerSignals(<<>>) = {}
  BY DEF LayerSignals
<1>2. ASSUME NEW a PROVE LayerSignals(<<a>>) = {a.type} \ {"send"}
  BY DEF LayerSignals
<1>3. ASSUME NEW a, NEW b PROVE LayerSignals(<<a, b>>) = {a.type, b.type} \ {"send"}
  BY DEF LayerSignals
<1>4. ASSUME NEW a, NEW b, NEW c
      PROVE  LayerSignals(<<a, b, c>>) = {a.type, b.type, c.type} \ {"send"}
  BY DEF LayerSignals
<1> QED BY <1>1, <1>2, <1>3, <1>4

\* Magic numbers stay numbers.
LEMMA NextMagicType ==
    ASSUME NEW c \in Nat PROVE next_magic(c) \in Nat
  BY MagicAssumption DEF next_magic

\* The local Magic-Number is a number, or there is none.
LEMMA LocalMagicType ==
    ASSUME NEW n \in Nat, NEW slots \in Slots(n)
    PROVE  local_magic(slots) \in Nat \cup {None}
<1>1. CASE ~\E i \in DOMAIN slots : HoldsMagic(slots[i])
  BY <1>1 DEF local_magic
<1>2. CASE \E i \in DOMAIN slots : HoldsMagic(slots[i])
  <2> DEFINE H == {i \in 1 .. n : HoldsMagic(slots[i])}
             First(j) == /\ HoldsMagic(slots[j])
                         /\ \A k \in DOMAIN slots : k < j => ~HoldsMagic(slots[k])
  <2>1. DOMAIN slots = 1 .. n
    BY DEF Slots
  <2>2. H \subseteq Nat /\ H # {}
    BY <1>2, <2>1
  <2>3. PICK j \in H : \A k \in H : j <= k
    <3> HIDE DEF H
    <3>1. PICK x \in H : \A y \in H : ~(<<y, x>> \in OpToRel(<, Nat))
      BY <2>2, NatLessThanWellFounded, WFMin
    <3>2. x \in Nat /\ \A y \in H : ~(y < x)
      BY <3>1, <2>2 DEF OpToRel
    <3>3. \A y \in H : y \in Nat /\ x <= y
      BY <3>2, <2>2
    <3> QED BY <3>3
  <2>4. j \in DOMAIN slots /\ First(j)
    BY <2>1, <2>3
  <2>5. PICK i \in DOMAIN slots : local_magic(slots) = slots[i].val /\ First(i)
    BY <1>2, <2>4 DEF local_magic
  <2>6. slots[i] \in Options
    BY <2>1, <2>5 DEF Slots, HoldsMagic
  <2> QED BY <2>5, <2>6 DEF Options
<1> QED BY <1>1, <1>2

\* A peer request is answered with one of three codes; the Ack, and only the
\* Ack, carries a configuration.
LEMMA EvaluationType ==
    ASSUME NEW opts \in Seq(Options), NEW pm,
           NEW e, e = evaluate_peer_request(opts, Policy, pm)
    PROVE  /\ e.code = "ConfAck" => e.configuration \in PeerConfigurations
           /\ e.code # "ConfAck" => e.configuration = None
<1> DEFINE Rej(o) == IsRejected(o, opts, Policy, pm)
           Nak(o) == IsNaked(o, opts, Policy, pm)
<1>1. CASE \E i \in DOMAIN opts : Rej(opts[i])
  BY <1>1 DEF evaluate_peer_request
<1>2. CASE (\A i \in DOMAIN opts : ~Rej(opts[i])) /\ (\E i \in DOMAIN opts : Nak(opts[i]))
  BY <1>2 DEF evaluate_peer_request
<1>3. CASE \A i \in DOMAIN opts : ~Rej(opts[i]) /\ ~Nak(opts[i])
  <2>1. e.code = "ConfAck" /\ e.configuration = Configuration(opts)
    BY <1>3 DEF evaluate_peer_request
  <2>2. \A i \in DOMAIN opts : opts[i] \in Options /\ IsAcceptable(opts[i], Policy, pm)
    BY <1>3 DEF IsRejected, IsNaked
  <2>3. \A t, d : Chosen(opts, t, d) \in Nat \cup {d}
    BY <2>2 DEF Chosen, Options
  <2>4. Chosen(opts, "auth", None) \in {PAP, CHAP, None}
    BY <2>2 DEF Chosen, IsAcceptable
  <2>5. Configuration(opts) \in PeerConfigurations
    BY <2>3, <2>4, DefaultsAssumption DEF Configuration, PeerConfigurations
  <2> QED BY <2>1, <2>5
<1> QED BY <1>1, <1>2, <1>3

\* Nak and Reject rewrite the local options in place.
LEMMA RewriteType ==
    ASSUME NEW n \in Nat, NEW slots \in Slots(n), NEW opts \in Seq(Options)
    PROVE  apply_nak(slots, opts) \in Slots(n) /\ apply_reject(slots, opts) \in Slots(n)
<1>1. apply_reject(slots, opts) \in Slots(n)
  BY DEF apply_reject, Slots
<1>2. ASSUME NEW i \in 1 .. n, Suggests(opts, slots[i])
      PROVE  Adopted(slots[i], opts[CHOOSE j \in DOMAIN opts : SameType(opts[j], slots[i])])
                \in Options
  <2> DEFINE s == opts[CHOOSE j \in DOMAIN opts : SameType(opts[j], slots[i])]
  <2>1. s \in Options
    BY <1>2 DEF Suggests
  <2>2. slots[i] \in Options /\ slots[i].val \in Nat
    BY <1>2 DEF Suggests, Slots, Options
  <2>3. Opt("magic", next_magic(slots[i].val)) \in Options
    BY <2>2, NextMagicType DEF Opt, Options, OptionTypes
  <2> QED BY <2>1, <2>3 DEF Adopted
<1>3. apply_nak(slots, opts) \in Slots(n)
  BY <1>2 DEF apply_nak, Slots
<1> QED BY <1>1, <1>3

-----------------------------------------------------------------------------
\* The inductive invariant: the properties of the runs, no more.
IInv ==
    /\ TypeOK
    /\ LayerAgreement
    /\ TimerCoversWaiting
    /\ AckedConfigurationInForce
    /\ OwnMagicIsAcknowledged
    /\ BudgetBounded

\* What a transition with at most one layer signal does to the variables.
LEMMA TakeLemma ==
    ASSUME TypeOK, NEW m, NEW actions, Take(Transition(m, actions))
    PROVE  /\ machine' = m
           /\ signals' = LayerSignals(actions)
           /\ upper' = ((upper \/ "up" \in LayerSignals(actions))
                         /\ "down" \notin LayerSignals(actions))
  BY DEF Take, Transition

\* A call that is ignored keeps everything but the signal record.
LEMMA IgnoredStep ==
    ASSUME IInv, Take(Ignored(machine)), UNCHANGED verdict
    PROVE  IInv'
<1>1. TypeOK
  BY DEF IInv
<1>2. machine' = machine /\ signals' = {} /\ upper' = upper
  BY <1>1, SignalsOfTuples DEF Take, Transition, Ignored, TypeOK
<1> QED
  BY <1>2 DEF IInv, TypeOK, LayerAgreement, TimerCoversWaiting, AckedConfigurationInForce,
              OwnMagicIsAcknowledged, BudgetBounded

\* A new machine satisfies the inductive invariant.
LEMMA InitIInv == Init => IInv
<1> SUFFICES ASSUME Init PROVE IInv
  OBVIOUS
<1>1. machine \in Machines
  <2>1. LocalOptions \in Slots(Len(LocalOptions))
    BY OptionListsAssumption DEF Slots
  <2> QED BY <2>1, IdAssumption DEF Init, NewMachine, Machines, States, Identifiers
<1> QED
  BY <1>1 DEF Init, NewMachine, IInv, TypeOK, LayerAgreement, TimerCoversWaiting,
     AckedConfigurationInForce, OwnMagicIsAcknowledged, BudgetBounded, Negotiating

\* An allocated identifier is an identifier.
LEMMA AllocateType ==
    ASSUME NEW m \in Machines PROVE Allocate(m) \in Identifiers
<1>1. m.next_identifier \in 0 .. IdSpace - 1
  BY DEF Machines, Identifiers
<1> QED BY <1>1, IdAssumption DEF Allocate, Identifiers

\* Forgetting the negotiation stops the timer.
LEMMA DownType ==
    ASSUME NEW m \in Machines, NEW s \in {"Closed", "Stopped"}
    PROVE  /\ Down(m, s) \in Machines
           /\ Down(m, s).state = s
           /\ Down(m, s).deadline = FALSE
  BY DEF Down, Machines, States

\* A new Configure-Request keeps the types and arms the timer.
LEMMA SendNewRequestType ==
    ASSUME NEW m \in Machines, NEW reset \in BOOLEAN,
           reset \/ m.restart_remaining <= MaxConfigure
    PROVE  LET n == SendNewRequest(m, reset)
           IN  /\ n \in Machines
               /\ n.state = m.state /\ n.deadline = TRUE
               /\ n.restart_remaining <= MaxConfigure
               /\ n.local_options = m.local_options
               /\ n.peer_configuration = m.peer_configuration
<1> DEFINE n == SendNewRequest(m, reset)
           r == SaturatingDec(IF reset THEN MaxConfigure ELSE m.restart_remaining)
<1>1. Allocate(m) \in Identifiers
  BY AllocateType
<1>2. r \in Nat /\ r <= MaxConfigure
  BY SettingsAssumption DEF SaturatingDec, Machines
<1>3. n \in Machines /\ n.restart_remaining = r /\ n.state = m.state /\ n.deadline = TRUE
  BY <1>1, <1>2 DEF SendNewRequest, Machines
<1>4. n.local_options = m.local_options /\ n.peer_configuration = m.peer_configuration
  BY DEF SendNewRequest, Machines
<1> QED BY <1>2, <1>3, <1>4

\* open: ignored when Opened or Closing, a fresh request otherwise.
LEMMA OpenStep == ASSUME IInv, Open PROVE IInv'
<1> DEFINE m == [machine EXCEPT !.state = "RequestSent", !.peer_configuration = None]
           n == SendNewRequest(m, TRUE)
<1>1. CASE machine.state \in {"Opened", "Closing"}
  BY <1>1, IgnoredStep DEF Open, open
<1>2. CASE machine.state \notin {"Opened", "Closing"}
  <2>1. m \in Machines /\ m.state = "RequestSent" /\ TypeOK
    BY DEF IInv, TypeOK, Machines, States
  <2>2. /\ n \in Machines /\ n.state = "RequestSent" /\ n.deadline = TRUE
        /\ n.restart_remaining <= MaxConfigure
    BY <2>1, SendNewRequestType
  <2>3. machine' = n /\ signals' = {} /\ upper' = upper
    BY <1>2, <2>1, TakeLemma, SignalsOfTuples DEF Open, open, Send, TypeOK
  <2> QED
    BY <1>2, <2>2, <2>3 DEF IInv, TypeOK, LayerAgreement, TimerCoversWaiting, Negotiating,
       AckedConfigurationInForce, OwnMagicIsAcknowledged, BudgetBounded, Open
<1> QED BY <1>1, <1>2

\* Leaving for Closed or Stopped is told to the layer above if it was up.
LEMMA DownStep ==
    ASSUME IInv, NEW s \in {"Closed", "Stopped"}, machine' = Down(machine, s),
           upper' = FALSE, signals' \subseteq {"up", "down", "finished"}, UNCHANGED verdict
    PROVE  IInv'
<1>1. machine' \in Machines /\ machine'.state = s /\ machine'.deadline = FALSE
  BY DownType DEF IInv, TypeOK
<1> QED
  BY <1>1 DEF IInv, TypeOK, LayerAgreement, TimerCoversWaiting, Negotiating,
     AckedConfigurationInForce, OwnMagicIsAcknowledged, BudgetBounded

\* close: a Terminate-Request unless there is nothing to terminate.
LEMMA CloseStep == ASSUME IInv, Close PROVE IInv'
<1>1. TypeOK /\ UNCHANGED verdict
  BY DEF IInv, Close
<1>2. CASE machine.state = "Closing"
  BY <1>1, <1>2, IgnoredStep DEF Close, close
<1>3. CASE machine.state \in {"Closed", "Stopped"}
  <2>1. Take(Transition(Down(machine, "Closed"), <<>>))
    BY <1>3 DEF Close, close, Ignored
  <2>2. machine' = Down(machine, "Closed") /\ signals' = {} /\ upper' = upper
    BY <1>1, <2>1, TakeLemma, SignalsOfTuples DEF TypeOK
  <2>3. upper = FALSE
    BY <1>3 DEF IInv, LayerAgreement, TypeOK
  <2> QED BY <1>1, <2>2, <2>3, DownStep
<1>4. CASE machine.state \notin {"Closing", "Closed", "Stopped"}
  <2> DEFINE n == [machine EXCEPT !.state = "Closing",
                                  !.peer_configuration = None,
                                  !.acknowledged_local_magic = None,
                                  !.terminate_identifier = Allocate(machine),
                                  !.next_identifier = Allocate(machine),
                                  !.restart_remaining = SaturatingDec(MaxTerminate),
                                  !.deadline = TRUE]
             actions == IF machine.state = "Opened"
                        THEN <<ThisLayerDown, Send(TerminateRequest(n))>>
                        ELSE <<Send(TerminateRequest(n))>>
  <2>1. Take(Transition(n, actions))
    BY <1>4 DEF Close, close, TerminateBudget
  <2>2. LayerSignals(actions) = IF machine.state = "Opened" THEN {"down"} ELSE {}
    <3>1. LayerSignals(<<ThisLayerDown, Send(TerminateRequest(n))>>) = {"down"}
      <4> HIDE DEF n
      <4> QED BY SignalsOfTuples DEF ThisLayerDown, Send
    <3>2. LayerSignals(<<Send(TerminateRequest(n))>>) = {}
      <4> HIDE DEF n
      <4> QED BY SignalsOfTuples DEF ThisLayerDown, Send
    <3> HIDE DEF n
    <3> QED BY <3>1, <3>2
  <2>3. machine' = n /\ signals' \subseteq {"down"} /\ upper' = FALSE
    <3> HIDE DEF n, actions
    <3> QED BY <1>1, <2>1, <2>2, TakeLemma DEF TypeOK, IInv, LayerAgreement
  <2>4. n \in Machines /\ n.state = "Closing" /\ n.deadline = TRUE
        /\ n.restart_remaining = SaturatingDec(MaxTerminate)
    <3>1. SaturatingDec(MaxTerminate) \in Nat
      BY SettingsAssumption DEF SaturatingDec
    <3> QED BY <1>1, <3>1, AllocateType DEF TypeOK, Machines, States
  <2> HIDE DEF n
  <2>5. SaturatingDec(MaxTerminate) <= SaturatingDec(MaxTerminate)
    BY SettingsAssumption DEF SaturatingDec
  <2> QED
    BY <1>1, <2>3, <2>4, <2>5
       DEF IInv, TypeOK, LayerAgreement, TimerCoversWaiting, Negotiating,
           AckedConfigurationInForce, OwnMagicIsAcknowledged, BudgetBounded
<1> QED BY <1>2, <1>3, <1>4

\* lower_down: loss of the lower layer from any state.
LEMMA LowerDownStep == ASSUME IInv, LowerDown PROVE IInv'
<1> DEFINE actions == IF machine.state = "Opened" THEN <<ThisLayerDown>> ELSE <<>>
<1>1. TypeOK /\ UNCHANGED verdict /\ Take(Transition(Down(machine, "Closed"), actions))
  BY DEF IInv, LowerDown, lower_down
<1>2. LayerSignals(actions) = IF machine.state = "Opened" THEN {"down"} ELSE {}
  <2>1. LayerSignals(<<ThisLayerDown>>) = {"down"} /\ LayerSignals(<<>>) = {}
    BY SignalsOfTuples DEF ThisLayerDown
  <2> QED BY <2>1
<1>3. machine' = Down(machine, "Closed") /\ signals' \subseteq {"down"} /\ upper' = FALSE
  <2> HIDE DEF actions
  <2> QED BY <1>1, <1>2, TakeLemma DEF TypeOK, IInv, LayerAgreement
<1> QED BY <1>1, <1>3, DownStep

\* poll_timeout: retransmission while the budget lasts, then giving up.
LEMMA PollTimeoutStep == ASSUME IInv, PollTimeout PROVE IInv'
<1>1. TypeOK /\ UNCHANGED verdict /\ Take(poll_timeout(machine))
  BY DEF IInv, PollTimeout
<1>2. CASE ~machine.deadline
  BY <1>1, <1>2, IgnoredStep DEF poll_timeout
<1>3. CASE machine.deadline
  <2>1. machine.state \in Negotiating \cup {"Closing"} /\ upper = FALSE
    BY <1>3 DEF IInv, TimerCoversWaiting, LayerAgreement, Negotiating, TypeOK
  <2>2. CASE machine.restart_remaining = 0
    <3> DEFINE n == IF machine.state = "Closing"
                    THEN [machine EXCEPT !.state = "Closed", !.deadline = FALSE,
                                         !.peer_configuration = None]
                    ELSE [machine EXCEPT !.state = "Stopped", !.deadline = FALSE]
    <3>1. Take(Transition(n, <<ThisLayerFinished>>))
      BY <1>1, <1>3, <2>1, <2>2 DEF poll_timeout, Negotiating
    <3>2. machine' = n /\ signals' = {"finished"} /\ upper' = FALSE
      <4> HIDE DEF n
      <4> QED BY <1>1, <2>1, <3>1, TakeLemma, SignalsOfTuples DEF ThisLayerFinished, TypeOK
    <3>3. n \in Machines /\ n.state \in {"Closed", "Stopped"} /\ n.deadline = FALSE
      BY <1>1 DEF TypeOK, Machines, States
    <3> QED
      BY <1>1, <3>2, <3>3 DEF IInv, TypeOK, LayerAgreement, TimerCoversWaiting, Negotiating,
         AckedConfigurationInForce, OwnMagicIsAcknowledged, BudgetBounded
  <2>3. CASE machine.restart_remaining # 0
    <3>0. machine.restart_remaining \in Nat /\ machine.restart_remaining > 0
      BY <1>1, <2>3 DEF TypeOK, Machines
    <3>1. CASE machine.state = "Closing"
      <4> DEFINE n == [machine EXCEPT !.restart_remaining = @ - 1]
      <4>1. Take(Transition(n, <<Send(TerminateRequest(machine))>>))
        BY <1>1, <1>3, <3>1, <3>0 DEF poll_timeout, Negotiating
      <4>2. n \in Machines /\ n.state = "Closing" /\ n.deadline = machine.deadline
            /\ n.restart_remaining = machine.restart_remaining - 1
        BY <1>1, <3>0, <3>1 DEF TypeOK, Machines
      <4> HIDE DEF n
      <4>3. machine' = n /\ signals' = {} /\ upper' = FALSE
        BY <1>1, <2>1, <4>1, TakeLemma, SignalsOfTuples DEF Send, TypeOK
      <4>4. BudgetBounded'
        BY <3>0, <3>1, <4>2, <4>3, SettingsAssumption
           DEF IInv, BudgetBounded, Negotiating, SaturatingDec
      <4> QED
        BY <1>1, <1>3, <4>2, <4>3, <4>4 DEF IInv, TypeOK, LayerAgreement, Negotiating,
           TimerCoversWaiting, AckedConfigurationInForce, OwnMagicIsAcknowledged
    <3>2. CASE machine.state \in Negotiating
      <4> DEFINE s == IF machine.state = "AckReceived" THEN "RequestSent" ELSE machine.state
                 n == [machine EXCEPT !.restart_remaining = @ - 1, !.state = s]
      <4>1. Take(Transition(n, <<Send(Request(machine))>>))
        BY <1>1, <1>3, <3>2, <3>0 DEF poll_timeout, Negotiating, TypeOK, Machines
      <4>2. s \in {"RequestSent", "AckSent"} /\ (s = "AckSent" => machine.state = "AckSent")
        BY <3>2 DEF Negotiating
      <4> HIDE DEF s
      <4>a. machine \in Machines /\ s \in States /\ machine.restart_remaining - 1 \in Nat
        BY <1>1, <3>0, <4>2 DEF TypeOK, States
      <4>3. n \in Machines /\ n.state = s /\ n.deadline = machine.deadline
            /\ n.restart_remaining = machine.restart_remaining - 1
            /\ n.peer_configuration = machine.peer_configuration
        BY <4>a DEF Machines
      <4> HIDE DEF n
      <4>4. machine' = n /\ signals' = {} /\ upper' = FALSE
        BY <1>1, <2>1, <4>1, TakeLemma, SignalsOfTuples DEF Send, TypeOK
      <4>5. TypeOK' /\ LayerAgreement' /\ TimerCoversWaiting' /\ OwnMagicIsAcknowledged'
        BY <1>1, <1>3, <4>2, <4>3, <4>4 DEF TypeOK, LayerAgreement, Negotiating,
           TimerCoversWaiting, OwnMagicIsAcknowledged
      <4>6. AckedConfigurationInForce'
        BY <1>1, <4>2, <4>3, <4>4 DEF IInv, AckedConfigurationInForce
      <4>7. BudgetBounded'
        BY <3>0, <3>2, <4>2, <4>3, <4>4, SettingsAssumption DEF IInv, BudgetBounded, Negotiating
      <4> QED BY <4>5, <4>6, <4>7 DEF IInv
    <3> QED BY <2>1, <3>1, <3>2
  <2> QED BY <2>2, <2>3
<1> QED BY <1>2, <1>3

\* Spending an identifier on a Code-Reject or a Protocol-Reject changes nothing else.
LEMMA SpendIdentifierStep ==
    ASSUME IInv, NEW p, UNCHANGED verdict,
           Take(Transition([machine EXCEPT !.next_identifier = Allocate(machine)], <<Send(p)>>))
    PROVE  IInv'
<1> DEFINE n == [machine EXCEPT !.next_identifier = Allocate(machine)]
<1>1. TypeOK
  BY DEF IInv
<1>2. machine' = n /\ signals' = {} /\ upper' = upper
  BY <1>1, TakeLemma, SignalsOfTuples DEF Send, TypeOK
<1>3. /\ n \in Machines /\ n.state = machine.state /\ n.deadline = machine.deadline
      /\ n.peer_configuration = machine.peer_configuration
      /\ n.acknowledged_local_magic = machine.acknowledged_local_magic
      /\ n.local_options = machine.local_options
      /\ n.restart_remaining = machine.restart_remaining
  BY <1>1, AllocateType DEF TypeOK, Machines
<1> QED
  BY <1>2, <1>3 DEF IInv, TypeOK, LayerAgreement, TimerCoversWaiting,
     AckedConfigurationInForce, OwnMagicIsAcknowledged, BudgetBounded

\* reject_protocol: a Protocol-Reject, only when Opened.
LEMMA RejectProtocolStep == ASSUME IInv, RejectProtocol PROVE IInv'
  BY IgnoredStep, SpendIdentifierStep DEF RejectProtocol, reject_protocol

-----------------------------------------------------------------------------
\* Packets from the peer.

\* An exchange that leaves the machine negotiating, in Req-Sent or Ack-Sent,
\* with its timer armed and the layer above down.
LEMMA NegotiatingStep ==
    ASSUME NEW n \in Machines, machine' = n, n.state \in {"RequestSent", "AckSent"},
           n.deadline = TRUE, n.restart_remaining <= MaxConfigure,
           upper' = FALSE, signals' \subseteq {"up", "down", "finished"},
           verdict' \in PeerConfigurations \cup {None},
           n.state = "AckSent" => /\ n.peer_configuration # None
                                  /\ n.peer_configuration = verdict'
    PROVE  IInv'
  BY DEF IInv, TypeOK, LayerAgreement, TimerCoversWaiting, Negotiating,
     AckedConfigurationInForce, OwnMagicIsAcknowledged, BudgetBounded

\* An exchange that completes the negotiation.
LEMMA OpenedStep ==
    ASSUME NEW n \in Machines, machine' = n, n.state = "Opened", n.deadline = FALSE,
           n.restart_remaining <= MaxConfigure,
           upper' = TRUE, signals' \subseteq {"up", "down", "finished"},
           verdict' \in PeerConfigurations,
           n.peer_configuration = verdict',
           n.acknowledged_local_magic = local_magic(n.local_options)
    PROVE  IInv'
  BY NoneAssumption DEF IInv, TypeOK, LayerAgreement, TimerCoversWaiting, Negotiating,
     AckedConfigurationInForce, OwnMagicIsAcknowledged, BudgetBounded

\* A Configure-Request answered in Req-Sent, Ack-Sent, Ack-Received or Opened.
LEMMA ConfigureRequestStep ==
    ASSUME IInv, NEW p \in PeerPackets, p.wf,
           machine.state \in Negotiating \cup {"Opened"},
           Take(receive_configure_request(machine, p)),
           verdict' = evaluate_peer_request(p.opts, Policy,
                                            local_magic(machine.local_options)).configuration
    PROVE  IInv'
<1> DEFINE e == evaluate_peer_request(p.opts, Policy, local_magic(machine.local_options))
           ok == e.code = "ConfAck"
           pc == IF ok THEN e.configuration ELSE machine.peer_configuration
           a == [machine EXCEPT !.peer_configuration = pc]
           answer == Send(Packet(e.code, p.id, e.data))
           n == SendNewRequest(a, TRUE)
           s == StateAfterAnswer(machine, ok)
<1>1. TypeOK /\ machine \in Machines /\ upper \in BOOLEAN
  BY DEF IInv, TypeOK
<1>2. p.opts \in Seq(Options)
  BY OptionListsAssumption DEF PeerPackets
<1>3. /\ ok => e.configuration \in PeerConfigurations
      /\ ~ok => e.configuration = None
  BY <1>2, EvaluationType
<1>4. verdict' = e.configuration
  OBVIOUS
<1>5. answer.type = "send"
  BY DEF Send
<1>6. receive_configure_request(machine, p) =
        CASE ~p.wf -> Ignored(machine)
          [] p.wf /\ machine.state = "Opened" ->
               Transition([n EXCEPT !.state = s], <<ThisLayerDown, Send(Request(n)), answer>>)
          [] p.wf /\ machine.state = "AckReceived" /\ ok ->
               Transition([a EXCEPT !.state = "Opened", !.deadline = FALSE],
                          <<answer, ThisLayerUp(e.configuration)>>)
          [] p.wf /\ machine.state = "AckReceived" /\ ~ok -> Transition(a, <<answer>>)
          [] OTHER -> Transition([a EXCEPT !.state = s], <<answer>>)
  BY DEF receive_configure_request
<1> HIDE DEF e, answer
<1>7. pc \in PeerConfigurations \cup {None} /\ (ok => pc = verdict' /\ pc # None)
      /\ verdict' \in PeerConfigurations \cup {None}
  BY <1>1, <1>3, <1>4, NoneAssumption DEF Machines
<1>8. s \in {"RequestSent", "AckSent"} /\ s \in States /\ (s = "AckSent" => ok)
  BY DEF States, StateAfterAnswer
<1> HIDE DEF ok, pc, s
<1>9. /\ a \in Machines /\ a.peer_configuration = pc /\ a.state = machine.state
      /\ a.deadline = machine.deadline /\ a.restart_remaining = machine.restart_remaining
      /\ a.local_options = machine.local_options
      /\ a.acknowledged_local_magic = machine.acknowledged_local_magic
  BY <1>1, <1>7 DEF Machines
<1>10. CASE machine.state = "Opened"
  <2> DEFINE r == [n EXCEPT !.state = s]
  <2>1. /\ n \in Machines /\ n.deadline = TRUE /\ n.restart_remaining <= MaxConfigure
        /\ n.peer_configuration = pc
    <3> HIDE DEF a
    <3> QED BY <1>9, SendNewRequestType
  <2> HIDE DEF n
  <2>2. /\ r \in Machines /\ r.state = s /\ r.deadline = TRUE
        /\ r.restart_remaining <= MaxConfigure /\ r.peer_configuration = pc
    BY <2>1, <1>8 DEF Machines
  <2>3. Take(Transition(r, <<ThisLayerDown, Send(Request(n)), answer>>))
    BY <1>6, <1>10
  <2>4. LayerSignals(<<ThisLayerDown, Send(Request(n)), answer>>) = {"down"}
    BY <1>5, SignalsOfTuples DEF ThisLayerDown, Send
  <2> HIDE DEF r
  <2>5. machine' = r /\ signals' = {"down"} /\ upper' = FALSE
    BY <1>1, <2>3, <2>4, TakeLemma
  <2> QED BY <1>7, <1>8, <2>2, <2>5, NegotiatingStep
<1>11. CASE machine.state = "AckReceived" /\ ok
  <2> DEFINE r == [a EXCEPT !.state = "Opened", !.deadline = FALSE]
  <2>1. /\ r \in Machines /\ r.state = "Opened" /\ r.deadline = FALSE
        /\ r.restart_remaining = machine.restart_remaining /\ r.peer_configuration = pc
        /\ r.local_options = machine.local_options
        /\ r.acknowledged_local_magic = machine.acknowledged_local_magic
    <3> HIDE DEF a
    <3> QED BY <1>9 DEF Machines, States
  <2>2. machine.acknowledged_local_magic = local_magic(machine.local_options)
        /\ machine.restart_remaining <= MaxConfigure /\ upper = FALSE
    BY <1>1, <1>11 DEF IInv, OwnMagicIsAcknowledged, BudgetBounded, Negotiating, LayerAgreement
  <2>3. Take(Transition(r, <<answer, ThisLayerUp(e.configuration)>>))
    BY <1>6, <1>11
  <2>4. LayerSignals(<<answer, ThisLayerUp(e.configuration)>>) = {"up"}
    BY <1>5, SignalsOfTuples DEF ThisLayerUp
  <2> HIDE DEF r
  <2>5. machine' = r /\ signals' = {"up"} /\ upper' = TRUE
    BY <1>1, <2>3, <2>4, TakeLemma
  <2>6. verdict' \in PeerConfigurations /\ pc = verdict'
    BY <1>7, <1>11, NoneAssumption
  <2> QED BY <2>1, <2>2, <2>5, <2>6, OpenedStep
<1>12. CASE machine.state = "AckReceived" /\ ~ok
  <2>1. Take(Transition(a, <<answer>>))
    BY <1>6, <1>12
  <2>2. LayerSignals(<<answer>>) = {}
    BY <1>5, SignalsOfTuples
  <2> HIDE DEF a
  <2>3. machine' = a /\ signals' = {} /\ upper' = upper
    BY <1>1, <2>1, <2>2, TakeLemma
  <2> QED
    BY <1>1, <1>7, <1>9, <1>12, <2>3 DEF IInv, TypeOK, LayerAgreement, TimerCoversWaiting,
       Negotiating, AckedConfigurationInForce, OwnMagicIsAcknowledged, BudgetBounded
<1>13. CASE machine.state \in {"RequestSent", "AckSent"}
  <2> DEFINE r == [a EXCEPT !.state = s]
  <2>1. Take(Transition(r, <<answer>>))
    BY <1>6, <1>13
  <2>2. /\ r \in Machines /\ r.state = s /\ r.deadline = machine.deadline
        /\ r.restart_remaining = machine.restart_remaining /\ r.peer_configuration = pc
    <3> HIDE DEF a
    <3> QED BY <1>8, <1>9 DEF Machines
  <2>3. LayerSignals(<<answer>>) = {}
    BY <1>5, SignalsOfTuples
  <2> HIDE DEF r
  <2>4. machine.deadline = TRUE /\ machine.restart_remaining <= MaxConfigure /\ upper = FALSE
    BY <1>1, <1>13 DEF IInv, TimerCoversWaiting, BudgetBounded, Negotiating, LayerAgreement,
       Machines
  <2>5. machine' = r /\ signals' = {} /\ upper' = FALSE
    BY <1>1, <2>1, <2>3, <2>4, TakeLemma
  <2> QED BY <1>7, <1>8, <2>2, <2>4, <2>5, NegotiatingStep
<1> QED BY <1>10, <1>11, <1>12, <1>13 DEF Negotiating

\* A Configure-Ack, in the four states that look at one.
LEMMA ConfigureAckStep ==
    ASSUME IInv, NEW p \in PeerPackets, UNCHANGED verdict,
           machine.state \in Negotiating \cup {"Opened"},
           Take(receive_configure_ack(machine, p))
    PROVE  IInv'
<1> DEFINE lm == local_magic(machine.local_options)
           good == p.wf /\ p.id = machine.request_identifier
                        /\ p.opts = Wire(machine.local_options)
           acked == [machine EXCEPT !.acknowledged_local_magic = lm]
           q == SendNewRequest(acked, FALSE)
           n == [q EXCEPT !.state = "RequestSent"]
           c == IF machine.peer_configuration = None
                THEN DefaultConfiguration ELSE machine.peer_configuration
<1>1. TypeOK /\ machine \in Machines /\ upper \in BOOLEAN
      /\ verdict \in PeerConfigurations \cup {None}
      /\ machine.restart_remaining <= MaxConfigure
  BY DEF IInv, TypeOK, BudgetBounded
<1>2. lm \in Nat \cup {None}
  <2>1. machine.local_options \in Slots(Len(LocalOptions)) /\ Len(LocalOptions) \in Nat
    BY <1>1, OptionListsAssumption DEF Machines
  <2> QED BY <2>1, LocalMagicType
<1>3. receive_configure_ack(machine, p) =
        CASE ~good -> Ignored(machine)
          [] OTHER ->
             CASE machine.state = "RequestSent" ->
                    Ignored([acked EXCEPT !.state = "AckReceived",
                                          !.restart_remaining = MaxConfigure])
               [] machine.state = "AckSent" ->
                    Transition([acked EXCEPT !.state = "Opened",
                                             !.restart_remaining = MaxConfigure,
                                             !.deadline = FALSE],
                               <<ThisLayerUp(c)>>)
               [] machine.state = "AckReceived" -> Transition(n, <<Send(Request(n))>>)
               [] OTHER -> Transition(n, <<ThisLayerDown, Send(Request(n))>>)
  BY DEF receive_configure_ack
<1> HIDE DEF good
<1>4. /\ acked \in Machines /\ acked.local_options = machine.local_options
      /\ acked.acknowledged_local_magic = local_magic(acked.local_options)
      /\ acked.peer_configuration = machine.peer_configuration
      /\ acked.restart_remaining = machine.restart_remaining
      /\ acked.deadline = machine.deadline
  BY <1>1, <1>2 DEF Machines
<1>5. CASE ~good
  BY <1>3, <1>5, IgnoredStep
<1> HIDE DEF acked
<1>6. CASE good /\ machine.state = "RequestSent"
  <2> DEFINE r == [acked EXCEPT !.state = "AckReceived", !.restart_remaining = MaxConfigure]
  <2>1. Take(Transition(r, <<>>))
    BY <1>3, <1>6 DEF Ignored
  <2>2. /\ r \in Machines /\ r.state = "AckReceived" /\ r.restart_remaining = MaxConfigure
        /\ r.deadline = machine.deadline
        /\ r.acknowledged_local_magic = local_magic(r.local_options)
    BY <1>4, SettingsAssumption DEF Machines, States
  <2> HIDE DEF r
  <2>3. machine' = r /\ signals' = {} /\ upper' = upper
    BY <1>1, <2>1, TakeLemma, SignalsOfTuples
  <2>4. MaxConfigure <= MaxConfigure
    BY SettingsAssumption
  <2> QED
    BY <1>1, <1>6, <2>2, <2>3, <2>4 DEF IInv, TypeOK, LayerAgreement, TimerCoversWaiting,
       Negotiating, AckedConfigurationInForce, OwnMagicIsAcknowledged, BudgetBounded
<1>7. CASE good /\ machine.state = "AckSent"
  <2> DEFINE r == [acked EXCEPT !.state = "Opened", !.restart_remaining = MaxConfigure,
                                !.deadline = FALSE]
  <2>1. Take(Transition(r, <<ThisLayerUp(c)>>))
    BY <1>3, <1>7
  <2>2. /\ r \in Machines /\ r.state = "Opened" /\ r.restart_remaining = MaxConfigure
        /\ r.deadline = FALSE /\ r.peer_configuration = machine.peer_configuration
        /\ r.acknowledged_local_magic = local_magic(r.local_options)
    BY <1>4, SettingsAssumption DEF Machines, States
  <2> HIDE DEF r
  <2>a. LayerSignals(<<ThisLayerUp(c)>>) = {"up"} /\ upper = FALSE
    BY <1>1, <1>7, SignalsOfTuples DEF ThisLayerUp, IInv, LayerAgreement
  <2>3. machine' = r /\ signals' = {"up"} /\ upper' = TRUE
    BY <1>1, <2>1, <2>a, TakeLemma
  <2>4. machine.peer_configuration = verdict' /\ verdict' \in PeerConfigurations
    BY <1>1, <1>7 DEF IInv, AckedConfigurationInForce
  <2>5. MaxConfigure <= MaxConfigure
    BY SettingsAssumption
  <2> QED BY <2>2, <2>3, <2>4, <2>5, OpenedStep
<1>8. q \in Machines /\ q.deadline = TRUE /\ q.restart_remaining <= MaxConfigure
  BY <1>1, <1>4, SendNewRequestType
<1> HIDE DEF q
<1>9. /\ n \in Machines /\ n.state = "RequestSent" /\ n.deadline = TRUE
      /\ n.restart_remaining <= MaxConfigure
  BY <1>8 DEF Machines, States
<1> HIDE DEF n
<1>10. CASE good /\ machine.state = "AckReceived"
  <2>1. Take(Transition(n, <<Send(Request(n))>>))
    BY <1>3, <1>10
  <2>2. machine' = n /\ signals' = {} /\ upper' = upper
    BY <1>1, <2>1, TakeLemma, SignalsOfTuples DEF Send
  <2>3. upper = FALSE
    BY <1>1, <1>10 DEF IInv, LayerAgreement
  <2> QED BY <1>1, <1>9, <2>2, <2>3, NegotiatingStep
<1>11. CASE good /\ machine.state = "Opened"
  <2>1. Take(Transition(n, <<ThisLayerDown, Send(Request(n))>>))
    BY <1>3, <1>11
  <2>a. LayerSignals(<<ThisLayerDown, Send(Request(n))>>) = {"down"}
    BY SignalsOfTuples DEF Send, ThisLayerDown
  <2>2. machine' = n /\ signals' = {"down"} /\ upper' = FALSE
    BY <1>1, <2>1, <2>a, TakeLemma
  <2> QED BY <1>1, <1>9, <2>2, NegotiatingStep
<1> QED BY <1>5, <1>6, <1>7, <1>10, <1>11 DEF Negotiating

\* A Nak or a Reject that is acted on asks again with the rewritten options.
LEMMA NegativeResponseStep ==
    ASSUME IInv, UNCHANGED verdict, NEW options \in Slots(Len(LocalOptions)),
           machine.state \in Negotiating \cup {"Opened"},
           Take(AfterNegativeResponse(machine, options))
    PROVE  IInv'
<1> DEFINE s == IF machine.state = "AckSent" THEN "AckSent" ELSE "RequestSent"
           reset == machine.state \in {"RequestSent", "AckSent"}
           a == [machine EXCEPT !.local_options = options, !.state = s]
           n == SendNewRequest(a, reset)
           actions == IF machine.state = "Opened"
                      THEN <<ThisLayerDown, Send(Request(n))>> ELSE <<Send(Request(n))>>
<1>1. TypeOK /\ machine \in Machines /\ upper \in BOOLEAN
      /\ verdict' \in PeerConfigurations \cup {None}
      /\ machine.restart_remaining <= MaxConfigure
  BY DEF IInv, TypeOK, BudgetBounded
<1>2. Take(Transition(n, actions))
  BY <1>1 DEF AfterNegativeResponse, Machines
<1>3. s \in States /\ s \in {"RequestSent", "AckSent"} /\ reset \in BOOLEAN
      /\ (s = "AckSent" => machine.state = "AckSent")
  BY DEF States
<1> HIDE DEF s, reset
<1>4. /\ a \in Machines /\ a.state = s /\ a.restart_remaining = machine.restart_remaining
      /\ a.peer_configuration = machine.peer_configuration
  BY <1>1, <1>3 DEF Machines
<1> HIDE DEF a
<1>5. /\ n \in Machines /\ n.state = s /\ n.deadline = TRUE
      /\ n.restart_remaining <= MaxConfigure
      /\ n.peer_configuration = machine.peer_configuration
  BY <1>1, <1>3, <1>4, SendNewRequestType
<1> HIDE DEF n
<1>6. LayerSignals(actions) = IF machine.state = "Opened" THEN {"down"} ELSE {}
  <2>1. LayerSignals(<<ThisLayerDown, Send(Request(n))>>) = {"down"}
        /\ LayerSignals(<<Send(Request(n))>>) = {}
    BY SignalsOfTuples DEF ThisLayerDown, Send
  <2> QED BY <2>1
<1> HIDE DEF actions
<1>7. machine' = n /\ signals' \subseteq {"down"} /\ upper' = FALSE
  BY <1>1, <1>2, <1>6, TakeLemma DEF IInv, LayerAgreement
<1>8. n.state = "AckSent" => n.peer_configuration # None /\ n.peer_configuration = verdict'
  BY <1>3, <1>5 DEF IInv, AckedConfigurationInForce
<1> QED BY <1>1, <1>3, <1>5, <1>7, <1>8, NegotiatingStep

\* An answer that changes nothing: Terminate-Ack while Closing, Echo-Reply.
LEMMA AnswerStep ==
    ASSUME IInv, UNCHANGED verdict, NEW p, Take(Transition(machine, <<Send(p)>>))
    PROVE  IInv'
<1>1. TypeOK
  BY DEF IInv
<1>2. machine' = machine /\ signals' = {} /\ upper' = upper
  BY <1>1, TakeLemma, SignalsOfTuples DEF Send, TypeOK
<1> QED
  BY <1>2 DEF IInv, TypeOK, LayerAgreement, TimerCoversWaiting, AckedConfigurationInForce,
              OwnMagicIsAcknowledged, BudgetBounded

\* Terminate-Request and Terminate-Ack.
LEMMA TerminateStep ==
    ASSUME IInv, UNCHANGED verdict, NEW p \in PeerPackets,
           Take(receive_terminate_request(machine, p))
             \/ Take(receive_terminate_ack(machine, p))
    PROVE  IInv'
<1> DEFINE answer == Send(Packet("TermAck", p.id, <<>>))
           actions == IF machine.state = "Opened" THEN <<answer, ThisLayerDown>>
                                                  ELSE <<answer>>
<1>1. TypeOK /\ upper \in BOOLEAN
  BY DEF IInv, TypeOK
<1>2. CASE Take(receive_terminate_request(machine, p))
  <2>1. CASE machine.state = "Closing"
    BY <1>2, <2>1, AnswerStep DEF receive_terminate_request
  <2>2. CASE machine.state # "Closing"
    <3>1. Take(Transition(Down(machine, "Stopped"), actions))
      BY <1>2, <2>2 DEF receive_terminate_request
    <3>2. LayerSignals(actions) = IF machine.state = "Opened" THEN {"down"} ELSE {}
      <4>1. LayerSignals(<<answer, ThisLayerDown>>) = {"down"} /\ LayerSignals(<<answer>>) = {}
        BY SignalsOfTuples DEF ThisLayerDown, Send
      <4> HIDE DEF answer
      <4> QED BY <4>1
    <3> HIDE DEF actions
    <3>3. machine' = Down(machine, "Stopped") /\ signals' \subseteq {"down"} /\ upper' = FALSE
      BY <1>1, <3>1, <3>2, TakeLemma DEF IInv, LayerAgreement
    <3> QED BY <3>3, DownStep
  <2> QED BY <2>1, <2>2
<1>3. CASE Take(receive_terminate_ack(machine, p))
  <2>1. CASE machine.state # "Closing" \/ p.id # machine.terminate_identifier
    BY <1>3, <2>1, IgnoredStep DEF receive_terminate_ack
  <2>2. CASE ~(machine.state # "Closing" \/ p.id # machine.terminate_identifier)
    <3>1. Take(Transition(Down(machine, "Closed"), <<ThisLayerFinished>>))
      BY <1>3, <2>2 DEF receive_terminate_ack
    <3>2. machine' = Down(machine, "Closed") /\ signals' = {"finished"} /\ upper' = upper
      BY <1>1, <3>1, TakeLemma, SignalsOfTuples DEF ThisLayerFinished
    <3>3. upper = FALSE
      BY <1>1, <2>2 DEF IInv, LayerAgreement
    <3> QED BY <3>2, <3>3, DownStep
  <2> QED BY <2>1, <2>2
<1> QED BY <1>2, <1>3

\* Every packet the peer can send, whatever the state.
LEMMA ReceiveStep ==
    ASSUME IInv, NEW p \in PeerPackets, Receive(p)
    PROVE  IInv'
<1> DEFINE t == receive(machine, p)
           live == machine.state \in Negotiating \cup {"Opened"}
<1>1. Take(t) /\ verdict' = Verdict(p, t) /\ TypeOK
  BY DEF Receive, IInv
<1>2. machine.state \in States /\ p.code \in Codes /\ p.opts \in Seq(Options)
      /\ machine.local_options \in Slots(Len(LocalOptions)) /\ Len(LocalOptions) \in Nat
  BY <1>1, OptionListsAssumption DEF PeerPackets, TypeOK, Machines
<1>3. CASE t = Ignored(machine)
  <2>1. t.actions = <<>>
    BY <1>3 DEF Ignored, Transition
  <2>2. UNCHANGED verdict
    BY <1>1, <2>1 DEF Verdict
  <2> QED BY <1>1, <1>3, <2>2, IgnoredStep
<1>4. CASE p.code = "ConfReq" /\ live
  <2>1. t = receive_configure_request(machine, p)
    BY <1>4 DEF receive, Negotiating
  <2>2. CASE ~p.wf
    BY <1>3, <2>1, <2>2 DEF receive_configure_request
  <2>3. CASE p.wf
    <3>1. t.actions # <<>>
      BY <2>1, <2>3 DEF receive_configure_request, Transition
    <3>2. verdict' = evaluate_peer_request(p.opts, Policy,
                                           local_magic(machine.local_options)).configuration
      BY <1>1, <1>4, <2>3, <3>1 DEF Verdict
    <3> QED BY <1>1, <1>4, <2>1, <2>3, <3>2, ConfigureRequestStep
  <2> QED BY <2>2, <2>3
<1>5. CASE p.code # "ConfReq"
  <2>1. UNCHANGED verdict
    BY <1>1, <1>5 DEF Verdict
  <2>2. CASE p.code = "ConfAck" /\ live
    <3>1. t = receive_configure_ack(machine, p)
      BY <2>2 DEF receive, Negotiating
    <3> QED BY <1>1, <2>1, <2>2, <3>1, ConfigureAckStep
  <2>3. CASE p.code = "ConfNak" /\ live
    <3>1. t = receive_configure_nak(machine, p)
      BY <2>3 DEF receive, Negotiating
    <3>2. apply_nak(machine.local_options, p.opts) \in Slots(Len(LocalOptions))
      BY <1>2, RewriteType
    <3>3. t = Ignored(machine)
          \/ t = AfterNegativeResponse(machine, apply_nak(machine.local_options, p.opts))
      BY <3>1 DEF receive_configure_nak
    <3> QED BY <1>1, <1>3, <2>1, <2>3, <3>2, <3>3, NegativeResponseStep
  <2>4. CASE p.code = "ConfRej" /\ live
    <3>1. t = receive_configure_reject(machine, p)
      BY <2>4 DEF receive, Negotiating
    <3>2. apply_reject(machine.local_options, p.opts) \in Slots(Len(LocalOptions))
      BY <1>2, RewriteType
    <3>3. t = Ignored(machine)
          \/ t = AfterNegativeResponse(machine, apply_reject(machine.local_options, p.opts))
      BY <3>1 DEF receive_configure_reject
    <3> QED BY <1>1, <1>3, <2>1, <2>4, <3>2, <3>3, NegativeResponseStep
  <2>5. CASE t = receive_terminate_request(machine, p) \/ t = receive_terminate_ack(machine, p)
    BY <1>1, <2>1, <2>5, TerminateStep
  <2>6. CASE t = receive_echo_request(machine, p)
    <3>1. t = Ignored(machine) \/ \E r : t = Transition(machine, <<Send(r)>>)
      BY <2>6 DEF receive_echo_request
    <3> QED BY <1>1, <1>3, <2>1, <3>1, AnswerStep
  <2>7. CASE t = receive_unknown_code(machine, p)
    BY <1>1, <2>1, <2>7, SpendIdentifierStep DEF receive_unknown_code
  <2>8. \/ t = Ignored(machine)
        \/ p.code \in {"ConfAck", "ConfNak", "ConfRej"} /\ live
        \/ t = receive_terminate_request(machine, p) \/ t = receive_terminate_ack(machine, p)
        \/ t = receive_echo_request(machine, p) \/ t = receive_unknown_code(machine, p)
    BY <1>2, <1>5 DEF receive, Negotiating, States, Codes, ConfigureCodes
  <2> QED BY <1>3, <2>2, <2>3, <2>4, <2>5, <2>6, <2>7, <2>8
<1>6. CASE p.code = "ConfReq" /\ ~live
  <2>1. t = Ignored(machine)
    BY <1>2, <1>6 DEF receive, Negotiating, States, ConfigureCodes
  <2> QED BY <1>3, <2>1
<1> QED BY <1>4, <1>5, <1>6

\* Every step of the specification keeps the inductive invariant.
LEMMA NextIInv == IInv /\ [Next]_vars => IInv'
<1> SUFFICES ASSUME IInv, [Next]_vars PROVE IInv'
  OBVIOUS
<1>1. CASE Open
  BY <1>1, OpenStep
<1>2. CASE Close
  BY <1>2, CloseStep
<1>3. CASE LowerDown
  BY <1>3, LowerDownStep
<1>4. CASE PollTimeout
  BY <1>4, PollTimeoutStep
<1>5. CASE RejectProtocol
  BY <1>5, RejectProtocolStep
<1>6. CASE \E p \in PeerPackets : Receive(p)
  BY <1>6, ReceiveStep
<1>7. CASE UNCHANGED vars
  BY <1>7 DEF vars, IInv, TypeOK, LayerAgreement, TimerCoversWaiting,
     AckedConfigurationInForce, OwnMagicIsAcknowledged, BudgetBounded
<1> QED BY <1>1, <1>2, <1>3, <1>4, <1>5, <1>6, <1>7 DEF Next

-----------------------------------------------------------------------------
\* The inductive invariant holds of every behaviour of the machine.
THEOREM Invariance == Spec => []IInv
  BY InitIInv, NextIInv, PTL DEF Spec

\* The machine record, the signals and the history keep their types, whatever
\* the caller and the peer do (Machine and its methods).
THEOREM TypeCorrect == Spec => []TypeOK
<1>1. IInv => TypeOK
  BY DEF IInv
<1> QED BY <1>1, Invariance, PTL

\* The layer above is told Up exactly while the machine is Opened: no method of
\* Machine forgets a ThisLayerUp or a ThisLayerDown.
THEOREM LayersAgree == Spec => []LayerAgreement
<1>1. IInv => LayerAgreement
  BY DEF IInv
<1> QED BY <1>1, Invariance, PTL

\* The restart timer runs exactly while the machine waits for the peer.
THEOREM TimerCovers == Spec => []TimerCoversWaiting
<1>1. IInv => TimerCoversWaiting
  BY DEF IInv
<1> QED BY <1>1, Invariance, PTL

\* The link only ever uses the configuration it acknowledged last.
THEOREM ConfigurationAgreed == Spec => []AckedConfigurationInForce
<1>1. IInv => AckedConfigurationInForce
  BY DEF IInv
<1> QED BY <1>1, Invariance, PTL

\* Echo-Replies carry the Magic-Number the peer acknowledged.
THEOREM OwnMagicAcknowledged == Spec => []OwnMagicIsAcknowledged
<1>1. IInv => OwnMagicIsAcknowledged
  BY DEF IInv
<1> QED BY <1>1, Invariance, PTL

\* The retransmission budget never exceeds its configured maximum.
THEOREM BudgetIsBounded == Spec => []BudgetBounded
<1>1. IInv => BudgetBounded
  BY DEF IInv
<1> QED BY <1>1, Invariance, PTL

\* A transition's signals fit the state it starts from: Up only from a state
\* that is not Opened and never with Down, Down only from Opened.
Fits(t) ==
    LET S == LayerSignals(t.actions)
    IN  /\ "up" \in S => machine.state # "Opened" /\ "down" \notin S
        /\ "down" \in S => machine.state = "Opened"

\* The action lists the machine returns fit, each under its condition.
LEMMA FitsOfTuples ==
    /\ \A m : Fits(Ignored(m))
    /\ \A m, p : Fits(Transition(m, <<Send(p)>>))
    /\ \A m : Fits(Transition(m, <<ThisLayerFinished>>))
    /\ machine.state = "Opened" =>
         /\ \A m : Fits(Transition(m, <<ThisLayerDown>>))
         /\ \A m, p : Fits(Transition(m, <<ThisLayerDown, Send(p)>>))
         /\ \A m, p : Fits(Transition(m, <<Send(p), ThisLayerDown>>))
         /\ \A m, p, q : Fits(Transition(m, <<ThisLayerDown, Send(p), Send(q)>>))
    /\ machine.state # "Opened" =>
         /\ \A m, c : Fits(Transition(m, <<ThisLayerUp(c)>>))
         /\ \A m, p, c : Fits(Transition(m, <<Send(p), ThisLayerUp(c)>>))
<1>1. \A m, a : Transition(m, a).actions = a
  BY DEF Transition
<1>2. \A p, c : /\ Send(p).type = "send" /\ ThisLayerUp(c).type = "up"
               /\ ThisLayerDown.type = "down" /\ ThisLayerFinished.type = "finished"
  BY DEF Send, ThisLayerUp, ThisLayerDown, ThisLayerFinished
<1>3. \A m : Ignored(m) = Transition(m, <<>>)
  BY DEF Ignored
<1>4. \A m, p, q : /\ LayerSignals(Ignored(m).actions) = {}
                  /\ LayerSignals(Transition(m, <<Send(p)>>).actions) = {}
                  /\ LayerSignals(Transition(m, <<ThisLayerFinished>>).actions) = {"finished"}
                  /\ LayerSignals(Transition(m, <<ThisLayerDown>>).actions) = {"down"}
                  /\ LayerSignals(Transition(m, <<ThisLayerDown, Send(p)>>).actions) = {"down"}
                  /\ LayerSignals(Transition(m, <<Send(p), ThisLayerDown>>).actions) = {"down"}
                  /\ LayerSignals(Transition(m, <<ThisLayerDown, Send(p), Send(q)>>).actions)
                       = {"down"}
  BY <1>1, <1>2, <1>3, SignalsOfTuples
<1>5. \A m, p, c : /\ LayerSignals(Transition(m, <<ThisLayerUp(c)>>).actions) = {"up"}
                  /\ LayerSignals(Transition(m, <<Send(p), ThisLayerUp(c)>>).actions) = {"up"}
  BY <1>1, <1>2, SignalsOfTuples
<1>6. \A t : LayerSignals(t.actions) \in {{}, {"finished"}} => Fits(t)
  BY DEF Fits
<1>7. \A t : LayerSignals(t.actions) = {"down"} /\ machine.state = "Opened" => Fits(t)
  BY DEF Fits
<1>8. \A t : LayerSignals(t.actions) = {"up"} /\ machine.state # "Opened" => Fits(t)
  BY DEF Fits
<1>9. /\ \A m : Fits(Ignored(m))
      /\ \A m, p : Fits(Transition(m, <<Send(p)>>))
      /\ \A m : Fits(Transition(m, <<ThisLayerFinished>>))
  BY <1>4, <1>6
<1>10. ASSUME machine.state = "Opened"
       PROVE  /\ \A m : Fits(Transition(m, <<ThisLayerDown>>))
              /\ \A m, p : Fits(Transition(m, <<ThisLayerDown, Send(p)>>))
              /\ \A m, p : Fits(Transition(m, <<Send(p), ThisLayerDown>>))
              /\ \A m, p, q : Fits(Transition(m, <<ThisLayerDown, Send(p), Send(q)>>))
  BY <1>4, <1>7, <1>10
<1>11. ASSUME machine.state # "Opened"
       PROVE  /\ \A m, c : Fits(Transition(m, <<ThisLayerUp(c)>>))
              /\ \A m, p, c : Fits(Transition(m, <<Send(p), ThisLayerUp(c)>>))
  BY <1>5, <1>8, <1>11
<1> QED BY <1>9, <1>10, <1>11

\* Every transition of the machine fits.
LEMMA TransitionsFit ==
    ASSUME TypeOK
    PROVE  /\ Fits(open(machine)) /\ Fits(close(machine)) /\ Fits(lower_down(machine))
           /\ Fits(poll_timeout(machine)) /\ Fits(reject_protocol(machine))
           /\ \A p : Fits(receive(machine, p))
<1>1. Fits(open(machine)) /\ Fits(lower_down(machine))
  <2>1. Fits(open(machine))
    BY FitsOfTuples DEF open
  <2>2. CASE machine.state = "Opened"
    BY <2>1, <2>2, FitsOfTuples DEF lower_down
  <2>3. CASE machine.state # "Opened"
    <3>1. lower_down(machine) = Ignored(Down(machine, "Closed"))
      BY <2>3 DEF lower_down, Ignored
    <3> QED BY <2>1, <3>1, FitsOfTuples
  <2> QED BY <2>2, <2>3
<1>2. Fits(close(machine))
  <2>1. CASE machine.state = "Opened"
    BY <2>1, FitsOfTuples DEF close
  <2>2. CASE machine.state # "Opened"
    BY <2>2, FitsOfTuples DEF close
  <2> QED BY <2>1, <2>2
<1>3. Fits(poll_timeout(machine)) /\ Fits(reject_protocol(machine))
  BY FitsOfTuples DEF poll_timeout, reject_protocol
<1>4. ASSUME NEW p PROVE Fits(receive(machine, p))
  <2>1. Fits(receive_configure_request(machine, p))
    BY FitsOfTuples DEF receive_configure_request
  <2>2. machine.state \in Negotiating \cup {"Opened"} => Fits(receive_configure_ack(machine, p))
    BY FitsOfTuples DEF receive_configure_ack, Negotiating
  <2>3. \A o : Fits(AfterNegativeResponse(machine, o))
    BY FitsOfTuples DEF AfterNegativeResponse
  <2>4. Fits(receive_configure_nak(machine, p)) /\ Fits(receive_configure_reject(machine, p))
    BY <2>3, FitsOfTuples DEF receive_configure_nak, receive_configure_reject
  <2>5. Fits(receive_terminate_request(machine, p)) /\ Fits(receive_terminate_ack(machine, p))
    BY FitsOfTuples DEF receive_terminate_request, receive_terminate_ack
  <2>6. Fits(receive_echo_request(machine, p)) /\ Fits(receive_unknown_code(machine, p))
    BY FitsOfTuples DEF receive_echo_request, receive_unknown_code
  <2>7. Fits(Ignored(machine))
    BY FitsOfTuples
  <2>8. machine.state \in States
    BY DEF TypeOK, Machines
  <2>9. CASE p.code = "ConfAck"
    BY <2>2, <2>7, <2>8, <2>9 DEF receive, States, Negotiating, ConfigureCodes
  <2>10. CASE p.code # "ConfAck"
    BY <2>1, <2>4, <2>5, <2>6, <2>7, <2>10 DEF receive
  <2> QED BY <2>9, <2>10
<1> QED BY <1>1, <1>2, <1>3, <1>4

\* ThisLayerUp is signalled only to a layer that is down and ThisLayerDown only
\* to one that is up: the layer above agrees with the state (LayerAgreement)
\* and every transition's signals fit the state.
THEOREM SignalsAlternating == Spec => SignalsAlternate
<1> DEFINE A == /\ "up" \in signals' => ~upper /\ "down" \notin signals'
                /\ "down" \in signals' => upper
<1>1. ASSUME IInv, Next PROVE A
  <2>1. TypeOK /\ upper = (machine.state = "Opened")
    BY <1>1 DEF IInv, LayerAgreement
  <2>2. ASSUME NEW t, Fits(t), Take(t) PROVE A
    BY <2>1, <2>2 DEF Fits, Take
  <2>3. CASE Open \/ Close \/ LowerDown \/ PollTimeout \/ RejectProtocol
    BY <2>1, <2>2, <2>3, TransitionsFit DEF Open, Close, LowerDown, PollTimeout, RejectProtocol
  <2>4. CASE \E p \in PeerPackets : Receive(p)
    BY <2>1, <2>2, <2>4, TransitionsFit DEF Receive
  <2> QED BY <1>1, <2>3, <2>4 DEF Next
<1>2. IInv /\ [Next]_vars => [A]_vars
  BY <1>1
<1> QED BY <1>2, Invariance, PTL DEF Spec, SignalsAlternate

-----------------------------------------------------------------------------
\* The refinement of ConfigureHandshake.

\* The states in which neither request stands acknowledged, and the moves of the
\* machine: an Ack of the peer or of our own adds one acknowledgement, Opened is
\* reached with the second, and nothing trades one for the other.
Idle == {"Closed", "RequestSent", "Closing", "Stopped"}
Moves(from, to) ==
    \/ to \in Idle
    \/ to = from
    \/ from = "RequestSent" /\ to \in {"AckReceived", "AckSent"}
    \/ from \in {"AckReceived", "AckSent"} /\ to = "Opened"
    \/ from = "Opened" /\ to = "AckSent"
MovesTo(t) == Moves(machine.state, t.machine.state)

LEMMA MachineMoves ==
    ASSUME TypeOK
    PROVE  /\ MovesTo(open(machine)) /\ MovesTo(close(machine)) /\ MovesTo(lower_down(machine))
           /\ MovesTo(poll_timeout(machine)) /\ MovesTo(reject_protocol(machine))
           /\ \A p : MovesTo(receive(machine, p))
<1>1. machine \in Machines /\ machine.state \in States
  BY DEF TypeOK, Machines
<1>2. /\ \A m, a : m.state \in Idle => MovesTo(Transition(m, a))
      /\ \A m, a : m.state = machine.state => MovesTo(Transition(m, a))
      /\ \A m, a : machine.state = "RequestSent" /\ m.state \in {"AckReceived", "AckSent"} =>
                      MovesTo(Transition(m, a))
      /\ \A m, a : machine.state \in {"AckReceived", "AckSent"} /\ m.state = "Opened" =>
                      MovesTo(Transition(m, a))
      /\ \A m, a : machine.state = "Opened" /\ m.state = "AckSent" => MovesTo(Transition(m, a))
  BY DEF MovesTo, Moves, Transition, Idle
<1>3. \A m : m.state \in Idle \/ m.state = machine.state => MovesTo(Ignored(m))
  BY <1>2 DEF Ignored
<1>4. \A state : Down(machine, state).state = state
  BY <1>1 DEF Down, Machines
<1>5. ASSUME NEW m, NEW b, "state" \in DOMAIN m
      PROVE  SendNewRequest(m, b).state = m.state
  BY <1>5 DEF SendNewRequest
<1>6. MovesTo(open(machine)) /\ MovesTo(lower_down(machine))
  <2>1. PICK m : m = [machine EXCEPT !.state = "RequestSent", !.peer_configuration = None]
    OBVIOUS
  <2>2. m.state = "RequestSent" /\ "state" \in DOMAIN m
    BY <1>1, <2>1 DEF Machines
  <2>3. SendNewRequest(m, TRUE).state = "RequestSent"
    BY <1>5, <2>2
  <2>4. MovesTo(open(machine))
    <3>1. CASE machine.state \in {"Opened", "Closing"}
      BY <1>3, <3>1 DEF open
    <3>2. CASE machine.state \notin {"Opened", "Closing"}
      <4>1. open(machine).machine = SendNewRequest(m, TRUE)
        BY <2>1, <3>2 DEF open, Transition
      <4> QED BY <2>3, <4>1 DEF MovesTo, Moves, Idle
    <3> QED BY <3>1, <3>2
  <2>5. MovesTo(lower_down(machine))
    BY <1>2, <1>4 DEF lower_down, Idle
  <2> QED BY <2>4, <2>5
<1>7. MovesTo(close(machine))
  <2>1. CASE machine.state \in {"Closing", "Closed", "Stopped"}
    BY <1>3, <1>4, <2>1 DEF close, Idle
  <2>2. CASE machine.state \notin {"Closing", "Closed", "Stopped"}
    <3>1. PICK m : m = [machine EXCEPT !.state = "Closing", !.peer_configuration = None,
                               !.acknowledged_local_magic = None,
                               !.terminate_identifier = Allocate(machine),
                               !.next_identifier = Allocate(machine),
                               !.restart_remaining = TerminateBudget, !.deadline = TRUE]
      OBVIOUS
    <3>2. m.state = "Closing"
      BY <1>1, <3>1 DEF Machines
    <3>3. close(machine).machine = m
      BY <2>2, <3>1 DEF close, Transition
    <3> QED BY <3>2, <3>3 DEF MovesTo, Moves, Idle
  <2> QED BY <2>1, <2>2
<1>8. MovesTo(poll_timeout(machine)) /\ MovesTo(reject_protocol(machine))
  <2>1. MovesTo(reject_protocol(machine))
    BY <1>1, <1>2, <1>3 DEF reject_protocol, Machines
  <2>2. PICK r \in Nat : r = machine.restart_remaining
    BY <1>1 DEF Machines
  <2>3. PICK t : t = poll_timeout(machine)
    OBVIOUS
  <2>4. t.machine.state \in {machine.state, "Closed", "Stopped", "RequestSent"}
    <3> USE DEF Transition, Ignored, Negotiating
    <3>1. CASE ~machine.deadline
      BY <2>3, <3>1 DEF poll_timeout
    <3>2. CASE machine.deadline /\ machine.state = "Closing" /\ r = 0
      <4>1. t.machine = [machine EXCEPT !.state = "Closed", !.deadline = FALSE,
                                        !.peer_configuration = None]
        BY <2>2, <2>3, <3>2 DEF poll_timeout
      <4> QED BY <1>1, <4>1 DEF Machines
    <3>3. CASE machine.deadline /\ machine.state = "Closing" /\ r > 0
      <4>1. t.machine = [machine EXCEPT !.restart_remaining = @ - 1]
        BY <2>2, <2>3, <3>3 DEF poll_timeout
      <4> QED BY <1>1, <4>1 DEF Machines
    <3>4. CASE machine.deadline /\ machine.state \in Negotiating /\ r = 0
      <4>1. t.machine = [machine EXCEPT !.state = "Stopped", !.deadline = FALSE]
        BY <2>2, <2>3, <3>4 DEF poll_timeout
      <4> QED BY <1>1, <4>1 DEF Machines
    <3>5. CASE machine.deadline /\ machine.state \in Negotiating /\ r > 0
      <4>1. t.machine = [machine EXCEPT !.restart_remaining = @ - 1,
                                        !.state = IF @ = "AckReceived" THEN "RequestSent" ELSE @]
        BY <2>2, <2>3, <3>5 DEF poll_timeout
      <4> QED BY <1>1, <4>1 DEF Machines
    <3>6. CASE machine.deadline /\ machine.state \notin Negotiating \cup {"Closing"}
      <4>1. t.machine = [machine EXCEPT !.deadline = FALSE]
        BY <2>3, <3>6 DEF poll_timeout
      <4> QED BY <1>1, <4>1 DEF Machines
    <3> QED BY <2>2, <3>1, <3>2, <3>3, <3>4, <3>5, <3>6
  <2>5. MovesTo(t)
    BY <2>4 DEF MovesTo, Moves, Idle
  <2> QED BY <2>1, <2>3, <2>5
<1>9. ASSUME NEW p PROVE MovesTo(receive(machine, p))
  <2>1. MovesTo(Ignored(machine))
    BY <1>3
  <2>2. ASSUME machine.state \in Negotiating \cup {"Opened"}
        PROVE  MovesTo(receive_configure_request(machine, p))
    <3> DEFINE e == evaluate_peer_request(p.opts, Policy, local_magic(machine.local_options))
               ok == e.code = "ConfAck"
               a == [machine EXCEPT !.peer_configuration = IF ok THEN e.configuration ELSE @]
               n == SendNewRequest(a, TRUE)
               answer == Send(Packet(e.code, p.id, e.data))
    <3>1. a.state = machine.state /\ "state" \in DOMAIN a /\ "deadline" \in DOMAIN a
      BY <1>1 DEF Machines
    <3>2. "state" \in DOMAIN n
      BY <3>1 DEF SendNewRequest
    <3>3. StateAfterAnswer(machine, ok) = IF ok THEN "AckSent" ELSE "RequestSent"
      BY DEF StateAfterAnswer
    <3>4. receive_configure_request(machine, p) =
            CASE ~p.wf -> Ignored(machine)
              [] p.wf /\ machine.state = "Opened" ->
                   Transition([n EXCEPT !.state = StateAfterAnswer(machine, ok)],
                              <<ThisLayerDown, Send(Request(n)), answer>>)
              [] p.wf /\ machine.state = "AckReceived" /\ ok ->
                   Transition([a EXCEPT !.state = "Opened", !.deadline = FALSE],
                              <<answer, ThisLayerUp(e.configuration)>>)
              [] p.wf /\ machine.state = "AckReceived" /\ ~ok -> Transition(a, <<answer>>)
              [] OTHER -> Transition([a EXCEPT !.state = StateAfterAnswer(machine, ok)], <<answer>>)
      BY DEF receive_configure_request
    <3> HIDE DEF a, n, ok, answer, e
    <3>5. CASE ~p.wf
      BY <2>1, <3>4, <3>5
    <3>6. CASE p.wf /\ machine.state = "Opened"
      <4>1. [n EXCEPT !.state = StateAfterAnswer(machine, ok)].state \in {"AckSent", "RequestSent"}
        BY <3>2, <3>3
      <4>2. receive_configure_request(machine, p).machine
              = [n EXCEPT !.state = StateAfterAnswer(machine, ok)]
        BY <3>4, <3>6 DEF Transition
      <4> QED BY <3>6, <4>1, <4>2 DEF MovesTo, Moves, Idle
    <3>7. CASE p.wf /\ machine.state = "AckReceived" /\ ok
      <4>1. [a EXCEPT !.state = "Opened", !.deadline = FALSE].state = "Opened"
        BY <3>1
      <4> QED BY <1>2, <3>4, <3>7, <4>1
    <3>8. CASE p.wf /\ machine.state = "AckReceived" /\ ~ok
      BY <1>2, <3>1, <3>4, <3>8
    <3>9. CASE p.wf /\ machine.state \in {"RequestSent", "AckSent"}
      <4>1. [a EXCEPT !.state = StateAfterAnswer(machine, ok)].state \in {"AckSent", "RequestSent"}
        BY <3>1, <3>3
      <4>2. receive_configure_request(machine, p).machine
              = [a EXCEPT !.state = StateAfterAnswer(machine, ok)]
        BY <3>4, <3>9 DEF Transition
      <4> QED BY <3>9, <4>1, <4>2 DEF MovesTo, Moves, Idle
    <3> QED BY <2>2, <3>5, <3>6, <3>7, <3>8, <3>9 DEF Negotiating
  <2>3. ASSUME machine.state \in Negotiating \cup {"Opened"}
        PROVE  MovesTo(receive_configure_ack(machine, p))
    <3> DEFINE acked == [machine EXCEPT !.acknowledged_local_magic = local_magic(machine.local_options)]
               n == [SendNewRequest(acked, FALSE) EXCEPT !.state = "RequestSent"]
    <3>1. n.state = "RequestSent"
      BY <1>1 DEF SendNewRequest, Machines
    <3>2. CASE ~(p.wf /\ p.id = machine.request_identifier /\ p.opts = Wire(machine.local_options))
      BY <2>1, <3>2 DEF receive_configure_ack
    <3>3. CASE p.wf /\ p.id = machine.request_identifier /\ p.opts = Wire(machine.local_options)
      <4>1. CASE machine.state = "RequestSent"
        BY <1>1, <1>2, <3>3, <4>1 DEF receive_configure_ack, Ignored, Machines
      <4>2. CASE machine.state = "AckSent"
        BY <1>1, <1>2, <3>3, <4>2 DEF receive_configure_ack, Machines
      <4>3. CASE machine.state = "AckReceived"
        <5>1. receive_configure_ack(machine, p).machine = n
          BY <3>3, <4>3 DEF receive_configure_ack, Transition
        <5> QED BY <3>1, <5>1 DEF MovesTo, Moves, Idle
      <4>4. CASE machine.state = "Opened"
        <5>1. receive_configure_ack(machine, p).machine = n
          BY <3>3, <4>4 DEF receive_configure_ack, Transition
        <5> QED BY <3>1, <5>1 DEF MovesTo, Moves, Idle
      <4> QED BY <2>3, <4>1, <4>2, <4>3, <4>4 DEF Negotiating
    <3> QED BY <3>2, <3>3
  <2>4. ASSUME NEW options PROVE MovesTo(AfterNegativeResponse(machine, options))
    <3>1. PICK m : m = [machine EXCEPT !.local_options = options,
                               !.state = IF @ = "AckSent" THEN "AckSent" ELSE "RequestSent"]
      OBVIOUS
    <3>2. "state" \in DOMAIN m /\ (m.state = machine.state \/ m.state = "RequestSent")
      BY <1>1, <3>1 DEF Machines
    <3>3. \A b : SendNewRequest(m, b).state = m.state
      BY <1>5, <3>2
    <3> QED BY <1>2, <3>1, <3>2, <3>3 DEF AfterNegativeResponse, Idle
  <2>5. MovesTo(receive_configure_nak(machine, p)) /\ MovesTo(receive_configure_reject(machine, p))
    BY <2>1, <2>4 DEF receive_configure_nak, receive_configure_reject
  <2>6. MovesTo(receive_terminate_request(machine, p)) /\ MovesTo(receive_terminate_ack(machine, p))
    BY <1>2, <1>4, <2>1 DEF receive_terminate_request, receive_terminate_ack, Idle
  <2>7. MovesTo(receive_echo_request(machine, p)) /\ MovesTo(receive_unknown_code(machine, p))
    <3>1. MovesTo(receive_echo_request(machine, p))
      BY <1>2, <2>1 DEF receive_echo_request
    <3>2. MovesTo(receive_unknown_code(machine, p))
      BY <1>1, <1>2 DEF receive_unknown_code, Machines
    <3> QED BY <3>1, <3>2
  <2>8. CASE machine.state \in {"Closed", "Stopped"}
    BY <2>1, <2>8 DEF receive
  <2>9. CASE machine.state = "Closing"
    BY <2>1, <2>6, <2>7, <2>9 DEF receive, ConfigureCodes
  <2>10. CASE machine.state \in Negotiating \cup {"Opened"}
    BY <2>1, <2>2, <2>3, <2>5, <2>6, <2>7, <2>10 DEF receive, Negotiating
  <2> QED BY <1>1, <2>8, <2>9, <2>10 DEF States, Negotiating
<1> QED BY <1>6, <1>7, <1>8, <1>9

\* A move of the machine, with an upper layer that agrees with the state before
\* and after it, is a step of the handshake or none.
LEMMA HandshakeStep ==
    ASSUME LayerAgreement, LayerAgreement', machine.state \in States,
           Moves(machine.state, machine'.state)
    PROVE  [Handshake!Next]_(Handshake!handshake)
<1> USE DEF Handshake!Next, Handshake!handshake, Handshake!Restart, Handshake!AnswerPeer,
            Handshake!PeerAcks, Handshake!AskAgain
<1>1. CASE machine'.state \in Idle
  <2>1. Handshake!Restart
    BY <1>1 DEF LayerAgreement, Idle
  <2> QED BY <2>1
<1>2. CASE machine'.state = machine.state
  BY <1>2 DEF LayerAgreement
<1>3. CASE machine.state = "RequestSent" /\ machine'.state = "AckReceived"
  <2>1. Handshake!PeerAcks
    BY <1>3 DEF LayerAgreement
  <2> QED BY <2>1
<1>4. CASE machine.state \in {"RequestSent", "Opened"} /\ machine'.state = "AckSent"
  <2>1. Handshake!AnswerPeer(TRUE)
    <3>1. (machine.state \in {"AckSent", "Opened"})' = TRUE
      BY <1>4
    <3>2. (machine.state \in {"AckReceived", "Opened"})' = FALSE
      BY <1>4
    <3>3. upper' = FALSE
      BY <1>4 DEF LayerAgreement
    <3>4. (machine.state \in {"AckReceived", "Opened"} /\ ~upper) = FALSE
      BY <1>4 DEF LayerAgreement
    <3>5. (machine.state \in {"AckReceived", "Opened"} /\ ~upper /\ TRUE) = FALSE
      BY <3>4
    <3> QED BY <3>1, <3>2, <3>3, <3>4, <3>5
  <2> QED BY <2>1
<1>5. CASE machine.state = "AckReceived" /\ machine'.state = "Opened"
  <2>1. Handshake!AnswerPeer(TRUE)
    BY <1>5 DEF LayerAgreement
  <2> QED BY <2>1
<1>6. CASE machine.state = "AckSent" /\ machine'.state = "Opened"
  <2>1. Handshake!PeerAcks
    BY <1>6 DEF LayerAgreement
  <2> QED BY <2>1
<1> QED BY <1>1, <1>2, <1>3, <1>4, <1>5, <1>6 DEF Moves

\* The LCP machine implements the Configure handshake: whatever the peer sends
\* and the caller does, ThisLayerUp stands for two acknowledged requests, and
\* every transition of negotiation.rs is a handshake step or invisible.
THEOREM RefinesHandshake == Spec => ImplementsHandshake
<1>1. Init => Handshake!Init
  BY DEF Init, NewMachine, Handshake!Init
<1>2. IInv /\ IInv' /\ [Next]_vars => [Handshake!Next]_(Handshake!handshake)
  <2> SUFFICES ASSUME IInv, IInv', [Next]_vars PROVE [Handshake!Next]_(Handshake!handshake)
    OBVIOUS
  <2>1. TypeOK /\ machine.state \in States /\ LayerAgreement /\ LayerAgreement'
    BY DEF IInv, TypeOK, Machines
  <2>2. Moves(machine.state, machine'.state)
    <3>1. ASSUME NEW t, Take(t), MovesTo(t) PROVE Moves(machine.state, machine'.state)
      BY <3>1 DEF Take, MovesTo
    <3>2. CASE UNCHANGED vars
      BY <3>2 DEF vars, Moves
    <3>3. CASE Open \/ Close \/ LowerDown \/ PollTimeout \/ RejectProtocol
      BY <2>1, <3>1, <3>3, MachineMoves DEF Open, Close, LowerDown, PollTimeout, RejectProtocol
    <3>4. CASE \E p \in PeerPackets : Receive(p)
      BY <2>1, <3>1, <3>4, MachineMoves DEF Receive
    <3> QED BY <3>2, <3>3, <3>4 DEF Next
  <2> QED BY <2>1, <2>2, HandshakeStep
<1> QED BY <1>1, <1>2, Invariance, PTL DEF Spec, ImplementsHandshake, Handshake!Spec
=============================================================================
