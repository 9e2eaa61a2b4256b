----------------------------- MODULE LcpSession -----------------------------
(***************************************************************************)
(* One LCP reference machine, its caller and any peer at all: every public *)
(* call of `Machine` in any order, and every packet the peer could send,   *)
(* stale, unsolicited or malformed ones included.                          *)
(*                                                                         *)
(* Three history variables watch the machine.  `signals` holds the layer   *)
(* signals of the last call and `upper` what the layer above believes from *)
(* the ThisLayerUp and ThisLayerDown it was handed;                        *)
(* `verdict` is the configuration acknowledged by the last answer to a     *)
(* peer Configure-Request, None when that answer was a Nak or a Reject.    *)
(***************************************************************************)
EXTENDS LcpMachine

VARIABLES machine, signals, upper, verdict

vars == <<machine, signals, upper, verdict>>

\* A packet has options or a Magic-Number; the field it does not have is fixed.
Unread == CHOOSE opts \in PeerOptionLists : TRUE
PeerPackets ==
    {p \in [code : Codes, id : Identifiers, wf : BOOLEAN, opts : PeerOptionLists,
            magic : Magics] :
        IF p.code \in ConfigureCodes THEN p.magic = 0 ELSE p.opts = Unread}

\* The layer signals among the actions of a transition.
LayerSignals(actions) == {actions[i].type : i \in DOMAIN actions} \ {"send"}

\* The configuration a transition's answer to a peer request acknowledges.
Verdict(p, t) ==
    IF p.code = "ConfReq" /\ p.wf /\ t.actions # <<>>
    THEN evaluate_peer_request(p.opts, Policy, local_magic(machine.local_options)).configuration
    ELSE verdict

Take(t) ==
    /\ machine' = t.machine
    /\ signals' = LayerSignals(t.actions)
    /\ upper' = ((upper \/ "up" \in signals') /\ "down" \notin signals')

Init ==
    /\ machine = NewMachine
    /\ signals = {}
    /\ upper = FALSE
    /\ verdict = None

Open == Take(open(machine)) /\ UNCHANGED verdict
Close == Take(close(machine)) /\ UNCHANGED verdict
LowerDown == Take(lower_down(machine)) /\ UNCHANGED verdict
PollTimeout == Take(poll_timeout(machine)) /\ UNCHANGED verdict
RejectProtocol == Take(reject_protocol(machine)) /\ UNCHANGED verdict
Receive(p) ==
    /\ Take(receive(machine, p))
    /\ verdict' = Verdict(p, receive(machine, p))

Next ==
    \/ Open \/ Close \/ LowerDown \/ PollTimeout \/ RejectProtocol
    \/ \E p \in PeerPackets : Receive(p)

Spec == Init /\ [][Next]_vars

-----------------------------------------------------------------------------
\* The machine record and what it hands out keep their types.
TypeOK ==
    /\ machine \in Machines
    /\ upper \in BOOLEAN
    /\ signals \subseteq {"up", "down", "finished"}
    /\ verdict \in PeerConfigurations \cup {None}

\* Whatever the peer sends and whenever the caller opens, closes or loses the
\* lower layer, the layer above has been told Up exactly while the machine is
\* Opened: no transition of the machine forgets a ThisLayerUp or ThisLayerDown.
LayerAgreement == upper = (machine.state = "Opened")

\* A restart deadline is pending exactly in the states that wait for the peer:
\* the machine never waits without a timer, and no timer outlives its wait.
TimerCoversWaiting ==
    machine.deadline <=> machine.state \in Negotiating \cup {"Closing"}

\* In Ack-Sent and Opened the configuration in force is the one of the last
\* Configure-Request answered, and that answer was a Configure-Ack: a request
\* that was Nak'ed, Rejected or answered earlier is never what the link uses.
AckedConfigurationInForce ==
    machine.state \in {"AckSent", "Opened"} =>
        /\ machine.peer_configuration # None
        /\ machine.peer_configuration = verdict

\* From the peer's Ack on, the Magic-Number used in Echo-Replies is the one the
\* peer acknowledged, which is the one of the current local option list.
OwnMagicIsAcknowledged ==
    machine.state \in {"AckReceived", "Opened"} =>
        machine.acknowledged_local_magic = local_magic(machine.local_options)

\* The retransmission budget never exceeds the configured maximum, so silence
\* from the peer ends every wait after finitely many timeouts.
BudgetBounded ==
    /\ machine.state \in Negotiating \cup {"Opened"} => machine.restart_remaining <= MaxConfigure
    /\ machine.state = "Closing" => machine.restart_remaining <= SaturatingDec(MaxTerminate)

\* ThisLayerUp is only signalled to a layer that is down and ThisLayerDown to
\* one that is up, never both at once: a caller may count them.
SignalsAlternate ==
    [][/\ "up" \in signals' => ~upper /\ "down" \notin signals'
       /\ "down" \in signals' => upper]_vars

\* The negotiation as the layer above sees it.
Handshake == INSTANCE ConfigureHandshake WITH
    heard <- machine.state \in {"AckReceived", "Opened"},
    said  <- machine.state \in {"AckSent", "Opened"},
    up    <- upper
\* Whatever the peer sends and the caller does, the machine goes through a
\* Configure handshake: the layer above is up only while both requests are
\* acknowledged.
ImplementsHandshake == Handshake!Spec
=============================================================================
