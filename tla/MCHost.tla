------------------------------- MODULE MCHost -------------------------------
(***************************************************************************)
(* What the host and the SFC do together, under fairness: the mailbox, an  *)
(* NTP request, and the programs that place a call.  One of them makes up  *)
(* a behaviour.  The mailbox and the programs, whose constants are those   *)
(* of the cfg, rest in an initial state while another works; the variables *)
(* of the requester are then Idle.                                         *)
(***************************************************************************)
EXTENDS Mailbox, ChargedCall

CONSTANT Idle

VARIABLES part,   \* "mailbox", "ntp" or "call"
          requester, clock, age, unpolled, busy, link, replies, asker   \* Requesters

requesterVars == <<requester, clock, age, unpolled, busy, link, replies, asker>>

Ntp == INSTANCE Requesters WITH
    Protocols <- {"NTP"}, ClockSpace <- 8, Timeout <- 2, MaxStall <- 1,
    TagSpace <- 4, Destinations <- {1}, MaxCalls <- 2, host <- asker

ASSUME HostAssumption == MailboxConstants /\ CallConstants /\ Ntp!RequesterConstants

NoRequests ==
    /\ requester = Idle /\ clock = Idle /\ age = Idle /\ unpolled = Idle
    /\ busy = Idle /\ link = Idle /\ replies = Idle /\ asker = Idle
MailboxRests == mb.processed = Sequence(0)
CallRests ==
    /\ program.tool = "ppp-dial" /\ console.driver = "Ready"
    /\ console.transient /\ console.admin /\ console.receive

JointInit ==
    /\ Init /\ CallInit
    /\ \/ part = "mailbox" /\ CallRests /\ NoRequests
       \/ part = "ntp" /\ MailboxRests /\ CallRests /\ Ntp!RequestersInit
       \/ part = "call" /\ MailboxRests /\ NoRequests

\* A step of the part at work; the variables of the others stay.
Joint(mailbox, ntp, call) ==
    /\ UNCHANGED part
    /\ \/ part = "mailbox" /\ mailbox /\ UNCHANGED <<requesterVars, callVars>>
       \/ part = "ntp" /\ ntp /\ UNCHANGED <<vars, callVars>>
       \/ part = "call" /\ call /\ UNCHANGED <<vars, requesterVars>>
JointNext == Joint(Next, Ntp!RequestersNext, CallNext)

jointVars == <<part, vars, requesterVars, callVars>>

\* Fairness, one condition for all three parts where they have one each.
\* Mailbox: the SFC's main loop and its NMI keep running, modemSessionPoll and the
\* speed test end what they began, a host that polls keeps polling; nothing is said
\* of new calls or of giving up.
\* NTP: the main loop polls and frames pass.  Nothing is said of the transmitter: the
\* pollers before this one may take it in every pass, and a request that was not sent
\* has no deadline.
\* Call: the time limits of the host expire, and the SFC's main loop keeps polling.
Fairness ==
    /\ WF_jointVars(Joint(MainLoop, Ntp!Tick, HostProgress))
    /\ WF_jointVars(Joint(Nmi, Ntp!Poll("NTP"), WorkflowTimeout))
    /\ WF_jointVars(Joint(HostPolls, FALSE, CleanupTimeout))
    /\ WF_jointVars(Joint(FALSE, FALSE, MailboxExecutes))
    /\ WF_jointVars(Joint(FALSE, FALSE, MailboxAtEnds))
    /\ WF_jointVars(Joint(FALSE, FALSE, LcpLowerDown))
    /\ WF_jointVars(Joint(FALSE, FALSE, LcpCloses))
    /\ SF_jointVars(Joint(SessionNext, FALSE, FALSE))
    /\ SF_jointVars(Joint(SpeedTest, FALSE, FALSE))

JointSpec == JointInit /\ [][JointNext]_jointVars /\ Fairness

-----------------------------------------------------------------------------
\* Every command is answered unless the host gives up: the SFC never leaves a
\* deferred command running or a new one unseen.
CallAnswered ==
    (part = "mailbox" /\ Asked) ~> (part = "mailbox" => Answered)

\* An NTP request that was sent ends, whatever happens to its answer, to the link and
\* to the transmitter: the next one is not refused as busy for ever.  (One that waits
\* for the transmitter may wait as long as others keep it.)
SentRequestEnds ==
    (part = "ntp" /\ Ntp!IsWaiting("NTP")) ~> (part = "ntp" => ~Ntp!IsWaiting("NTP"))

\* A network that is open while nifty-dial runs is taken down, or the user warned.
NetworkIsClosed ==
    (part = "call" /\ NetworkOpen) ~> (part = "call" => NetworkClosed)
=============================================================================
