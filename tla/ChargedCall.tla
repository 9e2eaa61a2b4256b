---------------------------- MODULE ChargedCall ----------------------------
(***************************************************************************)
(* The two programs that place a call: nifty-dial (nifty_dial.rs with      *)
(* credentials.rs) and ppp-dial (ppp_dial.rs), each a script of mailbox    *)
(* commands, checks and waits (qusb2snes.rs), against the SFC they drive.  *)
(*                                                                         *)
(* Any step of a script may fail, the modem may answer after the host gave *)
(* up (the SFC waits 3900 frames, 65 s, for CONNECT, nifty-dial 60 s), and *)
(* nifty-dial's whole script may be cancelled between any two steps.  The  *)
(* mailbox is reduced to what Mailbox.tla shows of it; the SFC to what the *)
(* scripts change and look at.                                             *)
(***************************************************************************)
EXTENDS Integers, Sequences

CONSTANT SetupCommands   \* AT commands before the call: 5 in the code

\* What the constant has to be; assumed where it gets its value.
CallConstants == SetupCommands \in Nat

VARIABLES program, \* nifty-dial or ppp-dial
          box,     \* the mailbox
          console, \* the SFC and its modem
          dials    \* history: how many calls were placed

callVars == <<program, box, console, dials>>

AtCommands == {"SETUP", "DIAL"}
Questions == {"CONFIRM", "CREDENTIALS"}
Waits == {"NETWORK", "CLOSED", "HOLD"}
Checks == {"READY", "STAGED"}

Setup == [i \in 1 .. SetupCommands |-> "SETUP"]

upload_fields == <<"PEER_ID", "PASSWORD">>
upload == <<"CLEAR">> \o upload_fields \o <<"STAGED">>
niftyRun ==
    <<"READY">> \o Setup \o upload
    \o <<"OPEN", "RECEIVE_START", "DIAL", "NETWORK", "DNS", "HOLD">>
pppDialRun == <<"READY">> \o Setup \o <<"OPEN", "RECEIVE_START", "DIAL">>

\* What a failed upload, or a failed dial, is undone with.
Undo(tool) == IF tool = "nifty-dial" THEN <<"CLEAR">> ELSE <<"RECEIVE_STOP">>

\* cleanup: credentials, LCP, receive; ppp_close is a command and a wait.
cleanup == <<"CLEAR", "CLOSE", "CLOSED", "RECEIVE_STOP">>

Script(tool, block) ==
    CASE block = "ask" -> <<"CONFIRM", "CREDENTIALS">>
      [] block = "run" -> IF tool = "nifty-dial" THEN niftyRun ELSE pppDialRun
      [] block = "undo" -> Undo(tool)
      [] OTHER -> cleanup

Step == Script(program.tool, program.block)[program.at]

CallInit ==
    /\ \E tool \in {"nifty-dial", "ppp-dial"} :
          program = [tool |-> tool, block |-> IF tool = "nifty-dial" THEN "ask" ELSE "run",
                  at |-> 1, phase |-> "start", base |-> 0, agreed |-> FALSE, cancelled |-> FALSE,
                  opened |-> FALSE, failed |-> {}, warned |-> FALSE, unanswered |-> FALSE]
    /\ box = [command |-> "NONE", sequence |-> 0, processed |-> 0, status |-> "IDLE"]
    /\ console \in [driver : {"Ready", "Error", "Connected"}, at : {"IDLE"}, transient : BOOLEAN,
                fields : {{}}, admin : BOOLEAN, receive : BOOLEAN, lcp : {"Closed"},
                net : {FALSE}, terminated : {FALSE}]
    /\ dials = 0

-----------------------------------------------------------------------------
\* The SFC.

Wiped(s) == IF s.transient THEN [s EXCEPT !.fields = {}] ELSE s
Cleared(s) == [s EXCEPT !.transient = TRUE, !.fields = {}]

\* modemAtBegin, for a command that expects OK or CONNECT.
modemAtBegin(s, command) ==
    IF s.driver = "Ready"
    THEN [s EXCEPT !.at = "RUNNING", !.driver = IF command = "DIAL" THEN "Dialing" ELSE "AtCommand"]
    ELSE [s EXCEPT !.at = "FAILED"]

\* pppPapCredentialSetPeerId and -SetPassword refuse without a clear, and clear.
CredentialSet(s, field) ==
    IF s.transient THEN [s EXCEPT !.fields = @ \cup {field}] ELSE Cleared(s)

pppLcpOpen(s) ==
    [s EXCEPT !.admin = TRUE, !.lcp = IF @ \in {"Opened", "Closing"} THEN @ ELSE "Negotiating"]
\* A pending packet may delay the start of Closing to a later poll.
pppLcpClose(s) == [s EXCEPT !.admin = FALSE, !.lcp = IF @ = "Stopped" THEN "Closed" ELSE @]

Effect(s, command) ==
    CASE command \in AtCommands -> modemAtBegin(s, command)
      [] command = "CLEAR" -> Cleared(s)
      [] command \in {"PEER_ID", "PASSWORD"} -> CredentialSet(s, command)
      [] command = "OPEN" -> pppLcpOpen(s)
      [] command = "CLOSE" -> pppLcpClose(s)
      [] command = "RECEIVE_START" -> [s EXCEPT !.receive = TRUE]
      [] command = "RECEIVE_STOP" -> [s EXCEPT !.receive = FALSE]
      [] OTHER -> s

Status(s, command) ==
    CASE command \in AtCommands -> IF s.driver = "Ready" THEN "RUNNING" ELSE "FAILED"
      [] command \in {"PEER_ID", "PASSWORD"} -> IF s.transient THEN "PASSED" ELSE "FAILED"
      [] command = "DNS" -> IF s.net THEN "PASSED" ELSE "FAILED"
      [] OTHER -> "PASSED"

AtRunning == box.status = "RUNNING" /\ box.command \in AtCommands

\* modemMailboxPoll: a running AT transaction is polled while its command still
\* stands in the mailbox; the next command displaces it.
MailboxAtEnds ==
    /\ AtRunning /\ console.at \in {"PASSED", "FAILED"}
    /\ box' = [box EXCEPT !.status = console.at]
    /\ UNCHANGED <<program, console, dials>>

MailboxExecutes ==
    /\ ~AtRunning /\ box.sequence # box.processed
    /\ console' = Effect(console, box.command)
    /\ box' = [box EXCEPT !.status = Status(console, box.command), !.processed = box.sequence]
    /\ dials' = IF console'.driver = "Dialing" /\ console.driver # "Dialing" THEN dials + 1 ELSE dials
    /\ UNCHANGED program

ConsoleStep(s) == console' = s /\ UNCHANGED <<program, box, dials>>

\* modemSessionPoll: the modem answers, or is too late.
ModemAnswers ==
    /\ console.driver \in {"AtCommand", "Dialing"}
    /\ ConsoleStep([console EXCEPT !.at = "PASSED",
                           !.driver = IF @ = "Dialing" THEN "Connected" ELSE "Ready"])
ModemFails ==
    /\ console.driver \in {"AtCommand", "Dialing"}
    /\ ConsoleStep([console EXCEPT !.at = "FAILED", !.driver = "Error"])

LowerAvailable == console.receive /\ console.driver = "Connected"
Down(s) == IF s.lcp = "Opened" THEN [Wiped(s) EXCEPT !.lcp = "Closed", !.net = FALSE]
                               ELSE [s EXCEPT !.lcp = "Closed", !.net = FALSE]

\* The line drops, or the peer hangs up once LCP is closed.
CarrierLost == LowerAvailable /\ ConsoleStep(Down([console EXCEPT !.driver = "Ready"]))

LcpLowerDown == ~LowerAvailable /\ console.lcp # "Closed" /\ ConsoleStep(Down(console))
LcpStarts ==
    LowerAvailable /\ console.lcp = "Closed" /\ console.admin /\ ConsoleStep([console EXCEPT !.lcp = "Negotiating"])
LcpOpens ==
    LowerAvailable /\ console.lcp = "Negotiating" /\ ConsoleStep([console EXCEPT !.lcp = "Opened"])
LcpStops ==
    /\ LowerAvailable /\ console.lcp \in {"Negotiating", "Opened"}
    /\ ConsoleStep([Down(console) EXCEPT !.lcp = "Stopped"])
Authenticated ==
    /\ LowerAvailable /\ console.lcp = "Opened" /\ ~console.net
    /\ \E ok \in BOOLEAN : ConsoleStep([Wiped(console) EXCEPT !.net = ok])
LcpCloses ==
    /\ LowerAvailable /\ ~console.admin /\ console.lcp \in {"Negotiating", "Opened"}
    /\ ConsoleStep([Down(console) EXCEPT !.lcp = "Closing"])
LcpTerminates ==
    /\ LowerAvailable /\ console.lcp = "Closing"
    /\ ConsoleStep([console EXCEPT !.terminated = TRUE, !.lcp = IF console.terminated THEN "Closed" ELSE @])

ConsoleNext ==
    \/ MailboxAtEnds \/ MailboxExecutes \/ ModemAnswers \/ ModemFails \/ CarrierLost
    \/ LcpLowerDown \/ LcpStarts \/ LcpOpens \/ LcpStops \/ Authenticated \/ LcpCloses
    \/ LcpTerminates

-----------------------------------------------------------------------------
\* The programs.

Goto(h, block) == [h EXCEPT !.block = block, !.at = 1, !.phase = "start"]

ReportedStopOnly(h) == "RECEIVE_STOP" \in h.failed

\* clear?; close?; stop?: one failure is enough for the warning.
Reported(h) == h.failed # {}

Ended(h) == [Goto(h, "ended") EXCEPT !.warned = Reported(h)]

AfterRunEnds(h) == Ended(h)

\* run: whatever became of run_once, cleanup follows; ppp-dial has none.
AfterRun(h) == IF h.tool = "nifty-dial" THEN Goto(h, "cleanup") ELSE Ended(h)

NextStep(h) ==
    IF h.at < Len(Script(h.tool, h.block))
    THEN [h EXCEPT !.at = @ + 1, !.phase = "start"]
    ELSE CASE h.block = "ask" -> [Goto(h, "run") EXCEPT !.agreed = TRUE]
           [] h.block = "cleanup" -> Ended(h)
           [] OTHER -> AfterRun(h)

\* The steps whose failure is undone before anything else.
Undoable(h) ==
    IF h.tool = "nifty-dial" THEN {"PEER_ID", "PASSWORD"} ELSE {"DIAL"}

\* Cleanup and undo note a failure and go on; without a close command there is
\* no wait for it.
GoOn(h) ==
    LET n == [h EXCEPT !.failed = @ \cup {Step}]
    IN  CASE h.block = "cleanup" /\ Step = "CLOSE" -> NextStep([n EXCEPT !.at = @ + 1])
          [] h.block = "cleanup" /\ Step # "CLOSE" -> NextStep(n)
          [] OTHER -> NextStep(IF h.tool = "nifty-dial" THEN h ELSE n)

AfterFailureContinues(h) == IF h.block \in {"ask", "run"} THEN NextStep(h) ELSE GoOn(h)

\* The ? of a question ends the program; that of a step of run leaves for undo or
\* for the end of the run.
AfterFailure(h) ==
    CASE h.block = "ask" -> Goto(h, "ended")
      [] h.block \in {"undo", "cleanup"} -> GoOn(h)
      [] h.block = "run" /\ Step \in Undoable(h) -> Goto(h, "undo")
      [] OTHER -> AfterRun(h)

ProgramStep(h) == program' = h /\ UNCHANGED <<box, console, dials>>
At(step) == program.block # "ended" /\ Step = step
Proceed(ok) == ProgramStep(IF ok THEN NextStep(program) ELSE AfterFailure(program))

\* The word DIAL or another; an ID and a password of the provider's form or not.
confirm_charged_call == At("CONFIRM") /\ \E typed \in {"DIAL", "OTHER"} : Proceed(typed = "DIAL")
prompt == At("CREDENTIALS") /\ \E valid \in BOOLEAN : Proceed(valid)

\* read_snapshot with driver_state Ready; the three flags of the credentials.
CheckHolds ==
    IF Step = "READY" THEN console.driver = "Ready"
                      ELSE console.transient /\ console.fields = {"PEER_ID", "PASSWORD"}
Check ==
    /\ program.block # "ended" /\ Step \in Checks
    /\ Proceed(CheckHolds)

IsCall == program.block # "ended" /\ Step \notin Questions \cup Checks \cup Waits

\* mailbox_command_with_arguments; ppp_close looks at LCP first.
ReadMailbox ==
    /\ IsCall /\ program.phase = "start"
    /\ ProgramStep([program EXCEPT !.phase = "write", !.base = box.processed,
                             !.opened = IF Step = "CLOSE" THEN console.lcp = "Opened" ELSE @])
WriteCommand ==
    /\ IsCall /\ program.phase = "write"
    /\ box' = [box EXCEPT !.command = Step, !.sequence = program.base + 1]
    /\ program' = [program EXCEPT !.phase = "await"]
    /\ UNCHANGED <<console, dials>>
CallEnds ==
    /\ IsCall /\ program.phase = "await"
    /\ box.processed = program.base + 1 /\ box.status \in {"PASSED", "FAILED"}
    /\ Proceed(box.status = "PASSED")

\* wait_ppp_network_opened; then a primary DNS address is insisted on.
wait_ppp_network_opened ==
    At("NETWORK") /\ console.net /\ \E resolver \in BOOLEAN : Proceed(resolver)
\* The rest of ppp_close, which insists on a Terminate-Request if LCP was open.
ppp_close ==
    At("CLOSED") /\ console.lcp = "Closed" /\ ~console.admin /\ Proceed(program.opened => console.terminated)
\* Enter, Ctrl+C or its own limit; without --hold there is nothing to wait for.
hold_connection == At("HOLD") /\ Proceed(TRUE)

\* The SFC has not taken the command of the call that is given up.
LeavesBehind(h) ==
    [h EXCEPT !.unanswered = @ \/ (IsCall /\ program.phase = "await" /\ box.sequence # box.processed)]

\* A connection error, or the step's own time limit.
StepFails == program.block # "ended" /\ ProgramStep(LeavesBehind(AfterFailure(program)))

\* TOTAL_CALL_WORKFLOW_LIMIT cancels run_once wherever it is, and the user is told
\* to look at the modem ...
WorkflowTimeout ==
    /\ program.tool = "nifty-dial" /\ program.block \in {"run", "undo"}
    /\ ProgramStep([LeavesBehind(Goto(program, "cleanup")) EXCEPT !.cancelled = TRUE])
\* ... and CLEANUP_LIMIT the cleanup.
CleanupTimeout ==
    /\ program.block = "cleanup"
    /\ ProgramStep([LeavesBehind(Goto(program, "ended")) EXCEPT !.warned = TRUE])

HostProgress ==
    \/ confirm_charged_call \/ prompt \/ Check \/ ReadMailbox \/ WriteCommand \/ CallEnds
    \/ wait_ppp_network_opened \/ ppp_close \/ hold_connection
ProgramNext == HostProgress \/ StepFails \/ WorkflowTimeout \/ CleanupTimeout

CallNext == ConsoleNext \/ ProgramNext
CallSpec == CallInit /\ [][CallNext]_callVars

-----------------------------------------------------------------------------
\* docs/nifty-dial.md:88: whatever failed on the way, cleanup takes the
\* credentials, the wish for LCP and the receive ownership off the SFC, or the
\* user is warned.  A command the SFC had not taken when its call was given up is
\* the one exception: the next call reuses its sequence number.
CleanupReachesSfc ==
    (program.agreed /\ program.block = "ended" /\ ~program.warned /\ ~program.unanswered) =>
        console.fields = {} /\ ~console.admin /\ ~console.receive

\* A step that places a call is the first to do so and finds all the call needs.
FirstAndEquipped ==
    dials' # dials =>
        /\ dials = 0
        /\ console.admin /\ console.receive
        /\ program.tool = "nifty-dial" =>
              program.agreed /\ console.fields = {"PEER_ID", "PASSWORD"}

\* No call is placed twice, and none unless all that it needs was staged: LCP
\* wanted, receive owned and, for nifty-dial, the user's word and both credentials.
DialOnceEquipped == [][FirstAndEquipped]_callVars

\* The network is open for nifty-dial, and what has to follow.
NetworkOpen == program.agreed /\ console.net
NetworkClosed == ~console.net \/ program.warned \/ program.unanswered
=============================================================================
