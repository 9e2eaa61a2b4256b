------------------------------ MODULE Mailbox ------------------------------
(***************************************************************************)
(* The command mailbox between the host tools and the SFC.                 *)
(*                                                                         *)
(* Host (tools/ndm24-tools/src/qusb2snes.rs,                               *)
(* mailbox_command_with_arguments): read the processed sequence, have the  *)
(* next NMI write arguments, command and sequence + 1 in one go, then read *)
(* the whole mailbox until that sequence is processed with a final status  *)
(* and two reads agree, then read the output until two reads agree.        *)
(*                                                                         *)
(* SFC (src/modem/mailbox.asm, modemMailboxPoll; speedTest.asm and         *)
(* session.asm for what finishes a deferred command): everything runs in   *)
(* the main loop, but the NMI that delivers a payload and the host's reads *)
(* fall between any two of its stores.  Some paths store the status before *)
(* the result; all but a failing QUICK_TEST do so before the commit.       *)
(*                                                                         *)
(* A call is a number; it stands for the arguments the host sends, for the *)
(* result they lead to and for the output they fill.                       *)
(***************************************************************************)
EXTENDS Integers, Sequences

CONSTANTS Half,      \* values of one half of the sequence: 2^16 in the code
          MaxCalls,  \* bound on the commands the host issues
          MaxAborts  \* bound on the calls the host gives up

\* What the constants have to be; assumed where they get their values.
MailboxConstants == Half \in Nat \ {0, 1} /\ MaxCalls \in Nat /\ MaxAborts \in Nat

VARIABLES mb,       \* the mailbox in work RAM
          sfc,      \* where modemMailboxPoll or modemSpeedTestPoll is
          modem,    \* driver state, AT transaction and speed test
          payload,  \* what the next NMI executes: {} or one write
          host,     \* the host's call
          executed, \* history: the calls the SFC dispatched, in order
          aborted   \* history: how many calls the host gave up

vars == <<mb, sfc, modem, payload, host, executed, aborted>>

\* Command classes: done at once (INITIALIZE restarts the modem; BINARY_RECEIVE fills
\* the output and has a result, as the other binary commands do without the output; NOW
\* stands for the rest), and the three that are committed while still running.
Kinds == {"NOW", "INITIALIZE", "BINARY_RECEIVE", "AT_TRANSACTION", "QUICK_TEST", "PRBS"}
None == 0
Sequence(n) == [lo |-> n % Half, hi |-> (n \div Half) % Half]
Successor(s) == Sequence(s.hi * Half + s.lo + 1)

Init ==
    /\ \E s \in 0 .. Half * Half - 1 :
          mb = [host_sequence |-> Sequence(s), processed |-> Sequence(s), command |-> "NOW",
                status |-> "IDLE", result |-> None, arguments |-> None, output |-> None]
    /\ sfc = [pc |-> "idle", kind |-> "NOW", call |-> None]
    /\ modem = [driver |-> "READY", at |-> "IDLE", at_call |-> None, prbs |-> None]
    /\ payload = {}
    /\ host = [pc |-> "idle", call |-> 0, kind |-> "NOW", sequence |-> Sequence(0),
               view |-> {}, candidate |-> {}, output |-> {}, outcome |-> "none",
               result |-> None]
    /\ executed = <<>>
    /\ aborted = 0

-----------------------------------------------------------------------------
\* The SFC.

SfcStep(b, s) ==
    /\ mb' = b /\ sfc' = s
    /\ UNCHANGED <<payload, host, aborted>>

Go(pc) == [sfc EXCEPT !.pc = pc]

AtFinishedPassedOnly == modem.at = "PASSED"

\* The states in which @pollAtTransaction reports the transaction.
AtFinished == modem.at \in {"PASSED", "FAILED"}

\* modemMailboxPoll while a deferred command is running.  @quickFailed shows FAILED
\* before it stores the result, with the sequence long committed.
PollQuickTest ==
    /\ sfc.pc = "idle" /\ mb.status = "RUNNING" /\ mb.command = "QUICK_TEST"
    /\ \/ modem.driver = "READY" /\ SfcStep([mb EXCEPT !.status = "PASSED"], sfc)
       \/ modem.driver = "ERROR" /\ SfcStep([mb EXCEPT !.status = "FAILED"], Go("quickResult"))
    /\ UNCHANGED <<modem, executed>>

\* Of the command that was dispatched last.
QuickResult ==
    /\ sfc.pc = "quickResult"
    /\ SfcStep([mb EXCEPT !.result = sfc.call], Go("idle"))
    /\ UNCHANGED <<modem, executed>>

PollAtTransaction ==
    /\ sfc.pc = "idle" /\ mb.status = "RUNNING" /\ mb.command = "AT_TRANSACTION"
    /\ AtFinished
    /\ SfcStep([mb EXCEPT !.result = modem.at_call], Go("atStatus"))
    /\ UNCHANGED <<modem, executed>>

AtStatus ==
    /\ sfc.pc = "atStatus"
    /\ SfcStep([mb EXCEPT !.status = modem.at], Go("idle"))
    /\ UNCHANGED <<modem, executed>>

\* @checkNewCommand: the halves are compared one after the other.
CompareLow ==
    /\ sfc.pc = "idle"
    /\ ~(mb.status = "RUNNING" /\ mb.command \in {"QUICK_TEST", "AT_TRANSACTION"})
    /\ SfcStep(mb, Go(IF mb.host_sequence.lo # mb.processed.lo THEN "new" ELSE "high"))
    /\ UNCHANGED <<modem, executed>>

CompareHigh ==
    /\ sfc.pc = "high"
    /\ SfcStep(mb, Go(IF mb.host_sequence.hi # mb.processed.hi THEN "new" ELSE "idle"))
    /\ UNCHANGED <<modem, executed>>

\* @newCommand: RUNNING first, then a cleared result.
NewCommand ==
    /\ sfc.pc = "new"
    /\ SfcStep([mb EXCEPT !.status = "RUNNING", !.result = None], Go("dispatch"))
    /\ UNCHANGED <<modem, executed>>

\* The driver's state lets the command be carried out.
CanStart(kind) ==
    CASE kind \in {"AT_TRANSACTION", "BINARY_RECEIVE"} -> modem.driver \in {"READY", "CONNECTED"}
      [] kind = "PRBS" -> modem.driver = "CONNECTED"
      [] OTHER -> TRUE

\* Where the handler of a command may go: "passed" and "result" end it at once with or
\* without a result to store first, "failed" refuses it with the status stored before
\* the result (@binaryInvalid, @atTransaction, an unknown command), "commitLow" leaves
\* it running.  What the arguments are is left open.
Ways(kind) ==
    CASE ~CanStart(kind) -> {"failed"}
      [] kind = "NOW" -> {"passed", "result", "failed"}
      [] kind = "INITIALIZE" -> {"passed"}
      [] kind = "BINARY_RECEIVE" -> {"result"}
      [] kind = "QUICK_TEST" -> {"commitLow"}
      [] OTHER -> {"commitLow", "failed"}

\* The command byte is read, the operation carried out.
Dispatch ==
    /\ sfc.pc = "dispatch"
    /\ \E way \in Ways(mb.command) :
         LET kind == mb.command
             call == mb.arguments
         IN  /\ executed' = Append(executed, call)
             /\ SfcStep(IF kind = "BINARY_RECEIVE" /\ way = "result"
                        THEN [mb EXCEPT !.output = call] ELSE mb,
                        [pc |-> way, kind |-> kind, call |-> call])
             /\ modem' = CASE kind \in {"INITIALIZE", "QUICK_TEST"} ->
                                [modem EXCEPT !.driver = "PROBING", !.at = "IDLE"]
                           [] kind = "AT_TRANSACTION" /\ way = "commitLow" ->
                                [modem EXCEPT !.driver = "AT_COMMAND", !.at = "RUNNING",
                                              !.at_call = call]
                           [] kind = "PRBS" /\ way = "commitLow" -> [modem EXCEPT !.prbs = call]
                           [] OTHER -> modem

\* The result first: the length of a binary transfer, or the error of a refused request.
StoreResult ==
    /\ sfc.pc = "result"
    /\ SfcStep([mb EXCEPT !.result = sfc.call],
               Go(IF sfc.kind = "BINARY_RECEIVE" THEN "passed" ELSE "refused"))
    /\ UNCHANGED <<modem, executed>>

StoreStatus ==
    /\ sfc.pc \in {"passed", "refused"}
    /\ SfcStep([mb EXCEPT !.status = IF sfc.pc = "passed" THEN "PASSED" ELSE "FAILED"],
               Go("commitLow"))
    /\ UNCHANGED <<modem, executed>>

\* The status first.
StoreFailed ==
    /\ sfc.pc = "failed"
    /\ SfcStep([mb EXCEPT !.status = "FAILED"], Go("error"))
    /\ UNCHANGED <<modem, executed>>

StoreError ==
    /\ sfc.pc = "error"
    /\ SfcStep([mb EXCEPT !.result = sfc.call], Go("commitLow"))
    /\ UNCHANGED <<modem, executed>>

CommitLow ==
    /\ sfc.pc = "commitLow"
    /\ SfcStep([mb EXCEPT !.processed.lo = mb.host_sequence.lo], Go("commitHigh"))
    /\ UNCHANGED <<modem, executed>>

\* @commitCommand takes the host's sequence as it is now, half by half.
CommitHigh ==
    /\ sfc.pc = "commitHigh"
    /\ SfcStep([mb EXCEPT !.processed.hi = mb.host_sequence.hi], Go("idle"))
    /\ UNCHANGED <<modem, executed>>

\* The rest of the main loop.  modemSessionPoll ends the AT transaction or the
\* probe (both have a frame timeout) ...
SessionEndsAt ==
    /\ sfc.pc = "idle" /\ modem.at = "RUNNING"
    /\ modem' \in {[modem EXCEPT !.at = "PASSED", !.driver = "READY"],
                   [modem EXCEPT !.at = "PASSED", !.driver = "CONNECTED"],
                   [modem EXCEPT !.at = "FAILED", !.driver = "ERROR"]}
    /\ UNCHANGED <<mb, sfc, payload, host, executed, aborted>>

SessionEndsProbe ==
    /\ sfc.pc = "idle" /\ modem.driver = "PROBING"
    /\ modem' \in {[modem EXCEPT !.driver = s] : s \in {"READY", "ERROR"}}
    /\ UNCHANGED <<mb, sfc, payload, host, executed, aborted>>

\* ... pppReceivePoll finds NO CARRIER in what it reads ...
NoCarrier ==
    /\ sfc.pc = "idle" /\ modem.driver = "CONNECTED"
    /\ modem' = [modem EXCEPT !.driver = "READY"]
    /\ UNCHANGED <<mb, sfc, payload, host, executed, aborted>>

\* ... and modemSpeedTestPoll writes output, result and status of a speed test, or
\* gives it up without output once the modem is not connected.
SpeedTestOutput ==
    /\ sfc.pc = "idle" /\ modem.prbs # None
    /\ SfcStep([mb EXCEPT !.output = IF modem.driver = "CONNECTED" THEN modem.prbs ELSE @,
                          !.result = modem.prbs],
               Go("prbsStatus"))
    /\ UNCHANGED <<modem, executed>>

SpeedTestStatus ==
    /\ sfc.pc = "prbsStatus"
    /\ SfcStep([mb EXCEPT !.status = IF modem.driver = "CONNECTED" THEN "PASSED" ELSE "FAILED"],
               Go("idle"))
    /\ modem' = [modem EXCEPT !.prbs = None]
    /\ UNCHANGED executed

\* The NMI runs the payload: arguments, command and sequence, not interrupted.
Nmi ==
    /\ payload # {}
    /\ \E w \in payload :
          mb' = [mb EXCEPT !.arguments = w.call, !.command = w.kind, !.host_sequence = w.sequence]
    /\ payload' = {}
    /\ UNCHANGED <<sfc, modem, host, executed, aborted>>

-----------------------------------------------------------------------------
\* The host.

HostStep(h) ==
    /\ host' = h
    /\ UNCHANGED <<mb, sfc, modem, payload, executed, aborted>>

\* A call starts from the processed sequence it finds.
ReadInitial ==
    /\ host.pc = "idle" /\ host.call < MaxCalls
    /\ \E kind \in Kinds :
          HostStep([host EXCEPT !.pc = "send", !.call = @ + 1, !.kind = kind,
                                !.sequence = Successor(mb.processed), !.outcome = "none",
                                !.result = None, !.output = {}])

\* execute_address replaces a payload the NMI has not run yet.
ExecuteAddress ==
    /\ host.pc = "send"
    /\ payload' = {[call |-> host.call, kind |-> host.kind, sequence |-> host.sequence]}
    /\ host' = [host EXCEPT !.pc = "poll"]
    /\ UNCHANGED <<mb, sfc, modem, executed, aborted>>

\* A read of the mailbox takes a while: what lies before some address is older.
\* The one assumption about time: between two reads the host sleeps for 10 ms, which
\* outlasts the two instructions between the stores of @quickFailed.
ReadBegin ==
    /\ host.pc = "poll"
    /\ host.candidate # {} => sfc.pc # "quickResult"
    /\ HostStep([host EXCEPT !.pc = "reading", !.view = {mb}])

\* The fields in address order.
Torn(a, b) ==
    {b,
     [b EXCEPT !.host_sequence = a.host_sequence],
     [b EXCEPT !.host_sequence = a.host_sequence, !.processed = a.processed],
     [b EXCEPT !.host_sequence = a.host_sequence, !.processed = a.processed,
               !.command = a.command, !.status = a.status],
     [a EXCEPT !.output = b.output]}

CompletesOnSequence(view) == view.processed = host.sequence

\* The mailbox as read completes this call.
Completes(view) ==
    view.processed = host.sequence /\ view.status \in {"PASSED", "FAILED"}

ReadEnd ==
    /\ host.pc = "reading"
    /\ \E old \in host.view : \E view \in Torn(old, mb) :
          HostStep(
             IF ~Completes(view)
             THEN [host EXCEPT !.pc = "poll", !.view = {}, !.candidate = {}]
             ELSE IF host.candidate # {view}
             THEN [host EXCEPT !.pc = "poll", !.view = {}, !.candidate = {view}]
             ELSE IF view.status = "FAILED"
             THEN [host EXCEPT !.pc = "idle", !.view = {}, !.candidate = {},
                               !.outcome = "error", !.result = view.result]
             ELSE [host EXCEPT !.pc = "output", !.view = {}, !.candidate = {},
                               !.result = view.result])

\* read_stable_mailbox_output
ReadOutput ==
    /\ host.pc = "output"
    /\ HostStep(IF host.output = {mb.output}
                THEN [host EXCEPT !.pc = "idle", !.outcome = "ok"]
                ELSE [host EXCEPT !.output = {mb.output}])

\* A timeout, or a failing connection, ends the call with an error.
Abort ==
    /\ host.pc \in {"poll", "output"} /\ aborted < MaxAborts
    /\ host' = [host EXCEPT !.pc = "idle", !.candidate = {}, !.outcome = "aborted"]
    /\ aborted' = aborted + 1
    /\ UNCHANGED <<mb, sfc, modem, payload, executed>>

MainLoop ==
    \/ PollQuickTest \/ QuickResult \/ PollAtTransaction \/ AtStatus \/ CompareLow
    \/ CompareHigh \/ NewCommand \/ Dispatch \/ StoreResult \/ StoreStatus \/ StoreFailed
    \/ StoreError \/ CommitLow \/ CommitHigh
SpeedTest == SpeedTestOutput \/ SpeedTestStatus
SfcNext == MainLoop \/ SpeedTest
SessionNext == SessionEndsAt \/ SessionEndsProbe
HostPolls == ExecuteAddress \/ ReadBegin \/ ReadEnd \/ ReadOutput
HostNext == ReadInitial \/ HostPolls \/ Abort

Next == SfcNext \/ SessionNext \/ NoCarrier \/ Nmi \/ HostNext

Spec == Init /\ [][Next]_vars

-----------------------------------------------------------------------------
\* The answer the host reports belongs to the command it sent, as long as no
\* earlier call was given up: the SFC dispatched this call and no other since,
\* and result and output are those of this call.  Of the commands that pass, the
\* ones that store no result leave it as @newCommand cleared it.
ResultOf(passed) ==
    IF passed /\ host.kind \in {"NOW", "INITIALIZE", "QUICK_TEST"} THEN None ELSE host.call
AnswerIsOwn ==
    (host.outcome \in {"ok", "error"} /\ aborted = 0) =>
        /\ executed # <<>> /\ executed[Len(executed)] = host.call
        /\ host.result = ResultOf(host.outcome = "ok")
        /\ (host.outcome = "ok" /\ host.kind \in {"BINARY_RECEIVE", "PRBS"}) =>
              host.output = {host.call}

\* No call is carried out twice, whatever the host gives up and sends again.
ExecutedAtMostOnce ==
    \A i, j \in 1 .. Len(executed) : executed[i] = executed[j] => i = j

\* A call is under way, and its end.
Asked == host.pc = "poll" /\ aborted = 0
Answered == host.outcome \in {"ok", "error"} \/ aborted > 0

\* What a caller may rely on.
CommandsExact == AnswerIsOwn /\ ExecutedAtMostOnce
=============================================================================
