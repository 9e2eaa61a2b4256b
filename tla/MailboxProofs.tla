---------------------------- MODULE MailboxProofs ----------------------------
(***************************************************************************)
(* Proofs about Mailbox for every width of the sequence and every number   *)
(* of calls: no command is carried out twice, whatever the host gives up   *)
(* and sends again, and the answer it reports is that to its own command.  *)
(***************************************************************************)
EXTENDS Mailbox, SequenceTheorems, TLAPS

Halves == 0 .. Half - 1
Sequences == [lo : Halves, hi : Halves]
SfcStates == {"idle", "quickResult", "atStatus", "high", "new", "dispatch", "result",
              "passed", "refused", "failed", "error", "commitLow", "commitHigh", "prbsStatus"}
Statuses == {"IDLE", "RUNNING", "PASSED", "FAILED"}
Drivers == {"READY", "ERROR", "PROBING", "AT_COMMAND", "CONNECTED"}
HostStates == {"idle", "send", "poll", "reading", "output"}
Outcomes == {"none", "ok", "error", "aborted"}

Boxes == [host_sequence : Sequences, processed : Sequences, command : Kinds,
          status : Statuses, result : Nat, arguments : Nat, output : Nat]
Sfcs == [pc : SfcStates, kind : Kinds, call : Nat]
Modems == [driver : Drivers, at : Statuses, at_call : Nat, prbs : Nat]
Writes == [call : Nat, kind : Kinds, sequence : Sequences]
Hosts == [pc : HostStates, call : Nat, kind : Kinds, sequence : Sequences,
          view : SUBSET Boxes, candidate : SUBSET Boxes, output : SUBSET Nat,
          outcome : Outcomes, result : Nat]

Types ==
    /\ mb \in Boxes /\ sfc \in Sfcs /\ modem \in Modems /\ host \in Hosts
    /\ payload \in SUBSET Writes /\ executed \in Seq(Nat) /\ aborted \in Nat

\* Calls reach the mailbox and are carried out in the order of their numbers.
Ordered ==
    /\ \A i \in 1 .. Len(executed) : executed[i] <= mb.arguments
    /\ \A i, j \in 1 .. Len(executed) : i < j => executed[i] < executed[j]
    /\ mb.arguments <= host.call
    /\ \A w \in payload : mb.arguments < w.call /\ w.call <= host.call
    /\ host.pc = "send" => mb.arguments < host.call /\ \A w \in payload : w.call < host.call

\* A command that was carried out is not noticed again: whenever the sequences are
\* compared they agree, unless a newer command lies in the mailbox.
Fresh == \A i \in 1 .. Len(executed) : executed[i] < mb.arguments
Noticed ==
    /\ sfc.pc \in {"new", "dispatch"} => Fresh
    /\ sfc.pc \in {"idle", "quickResult", "high", "atStatus", "prbsStatus"} =>
          Fresh \/ mb.processed = mb.host_sequence
    /\ sfc.pc = "commitHigh" => Fresh \/ mb.processed.lo = mb.host_sequence.lo

-----------------------------------------------------------------------------
\* The stages of a call as long as none was given up.

Final(b) == b.status \in {"PASSED", "FAILED"}
Ahead == mb.processed.lo # mb.host_sequence.lo
IsLast == executed # <<>> /\ executed[Len(executed)] = host.call

\* The SFC has nothing to do, and would notice the next sequence.
Resting ==
    /\ mb.processed = mb.host_sequence /\ mb.status # "RUNNING"
    /\ sfc.pc \in {"idle", "high", "commitHigh"} /\ modem.prbs = None

\* The call waits for the NMI.
Sent ==
    /\ Resting /\ host.sequence = Successor(mb.processed)
    /\ payload = {[call |-> host.call, kind |-> host.kind, sequence |-> host.sequence]}

\* The call is in the mailbox.
Mine ==
    /\ payload = {} /\ mb.arguments = host.call /\ mb.command = host.kind
    /\ mb.host_sequence = host.sequence

Delivered ==
    /\ Mine /\ Ahead /\ modem.prbs = None
    /\ \/ sfc.pc \in {"idle", "high", "new", "commitHigh"} /\ mb.status # "RUNNING"
       \/ sfc.pc = "dispatch" /\ mb.status = "RUNNING" /\ mb.result = None

\* The call is being carried out at once, or cannot be started.
Answering ==
    /\ Mine /\ Ahead /\ IsLast /\ modem.prbs = None
    /\ sfc.kind = host.kind /\ sfc.call = host.call /\ host.kind # "QUICK_TEST"
    /\ \/ sfc.pc \in {"result", "failed"} /\ mb.status = "RUNNING"
       \/ sfc.pc = "passed" /\ mb.status = "RUNNING" /\ mb.result = ResultOf(TRUE)
       \/ sfc.pc = "refused" /\ mb.status = "RUNNING" /\ mb.result = host.call
       \/ sfc.pc = "error" /\ mb.status = "FAILED"
    /\ sfc.pc = "result" => host.kind \in {"NOW", "BINARY_RECEIVE"}
    /\ sfc.pc = "passed" => host.kind \in {"NOW", "INITIALIZE", "BINARY_RECEIVE"}
    /\ (host.kind = "BINARY_RECEIVE" /\ sfc.pc \in {"result", "passed"}) =>
          mb.output = host.call

\* The answer is complete.
HasResult(b) == b.result = ResultOf(b.status = "PASSED")
Finished ==
    /\ Final(mb) /\ modem.prbs = None /\ HasResult(mb)
    /\ (host.kind \in {"BINARY_RECEIVE", "PRBS"} /\ mb.status = "PASSED") =>
          mb.output = host.call
    /\ sfc.pc \in {"commitLow", "commitHigh", "idle", "high"}

\* The status is final, the result of the failed quick test still to be stored.
Showing ==
    /\ mb.status = "FAILED" /\ modem.prbs = None /\ host.kind = "QUICK_TEST"
    /\ sfc.pc = "quickResult" /\ sfc.call = host.call

\* A deferred command runs on after it was committed.
Running ==
    /\ mb.status = "RUNNING" /\ host.kind \in {"AT_TRANSACTION", "QUICK_TEST", "PRBS"}
    /\ host.kind = "AT_TRANSACTION" => modem.at_call = host.call
    /\ host.kind = "QUICK_TEST" => sfc.call = host.call /\ mb.result = None
    /\ modem.prbs = IF host.kind = "PRBS" THEN host.call ELSE None
    /\ sfc.pc # "quickResult"
    /\ sfc.pc = "atStatus" => host.kind = "AT_TRANSACTION" /\ AtFinished
    /\ sfc.pc = "prbsStatus" =>
          host.kind = "PRBS" /\ (modem.driver = "CONNECTED" => mb.output = host.call)
    /\ sfc.pc \in {"atStatus", "prbsStatus"} => mb.result = host.call

\* The call was taken, and its sequence is being committed, or is.
Taken ==
    /\ Mine /\ IsLast /\ (Finished \/ Showing \/ Running)
    /\ \/ sfc.pc = "commitLow" /\ Ahead
       \/ sfc.pc = "commitHigh" /\ mb.processed.lo = mb.host_sequence.lo
       \/ sfc.pc \in {"idle", "quickResult", "high", "atStatus", "prbsStatus"}
          /\ mb.processed = mb.host_sequence

Under == Sent \/ Delivered \/ Answering \/ Taken

\* The status as it will stay until the next call, and the whole answer.
Decided == Taken /\ Final(mb) /\ mb.processed = host.sequence
Complete == Taken /\ Finished /\ mb.processed = host.sequence

\* What was read of the mailbox so far: a committed sequence stays, and so does a
\* final status behind it; in a read that may settle the call the result is there too.
ViewTrue(old) ==
    /\ old.processed = host.sequence => Taken /\ mb.processed = host.sequence
    /\ (old.processed = host.sequence /\ Final(old)) => Decided /\ old.status = mb.status
    /\ (old.processed = host.sequence /\ Final(old) /\ host.candidate # {}) => HasResult(old)

Own ==
    aborted = 0 =>
        /\ host.pc \in {"idle", "send"} => Resting /\ payload = {}
        /\ host.pc \in {"idle", "send", "output"} => host.candidate = {}
        /\ host.pc = "send" => host.sequence = Successor(mb.processed)
        /\ host.pc \in {"poll", "reading"} => Under
        /\ (host.pc = "poll" /\ host.candidate # {}) => Decided
        /\ (host.pc = "reading" /\ host.candidate # {}) => Complete
        /\ host.pc \in {"send", "poll", "reading"} => host.output = {}
        /\ host.pc = "reading" => \A old \in host.view : ViewTrue(old)
        /\ host.pc = "output" =>
              /\ Complete /\ mb.status = "PASSED" /\ host.result = ResultOf(TRUE)
              /\ host.output \in {{}, {mb.output}}
        /\ host.outcome \in {"ok", "error"} => host.pc = "idle" /\ AnswerIsOwn

IInv == Types /\ Ordered /\ Noticed /\ Own

-----------------------------------------------------------------------------
\* The types, field by field.

LEMMA BoxFields ==
    ASSUME NEW b \in Boxes
    PROVE  /\ b.host_sequence \in Sequences /\ b.processed \in Sequences
           /\ b.command \in Kinds /\ b.status \in Statuses /\ b.result \in Nat
           /\ b.arguments \in Nat /\ b.output \in Nat
  BY DEF Boxes

LEMMA Fields ==
    ASSUME Types
    PROVE  /\ mb \in Boxes /\ sfc \in Sfcs /\ modem \in Modems /\ host \in Hosts
           /\ payload \in SUBSET Writes /\ executed \in Seq(Nat) /\ Len(executed) \in Nat
           /\ mb.host_sequence \in Sequences /\ mb.processed \in Sequences
           /\ mb.command \in Kinds /\ mb.status \in Statuses /\ mb.result \in Nat
           /\ mb.arguments \in Nat /\ mb.output \in Nat
           /\ sfc.pc \in SfcStates /\ sfc.kind \in Kinds /\ sfc.call \in Nat
           /\ modem.driver \in Drivers /\ modem.at \in Statuses /\ modem.at_call \in Nat
           /\ modem.prbs \in Nat
           /\ \A i \in 1 .. Len(executed) : executed[i] \in Nat
<1>1. /\ mb \in Boxes /\ sfc \in Sfcs /\ modem \in Modems /\ host \in Hosts
      /\ payload \in SUBSET Writes /\ executed \in Seq(Nat)
  BY DEF Types
<1>2. Len(executed) \in Nat /\ \A i \in 1 .. Len(executed) : executed[i] \in Nat
  BY <1>1, LenProperties, ElementOfSeq
<1>3. sfc.pc \in SfcStates /\ sfc.kind \in Kinds /\ sfc.call \in Nat
  BY <1>1 DEF Sfcs
<1>4. modem.driver \in Drivers /\ modem.at \in Statuses /\ modem.at_call \in Nat
      /\ modem.prbs \in Nat
  BY <1>1 DEF Modems
<1> QED BY <1>1, <1>2, <1>3, <1>4, BoxFields

LEMMA HostFields ==
    ASSUME Types
    PROVE  /\ host.pc \in HostStates /\ host.call \in Nat /\ host.kind \in Kinds
           /\ host.sequence \in Sequences /\ host.view \subseteq Boxes
           /\ host.candidate \subseteq Boxes /\ host.output \subseteq Nat
           /\ host.outcome \in Outcomes /\ host.result \in Nat
<1>1. host \in Hosts
  BY DEF Types
<1> QED BY <1>1 DEF Hosts

-----------------------------------------------------------------------------
\* The sequence: a successor differs from its predecessor in the low half.

LEMMA Remainder ==
    ASSUME NEW n \in Nat, n > 0, NEW q \in Int, NEW r \in 0 .. n - 1, NEW x \in Int, x = n * q + r
    PROVE  x % n = r
  OBVIOUS

LEMMA SequenceType ==
    ASSUME MailboxConstants, NEW n \in Nat PROVE Sequence(n) \in Sequences
<1>1. Half \in Nat /\ Half > 1
  BY DEF MailboxConstants
<1>2. n % Half \in 0 .. Half - 1 /\ (n \div Half) \in Nat
  BY <1>1
<1>3. (n \div Half) % Half \in 0 .. Half - 1
  BY <1>1, <1>2
<1> QED BY <1>2, <1>3 DEF Sequence, Sequences, Halves

LEMMA SuccessorDiffers ==
    ASSUME MailboxConstants, NEW s \in Sequences
    PROVE  Successor(s) \in Sequences /\ Successor(s).lo # s.lo
<1>1. Half \in Nat /\ Half > 1
  BY DEF MailboxConstants
<1>2. PICK lo \in 0 .. Half - 1, hi \in 0 .. Half - 1 : lo = s.lo /\ hi = s.hi
  BY DEF Sequences, Halves
<1>3. PICK n \in Nat : n = hi * Half + lo + 1 /\ n = Half * hi + (lo + 1)
  <2>1. hi * Half \in Nat /\ hi * Half = Half * hi
    BY <1>1
  <2> QED BY <1>1, <2>1
<1>4. Successor(s) = Sequence(n)
  BY <1>2, <1>3 DEF Successor
<1>5. n % Half # lo
  <2>1. CASE lo + 1 < Half
    <3>1. lo + 1 \in 0 .. Half - 1
      BY <1>1, <2>1
    <3>2. n % Half = lo + 1
      BY <1>1, <1>3, <3>1, Remainder
    <3> QED BY <1>1, <3>2
  <2>2. CASE lo + 1 = Half
    <3>1. PICK q \in Int : q = hi + 1
      BY <1>1
    <3>2. n = Half * q + 0
      BY <1>1, <1>3, <2>2, <3>1
    <3>3. n % Half = 0
      BY <1>1, <3>2, Remainder
    <3> QED BY <1>1, <2>2, <3>3
  <2> QED BY <1>1, <2>1, <2>2
<1>6. Successor(s).lo = n % Half
  BY <1>4 DEF Sequence
<1> QED BY <1>2, <1>4, <1>5, <1>6, SequenceType

LEMMA SequenceEqual ==
    ASSUME NEW s \in Sequences, NEW t \in Sequences, s.lo = t.lo, s.hi = t.hi PROVE s = t
  BY DEF Sequences

-----------------------------------------------------------------------------
LEMMA InitIInv == ASSUME MailboxConstants, Init PROVE IInv
<1>1. PICK s \in Nat :
        mb = [host_sequence |-> Sequence(s), processed |-> Sequence(s), command |-> "NOW",
              status |-> "IDLE", result |-> None, arguments |-> None, output |-> None]
  BY DEF Init
<1>2. Sequence(s) \in Sequences /\ Sequence(0) \in Sequences
  BY SequenceType
<1>3. mb \in Boxes
  BY <1>1, <1>2 DEF Boxes, Kinds, Statuses, None
<1>4. sfc \in Sfcs /\ modem \in Modems /\ sfc.pc = "idle" /\ modem.prbs = None
  BY DEF Init, Sfcs, SfcStates, Kinds, None, Modems, Drivers, Statuses
<1>5. host \in Hosts /\ host.pc = "idle" /\ host.outcome = "none" /\ host.call = 0
      /\ host.candidate = {}
  BY <1>2 DEF Init, Hosts, HostStates, Kinds, Outcomes, None
<1>6. payload = {} /\ executed = <<>> /\ aborted = 0
  BY DEF Init
<1>7. Types
  BY <1>3, <1>4, <1>5, <1>6 DEF Types
<1>8. mb.arguments = 0 /\ mb.processed = mb.host_sequence /\ mb.status = "IDLE"
      /\ Len(executed) = 0
  BY <1>1, <1>6 DEF None
<1>9. Ordered
  BY <1>5, <1>6, <1>8 DEF Ordered
<1>10. Noticed
  BY <1>4, <1>8 DEF Noticed
<1>11. Own
  BY <1>4, <1>5, <1>6, <1>8 DEF Own, Resting
<1> QED BY <1>7, <1>9, <1>10, <1>11 DEF IInv

-----------------------------------------------------------------------------
\* What a step of the SFC does to a call: a resting SFC rests, a call under way
\* stays under way, and what is committed or complete stays so.
Stages ==
    /\ Resting => Resting' /\ mb'.processed = mb.processed /\ executed' = executed
    /\ (Delivered \/ Answering) => (Delivered \/ Answering \/ Taken)'
    /\ Taken => Taken'
    /\ (Taken /\ mb.processed = host.sequence) => mb'.processed = host.sequence
    /\ Decided => Final(mb)' /\ mb'.status = mb.status
    /\ Complete => /\ Finished' /\ mb'.output = mb.output /\ mb'.result = mb.result

HostStill == host' = host /\ payload' = payload /\ aborted' = aborted

LEMMA SfcKeepsOwn ==
    ASSUME Own, HostStill, Stages
    PROVE  Own'
<1>1. host' = host /\ payload' = payload /\ aborted' = aborted
  BY DEF HostStill
<1>2. SUFFICES ASSUME aborted = 0
               PROVE  /\ host.pc \in {"idle", "send"} => Resting' /\ payload = {}
                      /\ host.pc \in {"idle", "send", "output"} => host.candidate = {}
                      /\ host.pc = "send" => host.sequence = Successor(mb.processed)'
                      /\ host.pc \in {"poll", "reading"} => Under'
                      /\ (host.pc = "poll" /\ host.candidate # {}) => Decided'
                      /\ (host.pc = "reading" /\ host.candidate # {}) => Complete'
                      /\ host.pc \in {"send", "poll", "reading"} => host.output = {}
                      /\ host.pc = "reading" => \A old \in host.view : ViewTrue(old)'
                      /\ host.pc = "output" =>
                            /\ Complete' /\ mb'.status = "PASSED" /\ host.result = ResultOf(TRUE)
                            /\ host.output \in {{}, {mb'.output}}
                      /\ host.outcome \in {"ok", "error"} => host.pc = "idle" /\ AnswerIsOwn'
  BY <1>1 DEF Own, ResultOf
<1>3. (Complete => Complete') /\ (Decided => Decided' /\ mb'.status = mb.status)
      /\ (Complete => Decided)
  BY <1>1 DEF Stages, Complete, Decided, Finished
<1>4. host.pc \in {"idle", "send", "output"} => host.candidate = {}
  BY <1>2 DEF Own
<1>5. host.pc \in {"idle", "send"} => Resting' /\ payload = {}
  BY <1>2 DEF Own, Stages
<1>6. host.pc = "send" => host.sequence = Successor(mb.processed)'
  BY <1>2 DEF Own, Stages, Successor
<1>7. host.pc \in {"poll", "reading"} => Under'
  <2>1. Sent => Sent'
    BY <1>1 DEF Stages, Sent, Successor
  <2> QED BY <1>2, <2>1 DEF Own, Under, Stages
<1>8. host.pc = "reading" => \A old \in host.view : ViewTrue(old)'
  <2>1. SUFFICES ASSUME host.pc = "reading", NEW old \in host.view PROVE ViewTrue(old)'
    OBVIOUS
  <2>2. ViewTrue(old)
    BY <1>2, <2>1 DEF Own
  <2>3. old.processed = host.sequence => Taken' /\ mb'.processed = host.sequence
    BY <2>2 DEF ViewTrue, Stages
  <2>4. (old.processed = host.sequence /\ Final(old)) => Decided' /\ old.status = mb'.status
    BY <1>3, <2>2 DEF ViewTrue
  <2>5. (old.processed = host.sequence /\ Final(old) /\ host.candidate # {}) =>
          old.result = ResultOf(old.status = "PASSED")
    BY <2>2 DEF ViewTrue, HasResult
  <2> QED BY <1>1, <2>3, <2>4, <2>5 DEF ViewTrue, HasResult, ResultOf, Final
<1>9. host.pc = "output" => /\ Complete' /\ mb'.status = "PASSED" /\ host.result = ResultOf(TRUE)
                            /\ host.output \in {{}, {mb'.output}}
  BY <1>2, <1>3 DEF Own, Stages
<1>10. host.outcome \in {"ok", "error"} => host.pc = "idle" /\ AnswerIsOwn'
  BY <1>1, <1>2 DEF Own, Stages, AnswerIsOwn, ResultOf
<1>11. host.pc \in {"send", "poll", "reading"} => host.output = {}
  BY <1>2 DEF Own
<1>12. /\ (host.pc = "poll" /\ host.candidate # {}) => Decided'
       /\ (host.pc = "reading" /\ host.candidate # {}) => Complete'
  BY <1>2, <1>3 DEF Own
<1> QED BY <1>4, <1>5, <1>6, <1>7, <1>8, <1>9, <1>10, <1>11, <1>12

-----------------------------------------------------------------------------
\* The steps of the SFC, one by one.

\* The mailbox, its reader and the modem after a step that leaves the calls alone.
LEMMA OrderStays ==
    ASSUME Ordered, HostStill, executed' = executed, mb'.arguments = mb.arguments
    PROVE  Ordered'
  BY DEF Ordered, HostStill

LEMMA TypesStay ==
    ASSUME Types, HostStill, executed' \in Seq(Nat),
           mb' \in Boxes, sfc' \in Sfcs, modem' \in Modems
    PROVE  Types'
  BY DEF Types, HostStill

\* Go(pc) only moves on.
LEMMA GoType ==
    ASSUME Types, NEW pc \in SfcStates
    PROVE  /\ Go(pc) \in Sfcs /\ Go(pc).pc = pc /\ Go(pc).kind = sfc.kind
           /\ Go(pc).call = sfc.call
<1>1. sfc \in Sfcs
  BY Fields
<1> QED BY <1>1 DEF Go, Sfcs

LEMMA PollQuickTestSteps == ASSUME IInv, PollQuickTest PROVE IInv'
<1>1. Types /\ Ordered /\ Noticed /\ Own
  BY DEF IInv
<1>2. mb \in Boxes /\ sfc \in Sfcs /\ modem \in Modems /\ executed \in Seq(Nat)
  BY <1>1, Fields
<1>3. PICK s \in {"PASSED", "FAILED"} :
        /\ mb' = [mb EXCEPT !.status = s]
        /\ sfc' = IF s = "PASSED" THEN sfc ELSE Go("quickResult")
  BY DEF PollQuickTest, SfcStep
<1>4. /\ sfc.pc = "idle" /\ mb.status = "RUNNING" /\ mb.command = "QUICK_TEST"
      /\ modem' = modem /\ executed' = executed /\ HostStill
  BY DEF PollQuickTest, SfcStep, HostStill
<1>5. /\ mb' \in Boxes /\ mb'.status = s /\ mb'.host_sequence = mb.host_sequence
      /\ mb'.processed = mb.processed /\ mb'.command = mb.command
      /\ mb'.arguments = mb.arguments /\ mb'.output = mb.output /\ mb'.result = mb.result
  BY <1>2, <1>3 DEF Boxes, Statuses
<1>6. /\ sfc' \in Sfcs /\ sfc'.call = sfc.call
      /\ sfc'.pc = IF s = "PASSED" THEN "idle" ELSE "quickResult"
  BY <1>1, <1>2, <1>3, <1>4, GoType DEF SfcStates
<1>7. Types' /\ Ordered'
  BY <1>1, <1>2, <1>4, <1>5, <1>6, TypesStay, OrderStays
<1>8. Noticed'
  BY <1>1, <1>4, <1>5, <1>6 DEF Noticed, Fresh
<1>9. Stages
  BY <1>3, <1>4, <1>5, <1>6
     DEF Stages, HostStill, Resting, Delivered, Answering, Taken, Complete, Mine, Ahead,
         IsLast, Finished, Showing, Running, Final, HasResult, ResultOf, Decided
<1> QED BY <1>1, <1>4, <1>7, <1>8, <1>9, SfcKeepsOwn DEF IInv

\* The result follows the status it belongs to.
LEMMA QuickResultSteps == ASSUME IInv, QuickResult PROVE IInv'
<1>1. Types /\ Ordered /\ Noticed /\ Own
  BY DEF IInv
<1>2. mb \in Boxes /\ sfc \in Sfcs /\ modem \in Modems /\ executed \in Seq(Nat)
      /\ sfc.call \in Nat
  BY <1>1, Fields
<1>3. /\ sfc.pc = "quickResult" /\ sfc' = Go("idle") /\ modem' = modem
      /\ executed' = executed /\ HostStill /\ mb' = [mb EXCEPT !.result = sfc.call]
  BY DEF QuickResult, SfcStep, HostStill
<1>4. /\ mb' \in Boxes /\ mb'.status = mb.status /\ mb'.host_sequence = mb.host_sequence
      /\ mb'.processed = mb.processed /\ mb'.command = mb.command
      /\ mb'.arguments = mb.arguments /\ mb'.output = mb.output /\ mb'.result = sfc.call
  BY <1>2, <1>3 DEF Boxes
<1>5. sfc' \in Sfcs /\ sfc'.pc = "idle" /\ sfc'.call = sfc.call
  BY <1>1, <1>3, GoType DEF SfcStates
<1>6. Types' /\ Ordered'
  BY <1>1, <1>2, <1>3, <1>4, <1>5, TypesStay, OrderStays
<1>7. Noticed'
  BY <1>1, <1>3, <1>4, <1>5 DEF Noticed, Fresh
<1>8. Stages
  BY <1>3, <1>4, <1>5
     DEF Stages, HostStill, Resting, Delivered, Answering, Taken, Complete, Mine, Ahead,
         IsLast, Finished, Showing, Running, Final, HasResult, ResultOf, Decided
<1> QED BY <1>1, <1>3, <1>6, <1>7, <1>8, SfcKeepsOwn DEF IInv

LEMMA PollAtTransactionSteps == ASSUME IInv, PollAtTransaction PROVE IInv'
<1>1. Types /\ Ordered /\ Noticed /\ Own
  BY DEF IInv
<1>2. mb \in Boxes /\ sfc \in Sfcs /\ modem \in Modems /\ executed \in Seq(Nat)
      /\ modem.at_call \in Nat
  BY <1>1, Fields
<1>3. /\ sfc.pc = "idle" /\ mb.status = "RUNNING" /\ mb.command = "AT_TRANSACTION"
      /\ AtFinished /\ sfc' = Go("atStatus") /\ modem' = modem /\ executed' = executed
      /\ HostStill /\ mb' = [mb EXCEPT !.result = modem.at_call]
  BY DEF PollAtTransaction, SfcStep, HostStill
<1>4. /\ mb' \in Boxes /\ mb'.status = mb.status /\ mb'.host_sequence = mb.host_sequence
      /\ mb'.processed = mb.processed /\ mb'.command = mb.command
      /\ mb'.arguments = mb.arguments /\ mb'.output = mb.output
      /\ mb'.result = modem.at_call
  BY <1>2, <1>3 DEF Boxes
<1>5. sfc' \in Sfcs /\ sfc'.pc = "atStatus" /\ sfc'.call = sfc.call
  BY <1>1, <1>3, GoType DEF SfcStates
<1>6. Types' /\ Ordered'
  BY <1>1, <1>2, <1>3, <1>4, <1>5, TypesStay, OrderStays
<1>7. Noticed'
  BY <1>1, <1>3, <1>4, <1>5 DEF Noticed, Fresh
<1>8. AtFinished'
  BY <1>3 DEF AtFinished
<1>9. Stages
  BY <1>3, <1>4, <1>5, <1>8
     DEF Stages, HostStill, Resting, Delivered, Answering, Taken, Complete, Mine, Ahead,
         IsLast, Finished, Showing, Running, Final, HasResult, ResultOf, Decided
<1> QED BY <1>1, <1>3, <1>6, <1>7, <1>9, SfcKeepsOwn DEF IInv

LEMMA AtStatusSteps == ASSUME IInv, AtStatus PROVE IInv'
<1>1. Types /\ Ordered /\ Noticed /\ Own
  BY DEF IInv
<1>2. mb \in Boxes /\ sfc \in Sfcs /\ modem \in Modems /\ executed \in Seq(Nat)
      /\ modem.at \in Statuses
  BY <1>1, Fields
<1>3. /\ sfc.pc = "atStatus" /\ sfc' = Go("idle") /\ modem' = modem /\ executed' = executed
      /\ HostStill /\ mb' = [mb EXCEPT !.status = modem.at]
  BY DEF AtStatus, SfcStep, HostStill
<1>4. /\ mb' \in Boxes /\ mb'.status = modem.at /\ mb'.host_sequence = mb.host_sequence
      /\ mb'.processed = mb.processed /\ mb'.command = mb.command
      /\ mb'.arguments = mb.arguments /\ mb'.output = mb.output /\ mb'.result = mb.result
  BY <1>2, <1>3 DEF Boxes
<1>5. sfc' \in Sfcs /\ sfc'.pc = "idle" /\ sfc'.call = sfc.call
  BY <1>1, <1>3, GoType DEF SfcStates
<1>6. Types' /\ Ordered'
  BY <1>1, <1>2, <1>3, <1>4, <1>5, TypesStay, OrderStays
<1>7. Noticed'
  BY <1>1, <1>3, <1>4, <1>5 DEF Noticed, Fresh
<1>8. Stages
  BY <1>3, <1>4, <1>5
     DEF Stages, HostStill, Resting, Delivered, Answering, Taken, Complete, Mine, Ahead,
         IsLast, Finished, Showing, Running, Final, HasResult, ResultOf, Decided, AtFinished
<1> QED BY <1>1, <1>3, <1>6, <1>7, <1>8, SfcKeepsOwn DEF IInv

\* The comparison sees a call that lies in the mailbox, and no other.
LEMMA CompareSteps == ASSUME IInv, CompareLow \/ CompareHigh PROVE IInv'
<1>1. Types /\ Ordered /\ Noticed /\ Own
  BY DEF IInv
<1>2. mb \in Boxes /\ sfc \in Sfcs /\ modem \in Modems /\ executed \in Seq(Nat)
  BY <1>1, Fields
<1>3. /\ sfc.pc \in {"idle", "high"} /\ mb' = mb /\ modem' = modem /\ executed' = executed
      /\ HostStill
  BY DEF CompareLow, CompareHigh, SfcStep, HostStill
<1>4. PICK pc \in {"new", "high", "idle"} :
        /\ sfc' = Go(pc)
        /\ pc = "new" => mb.host_sequence # mb.processed
        /\ (sfc.pc = "idle" /\ pc # "new") => mb.host_sequence.lo = mb.processed.lo
        /\ sfc.pc = "high" => pc # "high"
        /\ sfc.pc = "idle" => pc # "idle"
  <2>1. CASE CompareLow
    <3>1. CASE mb.host_sequence.lo # mb.processed.lo
      BY <2>1, <3>1 DEF CompareLow, SfcStep
    <3>2. CASE mb.host_sequence.lo = mb.processed.lo
      BY <2>1, <3>2 DEF CompareLow, SfcStep
    <3> QED BY <3>1, <3>2
  <2>2. CASE CompareHigh
    <3>1. CASE mb.host_sequence.hi # mb.processed.hi
      BY <2>2, <3>1 DEF CompareHigh, SfcStep
    <3>2. CASE mb.host_sequence.hi = mb.processed.hi
      BY <2>2, <3>2 DEF CompareHigh, SfcStep
    <3> QED BY <3>1, <3>2
  <2> QED BY <2>1, <2>2
<1>5. sfc' \in Sfcs /\ sfc'.pc = pc /\ sfc'.call = sfc.call
  BY <1>1, <1>4, GoType DEF SfcStates
<1>6. Types' /\ Ordered'
  BY <1>1, <1>2, <1>3, <1>5, TypesStay, OrderStays
<1>7. Noticed'
  BY <1>1, <1>3, <1>4, <1>5 DEF Noticed, Fresh
<1>8. Stages
  BY <1>3, <1>4, <1>5
     DEF Stages, HostStill, Resting, Delivered, Answering, Taken, Complete, Mine, Ahead,
         IsLast, Finished, Showing, Running, Final, HasResult, ResultOf, Decided
<1> QED BY <1>1, <1>3, <1>6, <1>7, <1>8, SfcKeepsOwn DEF IInv

LEMMA NewCommandSteps == ASSUME IInv, NewCommand PROVE IInv'
<1>1. Types /\ Ordered /\ Noticed /\ Own
  BY DEF IInv
<1>2. mb \in Boxes /\ sfc \in Sfcs /\ modem \in Modems /\ executed \in Seq(Nat)
  BY <1>1, Fields
<1>3. /\ sfc.pc = "new" /\ sfc' = Go("dispatch") /\ modem' = modem /\ executed' = executed
      /\ HostStill /\ mb' = [mb EXCEPT !.status = "RUNNING", !.result = None]
  BY DEF NewCommand, SfcStep, HostStill
<1>4. /\ mb' \in Boxes /\ mb'.status = "RUNNING" /\ mb'.host_sequence = mb.host_sequence
      /\ mb'.processed = mb.processed /\ mb'.command = mb.command
      /\ mb'.arguments = mb.arguments /\ mb'.output = mb.output /\ mb'.result = None
  BY <1>2, <1>3 DEF Boxes, Statuses, None
<1>5. sfc' \in Sfcs /\ sfc'.pc = "dispatch" /\ sfc'.call = sfc.call
  BY <1>1, <1>3, GoType DEF SfcStates
<1>6. Types' /\ Ordered'
  BY <1>1, <1>2, <1>3, <1>4, <1>5, TypesStay, OrderStays
<1>7. Noticed'
  BY <1>1, <1>3, <1>4, <1>5 DEF Noticed, Fresh
<1>8. Stages
  BY <1>3, <1>4, <1>5
     DEF Stages, HostStill, Resting, Delivered, Answering, Taken, Complete, Mine, Ahead,
         IsLast, Finished, Showing, Running, Final, HasResult, ResultOf, Decided
<1> QED BY <1>1, <1>3, <1>6, <1>7, <1>8, SfcKeepsOwn DEF IInv

LEMMA StoreResultSteps == ASSUME IInv, StoreResult \/ StoreError PROVE IInv'
<1>1. Types /\ Ordered /\ Noticed /\ Own
  BY DEF IInv
<1>2. mb \in Boxes /\ sfc \in Sfcs /\ modem \in Modems /\ executed \in Seq(Nat)
      /\ sfc.call \in Nat
  BY <1>1, Fields
<1>3. PICK pc \in {"passed", "refused", "commitLow"} :
        /\ sfc.pc \in {"result", "error"} /\ sfc' = Go(pc)
        /\ pc = "commitLow" <=> sfc.pc = "error"
        /\ sfc.pc = "result" => (pc = "passed" <=> sfc.kind = "BINARY_RECEIVE")
  BY DEF StoreResult, StoreError, SfcStep
<1>4. /\ modem' = modem /\ executed' = executed /\ HostStill
      /\ mb' = [mb EXCEPT !.result = sfc.call]
  BY DEF StoreResult, StoreError, SfcStep, HostStill
<1>5. /\ mb' \in Boxes /\ mb'.status = mb.status /\ mb'.host_sequence = mb.host_sequence
      /\ mb'.processed = mb.processed /\ mb'.command = mb.command
      /\ mb'.arguments = mb.arguments /\ mb'.output = mb.output /\ mb'.result = sfc.call
  BY <1>2, <1>4 DEF Boxes
<1>6. sfc' \in Sfcs /\ sfc'.pc = pc /\ sfc'.kind = sfc.kind /\ sfc'.call = sfc.call
  BY <1>1, <1>3, GoType DEF SfcStates
<1>7. Types' /\ Ordered'
  BY <1>1, <1>2, <1>4, <1>5, <1>6, TypesStay, OrderStays
<1>8. Noticed'
  BY <1>3, <1>6 DEF Noticed
<1>9. Stages
  BY <1>3, <1>4, <1>5, <1>6
     DEF Stages, HostStill, Resting, Delivered, Answering, Taken, Complete, Mine, Ahead,
         IsLast, Finished, Showing, Running, Final, HasResult, ResultOf, Decided
<1> QED BY <1>1, <1>4, <1>7, <1>8, <1>9, SfcKeepsOwn DEF IInv

LEMMA StoreStatusSteps == ASSUME IInv, StoreStatus \/ StoreFailed PROVE IInv'
<1>1. Types /\ Ordered /\ Noticed /\ Own
  BY DEF IInv
<1>2. mb \in Boxes /\ sfc \in Sfcs /\ modem \in Modems /\ executed \in Seq(Nat)
  BY <1>1, Fields
<1>3. PICK s \in {"PASSED", "FAILED"}, pc \in {"commitLow", "error"} :
        /\ sfc.pc \in {"passed", "refused", "failed"}
        /\ mb' = [mb EXCEPT !.status = s] /\ sfc' = Go(pc)
        /\ s = "PASSED" <=> sfc.pc = "passed"
        /\ pc = "error" <=> sfc.pc = "failed"
  BY DEF StoreStatus, StoreFailed, SfcStep
<1>4. modem' = modem /\ executed' = executed /\ HostStill
  BY DEF StoreStatus, StoreFailed, SfcStep, HostStill
<1>5. /\ mb' \in Boxes /\ mb'.status = s /\ mb'.host_sequence = mb.host_sequence
      /\ mb'.processed = mb.processed /\ mb'.command = mb.command
      /\ mb'.arguments = mb.arguments /\ mb'.output = mb.output /\ mb'.result = mb.result
  BY <1>2, <1>3 DEF Boxes, Statuses
<1>6. sfc' \in Sfcs /\ sfc'.pc = pc /\ sfc'.kind = sfc.kind /\ sfc'.call = sfc.call
  BY <1>1, <1>3, GoType DEF SfcStates
<1>7. Types' /\ Ordered'
  BY <1>1, <1>2, <1>4, <1>5, <1>6, TypesStay, OrderStays
<1>8. Noticed'
  BY <1>6 DEF Noticed
<1>9. Stages
  BY <1>3, <1>4, <1>5, <1>6
     DEF Stages, HostStill, Resting, Delivered, Answering, Taken, Complete, Mine, Ahead,
         IsLast, Finished, Showing, Running, Final, HasResult, ResultOf, Decided
<1> QED BY <1>1, <1>4, <1>7, <1>8, <1>9, SfcKeepsOwn DEF IInv

LEMMA CommitLowSteps == ASSUME IInv, CommitLow PROVE IInv'
<1>1. Types /\ Ordered /\ Noticed /\ Own
  BY DEF IInv
<1>2. mb \in Boxes /\ sfc \in Sfcs /\ modem \in Modems /\ executed \in Seq(Nat)
      /\ mb.processed \in Sequences /\ mb.host_sequence \in Sequences
  BY <1>1, Fields
<1>3. PICK p : p = [mb.processed EXCEPT !.lo = mb.host_sequence.lo]
  OBVIOUS
<1>4. p \in Sequences /\ p.lo = mb.host_sequence.lo
  BY <1>2, <1>3 DEF Sequences
<1>5. /\ sfc.pc = "commitLow" /\ sfc' = Go("commitHigh") /\ modem' = modem
      /\ executed' = executed /\ HostStill /\ mb' = [mb EXCEPT !.processed = p]
  BY <1>2, <1>3 DEF CommitLow, SfcStep, HostStill, Boxes
<1>6. /\ mb' \in Boxes /\ mb'.status = mb.status /\ mb'.host_sequence = mb.host_sequence
      /\ mb'.processed = p /\ mb'.command = mb.command
      /\ mb'.arguments = mb.arguments /\ mb'.output = mb.output /\ mb'.result = mb.result
  BY <1>2, <1>4, <1>5 DEF Boxes
<1>7. sfc' \in Sfcs /\ sfc'.pc = "commitHigh" /\ sfc'.call = sfc.call
  BY <1>1, <1>5, GoType DEF SfcStates
<1>8. Types' /\ Ordered'
  BY <1>1, <1>2, <1>5, <1>6, <1>7, TypesStay, OrderStays
<1>9. Noticed'
  BY <1>4, <1>6, <1>7 DEF Noticed
<1>10. Stages
  BY <1>4, <1>5, <1>6, <1>7
     DEF Stages, HostStill, Resting, Delivered, Answering, Taken, Complete, Mine, Ahead,
         IsLast, Finished, Showing, Running, Final, HasResult, ResultOf, Decided
<1> QED BY <1>1, <1>5, <1>8, <1>9, <1>10, SfcKeepsOwn DEF IInv

LEMMA CommitHighSteps == ASSUME IInv, CommitHigh PROVE IInv'
<1>1. Types /\ Ordered /\ Noticed /\ Own
  BY DEF IInv
<1>2. mb \in Boxes /\ sfc \in Sfcs /\ modem \in Modems /\ executed \in Seq(Nat)
      /\ mb.processed \in Sequences /\ mb.host_sequence \in Sequences
  BY <1>1, Fields
<1>3. PICK p : p = [mb.processed EXCEPT !.hi = mb.host_sequence.hi]
  OBVIOUS
<1>4. p \in Sequences /\ p.lo = mb.processed.lo /\ p.hi = mb.host_sequence.hi
  BY <1>2, <1>3 DEF Sequences
<1>5. mb.processed.lo = mb.host_sequence.lo => p = mb.host_sequence
  BY <1>2, <1>4, SequenceEqual
<1>6. /\ sfc.pc = "commitHigh" /\ sfc' = Go("idle") /\ modem' = modem
      /\ executed' = executed /\ HostStill /\ mb' = [mb EXCEPT !.processed = p]
  BY <1>2, <1>3 DEF CommitHigh, SfcStep, HostStill, Boxes
<1>7. /\ mb' \in Boxes /\ mb'.status = mb.status /\ mb'.host_sequence = mb.host_sequence
      /\ mb'.processed = p /\ mb'.command = mb.command
      /\ mb'.arguments = mb.arguments /\ mb'.output = mb.output /\ mb'.result = mb.result
  BY <1>2, <1>4, <1>6 DEF Boxes
<1>8. sfc' \in Sfcs /\ sfc'.pc = "idle" /\ sfc'.call = sfc.call
  BY <1>1, <1>6, GoType DEF SfcStates
<1>9. Types' /\ Ordered'
  BY <1>1, <1>2, <1>6, <1>7, <1>8, TypesStay, OrderStays
<1>10. Noticed'
  BY <1>1, <1>5, <1>6, <1>7, <1>8 DEF Noticed, Fresh
<1>11. Stages
  BY <1>4, <1>5, <1>6, <1>7, <1>8
     DEF Stages, HostStill, Resting, Delivered, Answering, Taken, Complete, Mine, Ahead,
         IsLast, Finished, Showing, Running, Final, HasResult, ResultOf, Decided
<1> QED BY <1>1, <1>6, <1>9, <1>10, <1>11, SfcKeepsOwn DEF IInv

\* The modem's session ends; the mailbox is not touched.
LEMMA SessionSteps == ASSUME IInv, SessionNext \/ NoCarrier PROVE IInv'
<1>1. Types /\ Ordered /\ Noticed /\ Own
  BY DEF IInv
<1>2. mb \in Boxes /\ sfc \in Sfcs /\ modem \in Modems /\ executed \in Seq(Nat)
  BY <1>1, Fields
<1>3. sfc.pc = "idle" /\ mb' = mb /\ sfc' = sfc /\ executed' = executed /\ HostStill
  BY DEF SessionNext, SessionEndsAt, SessionEndsProbe, NoCarrier, HostStill
<1>4. modem' \in Modems /\ modem'.prbs = modem.prbs /\ modem'.at_call = modem.at_call
  <2>1. CASE SessionEndsAt
    BY <1>2, <2>1 DEF SessionEndsAt, Modems, Drivers, Statuses
  <2>2. CASE SessionEndsProbe
    <3>1. PICK d \in {"READY", "ERROR"} : modem' = [modem EXCEPT !.driver = d]
      BY <2>2 DEF SessionEndsProbe
    <3> QED BY <1>2, <3>1 DEF Modems, Drivers
  <2>3. CASE NoCarrier
    BY <1>2, <2>3 DEF NoCarrier, Modems, Drivers
  <2> QED BY <2>1, <2>2, <2>3 DEF SessionNext
<1>5. Types' /\ Ordered'
  BY <1>1, <1>2, <1>3, <1>4, TypesStay, OrderStays
<1>6. Noticed'
  BY <1>1, <1>3 DEF Noticed, Fresh
<1>7. Stages
  BY <1>3, <1>4
     DEF Stages, HostStill, Resting, Delivered, Answering, Taken, Complete, Mine, Ahead,
         IsLast, Finished, Showing, Running, Final, HasResult, ResultOf, Decided
<1> QED BY <1>1, <1>3, <1>5, <1>6, <1>7, SfcKeepsOwn DEF IInv

LEMMA SpeedTestOutputSteps == ASSUME IInv, SpeedTestOutput PROVE IInv'
<1>1. Types /\ Ordered /\ Noticed /\ Own
  BY DEF IInv
<1>2. mb \in Boxes /\ sfc \in Sfcs /\ modem \in Modems /\ executed \in Seq(Nat)
      /\ modem.prbs \in Nat
  BY <1>1, Fields
<1>3. /\ sfc.pc = "idle" /\ modem.prbs # None /\ sfc' = Go("prbsStatus") /\ modem' = modem
      /\ executed' = executed /\ HostStill
  BY DEF SpeedTestOutput, SfcStep, HostStill
<1>a. PICK o \in Nat : /\ modem.driver = "CONNECTED" => o = modem.prbs
                       /\ mb' = [mb EXCEPT !.output = o, !.result = modem.prbs]
  <2>1. mb.output \in Nat
    BY <1>1, Fields
  <2>2. CASE modem.driver = "CONNECTED"
    BY <1>2, <2>2 DEF SpeedTestOutput, SfcStep
  <2>3. CASE modem.driver # "CONNECTED"
    <3>1. mb' = [mb EXCEPT !.output = mb.output, !.result = modem.prbs]
      BY <2>3 DEF SpeedTestOutput, SfcStep
    <3> QED BY <2>1, <2>3, <3>1
  <2> QED BY <2>2, <2>3
<1>4. /\ mb' \in Boxes /\ mb'.status = mb.status /\ mb'.host_sequence = mb.host_sequence
      /\ mb'.processed = mb.processed /\ mb'.command = mb.command
      /\ mb'.arguments = mb.arguments /\ mb'.output = o /\ mb'.result = modem.prbs
  BY <1>2, <1>a DEF Boxes
<1>5. sfc' \in Sfcs /\ sfc'.pc = "prbsStatus" /\ sfc'.call = sfc.call
  BY <1>1, <1>3, GoType DEF SfcStates
<1>6. Types' /\ Ordered'
  BY <1>1, <1>2, <1>3, <1>4, <1>5, TypesStay, OrderStays
<1>7. Noticed'
  BY <1>1, <1>3, <1>4, <1>5 DEF Noticed, Fresh
<1>8. Stages
  BY <1>3, <1>a, <1>4, <1>5
     DEF Stages, HostStill, Resting, Delivered, Answering, Taken, Complete, Mine, Ahead,
         IsLast, Finished, Showing, Running, Final, HasResult, ResultOf, Decided
<1> QED BY <1>1, <1>3, <1>6, <1>7, <1>8, SfcKeepsOwn DEF IInv

LEMMA SpeedTestStatusSteps == ASSUME IInv, SpeedTestStatus PROVE IInv'
<1>1. Types /\ Ordered /\ Noticed /\ Own
  BY DEF IInv
<1>2. mb \in Boxes /\ sfc \in Sfcs /\ modem \in Modems /\ executed \in Seq(Nat)
  BY <1>1, Fields
<1>3. PICK s \in {"PASSED", "FAILED"} :
        mb' = [mb EXCEPT !.status = s] /\ (s = "PASSED" => modem.driver = "CONNECTED")
  BY DEF SpeedTestStatus, SfcStep
<1>4. /\ sfc.pc = "prbsStatus" /\ sfc' = Go("idle") /\ modem' = [modem EXCEPT !.prbs = None]
      /\ executed' = executed /\ HostStill
  BY DEF SpeedTestStatus, SfcStep, HostStill
<1>5. /\ mb' \in Boxes /\ mb'.status = s /\ mb'.host_sequence = mb.host_sequence
      /\ mb'.processed = mb.processed /\ mb'.command = mb.command
      /\ mb'.arguments = mb.arguments /\ mb'.output = mb.output /\ mb'.result = mb.result
  BY <1>2, <1>3 DEF Boxes, Statuses
<1>6. sfc' \in Sfcs /\ sfc'.pc = "idle" /\ sfc'.call = sfc.call
  BY <1>1, <1>4, GoType DEF SfcStates
<1>7. modem' \in Modems /\ modem'.prbs = None
  BY <1>2, <1>4 DEF Modems, None
<1>8. Types' /\ Ordered'
  BY <1>1, <1>2, <1>4, <1>5, <1>6, <1>7, TypesStay, OrderStays
<1>9. Noticed'
  BY <1>1, <1>4, <1>5, <1>6 DEF Noticed, Fresh
<1>10. Stages
  BY <1>3, <1>4, <1>5, <1>6, <1>7
     DEF Stages, HostStill, Resting, Delivered, Answering, Taken, Complete, Mine, Ahead,
         IsLast, Finished, Showing, Running, Final, HasResult, ResultOf, Decided
<1> QED BY <1>1, <1>4, <1>8, <1>9, <1>10, SfcKeepsOwn DEF IInv

\* The one step that carries a call out: the newest, and each but once.
LEMMA DispatchSteps == ASSUME IInv, Dispatch PROVE IInv'
<1> DEFINE kind == mb.command
           call == mb.arguments
<1>1. Types /\ Ordered /\ Noticed /\ Own
  BY DEF IInv
<1>2. mb \in Boxes /\ sfc \in Sfcs /\ modem \in Modems /\ executed \in Seq(Nat)
      /\ kind \in Kinds /\ call \in Nat /\ Len(executed) \in Nat
      /\ \A i \in 1 .. Len(executed) : executed[i] \in Nat
  BY <1>1, Fields
<1>3. PICK way \in Ways(kind) :
        /\ mb' = IF kind = "BINARY_RECEIVE" /\ way = "result"
                 THEN [mb EXCEPT !.output = call] ELSE mb
        /\ sfc' = [pc |-> way, kind |-> kind, call |-> call]
        /\ modem' = CASE kind \in {"INITIALIZE", "QUICK_TEST"} ->
                           [modem EXCEPT !.driver = "PROBING", !.at = "IDLE"]
                      [] kind = "AT_TRANSACTION" /\ way = "commitLow" ->
                           [modem EXCEPT !.driver = "AT_COMMAND", !.at = "RUNNING",
                                         !.at_call = call]
                      [] kind = "PRBS" /\ way = "commitLow" -> [modem EXCEPT !.prbs = call]
                      [] OTHER -> modem
  BY DEF Dispatch, SfcStep
<1>a. sfc.pc = "dispatch" /\ executed' = Append(executed, call) /\ HostStill
  BY DEF Dispatch, SfcStep, HostStill
<1>b. /\ way \in {"passed", "result", "failed", "commitLow"}
      /\ way = "passed" => kind \in {"NOW", "INITIALIZE"}
      /\ way = "result" => kind \in {"NOW", "BINARY_RECEIVE"}
      /\ way = "commitLow" => kind \in {"AT_TRANSACTION", "QUICK_TEST", "PRBS"}
      /\ kind = "QUICK_TEST" => way = "commitLow"
  BY <1>2, <1>3 DEF Ways, CanStart, Kinds
<1>4. /\ executed' \in Seq(Nat) /\ Len(executed') = Len(executed) + 1
      /\ executed'[Len(executed) + 1] = call /\ executed' # <<>>
      /\ \A i \in 1 .. Len(executed) : executed'[i] = executed[i]
  BY <1>2, <1>a, AppendProperties
<1>5. Fresh
  BY <1>1, <1>a DEF Noticed
<1>6. /\ mb' \in Boxes /\ mb'.status = mb.status /\ mb'.host_sequence = mb.host_sequence
      /\ mb'.processed = mb.processed /\ mb'.command = kind /\ mb'.arguments = call
      /\ mb'.result = mb.result
      /\ (kind = "BINARY_RECEIVE" /\ way = "result") => mb'.output = call
  <2>1. CASE kind = "BINARY_RECEIVE" /\ way = "result"
    <3>1. mb' = [mb EXCEPT !.output = call]
      BY <1>3, <2>1
    <3> QED BY <1>2, <3>1 DEF Boxes
  <2>2. CASE ~(kind = "BINARY_RECEIVE" /\ way = "result")
    BY <1>2, <1>3, <2>2
  <2> QED BY <2>1, <2>2
<1>7. sfc' \in Sfcs /\ sfc'.pc = way /\ sfc'.kind = kind /\ sfc'.call = call
  BY <1>2, <1>3, <1>b DEF Sfcs, SfcStates
<1>8. /\ modem' \in Modems
      /\ (way = "commitLow" /\ kind = "AT_TRANSACTION") => modem'.at_call = call
      /\ modem'.prbs = IF way = "commitLow" /\ kind = "PRBS" THEN call ELSE modem.prbs
  <2>1. CASE kind \in {"INITIALIZE", "QUICK_TEST"}
    <3>1. modem' = [modem EXCEPT !.driver = "PROBING", !.at = "IDLE"]
      BY <1>3, <2>1
    <3> QED BY <1>2, <2>1, <3>1 DEF Modems, Drivers, Statuses
  <2>2. CASE kind = "AT_TRANSACTION" /\ way = "commitLow"
    <3>1. modem' = [modem EXCEPT !.driver = "AT_COMMAND", !.at = "RUNNING", !.at_call = call]
      BY <1>3, <2>2
    <3> QED BY <1>2, <2>2, <3>1 DEF Modems, Drivers, Statuses
  <2>3. CASE kind = "PRBS" /\ way = "commitLow"
    <3>1. modem' = [modem EXCEPT !.prbs = call]
      BY <1>3, <2>3
    <3> QED BY <1>2, <2>3, <3>1 DEF Modems
  <2>4. CASE /\ kind \notin {"INITIALIZE", "QUICK_TEST"}
             /\ ~(kind \in {"AT_TRANSACTION", "PRBS"} /\ way = "commitLow")
    <3>1. modem' = modem
      BY <1>3, <2>4
    <3> QED BY <1>2, <2>4, <3>1
  <2> QED BY <2>1, <2>2, <2>3, <2>4
<1>11. Types'
  BY <1>1, <1>4, <1>6, <1>7, <1>8, <1>a, TypesStay
<1>12. Ordered'
  <2>1. /\ \A i \in 1 .. Len(executed) : executed[i] < call
        /\ \A i, j \in 1 .. Len(executed) : i < j => executed[i] < executed[j]
        /\ mb.arguments <= host.call
        /\ \A w \in payload : mb.arguments < w.call /\ w.call <= host.call
        /\ host.pc = "send" => mb.arguments < host.call /\ \A w \in payload : w.call < host.call
    BY <1>1, <1>5 DEF Ordered, Fresh
  <2>2. \A i \in 1 .. Len(executed') : executed'[i] <= call
    <3>1. SUFFICES ASSUME NEW i \in 1 .. Len(executed) + 1 PROVE executed'[i] <= call
      BY <1>4
    <3>2. CASE i = Len(executed) + 1
      BY <1>2, <1>4, <3>2
    <3>3. CASE i # Len(executed) + 1
      <4>1. i \in 1 .. Len(executed)
        BY <1>2, <3>3
      <4> QED BY <1>2, <1>4, <2>1, <4>1
    <3> QED BY <3>2, <3>3
  <2>3. \A i, j \in 1 .. Len(executed') : i < j => executed'[i] < executed'[j]
    <3>1. SUFFICES ASSUME NEW i \in 1 .. Len(executed) + 1, NEW j \in 1 .. Len(executed) + 1,
                          i < j
                   PROVE  executed'[i] < executed'[j]
      BY <1>4
    <3>2. i \in 1 .. Len(executed)
      BY <1>2, <3>1
    <3>3. CASE j = Len(executed) + 1
      BY <1>4, <2>1, <3>2, <3>3
    <3>4. CASE j # Len(executed) + 1
      <4>1. j \in 1 .. Len(executed)
        BY <1>2, <3>4
      <4> QED BY <1>4, <2>1, <3>1, <3>2, <4>1
    <3> QED BY <3>3, <3>4
  <2> QED BY <1>6, <1>a, <2>1, <2>2, <2>3 DEF Ordered, HostStill
<1>13. Noticed'
  BY <1>7, <1>b DEF Noticed
<1>14. Stages
  <2>1. ~Resting /\ ~Answering /\ ~Taken
    BY <1>a DEF Resting, Answering, Taken
  <2>2. ASSUME Delivered PROVE (Answering \/ Taken)'
    <3>1. /\ payload = {} /\ call = host.call /\ kind = host.kind
          /\ mb.host_sequence = host.sequence /\ mb.processed.lo # mb.host_sequence.lo
          /\ modem.prbs = None /\ mb.status = "RUNNING" /\ mb.result = None
      BY <1>a, <2>2 DEF Delivered, Mine, Ahead
    <3>2. Mine' /\ Ahead' /\ IsLast'
      BY <1>4, <1>6, <1>a, <3>1 DEF Mine, Ahead, IsLast, HostStill
    <3>3. CASE way = "commitLow"
      <4>1. Running'
        BY <1>6, <1>7, <1>8, <1>a, <1>b, <3>1, <3>3 DEF Running, HostStill
      <4> QED BY <1>7, <3>2, <3>3, <4>1 DEF Taken
    <3>4. CASE way # "commitLow"
      BY <1>6, <1>7, <1>8, <1>a, <1>b, <3>1, <3>2, <3>4 DEF Answering, HostStill, ResultOf
    <3> QED BY <3>3, <3>4
  <2> QED BY <2>1, <2>2 DEF Stages, Complete, Decided
<1> QED BY <1>1, <1>11, <1>12, <1>13, <1>14, <1>a, SfcKeepsOwn DEF IInv

\* The NMI puts a newer call into a mailbox whose SFC rests.
LEMMA NmiSteps == ASSUME MailboxConstants, IInv, Nmi PROVE IInv'
<1>1. Types /\ Ordered /\ Noticed /\ Own
  BY DEF IInv
<1>2. mb \in Boxes /\ executed \in Seq(Nat) /\ payload \in SUBSET Writes
      /\ mb.arguments \in Nat /\ mb.processed \in Sequences /\ Len(executed) \in Nat
      /\ \A i \in 1 .. Len(executed) : executed[i] \in Nat
  BY <1>1, Fields
<1>3. host.call \in Nat /\ host.pc \in HostStates
  BY <1>1, HostFields
<1>4. /\ payload # {} /\ payload' = {} /\ sfc' = sfc /\ modem' = modem /\ host' = host
      /\ executed' = executed /\ aborted' = aborted
  BY DEF Nmi
<1>5. PICK w \in payload :
        mb' = [mb EXCEPT !.arguments = w.call, !.command = w.kind, !.host_sequence = w.sequence]
  BY DEF Nmi
<1>6. w.call \in Nat /\ w.kind \in Kinds /\ w.sequence \in Sequences
  BY <1>2, <1>5 DEF Writes
<1>7. /\ mb' \in Boxes /\ mb'.arguments = w.call /\ mb'.command = w.kind
      /\ mb'.host_sequence = w.sequence /\ mb'.processed = mb.processed
      /\ mb'.status = mb.status /\ mb'.result = mb.result /\ mb'.output = mb.output
  BY <1>2, <1>5, <1>6 DEF Boxes
<1>8. mb.arguments < w.call /\ w.call <= host.call
  BY <1>1, <1>5 DEF Ordered
<1>9. Types'
  BY <1>1, <1>4, <1>7 DEF Types
<1>10. \A i \in 1 .. Len(executed) : executed[i] < w.call
  BY <1>1, <1>2, <1>6, <1>8 DEF Ordered
<1>11. Noticed'
  BY <1>4, <1>7, <1>10 DEF Noticed, Fresh
<1>12. Own'
  <2>1. SUFFICES ASSUME aborted = 0 PROVE Own'
    BY <1>4 DEF Own
  <2>2. host.pc \notin {"idle", "send", "output"}
    BY <1>1, <1>4, <2>1 DEF Own, Complete, Taken, Mine
  <2>3. host.pc \in {"poll", "reading"} /\ ~Taken /\ ~Complete /\ ~Decided
    BY <1>3, <1>4, <2>2 DEF HostStates, Taken, Complete, Decided, Mine
  <2>a. host.candidate = {}
    BY <1>1, <2>1, <2>3 DEF Own
  <2>4. Sent
    BY <1>1, <1>4, <2>1, <2>3 DEF Own, Under, Delivered, Answering, Mine
  <2>5. w.call = host.call /\ w.kind = host.kind /\ w.sequence = host.sequence
    BY <1>5, <2>4 DEF Sent
  <2>6. w.sequence.lo # mb.processed.lo
    BY <1>2, <2>4, <2>5, SuccessorDiffers DEF Sent
  <2>7. Delivered'
    BY <1>4, <1>7, <2>4, <2>5, <2>6 DEF Delivered, Mine, Ahead, Sent, Resting
  <2>8. \A old \in host.view : host.pc = "reading" => old.processed # host.sequence
    BY <1>1, <2>1, <2>3 DEF Own, ViewTrue
  <2>9. host.pc = "reading" => \A old \in host.view : ViewTrue(old)'
    BY <1>4, <2>8 DEF ViewTrue
  <2>10. host.outcome \notin {"ok", "error"}
    BY <1>1, <2>1, <2>2 DEF Own
  <2>11. host.output = {}
    BY <1>1, <2>1, <2>3 DEF Own
  <2> QED BY <1>4, <2>2, <2>7, <2>9, <2>10, <2>11, <2>a DEF Own, Under
<1>13. Ordered'
  <2>1. \A i \in 1 .. Len(executed) : executed[i] <= w.call
    BY <1>2, <1>6, <1>10
  <2>2. host.pc = "send" => w.call < host.call
    BY <1>1, <1>5 DEF Ordered
  <2> QED BY <1>1, <1>4, <1>7, <1>8, <2>1, <2>2 DEF Ordered
<1> QED BY <1>9, <1>11, <1>12, <1>13 DEF IInv

-----------------------------------------------------------------------------
\* The steps of the host.

SfcStill == UNCHANGED <<mb, sfc, modem, executed>>

\* The stages depend on what the host sent, not on how far it has read.
SameCall ==
    /\ SfcStill /\ payload' = payload /\ host'.call = host.call
    /\ host'.kind = host.kind /\ host'.sequence = host.sequence

LEMMA StagesStay ==
    ASSUME SameCall
    PROVE  /\ Resting => Resting'
           /\ Under => Under'
           /\ Taken => Taken'
           /\ Decided => Decided'
           /\ Complete => Complete'
           /\ \A b : HasResult(b) => HasResult(b)'
<1>1. /\ mb' = mb /\ sfc' = sfc /\ modem' = modem /\ executed' = executed
      /\ payload' = payload /\ host'.call = host.call /\ host'.kind = host.kind
      /\ host'.sequence = host.sequence
  BY DEF SameCall, SfcStill
<1>2. Resting => Resting'
  BY <1>1 DEF Resting
<1>3. Mine => Mine'
  BY <1>1 DEF Mine
<1>4. (Ahead => Ahead') /\ (IsLast => IsLast')
  BY <1>1 DEF Ahead, IsLast
<1>5. \A b : HasResult(b) => HasResult(b)'
  BY <1>1 DEF HasResult, ResultOf
<1>6. (Finished => Finished') /\ (Showing => Showing')
  BY <1>1 DEF Finished, Showing, Final, HasResult, ResultOf
<1>7. Running => Running'
  BY <1>1 DEF Running, AtFinished
<1>8. Taken => Taken'
  BY <1>1, <1>3, <1>4, <1>6, <1>7 DEF Taken, Ahead
<1>9. (Complete => Complete') /\ (Decided => Decided')
  BY <1>1, <1>6, <1>8 DEF Complete, Decided, Final
<1>10. Under => Under'
  <2>1. Sent => Sent'
    BY <1>1, <1>2 DEF Sent, Successor
  <2>2. Delivered => Delivered'
    BY <1>1, <1>3, <1>4 DEF Delivered
  <2>3. Answering => Answering'
    BY <1>1, <1>3, <1>4 DEF Answering, ResultOf
  <2> QED BY <1>8, <2>1, <2>2, <2>3 DEF Under
<1> QED BY <1>2, <1>5, <1>8, <1>9, <1>10

LEMMA HostKeepsRest ==
    ASSUME Types, Noticed, SfcStill, payload' \in SUBSET Writes, aborted' \in Nat,
           host' \in Hosts
    PROVE  Types' /\ Noticed'
<1>1. mb' = mb /\ sfc' = sfc /\ modem' = modem /\ executed' = executed
  BY DEF SfcStill
<1>2. Types'
  BY <1>1 DEF Types
<1>3. Noticed'
  BY <1>1 DEF Noticed, Fresh
<1> QED BY <1>2, <1>3

\* A step that sends nothing leaves the order of the calls alone.
LEMMA OrderKept ==
    ASSUME Ordered, SameCall, host'.pc # "send"
    PROVE  Ordered'
  BY DEF Ordered, SameCall, SfcStill

LEMMA ReadInitialSteps == ASSUME MailboxConstants, IInv, ReadInitial PROVE IInv'
<1>1. Types /\ Ordered /\ Noticed /\ Own
  BY DEF IInv
<1>2. host \in Hosts /\ payload \in SUBSET Writes /\ mb.processed \in Sequences
      /\ mb.arguments \in Nat
  BY <1>1, Fields
<1>3. host.call \in Nat /\ aborted \in Nat
  BY <1>1, HostFields DEF Types
<1>4. PICK k \in Nat : k = host.call + 1
  BY <1>3
<1>5. PICK s \in Sequences : s = Successor(mb.processed)
  BY <1>2, SuccessorDiffers
<1>6. PICK kind \in Kinds :
        host' = [host EXCEPT !.pc = "send", !.call = k, !.kind = kind, !.sequence = s,
                             !.outcome = "none", !.result = None, !.output = {}]
  BY <1>4, <1>5 DEF ReadInitial, HostStep
<1>7. /\ host.pc = "idle" /\ SfcStill /\ payload' = payload /\ aborted' = aborted
  BY DEF ReadInitial, HostStep, SfcStill
<1>8. /\ host' \in Hosts /\ host'.pc = "send" /\ host'.call = k /\ host'.sequence = s
      /\ host'.outcome = "none" /\ host'.output = {} /\ host'.candidate = host.candidate
  BY <1>2, <1>6 DEF Hosts, HostStates, Outcomes, None
<1>9. Types' /\ Noticed'
  BY <1>1, <1>2, <1>3, <1>7, <1>8, HostKeepsRest
<1>10. \A w \in payload : w.call \in Nat
  BY <1>2 DEF Writes
<1>11. Ordered'
  <2>1. mb.arguments <= k /\ mb.arguments < k
    BY <1>1, <1>2, <1>3, <1>4 DEF Ordered
  <2>2. \A w \in payload : mb.arguments < w.call /\ w.call <= k /\ w.call < k
    BY <1>1, <1>3, <1>4, <1>10 DEF Ordered
  <2> QED BY <1>1, <1>7, <1>8, <2>1, <2>2 DEF Ordered, SfcStill
<1>12. Own'
  <2>1. aborted = 0 => Resting /\ payload = {} /\ host.candidate = {}
    BY <1>1, <1>7 DEF Own
  <2>2. Resting => Resting'
    BY <1>7 DEF Resting, SfcStill
  <2>3. s = Successor(mb.processed)'
    BY <1>5, <1>7 DEF SfcStill, Successor
  <2> QED BY <1>7, <1>8, <2>1, <2>2, <2>3 DEF Own
<1> QED BY <1>9, <1>11, <1>12 DEF IInv

LEMMA ExecuteAddressSteps == ASSUME IInv, ExecuteAddress PROVE IInv'
<1>1. Types /\ Ordered /\ Noticed /\ Own
  BY DEF IInv
<1>2. host \in Hosts /\ host.call \in Nat /\ host.kind \in Kinds
      /\ host.sequence \in Sequences /\ aborted \in Nat
  BY <1>1, HostFields DEF Types
<1> DEFINE write == [call |-> host.call, kind |-> host.kind, sequence |-> host.sequence]
<1>3. /\ host.pc = "send" /\ payload' = {write} /\ host' = [host EXCEPT !.pc = "poll"]
      /\ SfcStill /\ aborted' = aborted
  BY DEF ExecuteAddress, SfcStill
<1>4. write \in Writes /\ write.call = host.call
  BY <1>2 DEF Writes
<1>5. /\ host' \in Hosts /\ host'.pc = "poll" /\ host'.call = host.call
      /\ host'.kind = host.kind /\ host'.sequence = host.sequence
      /\ host'.outcome = host.outcome /\ host'.output = host.output
      /\ host'.candidate = host.candidate
  BY <1>2, <1>3 DEF Hosts, HostStates
<1>6. Types' /\ Noticed'
  BY <1>1, <1>2, <1>3, <1>4, <1>5, HostKeepsRest
<1>7. Ordered'
  <2>1. \A w \in payload' : mb.arguments < w.call /\ w.call <= host.call
    BY <1>1, <1>2, <1>3, <1>4 DEF Ordered
  <2> QED BY <1>1, <1>3, <1>5, <2>1 DEF Ordered, SfcStill
<1>8. Own'
  <2>1. SUFFICES ASSUME aborted = 0 PROVE Own'
    BY <1>3 DEF Own
  <2>2. Resting /\ host.sequence = Successor(mb.processed) /\ host.outcome \notin {"ok", "error"}
        /\ host.output = {} /\ host.candidate = {}
    BY <1>1, <1>3, <2>1 DEF Own
  <2>3. Sent'
    BY <1>3, <1>5, <2>2 DEF Sent, Resting, SfcStill, Successor
  <2> QED BY <1>5, <2>2, <2>3 DEF Own, Under
<1> QED BY <1>6, <1>7, <1>8 DEF IInv

\* A sequence that is found committed is that of a call the SFC has taken.
LEMMA CommittedIsTaken ==
    ASSUME MailboxConstants, Types, Under, mb.processed = host.sequence
    PROVE  /\ Taken /\ (Final(mb) => Decided)
           /\ (Final(mb) /\ sfc.pc # "quickResult") => Complete
<1>1. mb.processed \in Sequences
  BY Fields
<1>2. ~Sent
  BY <1>1, SuccessorDiffers DEF Sent
<1>3. ~Delivered /\ ~Answering
  BY DEF Delivered, Answering, Mine, Ahead
<1>4. Taken
  BY <1>2, <1>3 DEF Under
<1>5. (Final(mb) /\ sfc.pc # "quickResult") => Finished
  BY <1>4 DEF Taken, Showing, Running, Final
<1> QED BY <1>4, <1>5 DEF Complete, Decided

LEMMA ReadBeginSteps == ASSUME MailboxConstants, IInv, ReadBegin PROVE IInv'
<1>1. Types /\ Ordered /\ Noticed /\ Own
  BY DEF IInv
<1>2. host \in Hosts /\ mb \in Boxes /\ payload \in SUBSET Writes /\ aborted \in Nat
  BY <1>1, Fields DEF Types
<1>3. /\ host.pc = "poll" /\ host' = [host EXCEPT !.pc = "reading", !.view = {mb}]
      /\ SfcStill /\ payload' = payload /\ aborted' = aborted
      /\ host.candidate # {} => sfc.pc # "quickResult"
  BY DEF ReadBegin, HostStep, SfcStill
<1>4. /\ host' \in Hosts /\ host'.pc = "reading" /\ host'.view = {mb}
      /\ host'.call = host.call /\ host'.kind = host.kind
      /\ host'.sequence = host.sequence /\ host'.outcome = host.outcome
      /\ host'.output = host.output /\ host'.candidate = host.candidate
  BY <1>2, <1>3 DEF Hosts, HostStates
<1>5. SameCall
  BY <1>3, <1>4 DEF SameCall
<1>6. Types' /\ Noticed' /\ Ordered'
  BY <1>1, <1>2, <1>3, <1>4, <1>5, HostKeepsRest, OrderKept
<1>7. Own'
  <2>1. SUFFICES ASSUME aborted = 0 PROVE Own'
    BY <1>3 DEF Own
  <2>2. Under /\ host.outcome \notin {"ok", "error"} /\ host.output = {}
    BY <1>1, <1>3, <2>1 DEF Own
  <2>3. mb.processed = host.sequence => /\ Taken /\ (Final(mb) => Decided)
                                        /\ (Final(mb) /\ sfc.pc # "quickResult") => Complete
    BY <1>1, <2>2, CommittedIsTaken
  <2>4. Complete => HasResult(mb)
    BY DEF Complete, Finished
  <2>5. host.candidate # {} => Complete
    BY <1>1, <1>3, <2>1, <2>3 DEF Own, Decided
  <2>6. Under' /\ (Taken => Taken') /\ (Decided => Decided') /\ (Complete => Complete')
        /\ (HasResult(mb) => HasResult(mb)')
    BY <1>3, <1>5, <2>2, StagesStay DEF SfcStill
  <2>7. ViewTrue(mb)'
    BY <1>3, <1>4, <2>3, <2>4, <2>5, <2>6 DEF ViewTrue, SfcStill, Final
  <2>8. \A old \in host'.view : ViewTrue(old)'
    BY <1>3, <1>4, <2>7 DEF SfcStill
  <2> QED BY <1>4, <2>2, <2>5, <2>6, <2>8 DEF Own
<1> QED BY <1>6, <1>7 DEF IInv

\* However the read is torn, a view that completes the call shows its status, and its
\* result too where it is the second such view in a row.
LEMMA CompleteView ==
    ASSUME MailboxConstants, IInv, host.pc = "reading", aborted = 0,
           NEW old \in host.view, NEW view \in Torn(old, mb), Completes(view)
    PROVE  /\ Decided /\ view.status = mb.status
           /\ host.candidate # {} => Complete /\ HasResult(view)
<1>1. Types /\ Own
  BY DEF IInv
<1>2. Under /\ ViewTrue(old) /\ old \in Boxes /\ mb \in Boxes
      /\ (host.candidate # {} => Complete)
  BY <1>1, Fields, HostFields DEF Own
<1>3. view.processed = host.sequence /\ Final(view)
  BY DEF Completes, Final
<1>4. Complete => HasResult(mb)
  BY DEF Complete, Finished
<1>5. mb.processed = host.sequence => (Final(mb) => Decided)
  BY <1>1, <1>2, CommittedIsTaken
<1>6. old.processed = host.sequence => mb.processed = host.sequence
  BY <1>2 DEF ViewTrue
<1>7. CASE \/ view.processed = mb.processed /\ view.status = mb.status /\ view.result = mb.result
           \/ view.processed = old.processed /\ view.status = mb.status /\ view.result = mb.result
  <2>1. Decided
    BY <1>3, <1>5, <1>6, <1>7 DEF Final
  <2> QED BY <1>2, <1>4, <1>7, <2>1 DEF HasResult
<1>8. CASE /\ view.processed = old.processed /\ view.status = old.status
           /\ view.result \in {old.result, mb.result}
  <2>1. Decided /\ old.status = mb.status /\ (host.candidate # {} => HasResult(old))
    BY <1>2, <1>3, <1>8 DEF ViewTrue, Final
  <2> QED BY <1>2, <1>4, <1>8, <2>1 DEF HasResult
<1>9. \/ view.processed = mb.processed /\ view.status = mb.status /\ view.result = mb.result
      \/ view.processed = old.processed /\ view.status = mb.status /\ view.result = mb.result
      \/ /\ view.processed = old.processed /\ view.status = old.status
         /\ view.result \in {old.result, mb.result}
  BY <1>2 DEF Torn, Boxes
<1> QED BY <1>7, <1>8, <1>9

LEMMA ReadEndSteps == ASSUME MailboxConstants, IInv, ReadEnd PROVE IInv'
<1>1. Types /\ Ordered /\ Noticed /\ Own
  BY DEF IInv
<1>2. host \in Hosts /\ mb \in Boxes /\ payload \in SUBSET Writes /\ aborted \in Nat
      /\ host.view \subseteq Boxes
  BY <1>1, Fields, HostFields DEF Types
<1>3. host.pc = "reading" /\ SfcStill /\ payload' = payload /\ aborted' = aborted
  BY DEF ReadEnd, HostStep, SfcStill
<1> DEFINE After(v) ==
             IF ~Completes(v)
             THEN [host EXCEPT !.pc = "poll", !.view = {}, !.candidate = {}]
             ELSE IF host.candidate # {v}
             THEN [host EXCEPT !.pc = "poll", !.view = {}, !.candidate = {v}]
             ELSE IF v.status = "FAILED"
             THEN [host EXCEPT !.pc = "idle", !.view = {}, !.candidate = {},
                               !.outcome = "error", !.result = v.result]
             ELSE [host EXCEPT !.pc = "output", !.view = {}, !.candidate = {},
                               !.result = v.result]
<1>a. PICK old \in host.view : \E v \in Torn(old, mb) : host' = After(v)
  BY DEF ReadEnd, HostStep
<1>4. PICK view \in Torn(old, mb) : host' = After(view)
  BY <1>a
<1>5. view \in Boxes /\ view.result \in Nat /\ view.status \in Statuses
  <2>1. old \in Boxes
    BY <1>2, <1>4
  <2>2. view \in Boxes
    BY <1>2, <1>4, <2>1 DEF Torn, Boxes
  <2> QED BY <2>2, BoxFields
<1>6. CASE ~Completes(view) \/ host.candidate # {view}
  <2>1. PICK c \in SUBSET Boxes :
          /\ host' = [host EXCEPT !.pc = "poll", !.view = {}, !.candidate = c]
          /\ c # {} => Completes(view)
    <3>1. CASE ~Completes(view)
      BY <1>4, <3>1
    <3>2. CASE Completes(view)
      BY <1>4, <1>5, <1>6, <3>2
    <3> QED BY <3>1, <3>2
  <2>2. /\ host' \in Hosts /\ host'.pc = "poll" /\ host'.call = host.call
        /\ host'.kind = host.kind /\ host'.sequence = host.sequence
        /\ host'.outcome = host.outcome /\ host'.output = host.output
        /\ host'.candidate = c
    BY <1>2, <2>1 DEF Hosts, HostStates
  <2>3. SameCall
    BY <1>3, <2>2 DEF SameCall
  <2>4. Types' /\ Noticed' /\ Ordered'
    BY <1>1, <1>2, <1>3, <2>2, <2>3, HostKeepsRest, OrderKept
  <2>5. Own'
    <3>1. aborted = 0 => Under /\ host.outcome \notin {"ok", "error"} /\ host.output = {}
      BY <1>1, <1>3 DEF Own
    <3>2. (Under => Under') /\ (Decided => Decided')
      BY <2>3, StagesStay
    <3>3. (aborted = 0 /\ c # {}) => Decided
      BY <1>3, <1>4, <2>1, CompleteView
    <3> QED BY <1>3, <2>2, <3>1, <3>2, <3>3 DEF Own
  <2> QED BY <2>4, <2>5 DEF IInv
<1>7. CASE Completes(view) /\ host.candidate = {view} /\ view.status = "FAILED"
  <2>1. host' = [host EXCEPT !.pc = "idle", !.view = {}, !.candidate = {},
                             !.outcome = "error", !.result = view.result]
    BY <1>4, <1>7
  <2>2. /\ host' \in Hosts /\ host'.pc = "idle" /\ host'.call = host.call
        /\ host'.kind = host.kind /\ host'.sequence = host.sequence
        /\ host'.outcome = "error" /\ host'.result = view.result /\ host'.candidate = {}
    BY <1>2, <1>5, <2>1 DEF Hosts, HostStates, Outcomes
  <2>3. SameCall
    BY <1>3, <2>2 DEF SameCall
  <2>4. Types' /\ Noticed' /\ Ordered'
    BY <1>1, <1>2, <1>3, <2>2, <2>3, HostKeepsRest, OrderKept
  <2>5. Own'
    <3>1. SUFFICES ASSUME aborted = 0 PROVE Own'
      BY <1>3 DEF Own
    <3>2. Complete /\ HasResult(view)
      BY <1>3, <1>4, <1>7, <3>1, CompleteView
    <3>3. Resting /\ payload = {} /\ IsLast
      BY <3>2 DEF Complete, Taken, Finished, Final, Mine, Resting, Ahead
    <3>4. Resting' /\ payload' = {}
      BY <1>3, <2>3, <3>3, StagesStay
    <3>5. AnswerIsOwn'
      BY <1>3, <1>7, <2>2, <3>2, <3>3 DEF AnswerIsOwn, IsLast, HasResult, ResultOf, SfcStill
    <3> QED BY <2>2, <3>4, <3>5 DEF Own
  <2> QED BY <2>4, <2>5 DEF IInv
<1>8. CASE Completes(view) /\ host.candidate = {view} /\ view.status # "FAILED"
  <2>1. host' = [host EXCEPT !.pc = "output", !.view = {}, !.candidate = {},
                             !.result = view.result]
    BY <1>4, <1>8
  <2>2. /\ host' \in Hosts /\ host'.pc = "output" /\ host'.call = host.call
        /\ host'.kind = host.kind /\ host'.sequence = host.sequence
        /\ host'.outcome = host.outcome /\ host'.result = view.result
        /\ host'.output = host.output /\ host'.candidate = {}
    BY <1>2, <1>5, <2>1 DEF Hosts, HostStates
  <2>3. SameCall
    BY <1>3, <2>2 DEF SameCall
  <2>4. Types' /\ Noticed' /\ Ordered'
    BY <1>1, <1>2, <1>3, <2>2, <2>3, HostKeepsRest, OrderKept
  <2>5. Own'
    <3>1. SUFFICES ASSUME aborted = 0 PROVE Own'
      BY <1>3 DEF Own
    <3>2. Complete /\ view.status = mb.status /\ HasResult(view)
      BY <1>3, <1>4, <1>8, <3>1, CompleteView
    <3>3. mb.status = "PASSED"
      BY <1>8, <3>2 DEF Completes
    <3>4. Complete' /\ mb'.status = "PASSED"
      BY <1>3, <2>3, <3>2, <3>3, StagesStay DEF SfcStill
    <3>5. host'.result = ResultOf(TRUE)'
      BY <2>2, <3>2, <3>3 DEF HasResult, ResultOf
    <3>6. host.output = {} /\ host.outcome \notin {"ok", "error"}
      BY <1>1, <1>3, <3>1 DEF Own
    <3> QED BY <2>2, <3>4, <3>5, <3>6 DEF Own
  <2> QED BY <2>4, <2>5 DEF IInv
<1> QED BY <1>6, <1>7, <1>8

LEMMA ReadOutputSteps == ASSUME IInv, ReadOutput PROVE IInv'
<1>1. Types /\ Ordered /\ Noticed /\ Own
  BY DEF IInv
<1>2. host \in Hosts /\ payload \in SUBSET Writes /\ aborted \in Nat /\ mb.output \in Nat
  BY <1>1, Fields DEF Types
<1>3. host.pc = "output" /\ SfcStill /\ payload' = payload /\ aborted' = aborted
  BY DEF ReadOutput, HostStep, SfcStill
<1>4. aborted = 0 => /\ Complete /\ mb.status = "PASSED" /\ host.result = ResultOf(TRUE)
                     /\ host.candidate = {} /\ host.outcome \notin {"ok", "error"}
  BY <1>1, <1>3 DEF Own
<1>5. CASE host.output = {mb.output}
  <2>1. host' = [host EXCEPT !.pc = "idle", !.outcome = "ok"]
    BY <1>5 DEF ReadOutput, HostStep
  <2>2. /\ host' \in Hosts /\ host'.pc = "idle" /\ host'.call = host.call
        /\ host'.kind = host.kind /\ host'.sequence = host.sequence
        /\ host'.outcome = "ok" /\ host'.result = host.result
        /\ host'.candidate = host.candidate
        /\ host'.output = host.output
    BY <1>2, <2>1 DEF Hosts, HostStates, Outcomes
  <2>3. SameCall
    BY <1>3, <2>2 DEF SameCall
  <2>4. Types' /\ Noticed' /\ Ordered'
    BY <1>1, <1>2, <1>3, <2>2, <2>3, HostKeepsRest, OrderKept
  <2>5. Own'
    <3>1. SUFFICES ASSUME aborted = 0 PROVE Own'
      BY <1>3 DEF Own
    <3>2. Complete /\ mb.status = "PASSED" /\ host.result = ResultOf(TRUE)
      BY <1>4, <3>1
    <3>3. Resting /\ payload = {} /\ IsLast
      BY <3>2 DEF Complete, Taken, Finished, Final, Mine, Resting, Ahead
    <3>4. host.kind \in {"BINARY_RECEIVE", "PRBS"} => mb.output = host.call
      BY <3>2 DEF Complete, Finished
    <3>5. Resting' /\ payload' = {}
      BY <1>3, <2>3, <3>3, StagesStay
    <3>6. AnswerIsOwn'
      BY <1>3, <1>5, <2>2, <3>2, <3>3, <3>4 DEF AnswerIsOwn, IsLast, ResultOf, SfcStill
    <3> QED BY <1>4, <2>2, <3>1, <3>5, <3>6 DEF Own
  <2> QED BY <2>4, <2>5 DEF IInv
<1>6. CASE host.output # {mb.output}
  <2>1. host' = [host EXCEPT !.output = {mb.output}]
    BY <1>6 DEF ReadOutput, HostStep
  <2>2. /\ host' \in Hosts /\ host'.pc = "output" /\ host'.call = host.call
        /\ host'.kind = host.kind /\ host'.sequence = host.sequence
        /\ host'.outcome = host.outcome /\ host'.result = host.result
        /\ host'.candidate = host.candidate
        /\ host'.output = {mb.output}
    BY <1>2, <1>3, <2>1 DEF Hosts
  <2>3. SameCall
    BY <1>3, <2>2 DEF SameCall
  <2>4. Types' /\ Noticed' /\ Ordered'
    BY <1>1, <1>2, <1>3, <2>2, <2>3, HostKeepsRest, OrderKept
  <2>5. Own'
    <3>1. SUFFICES ASSUME aborted = 0 PROVE Own'
      BY <1>3 DEF Own
    <3>2. Complete' /\ mb' = mb /\ mb.status = "PASSED"
      BY <1>3, <1>4, <2>3, <3>1, StagesStay DEF SfcStill
    <3>3. host'.result = ResultOf(TRUE)'
      BY <1>4, <2>2, <3>1 DEF ResultOf
    <3> QED BY <1>4, <2>2, <3>1, <3>2, <3>3 DEF Own
  <2> QED BY <2>4, <2>5 DEF IInv
<1> QED BY <1>5, <1>6

LEMMA AbortSteps == ASSUME IInv, Abort PROVE IInv'
<1>1. Types /\ Ordered /\ Noticed
  BY DEF IInv
<1>2. host \in Hosts /\ payload \in SUBSET Writes /\ aborted \in Nat
  BY <1>1, Fields DEF Types
<1>3. /\ host' = [host EXCEPT !.pc = "idle", !.candidate = {}, !.outcome = "aborted"]
      /\ SfcStill /\ payload' = payload /\ aborted' = aborted + 1
  BY DEF Abort, SfcStill
<1>4. /\ host' \in Hosts /\ host'.pc = "idle" /\ host'.call = host.call
      /\ host'.kind = host.kind /\ host'.sequence = host.sequence
  BY <1>2, <1>3 DEF Hosts, HostStates, Outcomes
<1>5. SameCall
  BY <1>3, <1>4 DEF SameCall
<1>6. Types' /\ Noticed' /\ Ordered'
  BY <1>1, <1>2, <1>3, <1>4, <1>5, HostKeepsRest, OrderKept
<1>7. Own'
  BY <1>2, <1>3 DEF Own
<1> QED BY <1>6, <1>7 DEF IInv

LEMMA StutterSteps == ASSUME IInv, UNCHANGED vars PROVE IInv'
<1>1. /\ mb' = mb /\ sfc' = sfc /\ modem' = modem /\ payload' = payload /\ host' = host
      /\ executed' = executed /\ aborted' = aborted
  BY DEF vars
<1>2. Types' /\ Ordered' /\ Noticed'
  BY <1>1 DEF IInv, Types, Ordered, Noticed, Fresh
<1>3. SameCall
  BY <1>1 DEF SameCall, SfcStill
<1>4. Stages
  BY <1>1, <1>3, StagesStay
     DEF Stages, Under, Complete, Decided, Delivered, Answering, Mine, Ahead, IsLast, Finished,
         Final, HasResult, ResultOf
<1>5. Own'
  BY <1>1, <1>4, SfcKeepsOwn DEF IInv, HostStill
<1> QED BY <1>2, <1>5 DEF IInv

-----------------------------------------------------------------------------
\* The mailbox is exact: no command is carried out twice, whatever the host gives
\* up and sends again under a number that was used before, and an answer the host
\* reports is that of its own command, its result included, though the halves of the
\* sequence are compared and committed one by one, every read may be torn and a failed
\* quick test shows its status before its result.
THEOREM CommandsAreExact == ASSUME MailboxConstants PROVE Spec => []CommandsExact
<1>1. Init => IInv
  BY InitIInv
<1>2. IInv /\ [Next]_vars => IInv'
  <2>1. SUFFICES ASSUME IInv, [Next]_vars PROVE IInv'
    OBVIOUS
  <2>2. CASE SfcNext
    BY <2>1, <2>2, PollQuickTestSteps, QuickResultSteps, PollAtTransactionSteps,
       AtStatusSteps, CompareSteps,
       NewCommandSteps, DispatchSteps, StoreResultSteps, StoreStatusSteps, CommitLowSteps,
       CommitHighSteps, SpeedTestOutputSteps, SpeedTestStatusSteps
       DEF SfcNext, MainLoop, SpeedTest
  <2>3. CASE HostNext
    BY <2>1, <2>3, ReadInitialSteps, ExecuteAddressSteps, ReadBeginSteps, ReadEndSteps,
       ReadOutputSteps, AbortSteps DEF HostNext, HostPolls
  <2> QED BY <2>1, <2>2, <2>3, SessionSteps, NmiSteps, StutterSteps DEF Next
<1>3. IInv => CommandsExact
  <2>1. SUFFICES ASSUME IInv PROVE CommandsExact
    OBVIOUS
  <2>2. AnswerIsOwn
    <3>1. CASE host.outcome \in {"ok", "error"} /\ aborted = 0
      BY <2>1, <3>1 DEF IInv, Own
    <3>2. CASE ~(host.outcome \in {"ok", "error"} /\ aborted = 0)
      BY <3>2 DEF AnswerIsOwn
    <3> QED BY <3>1, <3>2
  <2>3. ExecutedAtMostOnce
    <3>1. SUFFICES ASSUME NEW i \in 1 .. Len(executed), NEW j \in 1 .. Len(executed),
                          executed[i] = executed[j]
                   PROVE  i = j
      BY DEF ExecutedAtMostOnce
    <3>2. executed[i] \in Nat /\ executed[j] \in Nat
      BY <2>1, Fields DEF IInv
    <3>3. ~(i < j) /\ ~(j < i)
      BY <2>1, <3>1, <3>2 DEF IInv, Ordered
    <3> QED BY <3>3
  <2> QED BY <2>2, <2>3 DEF CommandsExact
<1> QED BY <1>1, <1>2, <1>3, PTL DEF Spec
==============================================================================
