-------------------------- MODULE ChargedCallProofs --------------------------
(***************************************************************************)
(* Proofs about ChargedCall for any number of setup commands: whatever     *)
(* step of a program fails and whenever it is cancelled, no call is placed *)
(* twice or unprepared, and cleanup reaches the SFC or warns.              *)
(***************************************************************************)
EXTENDS ChargedCall, SequenceTheorems, TLAPS

Names == {"CONFIRM", "CREDENTIALS", "READY", "STAGED", "NETWORK", "CLOSED", "HOLD", "SETUP", "DIAL",
          "CLEAR", "PEER_ID", "PASSWORD", "OPEN", "CLOSE", "RECEIVE_START", "RECEIVE_STOP", "DNS"}
Tools == {"nifty-dial", "ppp-dial"}
Blocks == {"ask", "run", "undo", "cleanup", "ended"}
Programs ==
    [tool : Tools, block : Blocks, at : Nat, phase : {"start", "write", "await"}, base : Nat,
     agreed : BOOLEAN, cancelled : BOOLEAN, opened : BOOLEAN, failed : SUBSET Names,
     warned : BOOLEAN, unanswered : BOOLEAN]
Boxes == [command : Names \cup {"NONE"}, sequence : Nat, processed : Nat,
          status : {"IDLE", "RUNNING", "PASSED", "FAILED"}]
Consoles ==
    [driver : {"Ready", "Error", "Connected", "AtCommand", "Dialing"},
     at : {"IDLE", "RUNNING", "PASSED", "FAILED"}, transient : BOOLEAN,
     fields : SUBSET {"PEER_ID", "PASSWORD"}, admin : BOOLEAN, receive : BOOLEAN,
     lcp : {"Closed", "Negotiating", "Opened", "Closing", "Stopped"},
     net : BOOLEAN, terminated : BOOLEAN]

Types ==
    /\ program \in Programs /\ box \in Boxes /\ console \in Consoles /\ dials \in Nat
    /\ program.at \in 1 .. Len(Script(program.tool, program.block))

\* Which blocks a program goes through, and what it knows in them.
Course ==
    /\ program.tool = "ppp-dial" => program.block \notin {"ask", "cleanup"} /\ ~program.agreed
    /\ program.block = "ask" => ~program.agreed
    /\ program.tool = "nifty-dial" /\ program.block \in {"run", "undo", "cleanup"} =>
          program.agreed
    /\ program.tool = "nifty-dial" /\ program.block \in {"ask", "run", "undo"} =>
          program.failed = {}
    /\ program.block \in {"ask", "run"} => ~program.unanswered

\* As long as no command was left behind, what lies in the mailbox is the call the
\* program is making.
Own ==
    ~program.unanswered =>
        /\ program.phase = "start" => box.sequence = box.processed
        /\ program.phase = "write" => IsCall /\ box.sequence = box.processed
                                             /\ box.processed = program.base
        /\ program.phase = "await" => /\ IsCall /\ box.command = Step
                                      /\ box.sequence = program.base + 1
                                      /\ box.processed \in {program.base, program.base + 1}

\* The command at place k of the block was carried out.
Done(k) ==
    \/ program.at > k
    \/ program.at = k /\ program.phase = "await" /\ box.processed = program.base + 1

\* What cleanup has done so far.
Clean ==
    (~program.unanswered /\ program.block = "cleanup" /\ program.failed = {}) =>
        /\ Done(1) => console.fields = {}
        /\ Done(2) => ~console.admin
        /\ Done(4) => ~console.receive

-----------------------------------------------------------------------------
\* The call itself.
OpenAt == IF program.tool = "nifty-dial" THEN SetupCommands + 6 ELSE SetupCommands + 2
DialAt == OpenAt + 2
Running == program.block = "run"
DialPending == box.command = "DIAL" /\ box.sequence # box.processed

\* Nothing was dialled before the program wrote the command.
BeforeDial ==
    \/ program.block = "ask"
    \/ Running /\ program.at < DialAt
    \/ Running /\ program.at = DialAt /\ program.phase # "await"
NotDialled ==
    /\ BeforeDial => dials = 0 /\ box.command # "DIAL"
    /\ DialPending => dials = 0 /\ (program.tool = "nifty-dial" => program.agreed)

\* Without a call there is no link, so that nothing wipes the credentials.
NoLink ==
    dials = 0 =>
        /\ console.driver # "Dialing"
        /\ console.driver # "Connected" => console.lcp \in {"Closed", "Negotiating"}
        /\ ((Running /\ program.at > 1) \/ DialPending) => console.driver # "Connected"

\* What was staged for the call stays.
Staged ==
    /\ (dials = 0 /\ program.tool = "nifty-dial") =>
          (((Running /\ program.at >= OpenAt) \/ DialPending) =>
              console.fields = {"PEER_ID", "PASSWORD"})
    /\ ((Running /\ Done(OpenAt)) \/ DialPending) => console.admin
    /\ ((Running /\ Done(OpenAt + 1)) \/ DialPending) => console.receive

IInv ==
    /\ Types /\ Course /\ Own /\ Clean /\ CleanupReachesSfc
    /\ NotDialled /\ NoLink /\ Staged

-----------------------------------------------------------------------------
\* The scripts, place by place.

LEMMA Concatenated ==
    ASSUME NEW a \in Seq(Names), NEW b \in Seq(Names)
    PROVE  /\ a \o b \in Seq(Names)
           /\ Len(a \o b) = Len(a) + Len(b)
           /\ \A i \in 1 .. Len(a) : (a \o b)[i] = a[i]
           /\ \A i \in 1 .. Len(b) : (a \o b)[Len(a) + i] = b[i]
<1>1. Len(a) \in Nat /\ Len(b) \in Nat
  BY LenProperties
<1>2. /\ a \o b \in Seq(Names)
      /\ Len(a \o b) = Len(a) + Len(b)
      /\ \A i \in 1 .. Len(a) + Len(b) :
            (a \o b)[i] = IF i <= Len(a) THEN a[i] ELSE b[i - Len(a)]
  BY ConcatProperties
<1> QED BY <1>1, <1>2

\* What both programs begin with.
LEMMA Prologue ==
    ASSUME CallConstants
    PROVE  LET s == <<"READY">> \o Setup
           IN  /\ s \in Seq(Names) /\ Len(s) = SetupCommands + 1
               /\ s[1] = "READY"
               /\ \A i \in 2 .. SetupCommands + 1 : s[i] = "SETUP"
<1> DEFINE r == <<"READY">>
<1>1. SetupCommands \in Nat
  BY DEF CallConstants
<1>2. Setup \in Seq(Names) /\ Len(Setup) = SetupCommands
  BY <1>1 DEF Setup, Names
<1>3. \A i \in 1 .. SetupCommands : Setup[i] = "SETUP"
  BY DEF Setup
<1>4. r \in Seq(Names) /\ Len(r) = 1 /\ r[1] = "READY"
  BY DEF Names
<1> HIDE DEF r
<1>5. /\ r \o Setup \in Seq(Names)
      /\ Len(r \o Setup) = Len(r) + Len(Setup)
      /\ \A i \in 1 .. Len(r) : (r \o Setup)[i] = r[i]
      /\ \A i \in 1 .. Len(Setup) : (r \o Setup)[Len(r) + i] = Setup[i]
  BY <1>2, <1>4, Concatenated
<1>6. ASSUME NEW i \in 2 .. SetupCommands + 1 PROVE (r \o Setup)[i] = "SETUP"
  <2>1. i - 1 \in 1 .. SetupCommands /\ 1 + (i - 1) = i
    BY <1>1
  <2> QED BY <1>2, <1>3, <1>4, <1>5, <2>1
<1>7. (r \o Setup)[1] = "READY" /\ Len(r \o Setup) = SetupCommands + 1
  BY <1>1, <1>2, <1>4, <1>5
<1> QED BY <1>5, <1>6, <1>7 DEF r

Afterwards == {"NETWORK", "DNS", "HOLD"}

\* A run, seen from the place o of its open command.
RunOf(s, o) ==
    /\ s \in Seq(Names) /\ o \in Nat /\ o > 1 /\ o + 2 <= Len(s)
    /\ s[1] = "READY" /\ s[o] = "OPEN" /\ s[o + 1] = "RECEIVE_START" /\ s[o + 2] = "DIAL"
    /\ \A i \in 1 .. o - 1 : s[i] # "DIAL"
    /\ \A i \in o + 3 .. Len(s) : s[i] \in Afterwards

LEMMA PppDialPlaces == ASSUME CallConstants PROVE RunOf(pppDialRun, SetupCommands + 2)
<1> DEFINE n == SetupCommands
           a == <<"READY">> \o Setup
           b == <<"OPEN", "RECEIVE_START", "DIAL">>
<1>1. n \in Nat
  BY DEF CallConstants
<1>2. a \in Seq(Names) /\ Len(a) = n + 1 /\ a[1] = "READY"
      /\ \A i \in 2 .. n + 1 : a[i] = "SETUP"
  BY Prologue
<1>3. /\ b \in Seq(Names) /\ Len(b) = 3
      /\ b[1] = "OPEN" /\ b[2] = "RECEIVE_START" /\ b[3] = "DIAL"
  BY DEF Names
<1>4. pppDialRun = a \o b
  BY DEF pppDialRun
<1> HIDE DEF a, b
<1>5. /\ a \o b \in Seq(Names) /\ Len(a \o b) = Len(a) + Len(b)
      /\ \A i \in 1 .. Len(a) : (a \o b)[i] = a[i]
      /\ \A i \in 1 .. Len(b) : (a \o b)[Len(a) + i] = b[i]
  BY <1>2, <1>3, Concatenated
<1> DEFINE s == a \o b
<1>6. s[n + 1 + 1] = b[1] /\ s[n + 1 + 2] = b[2] /\ s[n + 1 + 3] = b[3]
  BY <1>1, <1>2, <1>3, <1>5
<1>7. Len(s) = n + 4 /\ s[1] = "READY" /\ s[n + 2] = "OPEN" /\ s[n + 3] = "RECEIVE_START"
      /\ s[n + 4] = "DIAL"
  BY <1>1, <1>2, <1>3, <1>5, <1>6
<1>8. ASSUME NEW i \in 1 .. n + 1 PROVE s[i] # "DIAL"
  BY <1>1, <1>2, <1>5
<1> HIDE DEF s
<1> QED BY <1>1, <1>4, <1>5, <1>7, <1>8 DEF RunOf, s

LEMMA UploadPlaces ==
    /\ upload \in Seq(Names) /\ Len(upload) = 4
    /\ upload[1] = "CLEAR" /\ upload[2] = "PEER_ID" /\ upload[3] = "PASSWORD"
    /\ upload[4] = "STAGED"
<1> DEFINE a == <<"CLEAR">>
           c == <<"STAGED">>
           b == a \o upload_fields
<1>1. a \in Seq(Names) /\ Len(a) = 1 /\ a[1] = "CLEAR"
  BY DEF Names
<1>2. c \in Seq(Names) /\ Len(c) = 1 /\ c[1] = "STAGED"
  BY DEF Names
<1>3. /\ upload_fields \in Seq(Names) /\ Len(upload_fields) = 2
      /\ upload_fields[1] = "PEER_ID" /\ upload_fields[2] = "PASSWORD"
  BY DEF upload_fields, Names
<1>4. upload = b \o c
  BY DEF upload
<1> HIDE DEF a, c
<1>5. /\ b \in Seq(Names) /\ Len(b) = Len(a) + Len(upload_fields)
      /\ \A i \in 1 .. Len(a) : b[i] = a[i]
      /\ \A i \in 1 .. Len(upload_fields) : b[Len(a) + i] = upload_fields[i]
  BY <1>1, <1>3, Concatenated
<1>6. b[1 + 1] = upload_fields[1] /\ b[1 + 2] = upload_fields[2]
  BY <1>1, <1>3, <1>5
<1>7. Len(b) = 3 /\ b[1] = "CLEAR" /\ b[2] = "PEER_ID" /\ b[3] = "PASSWORD"
  BY <1>1, <1>3, <1>5, <1>6
<1> HIDE DEF b
<1>8. /\ b \o c \in Seq(Names) /\ Len(b \o c) = Len(b) + Len(c)
      /\ \A i \in 1 .. Len(b) : (b \o c)[i] = b[i]
      /\ \A i \in 1 .. Len(c) : (b \o c)[Len(b) + i] = c[i]
  BY <1>2, <1>5, Concatenated
<1>9. (b \o c)[3 + 1] = c[1]
  BY <1>2, <1>7, <1>8
<1> QED BY <1>2, <1>4, <1>7, <1>8, <1>9

LEMMA NiftyPlaces ==
    ASSUME CallConstants
    PROVE  RunOf(niftyRun, SetupCommands + 6) /\ niftyRun[SetupCommands + 5] = "STAGED"
<1> DEFINE n == SetupCommands
           a == <<"READY">> \o Setup
           u == upload
           b == <<"OPEN", "RECEIVE_START", "DIAL", "NETWORK", "DNS", "HOLD">>
<1>1. n \in Nat
  BY DEF CallConstants
<1>2. a \in Seq(Names) /\ Len(a) = n + 1 /\ a[1] = "READY"
      /\ \A i \in 2 .. n + 1 : a[i] = "SETUP"
  BY Prologue
<1>3. /\ b \in Seq(Names) /\ Len(b) = 6
      /\ b[1] = "OPEN" /\ b[2] = "RECEIVE_START" /\ b[3] = "DIAL"
      /\ b[4] = "NETWORK" /\ b[5] = "DNS" /\ b[6] = "HOLD"
  BY DEF Names
<1>4. /\ u \in Seq(Names) /\ Len(u) = 4
      /\ u[1] = "CLEAR" /\ u[2] = "PEER_ID" /\ u[3] = "PASSWORD" /\ u[4] = "STAGED"
  BY UploadPlaces
<1>6. niftyRun = (a \o u) \o b
  BY DEF niftyRun
<1> HIDE DEF a, b, u
<1> DEFINE c == a \o u
<1>7. /\ c \in Seq(Names) /\ Len(c) = Len(a) + Len(u)
      /\ \A i \in 1 .. Len(a) : c[i] = a[i]
      /\ \A i \in 1 .. Len(u) : c[Len(a) + i] = u[i]
  BY <1>2, <1>4, Concatenated
<1>8. c[n + 1 + 1] = u[1] /\ c[n + 1 + 2] = u[2] /\ c[n + 1 + 3] = u[3] /\ c[n + 1 + 4] = u[4]
  BY <1>1, <1>2, <1>4, <1>7
<1>9. Len(c) = n + 5 /\ c[1] = "READY" /\ c[n + 2] = "CLEAR" /\ c[n + 3] = "PEER_ID"
      /\ c[n + 4] = "PASSWORD" /\ c[n + 5] = "STAGED"
  BY <1>1, <1>2, <1>4, <1>7, <1>8
<1>10. ASSUME NEW i \in 1 .. n + 5 PROVE c[i] # "DIAL"
  <2>1. CASE i \in 1 .. n + 1
    BY <1>1, <1>2, <1>7, <2>1
  <2>2. CASE i \in {n + 2, n + 3, n + 4, n + 5}
    BY <1>9, <2>2
  <2>3. i \in 1 .. n + 1 \/ i \in {n + 2, n + 3, n + 4, n + 5}
    BY <1>1
  <2> QED BY <2>1, <2>2, <2>3
<1> HIDE DEF c
<1> DEFINE s == c \o b
<1>11. /\ s \in Seq(Names) /\ Len(s) = Len(c) + Len(b)
       /\ \A i \in 1 .. Len(c) : s[i] = c[i]
       /\ \A i \in 1 .. Len(b) : s[Len(c) + i] = b[i]
  BY <1>3, <1>7, Concatenated
<1>12. /\ s[n + 5 + 1] = b[1] /\ s[n + 5 + 2] = b[2] /\ s[n + 5 + 3] = b[3]
       /\ s[n + 5 + 4] = b[4] /\ s[n + 5 + 5] = b[5] /\ s[n + 5 + 6] = b[6]
  BY <1>1, <1>3, <1>9, <1>11
<1>13. /\ Len(s) = n + 11 /\ s[1] = "READY" /\ s[n + 5] = "STAGED"
       /\ s[n + 6] = "OPEN" /\ s[n + 7] = "RECEIVE_START" /\ s[n + 8] = "DIAL"
       /\ s[n + 9] = "NETWORK" /\ s[n + 10] = "DNS" /\ s[n + 11] = "HOLD"
  BY <1>1, <1>3, <1>9, <1>11, <1>12
<1>14. ASSUME NEW i \in 1 .. n + 5 PROVE s[i] # "DIAL"
  BY <1>1, <1>9, <1>10, <1>11
<1>15. ASSUME NEW i \in n + 9 .. n + 11 PROVE s[i] \in Afterwards
  <2>1. i \in {n + 9, n + 10, n + 11}
    BY <1>1
  <2> QED BY <1>13, <2>1 DEF Afterwards
<1> HIDE DEF s
<1>16. niftyRun = s
  BY <1>6 DEF s, c
<1> QED BY <1>1, <1>11, <1>13, <1>14, <1>15, <1>16 DEF RunOf

\* The other scripts.
LEMMA OtherPlaces ==
    ASSUME NEW tool \in Tools
    PROVE  /\ Script(tool, "ask") = <<"CONFIRM", "CREDENTIALS">>
           /\ Script(tool, "run") = IF tool = "nifty-dial" THEN niftyRun ELSE pppDialRun
           /\ Script(tool, "undo") = IF tool = "nifty-dial" THEN <<"CLEAR">> ELSE <<"RECEIVE_STOP">>
           /\ Script(tool, "cleanup") = <<"CLEAR", "CLOSE", "CLOSED", "RECEIVE_STOP">>
           /\ Script(tool, "ended") = <<"CLEAR", "CLOSE", "CLOSED", "RECEIVE_STOP">>
BY DEF Script, Undo, cleanup, Tools

LEMMA Lengths ==
    ASSUME CallConstants, NEW tool \in Tools, NEW block \in Blocks
    PROVE  /\ Script(tool, block) \in Seq(Names)
           /\ Len(Script(tool, block)) \in Nat /\ Len(Script(tool, block)) > 0
<1>1. CASE block = "run"
  <2>1. \E o \in Nat : RunOf(Script(tool, block), o)
    BY <1>1, OtherPlaces, NiftyPlaces, PppDialPlaces DEF CallConstants
  <2> QED BY <2>1, LenProperties DEF RunOf
<1>2. CASE block = "ask"
  <2>1. Script(tool, block) = <<"CONFIRM", "CREDENTIALS">>
    BY <1>2, OtherPlaces
  <2>2. <<"CONFIRM", "CREDENTIALS">> \in Seq(Names)
    BY DEF Names
  <2> QED BY <2>1, <2>2
<1>3. CASE block = "undo"
  <2>1. Script(tool, block) \in {<<"CLEAR">>, <<"RECEIVE_STOP">>}
    BY <1>3, OtherPlaces
  <2>2. <<"CLEAR">> \in Seq(Names) /\ <<"RECEIVE_STOP">> \in Seq(Names)
    BY DEF Names
  <2>3. Len(Script(tool, block)) = 1 /\ Script(tool, block) \in Seq(Names)
    BY <2>1, <2>2
  <2> QED BY <2>3
<1>4. CASE block \in {"cleanup", "ended"}
  <2> DEFINE c == <<"CLEAR", "CLOSE", "CLOSED", "RECEIVE_STOP">>
  <2>1. Script(tool, block) = c
    BY <1>4, OtherPlaces
  <2>2. c \in Seq(Names) /\ Len(c) = 4
    BY DEF Names
  <2> HIDE DEF c
  <2> QED BY <2>1, <2>2
<1> QED BY <1>1, <1>2, <1>3, <1>4 DEF Blocks

\* The step a program is at.
LEMMA Steps ==
    ASSUME CallConstants, Types
    PROVE  /\ Step \in Names
           /\ program.block = "ask" => Step \in Questions
           /\ program.block = "undo" => program.at = 1 /\ Step \in {"CLEAR", "RECEIVE_STOP"}
           /\ program.block = "cleanup" =>
                 /\ program.at \in 1 .. 4
                 /\ program.at = 1 => Step = "CLEAR"
                 /\ program.at = 2 => Step = "CLOSE"
                 /\ program.at = 3 => Step = "CLOSED"
                 /\ program.at = 4 => Step = "RECEIVE_STOP"
<1> DEFINE s == Script(program.tool, program.block)
<1>1. program.tool \in Tools /\ program.block \in Blocks /\ program.at \in 1 .. Len(s)
  BY DEF Types, Programs
<1>2. Step = s[program.at]
  BY DEF Step
<1>3. Step \in Names
  BY <1>1, <1>2, Lengths, ElementOfSeq
<1>4. CASE program.block = "ask"
  <2>1. s = <<"CONFIRM", "CREDENTIALS">>
    BY <1>1, <1>4, OtherPlaces
  <2>2. program.at \in {1, 2}
    BY <1>1, <2>1
  <2> QED BY <1>2, <1>3, <1>4, <2>1, <2>2 DEF Questions
<1>5. CASE program.block = "undo"
  <2>1. s \in {<<"CLEAR">>, <<"RECEIVE_STOP">>}
    BY <1>1, <1>5, OtherPlaces
  <2>2. Len(s) = 1
    BY <2>1
  <2>3. program.at = 1
    BY <1>1, <2>2
  <2>4. s[1] \in {"CLEAR", "RECEIVE_STOP"}
    BY <2>1
  <2> QED BY <1>2, <1>3, <1>5, <2>3, <2>4
<1>6. CASE program.block = "cleanup"
  <2>1. s = <<"CLEAR", "CLOSE", "CLOSED", "RECEIVE_STOP">>
    BY <1>1, <1>6, OtherPlaces
  <2>2. program.at \in 1 .. 4
    BY <1>1, <2>1
  <2> QED BY <1>2, <1>3, <1>6, <2>1, <2>2
<1> QED BY <1>3, <1>4, <1>5, <1>6

LEMMA RunSteps ==
    ASSUME CallConstants, Types, Running
    PROVE  /\ OpenAt \in Nat /\ OpenAt > 1
           /\ OpenAt + 2 <= Len(Script(program.tool, "run"))
           /\ program.at = 1 => Step = "READY"
           /\ program.at = OpenAt - 1 /\ program.tool = "nifty-dial" => Step = "STAGED"
           /\ program.at < OpenAt => Step # "DIAL"
           /\ program.at = OpenAt => Step = "OPEN"
           /\ program.at = OpenAt + 1 => Step = "RECEIVE_START"
           /\ program.at = OpenAt + 2 => Step = "DIAL"
           /\ program.at > OpenAt + 2 => Step \in Afterwards
<1> DEFINE s == Script(program.tool, "run")
<1>1. program.tool \in Tools /\ program.at \in 1 .. Len(s)
  BY DEF Types, Programs, Running
<1>2. Step = s[program.at]
  BY DEF Step, Running
<1>3. s = IF program.tool = "nifty-dial" THEN niftyRun ELSE pppDialRun
  BY <1>1, OtherPlaces
<1>4. RunOf(s, OpenAt)
  BY <1>3, NiftyPlaces, PppDialPlaces DEF OpenAt
<1>5. program.tool = "nifty-dial" => s[OpenAt - 1] = "STAGED"
  <2> HAVE program.tool = "nifty-dial"
  <2>1. OpenAt - 1 = SetupCommands + 5
    BY DEF OpenAt, CallConstants
  <2> QED BY <1>3, <2>1, NiftyPlaces
<1>6. Len(s) \in Nat
  BY <1>4, LenProperties DEF RunOf
<1> HIDE DEF s
<1> QED BY <1>1, <1>2, <1>4, <1>5, <1>6 DEF RunOf, s

-----------------------------------------------------------------------------
\* Where a program goes from a step.

\* What no transition of a program touches.
Same(q) ==
    /\ q \in Programs /\ q.phase = "start" /\ q.tool = program.tool
    /\ q.unanswered = program.unanswered
    /\ q.at \in 1 .. Len(Script(q.tool, q.block))

\* Out of a block that is not cleanup's.
Out(q) ==
    /\ Same(q) /\ q.agreed = program.agreed
    /\ IF program.tool = "nifty-dial"
       THEN q.block = "cleanup" /\ q.at = 1 /\ q.failed = program.failed
       ELSE q.block = "ended"

LEMMA GotoTyped ==
    ASSUME NEW p \in Programs, NEW b \in Blocks
    PROVE  LET q == [p EXCEPT !.block = b, !.at = 1, !.phase = "start"]
           IN  /\ q \in Programs /\ q.tool = p.tool /\ q.block = b /\ q.at = 1
               /\ q.phase = "start" /\ q.unanswered = p.unanswered /\ q.agreed = p.agreed
               /\ q.failed = p.failed
BY DEF Programs

LEMMA GotoSame ==
    ASSUME CallConstants, Types, NEW block \in Blocks
    PROVE  /\ Same(Goto(program, block)) /\ Goto(program, block).at = 1
           /\ Goto(program, block).block = block
           /\ Goto(program, block).agreed = program.agreed
           /\ Goto(program, block).failed = program.failed
<1>1. program \in Programs /\ program.tool \in Tools
  BY DEF Types, Programs
<1>2. 1 \in 1 .. Len(Script(program.tool, block))
  BY <1>1, Lengths
<1> QED BY <1>1, <1>2, GotoTyped DEF Goto, Same

\* The program's end after its last block.
LEMMA EndedTyped ==
    ASSUME NEW p \in Programs
    PROVE  LET q == Ended(p)
           IN  /\ q \in Programs /\ q.tool = p.tool /\ q.block = "ended" /\ q.at = 1
               /\ q.phase = "start" /\ q.unanswered = p.unanswered /\ q.agreed = p.agreed
               /\ q.warned <=> p.failed # {}
<1> DEFINE g == [p EXCEPT !.block = "ended", !.at = 1, !.phase = "start"]
<1>1. "ended" \in Blocks
  BY DEF Blocks
<1>2. /\ g \in Programs /\ g.tool = p.tool /\ g.block = "ended" /\ g.at = 1
      /\ g.phase = "start" /\ g.unanswered = p.unanswered /\ g.agreed = p.agreed
  BY <1>1, GotoTyped
<1>3. Ended(p) = [g EXCEPT !.warned = p.failed # {}]
  BY DEF Ended, Goto, Reported
<1>4. (p.failed # {}) \in BOOLEAN
  OBVIOUS
<1> HIDE DEF g
<1> QED BY <1>2, <1>3, <1>4 DEF Programs

LEMMA EndedSame ==
    ASSUME CallConstants, Types, NEW p \in Programs, p.tool = program.tool,
           p.unanswered = program.unanswered
    PROVE  Same(Ended(p)) /\ Ended(p).block = "ended" /\ Ended(p).agreed = p.agreed
           /\ (Ended(p).warned <=> p.failed # {})
<1>1. p.tool \in Tools /\ "ended" \in Blocks
  BY DEF Programs, Blocks
<1>2. 1 \in 1 .. Len(Script(p.tool, "ended"))
  BY <1>1, Lengths
<1> QED BY <1>2, EndedTyped DEF Same

LEMMA AfterRunOut == ASSUME CallConstants, Types PROVE Out(AfterRun(program))
<1>1. program \in Programs /\ "cleanup" \in Blocks
  BY DEF Types, Blocks
<1> QED BY <1>1, GotoSame, EndedSame DEF AfterRun, Out

\* A step that went well leads to the next place or to the next block.
Onward(q) ==
    /\ program.at < Len(Script(program.tool, program.block)) =>
          /\ Same(q) /\ q.block = program.block /\ q.at = program.at + 1
          /\ q.agreed = program.agreed /\ q.failed = program.failed
    /\ program.at = Len(Script(program.tool, program.block)) =>
          /\ program.block = "ask" =>
                Same(q) /\ q.block = "run" /\ q.at = 1 /\ q.agreed /\ q.failed = program.failed
          /\ program.block = "cleanup" =>
                /\ Same(q) /\ q.block = "ended" /\ q.agreed = program.agreed
                /\ q.warned <=> program.failed # {}
          /\ program.block \in {"run", "undo"} => Out(q)

LEMMA NextStepOnward ==
    ASSUME CallConstants, Types, program.block # "ended"
    PROVE  Onward(NextStep(program))
<1> SUFFICES ASSUME NEW q, q = NextStep(program)
             PROVE  Onward(q)
  OBVIOUS
<1> DEFINE n == Len(Script(program.tool, program.block))
<1>1. program \in Programs /\ program.tool \in Tools /\ program.block \in Blocks
      /\ program.at \in 1 .. n
  BY DEF Types, Programs
<1>2. n \in Nat
  BY <1>1, Lengths
<1>3. CASE program.at < n
  <2>1. q = [program EXCEPT !.at = program.at + 1, !.phase = "start"]
    BY <1>3 DEF NextStep
  <2>2. program.at + 1 \in 1 .. n /\ program.at + 1 \in Nat /\ program.at \in Nat
    BY <1>1, <1>2, <1>3
  <2>3. /\ q \in Programs /\ q.tool = program.tool /\ q.block = program.block
        /\ q.at = program.at + 1 /\ q.phase = "start" /\ q.unanswered = program.unanswered
        /\ q.agreed = program.agreed /\ q.failed = program.failed
    BY <1>1, <2>1, <2>2 DEF Programs
  <2>4. program.at # n
    BY <1>1, <1>2, <1>3
  <2> QED BY <2>2, <2>3, <2>4 DEF Onward, Same
<1>4. CASE program.at = n
  <2>1. ~(program.at < n)
    BY <1>2, <1>4
  <2>2. CASE program.block = "ask"
    <3>1. q = [Goto(program, "run") EXCEPT !.agreed = TRUE]
      BY <2>1, <2>2 DEF NextStep
    <3> DEFINE g == Goto(program, "run")
    <3>2. Same(g) /\ g.at = 1 /\ g.block = "run" /\ g.failed = program.failed
      BY GotoSame DEF Blocks
    <3> HIDE DEF g
    <3>3. LET r == [g EXCEPT !.agreed = TRUE]
          IN  /\ r \in Programs /\ r.tool = g.tool /\ r.block = g.block /\ r.at = g.at
              /\ r.phase = g.phase /\ r.unanswered = g.unanswered /\ r.failed = g.failed
              /\ r.agreed
      BY <3>2 DEF Same, Programs
    <3>4. q = [g EXCEPT !.agreed = TRUE]
      BY <3>1 DEF g
    <3> QED BY <2>1, <2>2, <3>2, <3>3, <3>4 DEF Onward, Same
  <2>3. CASE program.block = "cleanup"
    <3>1. q = Ended(program)
      BY <2>1, <2>3 DEF NextStep
    <3> QED BY <1>1, <2>1, <2>3, <3>1, EndedSame DEF Onward
  <2>4. CASE program.block \in {"run", "undo"}
    <3>1. q = AfterRun(program)
      BY <2>1, <2>4 DEF NextStep
    <3> QED BY <2>1, <2>4, <3>1, AfterRunOut DEF Onward
  <2> QED BY <1>1, <2>2, <2>3, <2>4 DEF Blocks
<1>5. program.at < n \/ program.at = n
  BY <1>1, <1>2
<1> QED BY <1>3, <1>4, <1>5

\* A step that failed leads out of its block, to undo or to the next place of
\* cleanup, which notes the failure.
Failing(q) ==
    /\ Same(q) /\ q.block \notin {"ask", "run"} /\ q.agreed = program.agreed
    /\ q.block = "undo" => program.block = "run" /\ q.failed = program.failed
    /\ q.block = "cleanup" => \/ program.block \in {"run", "undo"} /\ program.tool = "nifty-dial"
                              \/ program.block = "cleanup" /\ q.failed # {}
    /\ q.block = "cleanup" /\ program.block # "cleanup" => q.at = 1
    /\ q.block = "ended" => q.warned \/ program.block = "ask" \/ program.tool = "ppp-dial"

LEMMA CleanupGoesOn ==
    ASSUME CallConstants, Types, NEW p \in Programs, p.tool = program.tool,
           p.unanswered = program.unanswered, p.agreed = program.agreed,
           program.block = "cleanup", p.block = "cleanup", p.at \in 1 .. 4, p.failed # {}
    PROVE  Failing(NextStep(p))
<1> SUFFICES ASSUME NEW q, q = NextStep(p)
             PROVE  Failing(q)
  OBVIOUS
<1>1. p.tool \in Tools
  BY DEF Programs
<1>2. Len(Script(p.tool, p.block)) = 4
  BY <1>1, OtherPlaces
<1>3. CASE p.at < 4
  <2>1. q = [p EXCEPT !.at = p.at + 1, !.phase = "start"]
    BY <1>2, <1>3 DEF NextStep
  <2>2. p.at + 1 \in 1 .. 4 /\ p.at + 1 \in Nat
    BY <1>3
  <2>3. /\ q \in Programs /\ q.tool = p.tool /\ q.block = p.block /\ q.at = p.at + 1
        /\ q.phase = "start" /\ q.unanswered = p.unanswered
        /\ q.agreed = p.agreed /\ q.failed = p.failed
    BY <2>1, <2>2 DEF Programs
  <2> QED BY <1>2, <2>2, <2>3 DEF Failing, Same
<1>4. CASE ~(p.at < 4)
  <2>1. q = Ended(p)
    BY <1>2, <1>4 DEF NextStep
  <2> QED BY <2>1, EndedSame DEF Failing
<1> QED BY <1>3, <1>4

LEMMA AfterFailureFailing ==
    ASSUME CallConstants, Types, Course, program.block # "ended"
    PROVE  Failing(AfterFailure(program))
<1> SUFFICES ASSUME NEW q, q = AfterFailure(program)
             PROVE  Failing(q)
  OBVIOUS
<1>1. program \in Programs /\ program.tool \in Tools /\ program.block \in Blocks
  BY DEF Types, Programs
<1>2. CASE program.block = "ask"
  <2>1. q = Goto(program, "ended")
    BY <1>2 DEF AfterFailure
  <2> QED BY <1>2, <2>1, GotoSame DEF Failing, Blocks
<1>3. CASE program.block = "run" /\ Step \in Undoable(program)
  <2>1. q = Goto(program, "undo")
    BY <1>3 DEF AfterFailure
  <2> QED BY <1>3, <2>1, GotoSame DEF Failing, Blocks
<1>4. CASE program.block = "run" /\ Step \notin Undoable(program)
  <2>1. q = AfterRun(program)
    BY <1>4 DEF AfterFailure
  <2> QED BY <1>1, <1>4, <2>1, AfterRunOut DEF Failing, Out, Tools
<1> DEFINE m == [program EXCEPT !.failed = program.failed \cup {Step}]
<1>5. /\ m \in Programs /\ m.tool = program.tool /\ m.block = program.block
      /\ m.at = program.at /\ m.unanswered = program.unanswered
      /\ m.agreed = program.agreed /\ m.failed # {}
  <2>1. Step \in Names
    BY Steps
  <2> QED BY <1>1, <2>1 DEF Programs
<1>6. CASE program.block = "undo"
  <2>1. q = NextStep(IF program.tool = "nifty-dial" THEN program ELSE m)
    BY <1>6 DEF AfterFailure, GoOn
  <2>2. ~(program.at < Len(Script(program.tool, program.block)))
    <3>1. program.at = 1
      BY <1>6, Steps
    <3>2. Script(program.tool, program.block) \in {<<"CLEAR">>, <<"RECEIVE_STOP">>}
      BY <1>1, <1>6, OtherPlaces
    <3>3. Len(Script(program.tool, program.block)) = 1
      BY <3>2
    <3> QED BY <3>1, <3>3
  <2>3. CASE program.tool = "nifty-dial"
    <3>1. q = NextStep(program)
      BY <2>1, <2>3
    <3>2. q = AfterRun(program)
      BY <1>6, <2>2, <3>1 DEF NextStep
    <3> QED BY <1>1, <1>6, <2>3, <3>2, AfterRunOut DEF Failing, Out, Tools
  <2>4. CASE program.tool # "nifty-dial"
    <3>1. q = NextStep(m)
      BY <2>1, <2>4
    <3> HIDE DEF m
    <3>2. NextStep(m) = Ended(m)
      BY <1>5, <1>6, <2>2, <2>4 DEF NextStep, AfterRun
    <3> QED BY <1>1, <1>5, <1>6, <2>4, <3>1, <3>2, EndedSame DEF Failing, Tools
  <2> QED BY <2>3, <2>4
<1>7. CASE program.block = "cleanup" /\ Step # "CLOSE"
  <2>1. q = NextStep(m)
    BY <1>7 DEF AfterFailure, GoOn
  <2>2. program.at \in 1 .. 4
    BY <1>7, Steps
  <2> HIDE DEF m
  <2> QED BY <1>5, <1>7, <2>1, <2>2, CleanupGoesOn
<1>8. CASE program.block = "cleanup" /\ Step = "CLOSE"
  <2> DEFINE r == [m EXCEPT !.at = m.at + 1]
  <2>1. q = NextStep(r)
    BY <1>8 DEF AfterFailure, GoOn
  <2>2. program.at = 2
    BY <1>8, Steps
  <2> HIDE DEF m
  <2>3. /\ r \in Programs /\ r.tool = m.tool /\ r.block = m.block /\ r.at = 3
        /\ r.unanswered = m.unanswered /\ r.agreed = m.agreed /\ r.failed = m.failed
    BY <1>5, <2>2 DEF Programs
  <2> HIDE DEF r
  <2> QED BY <1>5, <1>8, <2>1, <2>3, CleanupGoesOn
<1> QED BY <1>1, <1>2, <1>3, <1>4, <1>6, <1>7, <1>8 DEF Blocks

-----------------------------------------------------------------------------
\* Steps of a program keep the invariant.

\* Where a failure or a time limit leaves a program, a call left behind noted.
Left(q) ==
    /\ q \in Programs /\ q.phase = "start" /\ q.tool = program.tool
    /\ q.at \in 1 .. Len(Script(q.tool, q.block))
    /\ ~q.unanswered => ~program.unanswered /\ box.sequence = box.processed
    /\ q.block \notin {"ask", "run"} /\ q.agreed = program.agreed
    /\ q.block = "undo" => program.block = "run" /\ q.failed = program.failed
    /\ q.block = "cleanup" => \/ program.block \in {"run", "undo"} /\ program.tool = "nifty-dial"
                              \/ program.block = "cleanup" /\ q.failed # {}
    /\ q.block = "cleanup" /\ program.block # "cleanup" => q.at = 1
    /\ q.block = "ended" => q.warned \/ program.block = "ask" \/ program.tool = "ppp-dial"

LEMMA LeavingKeeps ==
    ASSUME CallConstants, IInv, program.block # "ended", Left(program'),
           UNCHANGED <<box, console, dials>>
    PROVE  IInv'
<1>1. Types'
  BY DEF IInv, Types, Left
<1>2. Course'
  BY DEF IInv, Course, Left, Types, Programs, Tools, Blocks
<1>3. Own'
  BY DEF Own, Left
<1>4. Clean'
  BY DEF Clean, Left, Done
<1>5. CleanupReachesSfc'
  BY DEF IInv, Course, Left, CleanupReachesSfc
<1>6. NotDialled'
  BY DEF IInv, NotDialled, BeforeDial, Running, DialPending, Left
<1>7. NoLink'
  BY DEF IInv, NoLink, Running, DialPending, Left
<1>8. Staged'
  BY DEF IInv, Staged, Running, DialPending, Left
<1> QED BY <1>1, <1>2, <1>3, <1>4, <1>5, <1>6, <1>7, <1>8 DEF IInv

\* What LeavesBehind notes.
LEMMA LeavesBehindNotes ==
    ASSUME Types, Own, NEW q \in Programs, q.unanswered = program.unanswered
    PROVE  LET r == LeavesBehind(q)
           IN  /\ r \in Programs /\ r.phase = q.phase /\ r.tool = q.tool /\ r.at = q.at
               /\ r.block = q.block /\ r.agreed = q.agreed /\ r.failed = q.failed
               /\ r.warned = q.warned
               /\ ~r.unanswered => ~program.unanswered /\ box.sequence = box.processed
<1> DEFINE u == q.unanswered \/ (IsCall /\ program.phase = "await" /\ box.sequence # box.processed)
<1>1. LeavesBehind(q) = [q EXCEPT !.unanswered = u]
  BY DEF LeavesBehind
<1>2. u \in BOOLEAN
  BY DEF Programs
<1>3. ~u => ~program.unanswered /\ box.sequence = box.processed
  BY DEF Own, Types, Programs
<1> HIDE DEF u
<1> QED BY <1>1, <1>2, <1>3 DEF Programs

LEMMA StepFailsKeeps == ASSUME CallConstants, IInv, StepFails PROVE IInv'
<1> DEFINE q == AfterFailure(program)
<1>1. program.block # "ended" /\ Failing(q)
  BY AfterFailureFailing DEF IInv, StepFails
<1>2. program' = LeavesBehind(q) /\ UNCHANGED <<box, console, dials>>
  BY DEF StepFails, ProgramStep
<1> HIDE DEF q
<1>3. Left(program')
  BY <1>1, <1>2, LeavesBehindNotes DEF Failing, Same, Left, IInv
<1> QED BY <1>1, <1>2, <1>3, LeavingKeeps

LEMMA FailureKeeps ==
    ASSUME CallConstants, IInv, program.block # "ended", ProgramStep(AfterFailure(program)),
           ~program.unanswered => box.sequence = box.processed
    PROVE  IInv'
<1> DEFINE q == AfterFailure(program)
<1>1. Failing(q)
  BY AfterFailureFailing DEF IInv
<1>2. program' = q /\ UNCHANGED <<box, console, dials>>
  BY DEF ProgramStep
<1> HIDE DEF q
<1>3. Left(program')
  BY <1>1, <1>2 DEF Failing, Same, Left
<1> QED BY <1>2, <1>3, LeavingKeeps

LEMMA TimeLimitsKeep ==
    ASSUME CallConstants, IInv, WorkflowTimeout \/ CleanupTimeout
    PROVE  IInv'
<1>1. Types /\ Own
  BY DEF IInv
<1>2. CASE WorkflowTimeout
  <2> DEFINE q == Goto(program, "cleanup")
             r == LeavesBehind(q)
  <2>1. /\ program.tool = "nifty-dial" /\ program.block \in {"run", "undo"}
        /\ program' = [r EXCEPT !.cancelled = TRUE] /\ UNCHANGED <<box, console, dials>>
    BY <1>2 DEF WorkflowTimeout, ProgramStep
  <2>2. Same(q) /\ q.at = 1 /\ q.block = "cleanup" /\ q.agreed = program.agreed
    BY <1>1, GotoSame DEF Blocks
  <2> HIDE DEF q
  <2>3. /\ r \in Programs /\ r.phase = q.phase /\ r.tool = q.tool /\ r.at = q.at
        /\ r.block = q.block /\ r.agreed = q.agreed
        /\ ~r.unanswered => ~program.unanswered /\ box.sequence = box.processed
    BY <1>1, <2>2, LeavesBehindNotes DEF Same
  <2> HIDE DEF r
  <2>4. /\ program' \in Programs /\ program'.phase = r.phase /\ program'.tool = r.tool
        /\ program'.at = r.at /\ program'.block = r.block /\ program'.agreed = r.agreed
        /\ program'.unanswered = r.unanswered
    BY <2>1, <2>3 DEF Programs
  <2>5. Left(program')
    BY <2>1, <2>2, <2>3, <2>4 DEF Same, Left
  <2> QED BY <2>1, <2>5, LeavingKeeps
<1>3. CASE CleanupTimeout
  <2> DEFINE q == Goto(program, "ended")
             r == LeavesBehind(q)
  <2>1. /\ program.block = "cleanup"
        /\ program' = [r EXCEPT !.warned = TRUE] /\ UNCHANGED <<box, console, dials>>
    BY <1>3 DEF CleanupTimeout, ProgramStep
  <2>2. Same(q) /\ q.at = 1 /\ q.block = "ended" /\ q.agreed = program.agreed
    BY <1>1, GotoSame DEF Blocks
  <2> HIDE DEF q
  <2>3. /\ r \in Programs /\ r.phase = q.phase /\ r.tool = q.tool /\ r.at = q.at
        /\ r.block = q.block /\ r.agreed = q.agreed
        /\ ~r.unanswered => ~program.unanswered /\ box.sequence = box.processed
    BY <1>1, <2>2, LeavesBehindNotes DEF Same
  <2> HIDE DEF r
  <2>4. /\ program' \in Programs /\ program'.phase = r.phase /\ program'.tool = r.tool
        /\ program'.at = r.at /\ program'.block = r.block /\ program'.agreed = r.agreed
        /\ program'.unanswered = r.unanswered /\ program'.warned
    BY <2>1, <2>3 DEF Programs
  <2>5. Left(program')
    BY <2>1, <2>2, <2>3, <2>4 DEF Same, Left
  <2> QED BY <2>1, <2>5, LeavingKeeps
<1> QED BY <1>2, <1>3

\* A step that went well: the commands of calls were carried out, the checks held.
WentWell ==
    /\ program.block # "ended"
    /\ ~program.unanswered => box.sequence = box.processed
    /\ IsCall => program.phase = "await" /\ box.processed = program.base + 1
    /\ Step \in Checks => CheckHolds

LEMMA SuccessKeeps ==
    ASSUME CallConstants, IInv, WentWell, ProgramStep(NextStep(program))
    PROVE  IInv'
<1> DEFINE n == Len(Script(program.tool, program.block))
<1>1. program' = NextStep(program) /\ UNCHANGED <<box, console, dials>>
  BY DEF ProgramStep
<1>2. Types /\ Course /\ Own /\ program.block # "ended"
  BY DEF IInv, WentWell
<1>3. Onward(program')
  BY <1>1, <1>2, NextStepOnward
<1>4. /\ program.tool \in Tools /\ program.block \in Blocks /\ program.at \in 1 .. n
      /\ program.at \in Nat /\ program.base \in Nat
  BY <1>2 DEF Types, Programs
<1>5. n \in Nat
  BY <1>4, Lengths
<1>6. CASE program.at = n /\ program.block = "ask"
  <2>1. /\ Same(program') /\ program'.block = "run" /\ program'.at = 1
        /\ program'.agreed /\ program'.failed = program.failed
    BY <1>3, <1>6 DEF Onward
  <2>2. program.tool = "nifty-dial" /\ program.failed = {} /\ ~program.unanswered
    BY <1>2, <1>4, <1>6 DEF Course, Tools
  <2>3. OpenAt \in Nat /\ OpenAt > 1 /\ OpenAt' = OpenAt
    BY <2>1 DEF OpenAt, CallConstants, Same
  <2>4. Types'
    BY <1>1, <1>2, <2>1 DEF Types, Same
  <2>5. Course'
    BY <2>1, <2>2 DEF Course, Same
  <2>6. Own'
    BY <1>1, <2>1 DEF Own, Same, WentWell
  <2>7. Clean' /\ CleanupReachesSfc'
    BY <2>1 DEF Clean, CleanupReachesSfc
  <2>8. NotDialled'
    BY <1>1, <1>6, <2>1 DEF IInv, NotDialled, BeforeDial, DialPending, Same
  <2>9. NoLink'
    BY <1>1, <2>1 DEF IInv, NoLink, DialPending
  <2>10. Staged'
    BY <1>1, <2>1, <2>3 DEF IInv, Staged, DialPending, Done, Same
  <2> QED BY <2>4, <2>5, <2>6, <2>7, <2>8, <2>9, <2>10 DEF IInv
<1>7. CASE program.at = n /\ program.block = "cleanup"
  <2>1. /\ Same(program') /\ program'.block = "ended" /\ program'.agreed = program.agreed
        /\ program'.warned <=> program.failed # {}
    BY <1>3, <1>7 DEF Onward
  <2>2. n = 4
    BY <1>4, <1>7, OtherPlaces
  <2>3. Step = "RECEIVE_STOP" /\ IsCall
    BY <1>2, <1>7, <2>2, Steps DEF IsCall, Questions, Checks, Waits
  <2>4. Done(1) /\ Done(2) /\ Done(4)
    <3>1. program.at = 4
      BY <1>7, <2>2
    <3>2. program.phase = "await" /\ box.processed = program.base + 1
      BY <2>3 DEF WentWell
    <3> QED BY <3>1, <3>2 DEF Done
  <2>5. CleanupReachesSfc'
    BY <1>1, <1>7, <2>1, <2>4 DEF CleanupReachesSfc, IInv, Clean, Same
  <2>6. Types'
    BY <1>1, <1>2, <2>1 DEF Types, Same
  <2>7. Course'
    BY <1>2, <1>7, <2>1 DEF Course, Same
  <2>8. Own'
    BY <1>1, <2>1 DEF Own, Same, WentWell
  <2>9. Clean'
    BY <2>1 DEF Clean
  <2>10. NotDialled'
    BY <1>1, <2>1 DEF IInv, NotDialled, BeforeDial, DialPending, Running, Same
  <2>11. NoLink' /\ Staged'
    BY <1>1, <2>1 DEF IInv, NoLink, Staged, DialPending, Running, Same
  <2> QED BY <2>5, <2>6, <2>7, <2>8, <2>9, <2>10, <2>11 DEF IInv
<1>8. CASE program.at = n /\ program.block \in {"run", "undo"}
  <2>1. Out(program')
    BY <1>3, <1>8 DEF Onward
  <2>2. Types'
    BY <1>1, <1>2, <2>1 DEF Types, Out, Same
  <2>3. Course'
    BY <1>2, <1>4, <1>8, <2>1 DEF Course, Out, Same, Tools
  <2>4. Own'
    BY <1>1, <2>1 DEF Own, Out, Same, WentWell
  <2>5. Clean'
    BY <2>1 DEF Clean, Done, Out, Same
  <2>6. CleanupReachesSfc'
    BY <1>2, <1>4, <2>1 DEF CleanupReachesSfc, Course, Out, Same, Tools
  <2>7. NotDialled'
    BY <1>1, <2>1 DEF IInv, NotDialled, BeforeDial, DialPending, Running, Out, Same
  <2>8. NoLink' /\ Staged'
    BY <1>1, <2>1 DEF IInv, NoLink, Staged, DialPending, Running, Out, Same
  <2> QED BY <2>2, <2>3, <2>4, <2>5, <2>6, <2>7, <2>8 DEF IInv
<1>9. CASE program.at < n
  <2>1. /\ Same(program') /\ program'.block = program.block /\ program'.at = program.at + 1
        /\ program'.agreed = program.agreed /\ program'.failed = program.failed
    BY <1>3, <1>9 DEF Onward
  <2>2. Types'
    BY <1>1, <1>2, <2>1 DEF Types, Same
  <2>3. Course'
    BY <1>2, <2>1 DEF Course, Same
  <2>4. Own'
    BY <1>1, <2>1 DEF Own, Same, WentWell
  <2>5. Clean'
    <3>1. CASE program.block = "cleanup"
      <4>1. /\ program.at \in 1 .. 4
            /\ program.at \in {1, 2, 4} => IsCall
        BY <1>2, <3>1, Steps DEF IsCall, Questions, Checks, Waits
      <4>2. \A k \in {1, 2, 4} : Done(k)' => Done(k)
        BY <2>1, <4>1 DEF Done, Same, WentWell
      <4> QED BY <1>1, <2>1, <4>2 DEF IInv, Clean, Same
    <3> QED BY <2>1, <3>1 DEF Clean
  <2>6. CleanupReachesSfc'
    BY <1>2, <2>1 DEF CleanupReachesSfc
  <2>7. CASE program.block = "run"
    <3>1. Running
      BY <2>7 DEF Running
    <3>2. OpenAt \in Nat /\ OpenAt > 1 /\ OpenAt' = OpenAt
      BY <1>2, <2>1, <3>1, RunSteps DEF OpenAt, Same
    <3>3. NotDialled'
      BY <1>1, <1>4, <2>1, <2>7, <3>2
         DEF IInv, NotDialled, BeforeDial, DialAt, DialPending, Running, Same
    <3>4. NoLink'
      <4>1. program.at = 1 => console.driver = "Ready"
        BY <1>2, <3>1, RunSteps DEF WentWell, Checks, CheckHolds
      <4> QED BY <1>1, <1>4, <2>1, <2>7, <4>1 DEF IInv, NoLink, DialPending, Running
    <3>5. program.tool = "nifty-dial" /\ program.at = OpenAt - 1 =>
              console.fields = {"PEER_ID", "PASSWORD"}
      BY <1>2, <3>1, RunSteps DEF WentWell, Checks, CheckHolds
    <3>6. program.at \in {OpenAt, OpenAt + 1} => Done(program.at)
      BY <1>2, <3>1, RunSteps DEF WentWell, IsCall, Questions, Checks, Waits, Done
    <3>7. (Running /\ Done(OpenAt))' => Done(OpenAt)
      BY <1>4, <2>1, <3>2, <3>6 DEF Done, Same
    <3>8. (Running /\ Done(OpenAt + 1))' => Done(OpenAt + 1)
      BY <1>4, <2>1, <3>2, <3>6 DEF Done, Same
    <3>9. (Running /\ program.at >= OpenAt)' /\ program.tool = "nifty-dial" =>
              program.at >= OpenAt \/ console.fields = {"PEER_ID", "PASSWORD"}
      BY <1>4, <2>1, <3>2, <3>5
    <3>10. Staged'
      BY <1>1, <2>1, <3>1, <3>7, <3>8, <3>9 DEF IInv, Staged, DialPending, Same
    <3> QED BY <2>2, <2>3, <2>4, <2>5, <2>6, <3>3, <3>4, <3>10 DEF IInv
  <2>8. CASE program.block # "run"
    <3>1. NotDialled'
      BY <1>1, <2>1, <2>8 DEF IInv, NotDialled, BeforeDial, DialPending, Running, Same
    <3>2. NoLink' /\ Staged'
      BY <1>1, <2>1, <2>8 DEF IInv, NoLink, Staged, DialPending, Running, Same
    <3> QED BY <2>2, <2>3, <2>4, <2>5, <2>6, <3>1, <3>2 DEF IInv
  <2> QED BY <2>7, <2>8
<1>10. program.at < n \/ program.at = n
  BY <1>4, <1>5
<1> QED BY <1>2, <1>4, <1>6, <1>7, <1>8, <1>9, <1>10 DEF Blocks

LEMMA ProceedKeeps ==
    ASSUME CallConstants, IInv, program.block # "ended", NEW ok \in BOOLEAN, Proceed(ok),
           ~program.unanswered => box.sequence = box.processed,
           IsCall => program.phase = "await" /\ box.processed = program.base + 1,
           ok => (Step \in Checks => CheckHolds)
    PROVE  IInv'
<1>1. CASE ok
  <2>1. ProgramStep(NextStep(program))
    BY <1>1 DEF Proceed
  <2> QED BY <1>1, <2>1, SuccessKeeps DEF WentWell
<1>2. CASE ~ok
  <2>1. ProgramStep(AfterFailure(program))
    BY <1>2 DEF Proceed
  <2> QED BY <2>1, FailureKeeps
<1> QED BY <1>1, <1>2

\* Questions, checks and waits leave the mailbox alone.
LEMMA NoCallOpen ==
    ASSUME IInv, ~IsCall
    PROVE  ~program.unanswered => box.sequence = box.processed
BY DEF IInv, Types, Programs, Own

LEMMA QuestionsKeep ==
    ASSUME CallConstants, IInv, confirm_charged_call \/ prompt
    PROVE  IInv'
<1>1. program.block # "ended" /\ Step \in Questions
  BY DEF confirm_charged_call, prompt, At, Questions
<1>2. ~IsCall /\ Step \notin Checks
  BY <1>1 DEF IsCall, Questions, Checks
<1>3. \E ok \in BOOLEAN : Proceed(ok)
  <2>1. CASE confirm_charged_call
    <3>1. PICK typed \in {"DIAL", "OTHER"} : Proceed(typed = "DIAL")
      BY <2>1 DEF confirm_charged_call
    <3>2. (typed = "DIAL") \in BOOLEAN
      OBVIOUS
    <3> QED BY <3>1, <3>2
  <2>2. CASE prompt
    BY <2>2 DEF prompt
  <2> QED BY <2>1, <2>2
<1> QED BY <1>1, <1>2, <1>3, NoCallOpen, ProceedKeeps

LEMMA CheckKeeps == ASSUME CallConstants, IInv, Check PROVE IInv'
<1>1. program.block # "ended" /\ Step \in Checks /\ Proceed(CheckHolds)
  BY DEF Check
<1>2. ~IsCall
  BY <1>1 DEF IsCall
<1>3. CheckHolds \in BOOLEAN
  BY DEF CheckHolds, IInv, Types, Consoles
<1> QED BY <1>1, <1>2, <1>3, NoCallOpen, ProceedKeeps

LEMMA WaitsKeep ==
    ASSUME CallConstants, IInv, wait_ppp_network_opened \/ ppp_close \/ hold_connection
    PROVE  IInv'
<1>1. program.block # "ended" /\ Step \in Waits
  BY DEF wait_ppp_network_opened, ppp_close, hold_connection, At, Waits
<1>2. ~IsCall /\ Step \notin Checks
  BY <1>1 DEF IsCall, Waits, Checks
<1>3. \E ok \in BOOLEAN : Proceed(ok)
  <2>1. CASE wait_ppp_network_opened
    BY <2>1 DEF wait_ppp_network_opened
  <2>2. CASE ppp_close
    <3>1. Proceed(program.opened => console.terminated)
      BY <2>2 DEF ppp_close
    <3>2. (program.opened => console.terminated) \in BOOLEAN
      OBVIOUS
    <3> QED BY <3>1, <3>2
  <2>3. CASE hold_connection
    BY <2>3 DEF hold_connection
  <2> QED BY <2>1, <2>2, <2>3
<1> QED BY <1>1, <1>2, <1>3, NoCallOpen, ProceedKeeps

LEMMA CallEndsKeeps == ASSUME CallConstants, IInv, CallEnds PROVE IInv'
<1>1. /\ IsCall /\ program.block # "ended" /\ Step \notin Checks
      /\ program.phase = "await" /\ box.processed = program.base + 1
      /\ Proceed(box.status = "PASSED")
  BY DEF CallEnds, IsCall
<1>2. ~program.unanswered => box.sequence = box.processed
  BY <1>1 DEF IInv, Own
<1>3. (box.status = "PASSED") \in BOOLEAN
  OBVIOUS
<1> QED BY <1>1, <1>2, <1>3, ProceedKeeps

\* Only the run has the dial command, at one place.
LEMMA DialPlace ==
    ASSUME CallConstants, Types, program.block # "ended", Step = "DIAL"
    PROVE  Running /\ program.at = DialAt /\ OpenAt \in Nat /\ OpenAt > 1
<1>1. program.block \in Blocks /\ program.at \in Nat
  BY DEF Types, Programs
<1>2. Running
  <2>1. program.block # "cleanup"
    <3>1. program.block = "cleanup" => Step \in {"CLEAR", "CLOSE", "CLOSED", "RECEIVE_STOP"}
      BY Steps
    <3> QED BY <3>1
  <2>2. program.block \notin {"ask", "undo"}
    BY Steps DEF Questions
  <2> QED BY <1>1, <2>1, <2>2 DEF Running, Blocks
<1>3. OpenAt \in Nat /\ OpenAt > 1
  BY <1>2, RunSteps
<1>4. program.at = OpenAt + 2
  <2>1. /\ ~(program.at < OpenAt) /\ program.at # OpenAt /\ program.at # OpenAt + 1
        /\ ~(program.at > OpenAt + 2)
    BY <1>2, RunSteps DEF Afterwards
  <2> QED BY <1>1, <1>3, <2>1
<1> QED BY <1>2, <1>3, <1>4 DEF DialAt

LEMMA ReadMailboxKeeps == ASSUME CallConstants, IInv, ReadMailbox PROVE IInv'
<1> DEFINE o == IF Step = "CLOSE" THEN console.lcp = "Opened" ELSE program.opened
<1>1. /\ IsCall /\ program.phase = "start" /\ UNCHANGED <<box, console, dials>>
      /\ program' = [program EXCEPT !.phase = "write", !.base = box.processed, !.opened = o]
  BY DEF ReadMailbox, ProgramStep
<1>2. o \in BOOLEAN /\ box.processed \in Nat /\ program \in Programs
  BY DEF IInv, Types, Programs, Boxes
<1> HIDE DEF o
<1>3. /\ program' \in Programs /\ program'.phase = "write" /\ program'.base = box.processed
      /\ program'.tool = program.tool /\ program'.block = program.block
      /\ program'.at = program.at /\ program'.agreed = program.agreed
      /\ program'.failed = program.failed /\ program'.warned = program.warned
      /\ program'.unanswered = program.unanswered
  BY <1>1, <1>2 DEF Programs
<1>4. Step' = Step
  BY <1>3 DEF Step
<1>5. OpenAt' = OpenAt
  BY <1>3 DEF OpenAt
<1>6. Types'
  BY <1>1, <1>3 DEF IInv, Types
<1>7. Course'
  BY <1>3 DEF IInv, Course
<1>8. Own'
  BY <1>1, <1>3, <1>4 DEF IInv, Own, IsCall
<1>9. Clean'
  BY <1>1, <1>3 DEF IInv, Clean, Done
<1>10. CleanupReachesSfc'
  BY <1>1, <1>3 DEF IInv, CleanupReachesSfc
<1>11. NotDialled'
  BY <1>1, <1>3, <1>5 DEF IInv, NotDialled, BeforeDial, DialAt, DialPending, Running
<1>12. NoLink'
  BY <1>1, <1>3 DEF IInv, NoLink, DialPending, Running
<1>13. Staged'
  BY <1>1, <1>3, <1>5 DEF IInv, Staged, DialPending, Running, Done
<1> QED BY <1>6, <1>7, <1>8, <1>9, <1>10, <1>11, <1>12, <1>13 DEF IInv

LEMMA WriteCommandKeeps == ASSUME CallConstants, IInv, WriteCommand PROVE IInv'
<1>1. /\ IsCall /\ program.phase = "write" /\ UNCHANGED <<console, dials>>
      /\ program.block # "ended"
      /\ box' = [box EXCEPT !.command = Step, !.sequence = program.base + 1]
      /\ program' = [program EXCEPT !.phase = "await"]
  BY DEF WriteCommand, IsCall
<1>2. Types /\ Course /\ Own
  BY DEF IInv
<1>3. /\ program \in Programs /\ program.base \in Nat /\ program.at \in Nat /\ box \in Boxes
      /\ box.processed \in Nat
  BY <1>2 DEF Types, Programs, Boxes
<1>4. Step \in Names
  BY <1>2, Steps
<1>5. /\ program' \in Programs /\ program'.phase = "await" /\ program'.base = program.base
      /\ program'.tool = program.tool /\ program'.block = program.block
      /\ program'.at = program.at /\ program'.agreed = program.agreed
      /\ program'.failed = program.failed /\ program'.warned = program.warned
      /\ program'.unanswered = program.unanswered
  BY <1>1, <1>3 DEF Programs
<1>6. /\ box' \in Boxes /\ box'.command = Step /\ box'.sequence = program.base + 1
      /\ box'.processed = box.processed
  <2>1. program.base + 1 \in Nat /\ Step \in Names \cup {"NONE"}
    BY <1>3, <1>4
  <2> DEFINE c == Step
             m == program.base + 1
  <2>2. box' = [box EXCEPT !.command = c, !.sequence = m]
    BY <1>1
  <2> HIDE DEF c, m
  <2>3. c \in Names \cup {"NONE"} /\ m \in Nat
    BY <2>1 DEF c, m
  <2>4. /\ box' \in Boxes /\ box'.command = c /\ box'.sequence = m
        /\ box'.processed = box.processed
    BY <1>3, <2>2, <2>3 DEF Boxes
  <2> QED BY <2>4 DEF c, m
<1>7. Step' = Step
  BY <1>5 DEF Step
<1>8. OpenAt' = OpenAt /\ DialAt' = DialAt
  BY <1>5 DEF OpenAt, DialAt
<1>9. ~program.unanswered => box.processed = program.base
  BY <1>1, <1>2 DEF Own
<1>10. ~program.unanswered => box.processed # program.base + 1
  BY <1>3, <1>9
<1>11. ~program.unanswered => \A k \in Nat : Done(k)' => Done(k)
  BY <1>5, <1>6, <1>10 DEF Done
<1>12. Running => ~program.unanswered
  BY <1>2 DEF Course, Running
<1>13. DialPending' => Running /\ program.at = DialAt /\ OpenAt \in Nat /\ OpenAt > 1
  BY <1>1, <1>2, <1>6, DialPlace DEF DialPending
<1>14. Types'
  BY <1>1, <1>2, <1>5, <1>6 DEF Types
<1>15. Course'
  BY <1>2, <1>5 DEF Course
<1>16. Own'
  BY <1>1, <1>5, <1>6, <1>7, <1>9 DEF Own, IsCall
<1>17. Clean'
  BY <1>1, <1>5, <1>11 DEF IInv, Clean
<1>18. CleanupReachesSfc'
  BY <1>1, <1>5 DEF CleanupReachesSfc
<1>19. NotDialled'
  <2>1. BeforeDial' => BeforeDial
    BY <1>5, <1>8 DEF BeforeDial, Running
  <2>2. BeforeDial' => Step # "DIAL"
    <3> SUFFICES ASSUME BeforeDial', Step = "DIAL" PROVE FALSE
      OBVIOUS
    <3>1. Running /\ program.at = DialAt /\ OpenAt \in Nat
      BY <1>1, <1>2, DialPlace
    <3> QED BY <1>5, <1>8, <3>1 DEF BeforeDial, Running, DialAt
  <2>3. DialPending' => BeforeDial
    BY <1>1, <1>13 DEF BeforeDial
  <2>4. DialPending' /\ program.tool = "nifty-dial" => program.agreed
    BY <1>2, <1>13 DEF Course, Running
  <2> QED BY <1>1, <1>5, <1>6, <2>1, <2>2, <2>3, <2>4 DEF IInv, NotDialled
<1>20. NoLink'
  <2>1. DialPending' => Running /\ program.at > 1
    BY <1>13 DEF DialAt
  <2> QED BY <1>1, <1>5, <2>1 DEF IInv, NoLink, Running
<1>21. Staged'
  <2>1. DialPending' =>
            Running /\ program.at >= OpenAt /\ Done(OpenAt) /\ Done(OpenAt + 1)
    BY <1>13 DEF DialAt, Done
  <2>2. Running => OpenAt \in Nat
    BY <1>2, RunSteps
  <2>3. (Running /\ Done(OpenAt))' => Running /\ Done(OpenAt)
    BY <1>5, <1>8, <1>11, <1>12, <2>2 DEF Running
  <2>4. (Running /\ Done(OpenAt + 1))' => Running /\ Done(OpenAt + 1)
    BY <1>5, <1>8, <1>11, <1>12, <2>2 DEF Running
  <2> QED BY <1>1, <1>5, <1>8, <2>1, <2>3, <2>4 DEF IInv, Staged, Running
<1> QED BY <1>14, <1>15, <1>16, <1>17, <1>18, <1>19, <1>20, <1>21 DEF IInv

-----------------------------------------------------------------------------
\* Steps of the console keep the invariant.

LEMMA MailboxAtEndsKeeps == ASSUME CallConstants, IInv, MailboxAtEnds PROVE IInv'
<1>1. /\ console.at \in {"PASSED", "FAILED"} /\ box' = [box EXCEPT !.status = console.at]
      /\ UNCHANGED <<program, console, dials>>
  BY DEF MailboxAtEnds
<1>2. box \in Boxes
  BY DEF IInv, Types
<1>3. /\ box' \in Boxes /\ box'.command = box.command /\ box'.sequence = box.sequence
      /\ box'.processed = box.processed
  BY <1>1, <1>2 DEF Boxes
<1>4. Step' = Step /\ OpenAt' = OpenAt
  BY <1>1 DEF Step, OpenAt
<1>5. Types' /\ Course'
  BY <1>1, <1>3 DEF IInv, Types, Course
<1>6. Own'
  BY <1>1, <1>3, <1>4 DEF IInv, Own, IsCall
<1>7. Clean' /\ CleanupReachesSfc'
  BY <1>1, <1>3 DEF IInv, Clean, Done, CleanupReachesSfc
<1>8. NotDialled' /\ NoLink'
  BY <1>1, <1>3, <1>4 DEF IInv, NotDialled, BeforeDial, DialAt, DialPending, Running, NoLink
<1>9. Staged'
  BY <1>1, <1>3, <1>4 DEF IInv, Staged, DialPending, Running, Done
<1> QED BY <1>5, <1>6, <1>7, <1>8, <1>9 DEF IInv

\* What a command does to the part of the console the scripts rely on.
Effected(c, s) ==
    /\ s \in Consoles
    /\ c = "CLEAR" => s.fields = {}
    /\ c \notin {"CLEAR", "PEER_ID", "PASSWORD"} => s.fields = console.fields
    /\ s.admin = IF c = "OPEN" THEN TRUE ELSE IF c = "CLOSE" THEN FALSE ELSE console.admin
    /\ s.receive = IF c = "RECEIVE_START" THEN TRUE
                   ELSE IF c = "RECEIVE_STOP" THEN FALSE ELSE console.receive
    /\ s.driver # console.driver =>
          /\ console.driver = "Ready"
          /\ s.driver = IF c = "DIAL" THEN "Dialing" ELSE "AtCommand"
    /\ console.lcp \in {"Closed", "Negotiating"} => s.lcp \in {"Closed", "Negotiating"}

LEMMA Effects ==
    ASSUME NEW c \in Names \cup {"NONE"}, console \in Consoles
    PROVE  Effected(c, Effect(console, c))
<1> SUFFICES ASSUME NEW s, s = Effect(console, c)
             PROVE  Effected(c, s)
  OBVIOUS
<1>1. CASE c \in AtCommands
  <2>1. s = modemAtBegin(console, c)
    BY <1>1 DEF Effect, AtCommands
  <2>2. CASE console.driver = "Ready"
    <3> DEFINE d == IF c = "DIAL" THEN "Dialing" ELSE "AtCommand"
    <3>1. s = [console EXCEPT !.at = "RUNNING", !.driver = d]
      BY <2>1, <2>2 DEF modemAtBegin
    <3>2. d \in {"Dialing", "AtCommand"}
      OBVIOUS
    <3>3. s \in Consoles /\ s.driver = d /\ s.fields = console.fields /\ s.admin = console.admin
          /\ s.receive = console.receive /\ s.lcp = console.lcp
      <4> HIDE DEF d
      <4> QED BY <3>1, <3>2 DEF Consoles
    <3> QED BY <1>1, <2>2, <3>3 DEF Effected, AtCommands
  <2>3. CASE console.driver # "Ready"
    <3>1. s = [console EXCEPT !.at = "FAILED"]
      BY <2>1, <2>3 DEF modemAtBegin
    <3>2. s \in Consoles /\ s.driver = console.driver /\ s.fields = console.fields
          /\ s.admin = console.admin /\ s.receive = console.receive /\ s.lcp = console.lcp
      BY <3>1 DEF Consoles
    <3> QED BY <1>1, <3>2 DEF Effected, AtCommands
  <2> QED BY <2>2, <2>3
<1> DEFINE k == [console EXCEPT !.transient = TRUE, !.fields = {}]
<1>2. k \in Consoles /\ k.driver = console.driver /\ k.fields = {}
      /\ k.admin = console.admin /\ k.receive = console.receive /\ k.lcp = console.lcp
  BY DEF Consoles
<1>3. CASE c = "CLEAR"
  <2>1. s = k
    BY <1>3 DEF Effect, AtCommands, Cleared
  <2> HIDE DEF k
  <2> QED BY <1>2, <1>3, <2>1 DEF Effected
<1>4. CASE c \in {"PEER_ID", "PASSWORD"}
  <2> DEFINE f == console.fields \cup {c}
  <2>1. s = IF console.transient THEN [console EXCEPT !.fields = f] ELSE k
    BY <1>4 DEF Effect, AtCommands, CredentialSet, Cleared
  <2>2. f \in SUBSET {"PEER_ID", "PASSWORD"}
    BY <1>4 DEF Consoles
  <2> HIDE DEF f, k
  <2>3. CASE console.transient
    <3>1. s \in Consoles /\ s.driver = console.driver
          /\ s.admin = console.admin /\ s.receive = console.receive /\ s.lcp = console.lcp
      BY <2>1, <2>2, <2>3 DEF Consoles
    <3> QED BY <1>4, <3>1 DEF Effected
  <2>4. CASE ~console.transient
    BY <1>2, <1>4, <2>1, <2>4 DEF Effected
  <2> QED BY <2>3, <2>4
<1>5. CASE c = "OPEN"
  <2> DEFINE l == IF console.lcp \in {"Opened", "Closing"} THEN console.lcp ELSE "Negotiating"
  <2>1. s = [console EXCEPT !.admin = TRUE, !.lcp = l]
    BY <1>5 DEF Effect, AtCommands, pppLcpOpen
  <2>2. l \in {"Opened", "Closing", "Negotiating"}
        /\ (console.lcp \in {"Closed", "Negotiating"} => l = "Negotiating")
    OBVIOUS
  <2> HIDE DEF l
  <2>3. s \in Consoles /\ s.driver = console.driver /\ s.fields = console.fields
        /\ s.admin = TRUE /\ s.receive = console.receive /\ s.lcp = l
    BY <2>1, <2>2 DEF Consoles
  <2> QED BY <1>5, <2>2, <2>3 DEF Effected
<1>6. CASE c = "CLOSE"
  <2> DEFINE l == IF console.lcp = "Stopped" THEN "Closed" ELSE console.lcp
  <2>1. s = [console EXCEPT !.admin = FALSE, !.lcp = l]
    BY <1>6 DEF Effect, AtCommands, pppLcpClose
  <2>2. l \in {"Closed", "Negotiating", "Opened", "Closing", "Stopped"}
        /\ (console.lcp \in {"Closed", "Negotiating"} => l = console.lcp)
    BY DEF Consoles
  <2> HIDE DEF l
  <2>3. s \in Consoles /\ s.driver = console.driver /\ s.fields = console.fields
        /\ s.admin = FALSE /\ s.receive = console.receive /\ s.lcp = l
    BY <2>1, <2>2 DEF Consoles
  <2> QED BY <1>6, <2>2, <2>3 DEF Effected
<1>7. CASE c \in {"RECEIVE_START", "RECEIVE_STOP"}
  <2> DEFINE b == c = "RECEIVE_START"
  <2>1. s = [console EXCEPT !.receive = b]
    BY <1>7 DEF Effect, AtCommands
  <2>2. b \in BOOLEAN
    OBVIOUS
  <2> HIDE DEF b
  <2>3. s \in Consoles /\ s.driver = console.driver /\ s.fields = console.fields
        /\ s.admin = console.admin /\ s.receive = b /\ s.lcp = console.lcp
    BY <2>1, <2>2 DEF Consoles
  <2> QED BY <1>7, <2>3 DEF Effected, b
<1>8. CASE c \notin AtCommands \cup {"CLEAR", "PEER_ID", "PASSWORD", "OPEN", "CLOSE",
                                     "RECEIVE_START", "RECEIVE_STOP"}
  <2>1. s = console
    BY <1>8 DEF Effect
  <2> QED BY <1>8, <2>1 DEF Effected
<1> QED BY <1>1, <1>3, <1>4, <1>5, <1>6, <1>7, <1>8

\* The command the SFC takes is the program's own, unless one was left behind.
LEMMA TakesOwn ==
    ASSUME IInv, MailboxExecutes, ~program.unanswered
    PROVE  /\ IsCall /\ program.phase = "await" /\ box.command = Step
           /\ box.sequence = program.base + 1 /\ box.processed # program.base + 1
BY DEF IInv, Types, Programs, Own, MailboxExecutes

LEMMA MailboxExecutesKeeps == ASSUME CallConstants, IInv, MailboxExecutes PROVE IInv'
<1> DEFINE c == box.command
<1>1. /\ console' = Effect(console, c) /\ program' = program /\ box.sequence # box.processed
      /\ box' = [box EXCEPT !.status = Status(console, c), !.processed = box.sequence]
      /\ dials' = IF console'.driver = "Dialing" /\ console.driver # "Dialing"
                  THEN dials + 1 ELSE dials
  BY DEF MailboxExecutes
<1>2. Types /\ Course /\ Own
  BY DEF IInv
<1>3. /\ program \in Programs /\ program.at \in Nat /\ box \in Boxes /\ console \in Consoles
      /\ dials \in Nat /\ c \in Names \cup {"NONE"} /\ box.sequence \in Nat
  BY <1>2 DEF Types, Programs, Boxes
<1>4. Effected(c, console')
  BY <1>1, <1>3, Effects
<1>5. /\ box' \in Boxes /\ box'.command = c /\ box'.sequence = box.sequence
      /\ box'.processed = box.sequence
  <2>1. Status(console, c) \in {"IDLE", "RUNNING", "PASSED", "FAILED"}
    BY DEF Status
  <2> QED BY <1>1, <1>3, <2>1 DEF Boxes
<1>6. Step' = Step /\ OpenAt' = OpenAt /\ DialAt' = DialAt
  BY <1>1 DEF Step, OpenAt, DialAt
<1>7. ~DialPending'
  BY <1>5 DEF DialPending
<1>8. dials' = 0 => dials = 0 /\ (console'.driver = "Dialing" => console.driver = "Dialing")
  BY <1>1, <1>3
<1>9. Types'
  BY <1>1, <1>2, <1>3, <1>4, <1>5 DEF Types, Effected
<1>10. Course'
  BY <1>1, <1>2 DEF Course
<1>11. Own'
  BY <1>1, <1>2, <1>5, <1>6, TakesOwn DEF Own, IsCall
<1>12. Clean'
  <2> SUFFICES ASSUME ~program.unanswered, program.block = "cleanup", program.failed = {}
               PROVE  /\ Done(1)' => console'.fields = {}
                      /\ Done(2)' => ~console'.admin
                      /\ Done(4)' => ~console'.receive
    BY <1>1 DEF Clean
  <2>1. IsCall /\ c = Step /\ program.at \in 1 .. 4
    BY <1>2, TakesOwn, Steps
  <2>2. \/ program.at = 1 /\ c = "CLEAR"
        \/ program.at = 2 /\ c = "CLOSE"
        \/ program.at = 4 /\ c = "RECEIVE_STOP"
    BY <1>2, <2>1, Steps DEF IsCall, Waits
  <2>3. /\ program.at > 1 => console.fields = {}
        /\ program.at > 2 => ~console.admin
    BY DEF IInv, Clean, Done
  <2>4. \A k \in {1, 2, 4} : Done(k)' => program.at >= k
    BY <1>1, <1>3 DEF Done
  <2> QED BY <1>4, <2>2, <2>3, <2>4 DEF Effected
<1>13. CleanupReachesSfc'
  BY <1>1, TakesOwn DEF CleanupReachesSfc, IsCall
<1>14. NotDialled'
  <2>1. BeforeDial' => BeforeDial
    BY <1>1, <1>6 DEF BeforeDial, Running
  <2>2. c # "DIAL" => dials' = dials
    BY <1>1, <1>4 DEF Effected
  <2> QED BY <1>5, <1>7, <2>1, <2>2 DEF IInv, NotDialled
<1>15. NoLink'
  <2>1. console'.driver # "Connected" /\ console.driver = "Connected" => FALSE
    BY <1>4 DEF Effected
  <2> QED BY <1>1, <1>4, <1>7, <1>8, <2>1 DEF IInv, NoLink, Running, Effected
<1>16. Staged'
  <2> SUFFICES ASSUME Running
               PROVE  Staged'
    BY <1>1, <1>7 DEF Staged, Running
  <2>1. c = Step /\ OpenAt \in Nat /\ OpenAt > 1
    BY <1>2, TakesOwn, RunSteps DEF Course, Running
  <2>2. program.at >= OpenAt =>
            c \in {"OPEN", "RECEIVE_START", "DIAL"} \cup Afterwards
    BY <1>2, <1>3, <2>1, RunSteps
  <2>3. program.at > OpenAt => c \in {"RECEIVE_START", "DIAL"} \cup Afterwards
    BY <1>2, <1>3, <2>1, RunSteps
  <2>4. program.at > OpenAt + 1 => c \in {"DIAL"} \cup Afterwards
    BY <1>2, <1>3, <2>1, RunSteps
  <2>5. program.at >= OpenAt => console'.fields = console.fields
    BY <1>4, <2>2 DEF Effected, Afterwards
  <2>6. Done(OpenAt)' => console'.admin
    <3>1. CASE program.at > OpenAt
      <4>1. console.admin
        BY <3>1 DEF IInv, Staged, Done
      <4> QED BY <1>4, <2>3, <3>1, <4>1 DEF Effected, Afterwards
    <3>2. CASE program.at = OpenAt
      BY <1>2, <1>4, <2>1, <3>2, RunSteps DEF Effected
    <3> QED BY <1>1, <1>6, <3>1, <3>2 DEF Done
  <2>7. Done(OpenAt + 1)' => console'.receive
    <3>1. CASE program.at > OpenAt + 1
      <4>1. console.receive
        BY <3>1 DEF IInv, Staged, Done
      <4> QED BY <1>4, <2>4, <3>1, <4>1 DEF Effected, Afterwards
    <3>2. CASE program.at = OpenAt + 1
      BY <1>2, <1>4, <2>1, <3>2, RunSteps DEF Effected
    <3> QED BY <1>1, <1>6, <3>1, <3>2 DEF Done
  <2> QED BY <1>1, <1>6, <1>7, <1>8, <2>5, <2>6, <2>7 DEF IInv, Staged, Running
<1> QED BY <1>9, <1>10, <1>11, <1>12, <1>13, <1>14, <1>15, <1>16 DEF IInv

\* What the modem and the link do by themselves.
Drift(s) ==
    /\ s \in Consoles /\ s.admin = console.admin /\ s.receive = console.receive
    /\ s.fields \in {console.fields, {}}
    /\ s.driver = "Dialing" => console.driver = "Dialing"
    /\ s.driver = "Connected" => console.driver \in {"Connected", "Dialing"}
    /\ (console.driver = "Connected" /\ s.driver # "Connected") => s.lcp = "Closed"
    /\ (console.driver \notin {"Connected", "Dialing"} /\ console.lcp \in {"Closed", "Negotiating"})
          => s.fields = console.fields /\ s.lcp \in {"Closed", "Negotiating"}

LEMMA DriftKeeps ==
    ASSUME CallConstants, IInv, Drift(console'), UNCHANGED <<program, box, dials>>
    PROVE  IInv'
<1>1. Step' = Step /\ OpenAt' = OpenAt
  BY DEF Step, OpenAt
<1>2. Types' /\ Course'
  BY DEF IInv, Types, Course, Drift
<1>3. Own'
  BY <1>1 DEF IInv, Own, IsCall
<1>4. Clean' /\ CleanupReachesSfc'
  BY DEF IInv, Clean, Done, CleanupReachesSfc, Drift
<1>5. NotDialled'
  BY <1>1 DEF IInv, NotDialled, BeforeDial, DialAt, DialPending, Running
<1>6. NoLink'
  BY DEF IInv, NoLink, DialPending, Running, Drift
<1>7. Staged'
  <2>1. (dials = 0 /\ ((Running /\ program.at > 1) \/ DialPending)) =>
            console'.fields = console.fields
    BY DEF IInv, NoLink, Drift
  <2>2. Running => OpenAt \in Nat /\ OpenAt > 1 /\ program.at \in Nat
    BY RunSteps DEF IInv, Types, Programs
  <2>3. Running /\ program.at >= OpenAt => program.at > 1
    BY <2>2
  <2> QED BY <1>1, <2>1, <2>3 DEF IInv, Staged, DialPending, Running, Done, Drift
<1> QED BY <1>2, <1>3, <1>4, <1>5, <1>6, <1>7 DEF IInv

\* The link goes down: the credentials are wiped if it had been open.
LEMMA DownLeaves ==
    ASSUME NEW s \in Consoles
    PROVE  LET d == Down(s)
           IN  /\ d \in Consoles /\ d.admin = s.admin /\ d.receive = s.receive
               /\ d.driver = s.driver /\ d.lcp = "Closed" /\ d.fields \in {s.fields, {}}
               /\ s.lcp # "Opened" => d.fields = s.fields
<1> SUFFICES ASSUME NEW d, d = Down(s)
             PROVE  /\ d \in Consoles /\ d.admin = s.admin /\ d.receive = s.receive
                    /\ d.driver = s.driver /\ d.lcp = "Closed" /\ d.fields \in {s.fields, {}}
                    /\ s.lcp # "Opened" => d.fields = s.fields
  OBVIOUS
<1> DEFINE w == IF s.lcp = "Opened" THEN Wiped(s) ELSE s
<1>1. /\ w \in Consoles /\ w.admin = s.admin /\ w.receive = s.receive
      /\ w.driver = s.driver /\ w.fields \in {s.fields, {}}
      /\ s.lcp # "Opened" => w.fields = s.fields
  BY DEF Wiped, Consoles
<1>2. d = [w EXCEPT !.lcp = "Closed", !.net = FALSE]
  BY DEF Down
<1> HIDE DEF w
<1> QED BY <1>1, <1>2 DEF Consoles

LinkSteps ==
    \/ ModemAnswers \/ ModemFails \/ CarrierLost \/ LcpLowerDown \/ LcpStarts \/ LcpOpens
    \/ LcpStops \/ Authenticated \/ LcpCloses \/ LcpTerminates

LEMMA LinkStepsDrift ==
    ASSUME Types, LinkSteps
    PROVE  Drift(console') /\ UNCHANGED <<program, box, dials>>
<1> USE DEF ConsoleStep
<1>1. console \in Consoles
  BY DEF Types
<1>2. CASE ModemAnswers
  <2> DEFINE d == IF console.driver = "Dialing" THEN "Connected" ELSE "Ready"
  <2>1. /\ console' = [console EXCEPT !.at = "PASSED", !.driver = d]
        /\ console.driver \in {"AtCommand", "Dialing"} /\ UNCHANGED <<program, box, dials>>
    BY <1>2 DEF ModemAnswers
  <2>2. d \in {"Connected", "Ready"} /\ (d = "Connected" => console.driver = "Dialing")
    OBVIOUS
  <2> HIDE DEF d
  <2> QED BY <1>1, <2>1, <2>2 DEF Drift, Consoles
<1>3. CASE ModemFails
  BY <1>1, <1>3 DEF ModemFails, Drift, Consoles
<1>4. CASE CarrierLost
  <2> DEFINE r == [console EXCEPT !.driver = "Ready"]
  <2>1. console' = Down(r) /\ UNCHANGED <<program, box, dials>> /\ console.driver = "Connected"
    BY <1>4 DEF CarrierLost, LowerAvailable
  <2>2. /\ r \in Consoles /\ r.admin = console.admin /\ r.receive = console.receive
        /\ r.fields = console.fields /\ r.driver = "Ready" /\ r.lcp = console.lcp
    BY <1>1 DEF Consoles
  <2> HIDE DEF r
  <2> QED BY <2>1, <2>2, DownLeaves DEF Drift
<1>5. CASE LcpLowerDown
  <2>1. console' = Down(console) /\ UNCHANGED <<program, box, dials>>
    BY <1>5 DEF LcpLowerDown
  <2> QED BY <1>1, <2>1, DownLeaves DEF Drift
<1>6. CASE LcpStarts
  BY <1>1, <1>6 DEF LcpStarts, LowerAvailable, Drift, Consoles
<1>7. CASE LcpOpens
  BY <1>1, <1>7 DEF LcpOpens, LowerAvailable, Drift, Consoles
<1> DEFINE d == Down(console)
<1>8. /\ d \in Consoles /\ d.admin = console.admin /\ d.receive = console.receive
      /\ d.driver = console.driver /\ d.fields \in {console.fields, {}}
  BY <1>1, DownLeaves
<1>9. CASE LcpStops
  <2>1. /\ console' = [d EXCEPT !.lcp = "Stopped"] /\ UNCHANGED <<program, box, dials>>
        /\ console.driver = "Connected"
    BY <1>9 DEF LcpStops, LowerAvailable
  <2> HIDE DEF d
  <2> QED BY <1>8, <2>1 DEF Drift, Consoles
<1>10. CASE Authenticated
  <2> DEFINE w == Wiped(console)
  <2>1. /\ \E ok \in BOOLEAN : console' = [w EXCEPT !.net = ok]
        /\ UNCHANGED <<program, box, dials>> /\ console.driver = "Connected"
    BY <1>10 DEF Authenticated, LowerAvailable
  <2>2. /\ w \in Consoles /\ w.admin = console.admin /\ w.receive = console.receive
        /\ w.driver = console.driver /\ w.fields \in {console.fields, {}}
    BY <1>1 DEF Wiped, Consoles
  <2> HIDE DEF w
  <2> QED BY <2>1, <2>2 DEF Drift, Consoles
<1>11. CASE LcpCloses
  <2>1. /\ console' = [d EXCEPT !.lcp = "Closing"] /\ UNCHANGED <<program, box, dials>>
        /\ console.driver = "Connected"
    BY <1>11 DEF LcpCloses, LowerAvailable
  <2> HIDE DEF d
  <2> QED BY <1>8, <2>1 DEF Drift, Consoles
<1>12. CASE LcpTerminates
  <2> DEFINE l == IF console.terminated THEN "Closed" ELSE console.lcp
  <2>1. /\ console' = [console EXCEPT !.terminated = TRUE, !.lcp = l]
        /\ UNCHANGED <<program, box, dials>> /\ console.driver = "Connected"
    BY <1>12 DEF LcpTerminates, LowerAvailable
  <2>2. l \in {"Closed", "Negotiating", "Opened", "Closing", "Stopped"}
    BY <1>1 DEF Consoles
  <2> HIDE DEF l
  <2> QED BY <1>1, <2>1, <2>2 DEF Drift, Consoles
<1> QED
  BY <1>2, <1>3, <1>4, <1>5, <1>6, <1>7, <1>9, <1>10, <1>11, <1>12 DEF LinkSteps

-----------------------------------------------------------------------------
LEMMA CallInitIInv == ASSUME CallConstants, CallInit PROVE IInv
<1> DEFINE P(tool) ==
        [tool |-> tool, block |-> IF tool = "nifty-dial" THEN "ask" ELSE "run", at |-> 1,
         phase |-> "start", base |-> 0, agreed |-> FALSE, cancelled |-> FALSE,
         opened |-> FALSE, failed |-> {}, warned |-> FALSE, unanswered |-> FALSE]
<1>1. PICK tool \in Tools : program = P(tool)
  BY DEF CallInit, Tools
<1>2. /\ program \in Programs /\ program.tool = tool /\ program.at = 1
      /\ program.block = IF tool = "nifty-dial" THEN "ask" ELSE "run"
      /\ program.phase = "start" /\ ~program.agreed /\ program.failed = {}
      /\ ~program.unanswered
  BY <1>1 DEF Programs, Tools, Blocks
<1>3. box = [command |-> "NONE", sequence |-> 0, processed |-> 0, status |-> "IDLE"] /\ dials = 0
  BY DEF CallInit
<1>4. /\ box \in Boxes /\ box.sequence = 0 /\ box.processed = 0 /\ box.command = "NONE"
  BY <1>3 DEF Boxes
<1>5. /\ console \in Consoles /\ console.fields = {} /\ console.lcp = "Closed"
      /\ console.driver # "Dialing"
  BY DEF CallInit, Consoles
<1>6. Types
  <2>1. program.block \in Blocks
    BY <1>2 DEF Blocks
  <2>2. 1 \in 1 .. Len(Script(program.tool, program.block))
    BY <1>2, <2>1, Lengths
  <2> QED BY <1>2, <1>3, <1>4, <1>5, <2>2 DEF Types
<1>7. Course
  BY <1>2 DEF Course, Tools
<1>8. Own /\ Clean /\ CleanupReachesSfc
  BY <1>2, <1>4 DEF Own, Clean, CleanupReachesSfc
<1>9. NotDialled /\ NoLink
  BY <1>2, <1>3, <1>4, <1>5 DEF NotDialled, NoLink, DialPending
<1>10. Staged
  <2>1. OpenAt \in Nat /\ OpenAt > 1
    BY DEF OpenAt, CallConstants
  <2> QED BY <1>2, <1>4, <2>1 DEF Staged, DialPending, Done
<1> QED BY <1>6, <1>7, <1>8, <1>9, <1>10 DEF IInv

LEMMA CallNextIInv ==
    ASSUME CallConstants, IInv, [CallNext]_callVars
    PROVE  IInv'
<1>1. CASE ConsoleNext
  <2>1. CASE LinkSteps
    BY <2>1, LinkStepsDrift, DriftKeeps DEF IInv
  <2> QED BY <1>1, <2>1, MailboxAtEndsKeeps, MailboxExecutesKeeps DEF ConsoleNext, LinkSteps
<1>2. CASE ProgramNext
  BY <1>2, QuestionsKeep, CheckKeeps, WaitsKeep, CallEndsKeeps, ReadMailboxKeeps,
     WriteCommandKeeps, StepFailsKeeps, TimeLimitsKeep DEF ProgramNext, HostProgress
<1>3. CASE UNCHANGED callVars
  <2>1. program' = program /\ box' = box /\ console' = console /\ dials' = dials
    BY <1>3 DEF callVars
  <2>2. Drift(console')
    BY <2>1 DEF Drift, IInv, Types
  <2> QED BY <2>1, <2>2, DriftKeeps
<1> QED BY <1>1, <1>2, <1>3 DEF CallNext

\* Only the dial command places a call, and then what the call needs is there.
LEMMA DialsEquipped ==
    ASSUME CallConstants, IInv, [CallNext]_callVars
    PROVE  FirstAndEquipped
<1> SUFFICES ASSUME dials' # dials
             PROVE  /\ dials = 0 /\ console.admin /\ console.receive
                    /\ program.tool = "nifty-dial" =>
                          program.agreed /\ console.fields = {"PEER_ID", "PASSWORD"}
  BY DEF FirstAndEquipped
<1>1. MailboxExecutes
  <2>1. ~LinkSteps
    BY LinkStepsDrift DEF IInv
  <2>2. ~ProgramNext
    BY DEF ProgramNext, HostProgress, confirm_charged_call, prompt, Check, ReadMailbox,
           WriteCommand, CallEnds, wait_ppp_network_opened, ppp_close, hold_connection,
           StepFails, WorkflowTimeout, CleanupTimeout, Proceed, ProgramStep
  <2>3. ~MailboxAtEnds
    BY DEF MailboxAtEnds
  <2> QED BY <2>1, <2>2, <2>3 DEF CallNext, ConsoleNext, LinkSteps, callVars
<1>2. /\ console' = Effect(console, box.command) /\ box.sequence # box.processed
      /\ console'.driver = "Dialing" /\ console.driver # "Dialing"
  BY <1>1 DEF MailboxExecutes
<1>3. box.command \in Names \cup {"NONE"} /\ console \in Consoles
  BY DEF IInv, Types, Boxes
<1>4. DialPending
  BY <1>2, <1>3, Effects DEF Effected, DialPending
<1> QED BY <1>4 DEF IInv, NotDialled, Staged

\* docs/nifty-dial.md:88: cleanup takes credentials, LCP and receive ownership off
\* the SFC, or warns, whichever step failed, was late or was cancelled before it,
\* for any number of setup commands.
THEOREM CleanupAlwaysReaches ==
    ASSUME CallConstants
    PROVE  CallSpec => []CleanupReachesSfc
<1>1. CallInit => IInv
  BY CallInitIInv
<1>2. IInv /\ [CallNext]_callVars => IInv'
  BY CallNextIInv
<1>3. IInv => CleanupReachesSfc
  BY DEF IInv
<1> QED BY <1>1, <1>2, <1>3, PTL DEF CallSpec

\* niftyRun and pppDialRun place at most one call, with LCP wanted, receive owned
\* and, for nifty-dial, the user's word and both credentials on the SFC.
THEOREM DialsOnceEquipped ==
    ASSUME CallConstants
    PROVE  CallSpec => DialOnceEquipped
<1>1. CallInit => IInv
  BY CallInitIInv
<1>2. IInv /\ [CallNext]_callVars => IInv'
  BY CallNextIInv
<1>3. IInv /\ [CallNext]_callVars => [FirstAndEquipped]_callVars
  BY DialsEquipped
<1> QED BY <1>1, <1>2, <1>3, PTL DEF CallSpec, DialOnceEquipped
=============================================================================
