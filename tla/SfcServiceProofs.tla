-------------------------- MODULE SfcServiceProofs --------------------------
(***************************************************************************)
(* Proofs about what the SFC does for the host beside its main loop:       *)
(*  - Requesters, for every counter range, timeout and stall that          *)
(*    RequesterConstants admits: the frame counter may wrap, answers may   *)
(*    be lost, late, repeated and reordered, the host may give up at any   *)
(*    time;                                                                *)
(*  - HostSnapshot, for every size of the ring and every number of bytes,  *)
(*    sections and session changes, as long as the 32-bit sequence does    *)
(*    not come round: whatever the SFC does between any two reads.         *)
(***************************************************************************)
EXTENDS Requesters, HostSnapshot, SequenceTheorems, TLAPS

-----------------------------------------------------------------------------
(***************************************************************************)
(* The requesters.                                                         *)
(***************************************************************************)

RequestStates == {"IDLE", "REQUESTED", "WAITING", "RECEIVED", "FAILED"}
Questions == [call : Nat, to : Destinations]
Requests == [state : RequestStates, tag : Nat, deadline : 0 .. ClockSpace - 1,
             responses : Nat, target : Destinations, call : Nat, answer : Questions]
Replies == [protocol : Protocols, tag : Nat, question : Questions]
Callers == [pc : {"idle", "command", "poll"}, protocol : Protocols, call : Nat,
            to : Destinations, before : Nat, outcome : {"none", "ok", "error"},
            answer : Questions]

RequesterTypes ==
    /\ requester \in [Protocols -> Requests]
    /\ clock \in 0 .. ClockSpace - 1
    /\ age \in [Protocols -> Nat]
    /\ unpolled \in [Protocols -> Nat]
    /\ replies \subseteq Replies
    /\ host \in Callers

\* A requester has used no more tags than the host made calls, so no tag wraps.
TagsUsed(p) == IF host.pc = "command" THEN requester[p].tag < host.call
                                      ELSE requester[p].tag <= host.call
TagsFresh == host.call <= MaxCalls /\ \A p \in Protocols : TagsUsed(p)

\* The host polls for its answer; as long as it does, nobody writes over what it asked.
Served(p) == host.pc = "poll" /\ host.protocol = p

\* An answer with the tag of the request under way answers that request.
Owned(reply) ==
    LET r == requester[reply.protocol]
    IN  /\ reply.tag <= r.tag
        /\ reply.tag = r.tag =>
              /\ reply.question.call = r.call
              /\ Served(reply.protocol) => reply.question.to = r.target
RepliesOwned == \A reply \in replies : Owned(reply)

\* The answer kept is that to the request, and the request is that of the host
\* that polls for it.
AnswerKept(r, served) ==
    r.state = "RECEIVED" => r.answer.call = r.call /\ (served => r.answer.to = r.target)
AnswersKept == \A p \in Protocols : AnswerKept(requester[p], Served(p))
CallServed ==
    /\ host.pc = "poll" => /\ requester[host.protocol].call = host.call
                           /\ requester[host.protocol].target = host.to
    /\ "NTP" \in Protocols => requester["NTP"].target = Anywhere
    /\ host.protocol = "NTP" => host.to = Anywhere

\* The signed distance from deadline to frame is age - Timeout, and a request is
\* past its timeout only since the last poll.
Apart(c, d, a) == c - d \in {a - Timeout, a - Timeout + ClockSpace, a - Timeout - ClockSpace}
Distance(p) == Apart(clock, requester[p].deadline, age[p])
Timed(p) ==
    requester[p].state = "WAITING" =>
        /\ Distance(p)
        /\ unpolled[p] <= MaxStall
        /\ age[p] <= Timeout + unpolled[p]
InTime == \A p \in Protocols : Timed(p)

RInv == /\ RequesterTypes /\ TagsFresh /\ RepliesOwned /\ AnswersKept /\ CallServed /\ InTime
        /\ AnswerIsOwn

-----------------------------------------------------------------------------
\* Wrapping arithmetic next to the range.
LEMMA ClockWrap ==
    ASSUME NEW n \in Nat, n > 0, NEW x \in Int
    PROVE  /\ x \in 0 .. n - 1 => x % n = x
           /\ x \in n .. 2 * n - 1 => x % n = x - n
           /\ x \in (-n) .. -1 => x % n = x + n
  OBVIOUS

LEMMA Half ==
    ASSUME NEW n \in Nat
    PROVE  n \div 2 \in Nat /\ 2 * (n \div 2) <= n /\ n < 2 * (n \div 2) + 2
  OBVIOUS

\* sbc and bmi decide on the age of the request, also across a wrap of the counter.
LEMMA ExpiredIsOld ==
    ASSUME RequesterConstants, RequesterTypes, InTime, NEW p \in Protocols, requester[p].state = "WAITING"
    PROVE  Expired(p) <=> age[p] >= Timeout
<1> DEFINE d == requester[p].deadline
           x == clock - d
           h == ClockSpace \div 2
<1>1. /\ ClockSpace \in Nat /\ Timeout \in Nat /\ MaxStall \in Nat
      /\ 2 * (Timeout + MaxStall) < ClockSpace /\ Timeout > 0
  BY DEF RequesterConstants
<1>2. /\ d \in 0 .. ClockSpace - 1 /\ clock \in 0 .. ClockSpace - 1
      /\ age[p] \in Nat /\ unpolled[p] \in Nat
  BY DEF RequesterTypes, Requests
<1>3. /\ x \in {age[p] - Timeout, age[p] - Timeout + ClockSpace, age[p] - Timeout - ClockSpace}
      /\ age[p] <= Timeout + MaxStall
  BY <1>1, <1>2 DEF InTime, Timed, Distance, Apart
<1>4. h \in Nat /\ 2 * h <= ClockSpace /\ ClockSpace < 2 * h + 2
  BY <1>1, Half
<1>5. x \in Int /\ x \in (-ClockSpace) .. ClockSpace - 1
  BY <1>1, <1>2
<1>6. Expired(p) <=> x % ClockSpace < h
  BY DEF Expired
<1>7. CASE age[p] >= Timeout
  <2>1. age[p] - Timeout \in 0 .. ClockSpace - 1 /\ x # age[p] - Timeout + ClockSpace
    BY <1>1, <1>2, <1>3, <1>5, <1>7
  <2>2. x % ClockSpace = age[p] - Timeout
    <3>1. CASE x = age[p] - Timeout
      BY <1>1, <1>5, <2>1, <3>1, ClockWrap
    <3>2. CASE x = age[p] - Timeout - ClockSpace
      BY <1>1, <1>2, <1>5, <2>1, <3>2, ClockWrap
    <3> QED BY <1>3, <2>1, <3>1, <3>2
  <2> QED BY <1>1, <1>2, <1>3, <1>4, <1>6, <1>7, <2>2
<1>8. CASE age[p] < Timeout
  <2>1. x % ClockSpace = age[p] - Timeout + ClockSpace
    BY <1>1, <1>2, <1>3, <1>5, <1>8, ClockWrap
  <2> QED BY <1>1, <1>2, <1>3, <1>4, <1>6, <1>8, <2>1
<1> QED BY <1>1, <1>2, <1>7, <1>8

\* A new request takes the next tag, which no answer carries.
LEMMA TagAdvances ==
    ASSUME RequesterConstants, RequesterTypes, TagsFresh, NEW p \in Protocols, host.pc = "command"
    PROVE  NextTag(p) = requester[p].tag + 1
<1>1. requester[p].tag \in Nat /\ host.call \in Nat /\ requester[p].tag < host.call
      /\ host.call <= MaxCalls
  BY DEF RequesterTypes, Requests, Callers, TagsFresh, TagsUsed
<1>2. TagSpace \in Nat /\ MaxCalls \in Nat /\ MaxCalls + 1 < TagSpace
  BY DEF RequesterConstants
<1>3. (requester[p].tag + 1) % TagSpace = requester[p].tag + 1
  BY <1>1, <1>2, ClockWrap
<1> QED BY <1>1, <1>3 DEF NextTag

\* Setting one requester leaves the others.
LEMMA SetOne ==
    ASSUME requester \in [Protocols -> Requests], NEW p \in Protocols, NEW r \in Requests, Set(p, r)
    PROVE  /\ requester' \in [Protocols -> Requests]
           /\ requester'[p] = r
           /\ \A q \in Protocols : q # p => requester'[q] = requester[q]
  BY DEF Set

LEMMA SomeDestination == ASSUME RequesterConstants PROVE Anywhere \in Destinations
  BY DEF RequesterConstants, Anywhere

-----------------------------------------------------------------------------
\* The initial state.
LEMMA InitRInv == ASSUME RequesterConstants PROVE RequestersInit => RInv
<1> SUFFICES ASSUME RequestersInit PROVE RInv
  OBVIOUS
<1>1. ClockSpace \in Nat /\ MaxCalls \in Nat /\ ClockSpace > 0
  BY DEF RequesterConstants
<1>2. (CHOOSE p \in Protocols : TRUE) \in Protocols
  BY DEF RequesterConstants
<1>a. Anywhere \in Destinations
  BY SomeDestination
<1>3. RequesterTypes
  BY <1>1, <1>2, <1>a
     DEF RequestersInit, RequesterTypes, Requests, RequestStates, Callers, Questions, NoAnswer
<1> QED
  BY <1>1, <1>3 DEF RequestersInit, RInv, TagsFresh, TagsUsed, RepliesOwned, AnswersKept, AnswerKept,
     CallServed, InTime, Timed, AnswerIsOwn

\* A request that ends, or an answer that changes nothing, keeps tag and call.
LEMMA EndKeeps ==
    ASSUME RInv, NEW p \in Protocols, NEW r \in Requests, Set(p, r),
           r.tag = requester[p].tag, r.call = requester[p].call,
           r.target = requester[p].target, AnswerKept(r, Served(p)),
           \/ r.state # "WAITING" /\ unpolled' \in {unpolled, [unpolled EXCEPT ![p] = 0]}
           \/ r = requester[p] /\ unpolled' = unpolled,
           UNCHANGED <<clock, age, replies, host>>
    PROVE  RInv'
<1> USE DEF RInv
<1>1. /\ requester' \in [Protocols -> Requests]
      /\ requester'[p] = r
      /\ \A q \in Protocols : q # p => requester'[q] = requester[q]
  BY SetOne DEF RequesterTypes
<1>2. RequesterTypes'
  BY <1>1 DEF RequesterTypes
<1>3. \A q \in Protocols : /\ requester'[q].tag = requester[q].tag
                           /\ requester'[q].call = requester[q].call
                           /\ requester'[q].target = requester[q].target
  BY <1>1
<1>4. TagsFresh'
  BY <1>3 DEF TagsFresh, TagsUsed
<1>5. RepliesOwned'
  BY <1>3 DEF RepliesOwned, Owned, Served, RequesterTypes, Replies
<1>6. AnswersKept'
  BY <1>1 DEF AnswersKept, AnswerKept, Served
<1>7. CallServed'
  BY <1>3 DEF CallServed, RequesterTypes, Callers
<1>8. InTime'
  <2> SUFFICES ASSUME NEW q \in Protocols, requester'[q].state = "WAITING" PROVE Timed(q)'
    BY DEF InTime, Timed
  <2>1. requester'[q] = requester[q] /\ unpolled'[q] = unpolled[q]
    BY <1>1 DEF RequesterTypes
  <2> QED BY <2>1 DEF InTime, Timed, Distance, Apart
<1>9. AnswerIsOwn'
  BY DEF AnswerIsOwn
<1> QED BY <1>2, <1>4, <1>5, <1>6, <1>7, <1>8, <1>9

\* Sending: the answer on its way is that to the request under way, and the
\* deadline lies Timeout frames ahead.
LEMMA BuildKeeps ==
    ASSUME RequesterConstants, RInv, NEW p \in Protocols, PollBuild(p)
    PROVE  RInv'
<1> USE DEF RInv
<1> DEFINE r == [requester[p] EXCEPT !.state = "WAITING", !.deadline = (clock + Timeout) % ClockSpace]
           s == [protocol |-> p, tag |-> requester[p].tag,
                 question |-> [call |-> requester[p].call, to |-> requester[p].target]]
<1>0. /\ ClockSpace \in Nat /\ Timeout \in Nat /\ MaxStall \in Nat
      /\ 2 * (Timeout + MaxStall) < ClockSpace /\ ClockSpace > 0
  BY DEF RequesterConstants
<1>1. (clock + Timeout) % ClockSpace \in 0 .. ClockSpace - 1
  BY <1>0 DEF RequesterTypes
<1>2. r \in Requests /\ r.tag = requester[p].tag /\ r.call = requester[p].call
      /\ r.target = requester[p].target
      /\ r.state = "WAITING" /\ r.deadline = (clock + Timeout) % ClockSpace
  BY <1>1 DEF RequesterTypes, Requests, RequestStates
<1>3. Set(p, r) /\ replies' = replies \cup {s} /\ age' = [age EXCEPT ![p] = 0]
      /\ unpolled' = [unpolled EXCEPT ![p] = 0] /\ UNCHANGED <<clock, host>>
  BY DEF PollBuild, Polled
<1> HIDE DEF r
<1>4. /\ requester' \in [Protocols -> Requests]
      /\ requester'[p] = r
      /\ \A q \in Protocols : q # p => requester'[q] = requester[q]
  BY <1>2, <1>3, SetOne DEF RequesterTypes
<1>5. RequesterTypes'
  <2>1. s \in Replies
    BY DEF RequesterTypes, Replies, Requests, Questions
  <2> HIDE DEF s
  <2> QED BY <1>3, <1>4, <2>1 DEF RequesterTypes
<1>6. \A q \in Protocols : /\ requester'[q].tag = requester[q].tag
                           /\ requester'[q].call = requester[q].call
                           /\ requester'[q].target = requester[q].target
  BY <1>2, <1>4
<1>7. TagsFresh'
  BY <1>3, <1>6 DEF TagsFresh, TagsUsed
<1>8. RepliesOwned'
  <2> SUFFICES ASSUME NEW x \in replies' PROVE Owned(x)'
    BY DEF RepliesOwned
  <2>1. CASE x \in replies
    BY <1>3, <1>6, <2>1 DEF RepliesOwned, Owned, Served, RequesterTypes, Replies
  <2>2. CASE x = s
    BY <1>3, <1>6, <2>2 DEF Owned, Served, RequesterTypes, Requests
  <2> QED BY <1>3, <2>1, <2>2
<1>9. AnswersKept'
  BY <1>2, <1>3, <1>4 DEF AnswersKept, AnswerKept, Served
<1>10. CallServed'
  BY <1>3, <1>6 DEF CallServed, RequesterTypes, Callers
<1>11. InTime'
  <2> SUFFICES ASSUME NEW q \in Protocols, requester'[q].state = "WAITING" PROVE Timed(q)'
    BY DEF InTime, Timed
  <2>1. CASE q # p
    <3>1. requester'[q] = requester[q] /\ unpolled'[q] = unpolled[q] /\ age'[q] = age[q]
      BY <1>3, <1>4, <2>1 DEF RequesterTypes
    <3> QED BY <1>3, <3>1 DEF InTime, Timed, Distance, Apart
  <2>2. CASE q = p
    <3>1. requester'[q] = r /\ unpolled'[q] = 0 /\ age'[q] = 0 /\ clock' = clock
      BY <1>3, <1>4, <2>2 DEF RequesterTypes
    <3>2. clock - r.deadline \in {0 - Timeout, 0 - Timeout + ClockSpace}
      <4> DEFINE n == ClockSpace
                 x == clock + Timeout
      <4>1. n \in Nat /\ n > 0 /\ clock \in 0 .. n - 1 /\ Timeout \in Nat /\ Timeout < n
        BY <1>0 DEF RequesterTypes
      <4>2. r.deadline = x % n
        BY <1>2
      <4> HIDE DEF n
      <4>3. x \in Int /\ (x \in 0 .. n - 1 \/ x \in n .. 2 * n - 1)
        BY <4>1
      <4>4. x % n = x \/ x % n = x - n
        BY <4>1, <4>3, ClockWrap
      <4>5. clock - r.deadline = 0 - Timeout \/ clock - r.deadline = 0 - Timeout + n
        BY <4>1, <4>2, <4>4
      <4> QED BY <4>5 DEF n
    <3> QED BY <1>0, <3>1, <3>2 DEF Timed, Distance, Apart
  <2> QED BY <2>1, <2>2
<1>12. AnswerIsOwn'
  BY <1>3 DEF AnswerIsOwn
<1> QED BY <1>5, <1>7, <1>8, <1>9, <1>10, <1>11, <1>12

\* A poll before the deadline finds the request not yet past its timeout.
LEMMA WaitKeeps ==
    ASSUME RequesterConstants, RInv, NEW p \in Protocols, PollWaits(p)
    PROVE  RInv'
<1> USE DEF RInv
<1>1. UNCHANGED <<requester, clock, age, replies, host>> /\ unpolled' = [unpolled EXCEPT ![p] = 0]
  BY DEF PollWaits, Polled
<1>2. Timeout \in Nat /\ MaxStall \in Nat
  BY DEF RequesterConstants
<1>3. age[p] \in Nat /\ ~(age[p] >= Timeout)
  BY ExpiredIsOld DEF PollWaits, RequesterTypes
<1>4. RequesterTypes' /\ TagsFresh' /\ RepliesOwned' /\ AnswersKept' /\ CallServed' /\ AnswerIsOwn'
  BY <1>1 DEF RequesterTypes, TagsFresh, TagsUsed, RepliesOwned, Owned, Served, AnswersKept, CallServed, AnswerIsOwn
<1>5. InTime'
  <2> SUFFICES ASSUME NEW q \in Protocols, requester[q].state = "WAITING" PROVE Timed(q)'
    BY <1>1 DEF InTime, Timed
  <2>1. CASE q # p
    BY <1>1, <2>1 DEF InTime, Timed, Distance, Apart, RequesterTypes
  <2>2. CASE q = p
    BY <1>1, <1>2, <1>3, <2>2 DEF InTime, Timed, Distance, Apart, RequesterTypes
  <2> QED BY <2>1, <2>2
<1> QED BY <1>4, <1>5

\* Counter and age advance together, across the wrap of the counter too.
LEMMA DistanceAdvances ==
    ASSUME RequesterConstants, NEW c \in Int, NEW d \in Int, NEW a \in Int, Apart(c, d, a)
    PROVE  /\ Apart(c + 1, d, a + 1)
           /\ c = ClockSpace - 1 /\ d \in 0 .. ClockSpace - 1 /\ a \in 0 .. ClockSpace - 1
                => Apart(0, d, a + 1)
<1>0. Timeout \in Nat /\ ClockSpace \in Nat /\ Timeout < ClockSpace
  BY DEF RequesterConstants
<1>1. \/ c - d = a - Timeout
      \/ c - d = a - Timeout + ClockSpace
      \/ c - d = a - Timeout - ClockSpace
  BY DEF Apart
<1>2. Apart(c + 1, d, a + 1)
  BY <1>0, <1>1 DEF Apart
<1>3. ASSUME c = ClockSpace - 1, d \in 0 .. ClockSpace - 1, a \in 0 .. ClockSpace - 1
      PROVE  Apart(0, d, a + 1)
  <2>1. c - d # a - Timeout - ClockSpace
    BY <1>0, <1>3
  <2>2. 0 - d = (a + 1) - Timeout \/ 0 - d = (a + 1) - Timeout - ClockSpace
    BY <1>0, <1>1, <1>3, <2>1
  <2> QED BY <2>2 DEF Apart
<1> QED BY <1>2, <1>3

\* A frame: every waiting request ages with the counter, also when it wraps.
LEMMA TickKeeps ==
    ASSUME RequesterConstants, RInv, Tick
    PROVE  RInv'
<1> USE DEF RInv
<1>1. UNCHANGED <<requester, replies, host>> /\ clock' = (clock + 1) % ClockSpace
  BY DEF Tick
<1>2. /\ ClockSpace \in Nat /\ Timeout \in Nat /\ MaxStall \in Nat
      /\ 2 * (Timeout + MaxStall) < ClockSpace /\ ClockSpace > 1
  BY DEF RequesterConstants
<1>3. clock' \in 0 .. ClockSpace - 1 /\ clock' \in {clock + 1, clock + 1 - ClockSpace}
  BY <1>1, <1>2, ClockWrap DEF RequesterTypes
<1>4. RequesterTypes'
  BY <1>1, <1>3 DEF RequesterTypes, Tick
<1>5. TagsFresh' /\ RepliesOwned' /\ AnswersKept' /\ CallServed' /\ AnswerIsOwn'
  BY <1>1 DEF TagsFresh, TagsUsed, RepliesOwned, Owned, Served, AnswersKept, CallServed, AnswerIsOwn
<1>6. InTime'
  <2> SUFFICES ASSUME NEW q \in Protocols, requester[q].state = "WAITING" PROVE Timed(q)'
    BY <1>1 DEF InTime, Timed
  <2>1. /\ unpolled[q] \in Nat /\ age[q] \in Nat /\ unpolled[q] < MaxStall
        /\ age[q] <= Timeout + unpolled[q]
    BY DEF Tick, RequesterTypes, InTime, Timed
  <2>2. unpolled'[q] = unpolled[q] + 1 /\ age'[q] = age[q] + 1
    BY <1>2, <2>1 DEF Tick, AgeCap
  <2>3. requester[q].deadline \in 0 .. ClockSpace - 1 /\ clock \in 0 .. ClockSpace - 1
    BY DEF RequesterTypes, Requests
  <2>4. Apart(clock, requester[q].deadline, age[q])
    BY DEF InTime, Timed, Distance
  <2>5. CASE clock' = clock + 1
    <3>1. Apart(clock + 1, requester[q].deadline, age[q] + 1)
      BY <2>1, <2>3, <2>4, DistanceAdvances
    <3> QED BY <1>1, <1>2, <2>1, <2>2, <2>5, <3>1 DEF Timed, Distance
  <2>6. CASE clock' = clock + 1 - ClockSpace
    <3>1. clock' = 0 /\ clock = ClockSpace - 1 /\ age[q] \in 0 .. ClockSpace - 1
      BY <1>2, <1>3, <2>1, <2>3, <2>6
    <3>2. Apart(0, requester[q].deadline, age[q] + 1)
      BY <2>1, <2>3, <2>4, <3>1, DistanceAdvances
    <3> QED BY <1>1, <1>2, <2>1, <2>2, <3>1, <3>2 DEF Timed, Distance
  <2> QED BY <1>3, <2>5, <2>6
<1> QED BY <1>4, <1>5, <1>6

\* The host's steps that leave the requesters alone: the host polls for nothing then.
LEMMA HostKeeps ==
    ASSUME RequesterConstants, RInv, NEW p \in Protocols,
           ReadBefore(p) \/ InvalidLength(p) \/ PollSnapshot(p) \/ GiveUp(p)
    PROVE  RInv'
<1> USE DEF RInv
<1>1. UNCHANGED <<requester, clock, age, unpolled, replies>>
  BY DEF ReadBefore, InvalidLength, PollSnapshot, GiveUp
<1>2. InTime'
  BY <1>1 DEF InTime, Timed, Distance
<1>3. requester[p] \in Requests /\ host \in Callers /\ MaxCalls \in Nat
      /\ Anywhere \in Destinations
  BY SomeDestination DEF RequesterTypes, RequesterConstants
<1>4. ASSUME host'.pc # "poll" PROVE RepliesOwned' /\ AnswersKept'
  <2>1. \A q \in Protocols : ~Served(q)'
    BY <1>4 DEF Served
  <2>2. RepliesOwned'
    BY <1>1, <2>1 DEF RepliesOwned, Owned, RequesterTypes, Replies
  <2>3. AnswersKept'
    BY <1>1, <2>1 DEF AnswersKept, AnswerKept
  <2> QED BY <2>2, <2>3
<1>5. CASE ReadBefore(p)
  <2>1. PICK to \in Destinations :
             /\ p = "NTP" => to = Anywhere
             /\ host' = [host EXCEPT !.pc = "command", !.protocol = p, !.call = host.call + 1,
                                     !.to = to, !.before = requester[p].responses,
                                     !.outcome = "none", !.answer = NoAnswer]
    BY <1>5 DEF ReadBefore
  <2>2. host' \in Callers /\ host'.pc = "command" /\ host'.call = host.call + 1
        /\ host'.protocol = p /\ host'.to = to
        /\ host'.outcome = "none" /\ host.pc = "idle" /\ host.call < MaxCalls
    <3>1. PICK k \in Nat : k = host.call + 1
      BY <1>3 DEF Callers
    <3>2. host' = [host EXCEPT !.pc = "command", !.protocol = p, !.call = k, !.to = to,
                               !.before = requester[p].responses, !.outcome = "none",
                               !.answer = NoAnswer]
      BY <1>3, <2>1, <3>1 DEF Callers
    <3>3. host.pc = "idle" /\ host.call < MaxCalls /\ requester[p].responses \in Nat
      BY <1>3, <1>5 DEF ReadBefore, Requests
    <3>4. NoAnswer \in Questions
      BY <1>3 DEF NoAnswer, Questions
    <3> QED BY <1>3, <3>1, <3>2, <3>3, <3>4 DEF Callers
  <2>3. TagsFresh'
    <3> SUFFICES ASSUME NEW q \in Protocols PROVE TagsUsed(q)'
      BY <1>3, <2>2 DEF TagsFresh, Callers
    <3>1. requester[q].tag \in Nat /\ host.call \in Nat /\ requester[q].tag <= host.call
      BY <2>2 DEF RequesterTypes, Requests, Callers, TagsFresh, TagsUsed
    <3> QED BY <1>1, <2>2, <3>1 DEF TagsUsed
  <2>4. CallServed'
    BY <1>1, <2>1, <2>2 DEF CallServed
  <2> QED BY <1>1, <1>2, <1>4, <2>2, <2>3, <2>4 DEF RequesterTypes, AnswerIsOwn
<1>6. CASE PollSnapshot(p)
  <2>1. host' \in Callers /\ host'.pc = "idle" /\ host'.call = host.call /\ host'.to = host.to
        /\ host.pc = "poll" /\ host.protocol = p /\ host'.protocol = p
        /\ \/ /\ requester[p].state = "RECEIVED" /\ host'.outcome = "ok"
              /\ host'.answer = requester[p].answer
           \/ host'.outcome = "error"
    BY <1>3, <1>6 DEF PollSnapshot, Callers, Requests
  <2>2. TagsFresh'
    BY <1>1, <2>1 DEF TagsFresh, TagsUsed
  <2>3. AnswerIsOwn'
    <3> SUFFICES ASSUME host'.outcome = "ok"
                 PROVE  host'.answer = [call |-> host'.call, to |-> host'.to]
      BY DEF AnswerIsOwn
    <3>1. requester[p].answer.call = requester[p].call /\ requester[p].answer.to = requester[p].target
      BY <2>1 DEF AnswersKept, AnswerKept, Served
    <3>2. requester[p].call = host.call /\ requester[p].target = host.to
      BY <2>1 DEF CallServed
    <3>3. requester[p].answer \in [call : Nat, to : Destinations]
      BY <1>3 DEF Requests, Questions
    <3> QED BY <2>1, <3>1, <3>2, <3>3
  <2> QED BY <1>1, <1>2, <1>4, <2>1, <2>2, <2>3 DEF RequesterTypes, CallServed
<1>7. CASE InvalidLength(p) \/ GiveUp(p)
  <2>1. host' \in Callers /\ host'.pc = "idle" /\ host'.call = host.call /\ host'.outcome = "error"
        /\ host'.protocol = host.protocol /\ host'.to = host.to
    BY <1>3, <1>7 DEF InvalidLength, GiveUp, Callers
  <2>2. TagsFresh'
    <3> SUFFICES ASSUME NEW q \in Protocols PROVE TagsUsed(q)'
      BY <2>1 DEF TagsFresh
    <3>1. requester[q].tag \in Nat /\ host.call \in Nat /\ requester[q].tag <= host.call
      BY DEF RequesterTypes, Requests, Callers, TagsFresh, TagsUsed
    <3> QED BY <1>1, <2>1, <3>1 DEF TagsUsed
  <2> QED BY <1>1, <1>2, <1>4, <2>1, <2>2 DEF RequesterTypes, CallServed, AnswerIsOwn
<1> QED BY <1>5, <1>6, <1>7

\* Starting a request: no answer on its way carries the new tag.  A refused one may
\* change what the request under way is for, when nobody polls for that any more.
LEMMA CommandKeeps ==
    ASSUME RequesterConstants, RInv, NEW p \in Protocols, Command(p)
    PROVE  RInv'
<1> USE DEF RInv
<1>1. PICK valid \in BOOLEAN :
         /\ Set(p, Begin(p, host.call, host.to, valid))
         /\ host' = IF Accepts(p, valid) THEN [host EXCEPT !.pc = "poll"]
                    ELSE [host EXCEPT !.pc = "idle", !.outcome = "error"]
  BY DEF Command
<1>2. host.pc = "command" /\ host.protocol = p /\ UNCHANGED <<clock, age, unpolled, replies>>
  BY DEF Command
<1>3. /\ requester \in [Protocols -> Requests] /\ requester[p] \in Requests
      /\ host \in Callers /\ host.call \in Nat /\ host.to \in Destinations
      /\ \A q \in Protocols : requester[q].tag \in Nat
  BY DEF RequesterTypes, Callers, Requests
<1>4. \A q \in Protocols : requester[q].tag < host.call
  BY <1>2 DEF TagsFresh, TagsUsed
<1> DEFINE s == Stored(p, host.to)
<1>5. /\ s \in Requests /\ s.target = host.to /\ s.state = requester[p].state
      /\ s.tag = requester[p].tag /\ s.call = requester[p].call
      /\ s.deadline = requester[p].deadline /\ s.answer = requester[p].answer
  <2>1. CASE p = "NTP"
    BY <1>2, <1>3, <2>1 DEF Stored, CallServed
  <2>2. CASE p # "NTP"
    BY <1>3, <2>2 DEF Stored, Requests
  <2> QED BY <2>1, <2>2
<1>6. CASE Accepts(p, valid)
  <2> DEFINE r == [s EXCEPT !.state = "REQUESTED", !.tag = NextTag(p), !.deadline = 0,
                            !.call = host.call]
  <2>1. Begin(p, host.call, host.to, valid) = r
    BY <1>6 DEF Accepts, Begin
  <2>2. NextTag(p) = requester[p].tag + 1
    BY <1>2, TagAdvances
  <2>3. /\ r \in Requests /\ r.state = "REQUESTED" /\ r.call = host.call
        /\ r.tag = requester[p].tag + 1 /\ r.target = host.to
    <3>1. 0 \in 0 .. ClockSpace - 1
      BY DEF RequesterConstants
    <3>2. PICK k \in Nat : k = requester[p].tag + 1
      BY <1>3
    <3> HIDE DEF s
    <3>3. r = [s EXCEPT !.state = "REQUESTED", !.tag = k, !.deadline = 0, !.call = host.call]
      BY <2>2, <3>2
    <3> QED BY <1>3, <1>5, <3>1, <3>2, <3>3 DEF Requests, RequestStates
  <2> HIDE DEF r
  <2>4. /\ requester' \in [Protocols -> Requests]
        /\ requester'[p] = r
        /\ \A q \in Protocols : q # p => requester'[q] = requester[q]
    BY <1>1, <1>3, <2>1, <2>3, SetOne
  <2>5. host' \in Callers /\ host'.pc = "poll" /\ host'.call = host.call /\ host'.to = host.to
        /\ host'.outcome = host.outcome /\ host'.answer = host.answer /\ host'.protocol = p
    BY <1>1, <1>2, <1>3, <1>6 DEF Callers
  <2>6. RequesterTypes'
    BY <1>2, <2>4, <2>5 DEF RequesterTypes
  <2>7. TagsFresh'
    <3> SUFFICES ASSUME NEW q \in Protocols PROVE requester'[q].tag <= host.call
      BY <2>5 DEF TagsFresh, TagsUsed
    <3> QED BY <1>3, <1>4, <2>3, <2>4
  <2>8. RepliesOwned'
    <3> SUFFICES ASSUME NEW x \in replies PROVE Owned(x)'
      BY <1>2 DEF RepliesOwned
    <3>1. x.protocol \in Protocols /\ x.tag \in Nat /\ Owned(x)
      BY DEF RequesterTypes, Replies, RepliesOwned
    <3>2. CASE x.protocol # p
      BY <2>4, <2>5, <3>1, <3>2 DEF Owned, Served
    <3>3. CASE x.protocol = p
      BY <1>3, <2>3, <2>4, <3>1, <3>3 DEF Owned
    <3> QED BY <3>2, <3>3
  <2>9. AnswersKept'
    BY <2>3, <2>4, <2>5 DEF AnswersKept, AnswerKept, Served
  <2>10. CallServed'
    <3>1. p = "NTP" => host.to = Anywhere
      BY <1>2 DEF CallServed
    <3> QED BY <2>3, <2>4, <2>5, <3>1 DEF CallServed
  <2>11. InTime'
    BY <1>2, <2>3, <2>4 DEF InTime, Timed, Distance
  <2>12. AnswerIsOwn'
    BY <2>5 DEF AnswerIsOwn
  <2> QED BY <2>6, <2>7, <2>8, <2>9, <2>10, <2>11, <2>12
<1>7. CASE ~Accepts(p, valid)
  <2> DEFINE r == Begin(p, host.call, host.to, valid)
  <2>0. r = s \/ r = [s EXCEPT !.state = "FAILED"]
    BY <1>7 DEF Begin
  <2>1. /\ r \in Requests /\ r.tag = requester[p].tag /\ r.call = requester[p].call
        /\ r.target = host.to /\ r.deadline = requester[p].deadline
        /\ r.state = requester[p].state \/ r.state = "FAILED"
        /\ r.answer = requester[p].answer
    <3> HIDE DEF r, s
    <3> QED BY <1>5, <2>0 DEF Requests, RequestStates
  <2>2. Set(p, r)
    BY <1>1
  <2> HIDE DEF r
  <2>3. /\ requester' \in [Protocols -> Requests]
        /\ requester'[p] = r
        /\ \A q \in Protocols : q # p => requester'[q] = requester[q]
    BY <1>3, <2>1, <2>2, SetOne
  <2>4. host' \in Callers /\ host'.pc = "idle" /\ host'.call = host.call /\ host'.outcome = "error"
        /\ host'.protocol = p /\ host'.to = host.to
    BY <1>1, <1>2, <1>3, <1>7 DEF Callers
  <2>5. \A q \in Protocols : /\ requester'[q].tag = requester[q].tag
                             /\ requester'[q].call = requester[q].call
                             /\ requester'[q].deadline = requester[q].deadline
                             /\ requester'[q].answer = requester[q].answer
                             /\ \/ requester'[q].state = requester[q].state
                                \/ requester'[q].state = "FAILED"
                             /\ ~Served(q)'
    BY <2>1, <2>3, <2>4 DEF Served
  <2>6. RequesterTypes'
    BY <1>2, <2>3, <2>4 DEF RequesterTypes
  <2>7. TagsFresh'
    <3> SUFFICES ASSUME NEW q \in Protocols PROVE requester'[q].tag <= host.call
      BY <2>4 DEF TagsFresh, TagsUsed
    <3> QED BY <1>3, <1>4, <2>5
  <2>8. RepliesOwned'
    BY <1>2, <2>5 DEF RepliesOwned, Owned, RequesterTypes, Replies
  <2>9. AnswersKept'
    BY <2>5 DEF AnswersKept, AnswerKept
  <2>10. InTime'
    BY <1>2, <2>5 DEF InTime, Timed, Distance
  <2>11. CallServed'
    <3>1. p = "NTP" => host.to = Anywhere
      BY <1>2 DEF CallServed
    <3> QED BY <2>1, <2>3, <2>4, <3>1 DEF CallServed
  <2> QED BY <2>4, <2>6, <2>7, <2>8, <2>9, <2>10, <2>11 DEF AnswerIsOwn
<1> QED BY <1>6, <1>7

\* What an arriving answer makes of the request: a stray one changes nothing or
\* fails an NTP request, and the one that is taken is the request's own.
LEMMA ReceiveEnds ==
    ASSUME RInv, NEW p \in Protocols, NEW reply \in replies, NEW good \in BOOLEAN,
           NEW same \in BOOLEAN, Receive(p, reply, good, same)
    PROVE  \E r \in Requests :
             /\ Set(p, r) /\ r.tag = requester[p].tag /\ r.call = requester[p].call
             /\ r.target = requester[p].target /\ AnswerKept(r, Served(p))
             /\ \/ r = requester[p]
                \/ r.state # "WAITING" /\ p = "NTP"
                \/ r.state # "WAITING" /\ r.answer.call = r.call
<1> USE DEF RInv
<1>1. requester[p] \in Requests /\ reply \in Replies /\ AnswerKept(requester[p], Served(p))
      /\ Owned(reply) /\ reply.protocol = p /\ reply.question \in Questions
  BY DEF RequesterTypes, AnswersKept, RepliesOwned, Receive, Replies
<1> DEFINE matches == /\ requester[p].state = "WAITING" /\ reply.tag = requester[p].tag
                      /\ reply.question.to = requester[p].target \/ same
<1>2. CASE ~matches
  <2>1. Set(p, NotTheAnswer(p))
    BY <1>2 DEF Receive
  <2>2. CASE p = "NTP"
    <3>1. /\ Failed(p) \in Requests /\ Failed(p).tag = requester[p].tag
          /\ Failed(p).call = requester[p].call /\ Failed(p).state = "FAILED"
          /\ Failed(p).target = requester[p].target
      BY <1>1 DEF Failed, Requests, RequestStates
    <3> QED BY <2>1, <2>2, <3>1 DEF NotTheAnswer, AnswerKept
  <2>3. CASE p # "NTP"
    BY <1>1, <2>1, <2>3 DEF NotTheAnswer
  <2> QED BY <2>2, <2>3
<1>3. CASE matches
  <2>1. /\ reply.question.call = requester[p].call
        /\ Served(p) => reply.question.to = requester[p].target
    BY <1>1, <1>3 DEF Owned
  <2>2. CASE good
    <3> DEFINE r == [requester[p] EXCEPT !.state = "RECEIVED", !.responses = @ + 1,
                                         !.answer = reply.question]
    <3>1. /\ r \in Requests /\ r.tag = requester[p].tag /\ r.call = requester[p].call
          /\ r.target = requester[p].target /\ r.state = "RECEIVED"
          /\ r.answer = reply.question
      <4>1. PICK k \in Nat : k = requester[p].responses + 1
        BY <1>1 DEF Requests
      <4>2. r = [requester[p] EXCEPT !.state = "RECEIVED", !.responses = k,
                                     !.answer = reply.question]
        BY <1>1, <4>1 DEF Requests
      <4> QED BY <1>1, <4>2 DEF Requests, RequestStates
    <3>2. Set(p, r)
      BY <1>3, <2>2 DEF Receive
    <3> HIDE DEF r
    <3> QED BY <2>1, <3>1, <3>2 DEF AnswerKept
  <2>3. CASE ~good
    <3> DEFINE r == [Failed(p) EXCEPT !.answer = reply.question]
    <3>1. /\ r \in Requests /\ r.tag = requester[p].tag /\ r.call = requester[p].call
          /\ r.target = requester[p].target /\ r.state = "FAILED"
          /\ r.answer = reply.question
      BY <1>1 DEF Failed, Requests, RequestStates
    <3>2. Set(p, r)
      BY <1>3, <2>3 DEF Receive
    <3> HIDE DEF r
    <3> QED BY <2>1, <3>1, <3>2 DEF AnswerKept
  <2> QED BY <2>2, <2>3
<1> QED BY <1>2, <1>3

\* A poll that gives up, for the link or for time, fails the request and no more.
LEMMA FailEnds ==
    ASSUME RInv, NEW p \in Protocols, PollLinkClosed(p) \/ PollTimeout(p)
    PROVE  /\ Set(p, Failed(p)) /\ Failed(p) \in Requests
           /\ Failed(p).tag = requester[p].tag /\ Failed(p).call = requester[p].call
           /\ Failed(p).target = requester[p].target
           /\ Failed(p).state = "FAILED" /\ AnswerKept(Failed(p), Served(p))
           /\ unpolled' = [unpolled EXCEPT ![p] = 0]
           /\ UNCHANGED <<clock, age, replies, host>>
<1>1. requester[p] \in Requests
  BY DEF RInv, RequesterTypes
<1>2. /\ Failed(p) \in Requests /\ Failed(p).tag = requester[p].tag
      /\ Failed(p).target = requester[p].target
      /\ Failed(p).call = requester[p].call /\ Failed(p).state = "FAILED"
  BY <1>1 DEF Failed, Requests, RequestStates
<1> QED BY <1>2 DEF PollLinkClosed, PollTimeout, Polled, AnswerKept

-----------------------------------------------------------------------------
\* Every step of the requesters, the network, the clock and the host.
LEMMA NextRInv == ASSUME RequesterConstants PROVE RInv /\ [RequestersNext]_requesterVars => RInv'
<1> SUFFICES ASSUME RInv, [RequestersNext]_requesterVars PROVE RInv'
  OBVIOUS
<1>1. ASSUME NEW p \in Protocols, Poll(p) PROVE RInv'
  <2>1. CASE PollLinkClosed(p) \/ PollTimeout(p)
    <3>1. Failed(p).state # "WAITING" /\ unpolled' \in {unpolled, [unpolled EXCEPT ![p] = 0]}
      BY <2>1, FailEnds
    <3> QED BY <2>1, <3>1, FailEnds, EndKeeps
  <2> QED BY <1>1, <2>1, BuildKeeps, WaitKeeps DEF Poll
<1>2. ASSUME NEW p \in Protocols, NEW reply \in replies, NEW good \in BOOLEAN,
             NEW same \in BOOLEAN, Receive(p, reply, good, same)
      PROVE  RInv'
  <2>1. PICK r \in Requests :
             /\ Set(p, r) /\ r.tag = requester[p].tag /\ r.call = requester[p].call
             /\ r.target = requester[p].target /\ AnswerKept(r, Served(p))
             /\ r = requester[p] \/ r.state # "WAITING"
    BY <1>2, ReceiveEnds
  <2>2. UNCHANGED <<clock, age, unpolled, replies, host>>
    BY <1>2 DEF Receive
  <2> QED BY <2>1, <2>2, EndKeeps
<1>3. CASE UNCHANGED <<requester, clock, age, unpolled, replies, host>>
  BY <1>3 DEF RInv, RequesterTypes, TagsFresh, TagsUsed, RepliesOwned, Owned, Served, AnswersKept,
     CallServed, InTime, Timed, Distance, AnswerIsOwn
<1>4. CASE TransmitterFrees \/ OthersTransmit \/ LinkChanges \/ UNCHANGED requesterVars
  BY <1>3, <1>4 DEF TransmitterFrees, OthersTransmit, LinkChanges, requesterVars
<1>5. ASSUME NEW p \in Protocols, HostCall(p) PROVE RInv'
  BY <1>5, HostKeeps, CommandKeeps DEF HostCall
<1> QED BY <1>1, <1>2, <1>4, <1>5, TickKeeps DEF RequestersNext, icmp_echo, ntp_request, dns_query

\* What a caller may rely on, for every timeout, stall and counter range: the answer
\* reported is that to the request started, sent where it was to go, and no request waits
\* longer than its timeout and one pass of the main loop, across wraps of the frame counter.
THEOREM RequestsAreKept == ASSUME RequesterConstants PROVE RequestersSpec => []RequestsKept
<1>1. RInv => RequestsKept
  <2> SUFFICES ASSUME RInv, NEW p \in Protocols, requester[p].state = "WAITING"
               PROVE  age[p] <= Timeout + MaxStall
    BY DEF RInv, RequestsKept, WaitBounded
  <2>1. age[p] \in Nat /\ unpolled[p] \in Nat /\ Timeout \in Nat /\ MaxStall \in Nat
    BY DEF RInv, RequesterTypes, RequesterConstants
  <2> QED BY <2>1 DEF RInv, InTime, Timed
<1> QED BY <1>1, InitRInv, NextRInv, PTL DEF RequestersSpec

\* A waiting ping or DNS query ends by its own answer, by its deadline or with the
\* link: no stray answer ends it and the wrapped deadline does not come early.
THEOREM OnlyOwnAnswersEnd ==
    ASSUME RequesterConstants PROVE RequestersSpec => OnlyOwnAnswerOrTimeEnds
<1>1. RInv /\ [RequestersNext]_requesterVars => [EndsByOwnAnswerOrTime]_requesterVars
  <2> SUFFICES ASSUME RInv, RequestersNext, NEW q \in Protocols \ {"NTP"},
                      requester[q].state = "WAITING", requester'[q].state # "WAITING"
               PROVE  ~link \/ age[q] >= Timeout \/ requester'[q].answer.call = requester[q].call
    BY DEF EndsByOwnAnswerOrTime
  <2>0. requester \in [Protocols -> Requests]
    BY DEF RInv, RequesterTypes
  <2>1. ASSUME NEW p \in Protocols, NEW r \in Requests, Set(p, r), p # q PROVE FALSE
    BY <2>0, <2>1, SetOne
  <2>2. ASSUME NEW p \in Protocols, PollLinkClosed(p) PROVE ~link
    BY <2>2 DEF PollLinkClosed
  <2>3. ASSUME NEW p \in Protocols, PollTimeout(p) PROVE age[q] >= Timeout
    <3>1. p = q
      BY <2>1, <2>3, FailEnds
    <3> QED BY <2>3, <3>1, ExpiredIsOld DEF PollTimeout, RInv
  <2>4. ASSUME NEW p \in Protocols, PollBuild(p) PROVE FALSE
    BY <2>0, <2>4 DEF PollBuild, Set
  <2>5. ASSUME NEW p \in Protocols, NEW reply \in replies, NEW good \in BOOLEAN,
               NEW same \in BOOLEAN, Receive(p, reply, good, same)
        PROVE  requester'[q].answer.call = requester[q].call
    <3>1. PICK r \in Requests :
             /\ Set(p, r) /\ r.tag = requester[p].tag /\ r.call = requester[p].call
             /\ \/ r = requester[p]
                \/ r.state # "WAITING" /\ p = "NTP"
                \/ r.state # "WAITING" /\ r.answer.call = r.call
      BY <2>5, ReceiveEnds
    <3>2. p = q
      BY <2>1, <3>1
    <3>3. requester'[q] = r
      BY <2>0, <3>1, <3>2, SetOne
    <3> QED BY <3>1, <3>2, <3>3
  <2>6. ASSUME NEW p \in Protocols, Command(p) PROVE FALSE
    <3>1. PICK valid \in BOOLEAN :
             requester'[q] = IF q = p THEN Begin(p, host.call, host.to, valid) ELSE requester[q]
      BY <2>0, <2>6 DEF Command, Set
    <3>2. requester[q] \in Requests
      BY <2>0
    <3> QED BY <3>1, <3>2 DEF Begin, Pending, Stored, Requests
  <2>7. ASSUME NEW p \in Protocols, HostCall(p) PROVE FALSE
    BY <2>6, <2>7 DEF HostCall, ReadBefore, InvalidLength, PollSnapshot, GiveUp
  <2>8. ~TransmitterFrees /\ ~OthersTransmit /\ ~LinkChanges /\ ~Tick
    BY DEF TransmitterFrees, OthersTransmit, LinkChanges, Tick
  <2>9. ASSUME NEW p \in Protocols, Poll(p)
        PROVE  ~link \/ age[q] >= Timeout
    BY <2>2, <2>3, <2>4, <2>9 DEF Poll, PollWaits
  <2> QED BY <2>5, <2>7, <2>8, <2>9 DEF RequestersNext, icmp_echo, ntp_request, dns_query
<1> QED BY <1>1, InitRInv, NextRInv, PTL DEF RequestersSpec, OnlyOwnAnswerOrTimeEnds

-----------------------------------------------------------------------------
(***************************************************************************)
(* The ring and the snapshot.                                              *)
(***************************************************************************)

Section == {"store", "index", "count", "more", "read", "end"}
SfcStates == Section \cup {"idle", "state"}
Quiet == sfc \notin Section

Blocks == [seq : Nat, rx_read : Slots, rx_write : Slots, rx_accepted : Nat,
           at_status : Nat, driver_state : Nat]
HostStates == {"first", "low", "high", "last", "ringLow", "ringHigh", "done", "failed"}
Fetches == {<<>>} \cup [Slots -> Nat]
Hosts == [pc : HostStates, first : Nat, part : Blocks, before : Blocks, have : BOOLEAN,
          slots : Fetches, bytes : Seq(Nat)]

Types ==
    /\ ring \in [Slots -> Nat] /\ block \in Blocks /\ sfc \in SfcStates
    /\ log \in Seq(Nat) /\ taken \in Nat /\ lost \in Nat /\ sections \in Nat
    /\ reader \in Hosts

\* The sequence counts the begins and ends of sections, and never wraps.
Counted ==
    /\ sections <= MaxSections
    /\ block.seq = IF Quiet THEN 2 * sections ELSE 2 * sections - 1

\* The i-th unread slot from an index on.
Nth(from, i) == (from + i - 1) % RingSize

\* The bytes whose index has moved: one more than are counted, in between.
Written == IF sfc = "count" THEN Len(log) + 1 ELSE Len(log)

\* The indices stand for the counts, and the unread slots for the unread bytes.
Indexed ==
    /\ block.rx_accepted = Len(log)
    /\ block.rx_write = Written % RingSize
    /\ taken <= Len(log)
    /\ Span(block.rx_read, block.rx_write) = Written - taken
    /\ sfc = "index" => NextSlot(block.rx_write) # block.rx_read
Unread == \A i \in 1 .. Len(log) - taken : ring[Nth(block.rx_read, i)] = log[taken + i]

RingInv == Types /\ Counted /\ Indexed /\ Unread

\* While the sequence is the one first read no section has been opened since, and
\* what was fetched of the block is what it still holds.
Watching ==
    reader.pc \in {"low", "high", "last"} =>
        reader.first <= block.seq /\ (block.seq = reader.first => Quiet)
Fetching ==
    /\ (reader.pc = "high" /\ reader.part.seq = reader.first /\ block.seq = reader.first) =>
          reader.part.rx_read = block.rx_read /\ reader.part.rx_write = block.rx_write
    /\ (reader.pc = "last" /\ block.seq = reader.first) => SameRing(reader.part, block)
    /\ reader.pc = "ringHigh" => reader.slots \in [Slots -> Nat]

\* The first stable snapshot was true when it was taken; as long as no byte has
\* been taken since, its unread bytes are in the slots fetched.
Had == reader.before.rx_accepted - Span(reader.before.rx_read, reader.before.rx_write)
InFetch(s) == \/ reader.pc \in {"first", "low", "high", "last"}
              \/ reader.pc = "ringHigh" /\ s < RingSize \div 2
Snapped ==
    reader.have =>
        /\ reader.before.rx_write = reader.before.rx_accepted % RingSize
        /\ reader.before.rx_accepted <= Len(log)
        /\ Had \in Nat /\ Had <= taken
        /\ taken = Had => block.rx_read = reader.before.rx_read
Fetched ==
    (reader.have /\ reader.pc \in {"first", "low", "high", "last", "ringHigh"}) =>
        /\ reader.slots \in [Slots -> Nat]
        /\ taken = Had =>
              \A i \in 1 .. Span(reader.before.rx_read, reader.before.rx_write) :
                  InFetch(Nth(reader.before.rx_read, i)) =>
                      reader.slots[Nth(reader.before.rx_read, i)] = log[Had + i]

\* The bytes returned are a stretch of the log that stays.
Returned ==
    reader.pc = "done" =>
        /\ reader.part.rx_accepted <= Len(log) /\ Len(reader.bytes) <= reader.part.rx_accepted
        /\ \A i \in 1 .. Len(reader.bytes) :
              reader.bytes[i] = log[reader.part.rx_accepted - Len(reader.bytes) + i]

HostInv == Watching /\ Fetching /\ Snapped /\ Fetched /\ Returned

IInv == RingInv /\ HostInv

-----------------------------------------------------------------------------
\* Arithmetic of the ring.

LEMMA RingSizes ==
    ASSUME SnapshotConstants
    PROVE  /\ RingSize \in Nat /\ RingSize > 1 /\ MaxSections \in Nat /\ SequenceSpace \in Nat
           /\ SequenceSpace > 2 * MaxSections
           /\ Slots = 0 .. RingSize - 1
  BY DEF SnapshotConstants, Slots

LEMMA Wrap ==
    ASSUME NEW n \in Nat, n > 0, NEW x \in Int
    PROVE  /\ x \in 0 .. n - 1 => x % n = x
           /\ x \in n .. 2 * n - 1 => x % n = x - n
           /\ x \in (-n) .. -1 => x % n = x + n
  OBVIOUS

LEMMA Division ==
    ASSUME NEW n \in Nat, n > 0, NEW x \in Int
    PROVE  x \div n \in Int /\ x % n \in 0 .. n - 1 /\ x % n = x - n * (x \div n)
  OBVIOUS

LEMMA Multiple == ASSUME NEW n \in Nat, n > 0, NEW q \in Int PROVE (n * q) % n = 0
  OBVIOUS

LEMMA Remainder ==
    ASSUME NEW n \in Nat, n > 0, NEW q \in Int, NEW r \in 0 .. n - 1, NEW x \in Int, x = n * q + r
    PROVE  x % n = r
  OBVIOUS

\* Counting on modulo the ring is stepping from slot to slot.
LEMMA CountStep ==
    ASSUME NEW n \in Nat, n > 0, NEW x \in Nat
    PROVE  (x + 1) % n = ((x % n) + 1) % n
<1>1. PICK q \in Int, r \in 0 .. n - 1 : q = x \div n /\ r = x % n /\ r = x - n * q
  BY Division
<1>2. x = n * q + r /\ x + 1 = n * q + (r + 1)
  BY <1>1
<1>3. CASE r = n - 1
  <2>1. PICK p \in Int : p = q + 1
    OBVIOUS
  <2>2. x + 1 = n * p
    BY <1>2, <1>3, <2>1
  <2>3. (x + 1) % n = 0
    BY <2>2, Multiple
  <2>4. (r + 1) % n = 0
    BY <1>3
  <2> QED BY <1>1, <2>3, <2>4
<1>4. CASE r # n - 1
  <2>1. r + 1 \in 0 .. n - 1
    BY <1>4
  <2>2. (x + 1) % n = r + 1
    BY <1>2, <2>1, Remainder
  <2>3. (r + 1) % n = r + 1
    BY <2>1
  <2> QED BY <1>1, <2>2, <2>3
<1> QED BY <1>3, <1>4

LEMMA SpanType ==
    ASSUME SnapshotConstants, NEW a \in Slots, NEW b \in Slots
    PROVE  Span(a, b) \in 0 .. RingSize - 1 /\ (Span(a, b) = 0 <=> a = b)
           /\ Span(a, b) = IF a <= b THEN b - a ELSE b - a + RingSize
<1>1. RingSize \in Nat /\ RingSize > 1 /\ a \in 0 .. RingSize - 1 /\ b \in 0 .. RingSize - 1
  BY RingSizes
<1>2. CASE a <= b
  BY <1>1, <1>2, Wrap DEF Span
<1>3. CASE b < a
  BY <1>1, <1>3, Wrap DEF Span
<1> QED BY <1>1, <1>2, <1>3

LEMMA NextSlotType ==
    ASSUME SnapshotConstants, NEW a \in Slots
    PROVE  NextSlot(a) \in Slots /\ NextSlot(a) = IF a = RingSize - 1 THEN 0 ELSE a + 1
<1>1. RingSize \in Nat /\ RingSize > 1 /\ a \in 0 .. RingSize - 1 /\ Slots = 0 .. RingSize - 1
  BY RingSizes
<1>2. CASE a = RingSize - 1
  BY <1>1, <1>2, Wrap DEF NextSlot
<1>3. CASE a # RingSize - 1
  BY <1>1, <1>3, Wrap DEF NextSlot
<1> QED BY <1>1, <1>2, <1>3

\* The span grows with the write index until the ring is full, and shrinks with the
\* read index.
LEMMA SpanSteps ==
    ASSUME SnapshotConstants, NEW a \in Slots, NEW b \in Slots
    PROVE  /\ NextSlot(b) # a => Span(a, NextSlot(b)) = Span(a, b) + 1
           /\ a # b => Span(NextSlot(a), b) = Span(a, b) - 1
<1>1. RingSize \in Nat /\ RingSize > 1 /\ a \in 0 .. RingSize - 1 /\ b \in 0 .. RingSize - 1
  BY RingSizes
<1>2. /\ NextSlot(a) \in Slots /\ NextSlot(a) = IF a = RingSize - 1 THEN 0 ELSE a + 1
      /\ NextSlot(b) \in Slots /\ NextSlot(b) = IF b = RingSize - 1 THEN 0 ELSE b + 1
  BY NextSlotType
<1>3. Span(a, b) = IF a <= b THEN b - a ELSE b - a + RingSize
  BY SpanType
<1>4. ASSUME NextSlot(b) # a PROVE Span(a, NextSlot(b)) = Span(a, b) + 1
  <2>1. Span(a, NextSlot(b)) = IF a <= NextSlot(b) THEN NextSlot(b) - a
                               ELSE NextSlot(b) - a + RingSize
    BY <1>2, SpanType
  <2> QED BY <1>1, <1>2, <1>3, <1>4, <2>1
<1>5. ASSUME a # b PROVE Span(NextSlot(a), b) = Span(a, b) - 1
  <2>1. Span(NextSlot(a), b) = IF NextSlot(a) <= b THEN b - NextSlot(a)
                               ELSE b - NextSlot(a) + RingSize
    BY <1>2, SpanType
  <2> QED BY <1>1, <1>2, <1>3, <1>5, <2>1
<1> QED BY <1>4, <1>5

\* Where the unread slots lie: not at the write index, the last one just before it,
\* and the rest of them again after the first is taken.
LEMMA NthType ==
    ASSUME SnapshotConstants, NEW a \in Slots, NEW i \in 1 .. RingSize
    PROVE  Nth(a, i) \in Slots
           /\ Nth(a, i) = IF a + i - 1 < RingSize THEN a + i - 1 ELSE a + i - 1 - RingSize
<1>1. RingSize \in Nat /\ RingSize > 1 /\ a \in 0 .. RingSize - 1 /\ Slots = 0 .. RingSize - 1
  BY RingSizes
<1>2. CASE a + i - 1 < RingSize
  BY <1>1, <1>2, Wrap DEF Nth
<1>3. CASE a + i - 1 >= RingSize
  BY <1>1, <1>3, Wrap DEF Nth
<1> QED BY <1>1, <1>2, <1>3

LEMMA NthOther ==
    ASSUME SnapshotConstants, NEW a \in Slots, NEW b \in Slots, NEW i \in 1 .. Span(a, b)
    PROVE  Nth(a, i) \in Slots /\ Nth(a, i) # b
<1>1. RingSize \in Nat /\ RingSize > 1 /\ a \in 0 .. RingSize - 1 /\ b \in 0 .. RingSize - 1
  BY RingSizes
<1>2. Span(a, b) \in 0 .. RingSize - 1 /\ Span(a, b) = IF a <= b THEN b - a ELSE b - a + RingSize
  BY SpanType
<1>3. i \in 1 .. RingSize /\ i <= Span(a, b)
  BY <1>1, <1>2
<1>4. Nth(a, i) \in Slots
      /\ Nth(a, i) = IF a + i - 1 < RingSize THEN a + i - 1 ELSE a + i - 1 - RingSize
  BY <1>3, NthType
<1> QED BY <1>1, <1>2, <1>3, <1>4

LEMMA NthLast ==
    ASSUME SnapshotConstants, NEW a \in Slots, NEW b \in Slots, a # b
    PROVE  Nth(a, Span(a, b)) = (b - 1) % RingSize
<1>1. RingSize \in Nat /\ RingSize > 1 /\ a \in 0 .. RingSize - 1 /\ b \in 0 .. RingSize - 1
  BY RingSizes
<1>2. Span(a, b) \in 1 .. RingSize /\ Span(a, b) = IF a <= b THEN b - a ELSE b - a + RingSize
  BY <1>1, SpanType
<1>3. Nth(a, Span(a, b)) = IF a + Span(a, b) - 1 < RingSize THEN a + Span(a, b) - 1
                           ELSE a + Span(a, b) - 1 - RingSize
  BY <1>2, NthType
<1>4. (b - 1) % RingSize = IF b = 0 THEN RingSize - 1 ELSE b - 1
  <2>1. CASE b = 0
    BY <1>1, <2>1, Wrap
  <2>2. CASE b # 0
    BY <1>1, <2>2, Wrap
  <2> QED BY <2>1, <2>2
<1> QED BY <1>1, <1>2, <1>3, <1>4

LEMMA NthNext ==
    ASSUME SnapshotConstants, NEW a \in Slots, NEW i \in 1 .. RingSize - 1
    PROVE  Nth(NextSlot(a), i) = Nth(a, i + 1)
<1>1. RingSize \in Nat /\ RingSize > 1 /\ a \in 0 .. RingSize - 1 /\ i + 1 \in 1 .. RingSize
      /\ i \in 1 .. RingSize
  BY RingSizes
<1>2. NextSlot(a) \in Slots /\ NextSlot(a) = IF a = RingSize - 1 THEN 0 ELSE a + 1
  BY NextSlotType
<1>3. Nth(a, i + 1) = IF a + (i + 1) - 1 < RingSize THEN a + (i + 1) - 1
                      ELSE a + (i + 1) - 1 - RingSize
  BY <1>1, NthType
<1>4. Nth(NextSlot(a), i) = IF NextSlot(a) + i - 1 < RingSize THEN NextSlot(a) + i - 1
                            ELSE NextSlot(a) + i - 1 - RingSize
  BY <1>1, <1>2, NthType
<1> QED BY <1>1, <1>2, <1>3, <1>4

-----------------------------------------------------------------------------
\* What a step of the SFC does to what the host has seen: nothing moves under an
\* unchanged sequence outside a section, and the log only grows.
Onward ==
    /\ reader' = reader
    /\ \/ /\ block'.seq = block.seq
          /\ Quiet => Quiet' /\ SameRing(block', block)
       \/ block'.seq = block.seq + 1
    /\ Len(log) <= Len(log')
    /\ \A i \in 1 .. Len(log) : log'[i] = log[i]
    /\ taken <= taken'
    /\ taken' = taken => block'.rx_read = block.rx_read

LEMMA InitIInv == ASSUME SnapshotConstants, SnapshotInit PROVE IInv
<1>1. RingSize \in Nat /\ RingSize > 1 /\ Slots = 0 .. RingSize - 1 /\ 0 \in Slots
      /\ MaxSections \in Nat
  BY RingSizes
<1>2. block = NewBlock /\ NewBlock \in Blocks /\ sfc = "idle" /\ log = <<>> /\ taken = 0
      /\ sections = 0 /\ lost = 0 /\ reader = NewHost /\ ring \in [Slots -> Nat]
  BY <1>1 DEF SnapshotInit, NewBlock, Blocks, Empty
<1>3. NewHost \in Hosts
  BY <1>2 DEF NewHost, Hosts, HostStates, Fetches
<1>4. Types
  BY <1>2, <1>3 DEF Types, SfcStates
<1>5. Quiet
  BY <1>2 DEF Quiet, Section
<1>6. Counted
  BY <1>1, <1>2, <1>5 DEF Counted, NewBlock
<1>7. Span(0, 0) = 0 /\ 0 % RingSize = 0
  <2>1. Span(0, 0) = 0
    BY <1>1, SpanType
  <2> QED BY <1>1, <2>1, Wrap
<1>8. Written = 0 /\ Len(log) = 0
  BY <1>2 DEF Written
<1>9. Indexed
  BY <1>2, <1>7, <1>8 DEF Indexed, NewBlock
<1>10. Unread
  BY <1>2, <1>8 DEF Unread
<1>11. reader.pc = "first" /\ reader.have = FALSE
  BY <1>2 DEF NewHost
<1>12. HostInv
  BY <1>11 DEF HostInv, Watching, Fetching, Snapped, Fetched, Returned
<1> QED BY <1>4, <1>6, <1>9, <1>10, <1>12 DEF IInv, RingInv

LEMMA SfcKeepsHost ==
    ASSUME SnapshotConstants, RingInv, Types', HostInv, Onward
    PROVE  HostInv'
<1>1. Types
  BY DEF RingInv
<1>2. /\ block \in Blocks /\ block' \in Blocks /\ reader \in Hosts /\ reader' = reader
      /\ log \in Seq(Nat) /\ log' \in Seq(Nat) /\ taken \in Nat /\ taken' \in Nat
  BY <1>1 DEF Types, Onward
<1>3. /\ block.seq \in Nat /\ block'.seq \in Nat /\ reader.first \in Nat
      /\ Len(log) \in Nat /\ Len(log') \in Nat /\ Len(log) <= Len(log') /\ taken <= taken'
  <2>1. block.seq \in Nat /\ block'.seq \in Nat /\ reader.first \in Nat
    BY <1>2 DEF Blocks, Hosts
  <2>2. Len(log) \in Nat /\ Len(log') \in Nat
    BY <1>2, LenProperties
  <2> QED BY <2>1, <2>2 DEF Onward
<1>4. Watching'
  BY <1>2, <1>3 DEF HostInv, Watching, Onward
<1>5. Fetching'
  <2>1. ASSUME reader.pc \in {"high", "last"}, block'.seq = reader.first
        PROVE  block.seq = reader.first /\ SameRing(block', block)
    BY <1>2, <1>3, <2>1 DEF HostInv, Watching, Onward
  <2> QED BY <1>2, <2>1 DEF HostInv, Fetching, SameRing
<1>6. ASSUME reader.have, Had \in Nat, Had <= taken, taken' = Had
      PROVE  taken = Had
  BY <1>2, <1>3, <1>6
<1>7. Had' = Had
  BY <1>2 DEF Had
<1>8. ASSUME reader.have PROVE reader.before \in Blocks /\ reader.before.rx_accepted \in Nat
                            /\ reader.before.rx_read \in Slots /\ reader.before.rx_write \in Slots
  BY <1>2 DEF Hosts, Blocks
<1>9. Snapped'
  <2>1. SUFFICES ASSUME reader.have
                 PROVE  /\ reader.before.rx_write = reader.before.rx_accepted % RingSize
                        /\ reader.before.rx_accepted <= Len(log')
                        /\ Had \in Nat /\ Had <= taken'
                        /\ taken' = Had => block'.rx_read = reader.before.rx_read
    BY <1>2, <1>7 DEF Snapped
  <2>2. /\ reader.before.rx_write = reader.before.rx_accepted % RingSize
        /\ reader.before.rx_accepted <= Len(log)
        /\ Had \in Nat /\ Had <= taken
        /\ taken = Had => block.rx_read = reader.before.rx_read
    BY <2>1 DEF HostInv, Snapped
  <2>3. reader.before.rx_accepted <= Len(log') /\ Had <= taken'
    <3>1. ASSUME NEW a \in Nat, NEW b \in Nat, NEW c \in Nat, a <= b, b <= c PROVE a <= c
      BY <3>1
    <3>2. reader.before.rx_accepted <= Len(log')
      BY <1>3, <1>8, <2>1, <2>2, <3>1
    <3>3. Had <= taken'
      <4> HIDE DEF Had
      <4>1. Had \in Nat /\ taken \in Nat /\ taken' \in Nat /\ Had <= taken /\ taken <= taken'
        BY <1>2, <1>3, <2>2
      <4> QED BY <4>1, <3>1
    <3> QED BY <3>2, <3>3
  <2>4. taken' = Had => block'.rx_read = reader.before.rx_read
    BY <1>6, <2>1, <2>2 DEF Onward
  <2> QED BY <2>2, <2>3, <2>4
<1>10. Fetched'
  <2>1. SUFFICES ASSUME reader.have, reader.pc \in {"first", "low", "high", "last", "ringHigh"}
                 PROVE  /\ reader.slots \in [Slots -> Nat]
                        /\ taken' = Had =>
                             \A i \in 1 .. Span(reader.before.rx_read, reader.before.rx_write) :
                               InFetch(Nth(reader.before.rx_read, i)) =>
                                 reader.slots[Nth(reader.before.rx_read, i)] = log'[Had + i]
    BY <1>2, <1>7 DEF Fetched, InFetch
  <2>2. Had \in Nat /\ Had <= taken /\ reader.before.rx_accepted <= Len(log)
    BY <2>1 DEF HostInv, Snapped
  <2>3. reader.slots \in [Slots -> Nat]
    BY <2>1 DEF HostInv, Fetched
  <2>4. SUFFICES ASSUME taken' = Had,
                        NEW i \in 1 .. Span(reader.before.rx_read, reader.before.rx_write),
                        InFetch(Nth(reader.before.rx_read, i))
                 PROVE  reader.slots[Nth(reader.before.rx_read, i)] = log'[Had + i]
    BY <2>3
  <2>5. taken = Had
    BY <1>6, <2>1, <2>2, <2>4
  <2>6. reader.slots[Nth(reader.before.rx_read, i)] = log[Had + i]
    BY <2>1, <2>4, <2>5 DEF HostInv, Fetched
  <2>7. Span(reader.before.rx_read, reader.before.rx_write) \in Nat
    <3>1. Span(reader.before.rx_read, reader.before.rx_write) \in 0 .. RingSize - 1
      BY <1>8, <2>1, SpanType
    <3> QED BY <3>1
  <2>8. Had + i \in 1 .. Len(log)
    BY <1>3, <1>8, <2>1, <2>2, <2>7 DEF Had
  <2>9. log'[Had + i] = log[Had + i]
    BY <2>8 DEF Onward
  <2> QED BY <2>6, <2>9
<1>11. Returned'
  <2>1. SUFFICES ASSUME reader.pc = "done"
                 PROVE  /\ reader.part.rx_accepted <= Len(log')
                        /\ Len(reader.bytes) <= reader.part.rx_accepted
                        /\ \A i \in 1 .. Len(reader.bytes) :
                             reader.bytes[i] = log'[reader.part.rx_accepted - Len(reader.bytes) + i]
    BY <1>2 DEF Returned
  <2>2. reader.part.rx_accepted \in Nat /\ Len(reader.bytes) \in Nat
    <3>1. reader.part \in Blocks /\ reader.bytes \in Seq(Nat)
      BY <1>2 DEF Hosts
    <3>2. Len(reader.bytes) \in Nat
      BY <3>1, LenProperties
    <3> QED BY <3>1, <3>2 DEF Blocks
  <2>3. reader.part.rx_accepted <= Len(log) /\ Len(reader.bytes) <= reader.part.rx_accepted
    BY <2>1 DEF HostInv, Returned
  <2>4. ASSUME NEW i \in 1 .. Len(reader.bytes)
        PROVE  reader.bytes[i] = log'[reader.part.rx_accepted - Len(reader.bytes) + i]
    <3>1. reader.bytes[i] = log[reader.part.rx_accepted - Len(reader.bytes) + i]
      BY <2>1 DEF HostInv, Returned
    <3>2. reader.part.rx_accepted - Len(reader.bytes) + i \in 1 .. Len(log)
      BY <1>3, <2>2, <2>3
    <3> QED BY <3>1, <3>2 DEF Onward
  <2> QED BY <1>3, <2>2, <2>3, <2>4
<1> QED BY <1>4, <1>5, <1>9, <1>10, <1>11 DEF HostInv

-----------------------------------------------------------------------------
\* The steps of the SFC, one by one.

\* The types and counts in the form the steps use.
LEMMA RingFacts ==
    ASSUME SnapshotConstants, RingInv
    PROVE  /\ ring \in [Slots -> Nat] /\ block \in Blocks /\ sfc \in SfcStates
           /\ log \in Seq(Nat) /\ taken \in Nat /\ lost \in Nat /\ sections \in Nat
           /\ reader \in Hosts /\ Len(log) \in Nat
           /\ block.seq \in Nat /\ block.rx_read \in Slots /\ block.rx_write \in Slots
           /\ block.rx_accepted \in Nat /\ block.at_status \in Nat /\ block.driver_state \in Nat
<1>1. Types
  BY DEF RingInv
<1>2. Len(log) \in Nat
  BY <1>1, LenProperties DEF Types
<1>3. block \in Blocks
  BY <1>1 DEF Types
<1>4. /\ block.seq \in Nat /\ block.rx_read \in Slots /\ block.rx_write \in Slots
      /\ block.rx_accepted \in Nat /\ block.at_status \in Nat /\ block.driver_state \in Nat
  BY <1>3 DEF Blocks
<1> QED BY <1>1, <1>2, <1>4 DEF Types

LEMMA Bumped ==
    ASSUME SnapshotConstants, block \in Blocks, block.seq + 1 <= 2 * MaxSections,
           block' = Bump(block)
    PROVE  /\ block' \in Blocks /\ block'.seq = block.seq + 1
           /\ block'.rx_read = block.rx_read /\ block'.rx_write = block.rx_write
           /\ block'.rx_accepted = block.rx_accepted
<1>1. MaxSections \in Nat /\ SequenceSpace \in Nat /\ SequenceSpace > 2 * MaxSections
  BY RingSizes
<1>2. block.seq \in Nat
  BY DEF Blocks
<1>3. (block.seq + 1) % SequenceSpace = block.seq + 1
  BY <1>1, <1>2, Wrap
<1>4. PICK k \in Nat : k = block.seq + 1
  BY <1>2
<1>5. block' = [block EXCEPT !.seq = k]
  BY <1>3, <1>4 DEF Bump
<1> QED BY <1>4, <1>5 DEF Blocks

LEMMA SnapshotBeginSteps ==
    ASSUME SnapshotConstants, RingInv, NEW pc \in {"store", "read"}, modemSnapshotBegin(pc)
    PROVE  RingInv' /\ Onward
<1> USE RingFacts
<1>1. /\ sfc = "idle" /\ sections < MaxSections /\ block' = Bump(block) /\ sfc' = pc
      /\ sections' = sections + 1 /\ ring' = ring /\ log' = log /\ taken' = taken
      /\ lost' = lost /\ reader' = reader
  BY DEF modemSnapshotBegin
<1>2. Quiet /\ ~Quiet' /\ sfc' \in SfcStates
  BY <1>1 DEF Quiet, Section, SfcStates
<1>3. block.seq = 2 * sections /\ MaxSections \in Nat
  BY <1>2, RingSizes DEF RingInv, Counted
<1>4. /\ block' \in Blocks /\ block'.seq = block.seq + 1
      /\ block'.rx_read = block.rx_read /\ block'.rx_write = block.rx_write
      /\ block'.rx_accepted = block.rx_accepted
  BY <1>1, <1>3, Bumped
<1>5. Types'
  BY <1>1, <1>2, <1>4 DEF Types
<1>6. Counted'
  <2>1. sections \in Nat /\ sections' <= MaxSections
    BY <1>1, <1>3 DEF RingInv, Types
  <2>2. block'.seq = 2 * sections' - 1
    BY <1>1, <1>3, <1>4, <2>1
  <2> QED BY <1>2, <2>1, <2>2 DEF Counted
<1>7. Indexed' /\ Unread'
  BY <1>1, <1>4 DEF RingInv, Indexed, Unread, Written
<1>8. Onward
  BY <1>1, <1>4 DEF Onward
<1> QED BY <1>5, <1>6, <1>7, <1>8 DEF RingInv

LEMMA SnapshotEndSteps ==
    ASSUME SnapshotConstants, RingInv, modemSnapshotEnd
    PROVE  RingInv' /\ Onward
<1> USE RingFacts
<1>1. /\ sfc = "end" /\ block' = Bump(block) /\ sfc' = "idle"
      /\ sections' = sections /\ ring' = ring /\ log' = log /\ taken' = taken
      /\ lost' = lost /\ reader' = reader
  BY DEF modemSnapshotEnd
<1>2. ~Quiet /\ Quiet' /\ sfc' \in SfcStates
  BY <1>1 DEF Quiet, Section, SfcStates
<1>3. block.seq = 2 * sections - 1 /\ MaxSections \in Nat /\ sections <= MaxSections
  BY <1>2, RingSizes DEF RingInv, Counted
<1>4. /\ block' \in Blocks /\ block'.seq = block.seq + 1
      /\ block'.rx_read = block.rx_read /\ block'.rx_write = block.rx_write
      /\ block'.rx_accepted = block.rx_accepted
  BY <1>1, <1>3, Bumped
<1>5. Types'
  BY <1>1, <1>2, <1>4 DEF Types
<1>6. Counted'
  BY <1>1, <1>2, <1>3, <1>4 DEF Counted
<1>7. Indexed' /\ Unread'
  BY <1>1, <1>4 DEF RingInv, Indexed, Unread, Written
<1>8. Onward
  BY <1>1, <1>4 DEF Onward
<1> QED BY <1>5, <1>6, <1>7, <1>8 DEF RingInv

\* A byte at a full ring is dropped; another goes to the one slot that is never unread.
LEMMA StoreByteSteps ==
    ASSUME SnapshotConstants, RingInv, StoreByte
    PROVE  RingInv' /\ Onward
<1> USE RingFacts
<1>1. /\ sfc = "store" /\ block' = block /\ sections' = sections /\ log' = log
      /\ taken' = taken /\ reader' = reader
  BY DEF StoreByte
<1>2. Onward
  BY <1>1 DEF Onward, Quiet, Section
<1>3. Len(log) - taken = Span(block.rx_read, block.rx_write)
  BY <1>1 DEF RingInv, Indexed, Written
<1>4. CASE RingFull
  <2>1. lost' = lost + 1 /\ sfc' = "more" /\ ring' = ring
    BY <1>4 DEF StoreByte
  <2>2. Types'
    BY <1>1, <2>1 DEF Types, SfcStates, Section
  <2>3. Counted'
    BY <1>1, <2>1 DEF RingInv, Counted, Quiet, Section
  <2>4. Indexed' /\ Unread'
    BY <1>1, <2>1 DEF RingInv, Indexed, Unread, Written
  <2> QED BY <1>2, <2>2, <2>3, <2>4 DEF RingInv
<1>5. CASE ~RingFull
  <2>1. PICK k \in Nat : k = Len(log) + lost + 1
    OBVIOUS
  <2>2. lost' = lost /\ sfc' = "index" /\ ring' = [ring EXCEPT ![block.rx_write] = k]
    BY <1>5, <2>1 DEF StoreByte
  <2>3. Types'
    BY <1>1, <2>2 DEF Types, SfcStates, Section
  <2>4. Counted'
    BY <1>1, <2>2 DEF RingInv, Counted, Quiet, Section
  <2>5. Indexed'
    BY <1>1, <1>5, <2>2 DEF RingInv, Indexed, Written, RingFull
  <2>6. Unread'
    <3>1. SUFFICES ASSUME NEW i \in 1 .. Len(log) - taken
                   PROVE  ring'[Nth(block.rx_read, i)] = log[taken + i]
      BY <1>1 DEF Unread
    <3>2. Nth(block.rx_read, i) \in Slots /\ Nth(block.rx_read, i) # block.rx_write
      BY <1>3, NthOther
    <3>3. ring[Nth(block.rx_read, i)] = log[taken + i]
      BY DEF RingInv, Unread
    <3> QED BY <2>2, <3>2, <3>3
  <2> QED BY <1>2, <2>3, <2>4, <2>5, <2>6 DEF RingInv
<1> QED BY <1>4, <1>5

LEMMA AdvanceWriteSteps ==
    ASSUME SnapshotConstants, RingInv, AdvanceWrite
    PROVE  RingInv' /\ Onward
<1> USE RingFacts
<1>1. /\ sfc = "index" /\ sfc' = "count" /\ sections' = sections /\ log' = log
      /\ taken' = taken /\ reader' = reader /\ ring' = ring /\ lost' = lost
      /\ block' = [block EXCEPT !.rx_write = NextSlot(block.rx_write)]
  BY DEF AdvanceWrite
<1>2. NextSlot(block.rx_write) \in Slots
  BY NextSlotType
<1>3. /\ block' \in Blocks /\ block'.seq = block.seq /\ block'.rx_read = block.rx_read
      /\ block'.rx_accepted = block.rx_accepted /\ block'.rx_write = NextSlot(block.rx_write)
  BY <1>1, <1>2 DEF Blocks
<1>4. Onward
  BY <1>1, <1>3 DEF Onward, Quiet, Section
<1>5. Types'
  BY <1>1, <1>3 DEF Types, SfcStates, Section
<1>6. Counted'
  BY <1>1, <1>3 DEF RingInv, Counted, Quiet, Section
<1>7. Indexed'
  <2>1. /\ block.rx_accepted = Len(log) /\ block.rx_write = Len(log) % RingSize
        /\ taken <= Len(log) /\ Span(block.rx_read, block.rx_write) = Len(log) - taken
        /\ NextSlot(block.rx_write) # block.rx_read
    BY <1>1 DEF RingInv, Indexed, Written
  <2>2. NextSlot(block.rx_write) = (Len(log) + 1) % RingSize
    <3>1. PICK x \in Nat : x = Len(log)
      OBVIOUS
    <3>2. (x + 1) % RingSize = ((x % RingSize) + 1) % RingSize
      <4>1. RingSize \in Nat /\ RingSize > 0
        BY RingSizes
      <4> QED BY <4>1, CountStep, Zenon
    <3>3. block.rx_write = x % RingSize
      BY <2>1, <3>1, Zenon
    <3>4. NextSlot(block.rx_write) = ((x % RingSize) + 1) % RingSize
      BY <3>3, Zenon DEF NextSlot
    <3> QED BY <3>1, <3>2, <3>4, Zenon
  <2>3. Span(block.rx_read, NextSlot(block.rx_write)) = Len(log) + 1 - taken
    BY <2>1, SpanSteps
  <2>4. Written' = Len(log) + 1
    BY <1>1 DEF Written
  <2> QED BY <1>1, <1>3, <2>1, <2>2, <2>3, <2>4 DEF Indexed
<1>8. Unread'
  BY <1>1, <1>3 DEF RingInv, Unread
<1> QED BY <1>4, <1>5, <1>6, <1>7, <1>8 DEF RingInv

LEMMA CountAcceptedSteps ==
    ASSUME SnapshotConstants, RingInv, CountAccepted
    PROVE  RingInv' /\ Onward
<1> USE RingFacts
<1> DEFINE slot == (block.rx_write - 1) % RingSize
<1>1. /\ sfc = "count" /\ sfc' = "more" /\ sections' = sections
      /\ taken' = taken /\ reader' = reader /\ ring' = ring /\ lost' = lost
  BY DEF CountAccepted
<1>2. /\ block.rx_accepted = Len(log) /\ block.rx_write = (Len(log) + 1) % RingSize
      /\ taken <= Len(log) /\ Span(block.rx_read, block.rx_write) = Len(log) + 1 - taken
  BY <1>1 DEF RingInv, Indexed, Written
<1>3. block.rx_read # block.rx_write
  BY <1>2, SpanType
<1>4. Nth(block.rx_read, Len(log) + 1 - taken) = slot
  BY <1>2, <1>3, NthLast
<1>5. slot \in Slots
  <2>1. RingSize \in Nat /\ RingSize > 1 /\ block.rx_write \in 0 .. RingSize - 1
        /\ Slots = 0 .. RingSize - 1
    BY RingSizes
  <2>2. PICK w \in Int : w = block.rx_write - 1
    BY <2>1
  <2> HIDE DEF slot
  <2>3. w % RingSize \in 0 .. RingSize - 1
    <3>1. ASSUME NEW n \in Nat, n > 1, NEW i \in Int PROVE i % n \in 0 .. n - 1
      BY <3>1
    <3> QED BY <2>1, <3>1
  <2>4. slot = w % RingSize
    BY <2>2 DEF slot
  <2> QED BY <2>1, <2>3, <2>4
<1> HIDE DEF slot
<1>6. PICK x \in Nat : x = ring[slot]
  BY <1>5
<1>7. /\ log' \in Seq(Nat) /\ Len(log') = Len(log) + 1 /\ log'[Len(log) + 1] = x
      /\ \A i \in 1 .. Len(log) : log'[i] = log[i]
  <2>1. log' = Append(log, x)
    BY <1>6 DEF CountAccepted, slot
  <2> QED BY <2>1, AppendProperties
<1>8. PICK k \in Nat : k = block.rx_accepted + 1
  OBVIOUS
<1>9. /\ block' \in Blocks /\ block'.seq = block.seq /\ block'.rx_read = block.rx_read
      /\ block'.rx_accepted = k /\ block'.rx_write = block.rx_write
  <2>1. block' = [block EXCEPT !.rx_accepted = k]
    BY <1>8 DEF CountAccepted
  <2> QED BY <2>1 DEF Blocks
<1>10. Onward
  BY <1>1, <1>7, <1>9 DEF Onward, Quiet, Section
<1>11. Types'
  BY <1>1, <1>7, <1>9 DEF Types, SfcStates, Section
<1>12. Counted'
  BY <1>1, <1>9 DEF RingInv, Counted, Quiet, Section
<1>13. Indexed'
  <2>1. Written' = Len(log) + 1
    BY <1>1, <1>7 DEF Written
  <2>2. block'.rx_accepted = Len(log') /\ Len(log') = Len(log) + 1
    BY <1>2, <1>7, <1>8, <1>9
  <2>3. block'.rx_write = Written' % RingSize
    BY <1>2, <1>9, <2>1
  <2>4. taken' <= Len(log')
    BY <1>1, <1>2, <2>2
  <2>5. Span(block'.rx_read, block'.rx_write) = Written' - taken'
    BY <1>1, <1>2, <1>9, <2>1
  <2>6. sfc' # "index"
    BY <1>1
  <2> QED BY <2>2, <2>3, <2>4, <2>5, <2>6 DEF Indexed
<1>14. Unread'
  <2>1. SUFFICES ASSUME NEW i \in 1 .. Len(log) + 1 - taken
                 PROVE  ring[Nth(block.rx_read, i)] = log'[taken + i]
    BY <1>1, <1>7, <1>9 DEF Unread
  <2>2. CASE i = Len(log) + 1 - taken
    <3>1. taken + i = Len(log) + 1
      BY <2>2
    <3> QED BY <1>4, <1>6, <1>7, <2>2, <3>1, Zenon
  <2>3. CASE i # Len(log) + 1 - taken
    <3>1. i \in 1 .. Len(log) - taken /\ taken + i \in 1 .. Len(log)
      <4>1. PICK n \in Nat, t \in Nat : n = Len(log) /\ t = taken
        OBVIOUS
      <4>2. i \in 1 .. n + 1 - t /\ i # n + 1 - t
        BY <2>3, <4>1
      <4>3. i \in 1 .. n - t /\ t + i \in 1 .. n
        BY <4>2
      <4> QED BY <4>1, <4>3
    <3>2. ring[Nth(block.rx_read, i)] = log[taken + i]
      BY <3>1 DEF RingInv, Unread
    <3> QED BY <1>7, <3>1, <3>2
  <2> QED BY <2>2, <2>3
<1> QED BY <1>10, <1>11, <1>12, <1>13, <1>14 DEF RingInv

\* Inside a section a poll goes on or ends.
LEMMA PollSteps ==
    ASSUME SnapshotConstants, RingInv, PollMore \/ PollNothing \/ ReadNothing
    PROVE  RingInv' /\ Onward
<1> USE RingFacts
<1>1. /\ sfc \in {"more", "store", "read"} /\ sfc' \in {"store", "end"}
      /\ ring' = ring /\ block' = block /\ log' = log /\ taken' = taken /\ lost' = lost
      /\ sections' = sections /\ reader' = reader
  BY DEF PollMore, PollNothing, ReadNothing
<1>2. Types' /\ Onward
  BY <1>1 DEF Types, SfcStates, Section, Onward, Quiet
<1>3. Counted'
  BY <1>1 DEF RingInv, Counted, Quiet, Section
<1>4. Indexed' /\ Unread'
  BY <1>1 DEF RingInv, Indexed, Unread, Written
<1> QED BY <1>2, <1>3, <1>4 DEF RingInv

LEMMA ReadByteSteps ==
    ASSUME SnapshotConstants, RingInv, ReadByte
    PROVE  RingInv' /\ Onward
<1> USE RingFacts
<1>1. /\ sfc = "read" /\ sfc' = "end" /\ sections' = sections /\ log' = log
      /\ taken' = taken + 1 /\ reader' = reader /\ ring' = ring /\ lost' = lost
      /\ block.rx_read # block.rx_write
      /\ block' = [block EXCEPT !.rx_read = NextSlot(block.rx_read)]
  BY DEF ReadByte
<1>2. NextSlot(block.rx_read) \in Slots
  BY NextSlotType
<1>3. /\ block' \in Blocks /\ block'.seq = block.seq /\ block'.rx_write = block.rx_write
      /\ block'.rx_accepted = block.rx_accepted /\ block'.rx_read = NextSlot(block.rx_read)
  BY <1>1, <1>2 DEF Blocks
<1>4. Onward
  BY <1>1, <1>3 DEF Onward, Quiet, Section
<1>5. Types'
  BY <1>1, <1>3 DEF Types, SfcStates, Section
<1>6. Counted'
  BY <1>1, <1>3 DEF RingInv, Counted, Quiet, Section
<1>7. /\ block.rx_accepted = Len(log) /\ block.rx_write = Len(log) % RingSize
      /\ taken <= Len(log) /\ Span(block.rx_read, block.rx_write) = Len(log) - taken
  BY <1>1 DEF RingInv, Indexed, Written
<1>8. Span(block.rx_read, block.rx_write) \in 1 .. RingSize - 1
  <2>1. /\ Span(block.rx_read, block.rx_write) \in 0 .. RingSize - 1
        /\ Span(block.rx_read, block.rx_write) # 0
    BY <1>1, SpanType
  <2> QED BY <2>1
<1>9. Indexed'
  <2>1. Span(NextSlot(block.rx_read), block.rx_write) = Len(log) - (taken + 1)
    BY <1>1, <1>7, SpanSteps
  <2>2. Written' = Len(log) /\ taken' <= Len(log)
    BY <1>1, <1>7, <1>8 DEF Written
  <2> QED BY <1>1, <1>3, <1>7, <2>1, <2>2 DEF Indexed
<1>10. Unread'
  <2>1. SUFFICES ASSUME NEW i \in 1 .. Len(log) - (taken + 1)
                 PROVE  ring[Nth(NextSlot(block.rx_read), i)] = log[taken + 1 + i]
    BY <1>1, <1>3 DEF Unread
  <2>2. i \in 1 .. RingSize - 1 /\ i + 1 \in 1 .. Len(log) - taken
        /\ taken + (i + 1) = taken + 1 + i
    <3>1. RingSize \in Nat
      BY RingSizes
    <3>2. Len(log) - taken <= RingSize - 1
      BY <1>7, <1>8, <3>1
    <3>3. PICK n \in Nat, t \in Nat : n = Len(log) /\ t = taken
      OBVIOUS
    <3>4. i \in 1 .. n - (t + 1) /\ n - t <= RingSize - 1
      BY <3>2, <3>3
    <3>5. i \in 1 .. RingSize - 1 /\ i + 1 \in 1 .. n - t /\ t + (i + 1) = t + 1 + i
      BY <3>1, <3>4
    <3> QED BY <3>3, <3>5
  <2>3. Nth(NextSlot(block.rx_read), i) = Nth(block.rx_read, i + 1)
    BY <2>2, NthNext
  <2>4. ring[Nth(block.rx_read, i + 1)] = log[taken + (i + 1)]
    BY <2>2 DEF RingInv, Unread
  <2> QED BY <2>2, <2>3, <2>4
<1> QED BY <1>4, <1>5, <1>6, <1>9, <1>10 DEF RingInv

\* The AT session writes outside any section, and touches no index.
LEMMA SessionSteps ==
    ASSUME SnapshotConstants, RingInv, SessionStatus \/ SessionState
    PROVE  RingInv' /\ Onward
<1> USE RingFacts
<1>1. /\ sfc \in {"idle", "state"} /\ sfc' \in {"idle", "state"}
      /\ ring' = ring /\ log' = log /\ taken' = taken /\ lost' = lost
      /\ sections' = sections /\ reader' = reader
  BY DEF SessionStatus, SessionState
<1>2. /\ block' \in Blocks /\ block'.seq = block.seq /\ block'.rx_read = block.rx_read
      /\ block'.rx_write = block.rx_write /\ block'.rx_accepted = block.rx_accepted
  <2>1. CASE SessionStatus
    <3>1. PICK k \in Nat : k = block.at_status + 1
      OBVIOUS
    <3>2. block' = [block EXCEPT !.at_status = k]
      BY <2>1, <3>1 DEF SessionStatus
    <3> QED BY <3>2 DEF Blocks
  <2>2. CASE SessionState
    BY <2>2 DEF SessionState, Blocks
  <2> QED BY <2>1, <2>2
<1>3. Quiet /\ Quiet' /\ sfc' \in SfcStates
  BY <1>1 DEF Quiet, Section, SfcStates
<1>4. Types'
  BY <1>1, <1>2, <1>3 DEF Types
<1>5. Onward
  BY <1>1, <1>2, <1>3 DEF Onward, SameRing
<1>6. Counted'
  BY <1>1, <1>2, <1>3 DEF RingInv, Counted
<1>7. Indexed' /\ Unread'
  BY <1>1, <1>2 DEF RingInv, Indexed, Unread, Written
<1> QED BY <1>4, <1>5, <1>6, <1>7 DEF RingInv

LEMMA SfcSteps ==
    ASSUME SnapshotConstants, IInv, SfcNext
    PROVE  IInv'
<1>1. RingInv /\ HostInv
  BY DEF IInv
<1>2. RingInv' /\ Onward
  BY <1>1, SnapshotBeginSteps, SnapshotEndSteps, StoreByteSteps, AdvanceWriteSteps,
     CountAcceptedSteps, PollSteps, ReadByteSteps, SessionSteps DEF SfcNext
<1>3. HostInv'
  BY <1>1, <1>2, SfcKeepsHost DEF RingInv
<1> QED BY <1>2, <1>3 DEF IInv

-----------------------------------------------------------------------------
\* The steps of the host.

LEMMA NewHostType == ASSUME SnapshotConstants PROVE NewBlock \in Blocks /\ NewHost \in Hosts
<1>1. 0 \in Slots
  BY RingSizes
<1>2. NewBlock \in Blocks
  BY <1>1 DEF NewBlock, Blocks
<1> QED BY <1>2 DEF NewHost, Hosts, HostStates, Fetches

\* The SFC stands still in a step of the host.
Still == UNCHANGED <<ring, block, sfc, log, taken, lost, sections>>

LEMMA HostKeepsRing ==
    ASSUME RingInv, Still, reader' \in Hosts
    PROVE  RingInv'
<1>1. ring' = ring /\ block' = block /\ sfc' = sfc /\ log' = log /\ taken' = taken
      /\ lost' = lost /\ sections' = sections
  BY DEF Still
<1>2. Types'
  BY <1>1 DEF RingInv, Types
<1>3. Counted'
  BY <1>1 DEF RingInv, Counted, Quiet
<1>4. Indexed' /\ Unread'
  BY <1>1 DEF RingInv, Indexed, Unread, Written
<1> QED BY <1>2, <1>3, <1>4 DEF RingInv

\* A host that keeps its first snapshot, or drops it, keeps what is known of it.
LEMMA SnappedStays ==
    ASSUME Snapped, Still, reader'.have => reader.have, reader'.before = reader.before
    PROVE  Snapped'
<1>1. block' = block /\ log' = log /\ taken' = taken
  BY DEF Still
<1>2. Had' = Had
  BY DEF Had
<1> QED BY <1>1, <1>2 DEF Snapped

LEMMA FetchedStays ==
    ASSUME Fetched, Still, reader'.have => reader.have, reader'.before = reader.before,
           reader'.slots = reader.slots, reader.pc \in {"first", "low", "high", "last"}
    PROVE  Fetched'
<1>1. log' = log /\ taken' = taken
  BY DEF Still
<1>2. Had' = Had
  BY DEF Had
<1>3. \A s : InFetch(s)
  BY DEF InFetch
<1> QED BY <1>1, <1>2, <1>3 DEF Fetched

\* What was in the ring at the first snapshot is there until a byte is taken.
LEMMA StillThere ==
    ASSUME SnapshotConstants, IInv, reader.have, taken = Had,
           NEW i \in 1 .. Span(reader.before.rx_read, reader.before.rx_write)
    PROVE  /\ Nth(reader.before.rx_read, i) \in Slots
           /\ ring[Nth(reader.before.rx_read, i)] = log[Had + i]
<1>1. RingInv /\ HostInv
  BY DEF IInv
<1>2. reader \in Hosts /\ Len(log) \in Nat /\ taken \in Nat
  BY <1>1, RingFacts
<1>3. reader.before.rx_read \in Slots /\ reader.before.rx_write \in Slots
      /\ reader.before.rx_accepted \in Nat
  <2>1. reader.before \in Blocks
    BY <1>2 DEF Hosts
  <2> QED BY <2>1 DEF Blocks
<1>4. /\ reader.before.rx_accepted <= Len(log) /\ block.rx_read = reader.before.rx_read
  BY <1>1 DEF HostInv, Snapped
<1>5. Nth(reader.before.rx_read, i) \in Slots
  BY <1>3, NthOther
<1>6. PICK n \in Nat : n = Span(reader.before.rx_read, reader.before.rx_write)
  <2>1. Span(reader.before.rx_read, reader.before.rx_write) \in 0 .. RingSize - 1
    BY <1>3, SpanType
  <2> QED BY <2>1
<1>7. taken = reader.before.rx_accepted - n
  BY <1>6 DEF Had
<1>8. i \in 1 .. Len(log) - taken
  BY <1>2, <1>3, <1>4, <1>6, <1>7
<1>9. ring[Nth(block.rx_read, i)] = log[taken + i]
  BY <1>1, <1>8 DEF RingInv, Unread
<1> QED BY <1>4, <1>5, <1>9

LEMMA ReadFirstSteps == ASSUME SnapshotConstants, IInv, ReadFirst PROVE IInv'
<1>1. RingInv /\ HostInv
  BY DEF IInv
<1>2. reader \in Hosts /\ block.seq \in Nat /\ sections \in Nat
  BY <1>1, RingFacts
<1>3. /\ reader.pc = "first" /\ block.seq % 2 = 0 /\ Still
      /\ reader' = [reader EXCEPT !.pc = "low", !.first = block.seq]
  BY DEF ReadFirst, HostStep, Still
<1>4. /\ reader' \in Hosts /\ reader'.pc = "low" /\ reader'.first = block.seq
      /\ reader'.have = reader.have /\ reader'.before = reader.before /\ reader'.slots = reader.slots
  BY <1>2, <1>3 DEF Hosts, HostStates
<1>5. RingInv'
  BY <1>1, <1>3, <1>4, HostKeepsRing
<1>6. Quiet
  BY <1>1, <1>2, <1>3 DEF RingInv, Counted
<1>7. Watching'
  BY <1>2, <1>3, <1>4, <1>6 DEF Watching, Still, Quiet
<1>8. Fetching' /\ Returned'
  BY <1>4 DEF Fetching, Returned
<1>9. Snapped' /\ Fetched'
  BY <1>1, <1>3, <1>4, SnappedStays, FetchedStays DEF HostInv
<1> QED BY <1>5, <1>7, <1>8, <1>9 DEF IInv, HostInv

LEMMA ReadBlockLowSteps == ASSUME SnapshotConstants, IInv, ReadBlockLow PROVE IInv'
<1>1. RingInv /\ HostInv
  BY DEF IInv
<1>2. reader \in Hosts /\ block \in Blocks
  BY <1>1, RingFacts
<1>3. PICK low \in Blocks : /\ low = [block EXCEPT !.rx_accepted = 0, !.at_status = 0]
                            /\ low.rx_read = block.rx_read /\ low.rx_write = block.rx_write
  <2> DEFINE new == [block EXCEPT !.rx_accepted = 0, !.at_status = 0]
  <2>1. new \in Blocks /\ new.rx_read = block.rx_read /\ new.rx_write = block.rx_write
    BY <1>2 DEF Blocks
  <2> QED BY <2>1
<1>4. reader.pc = "low" /\ Still /\ reader' = [reader EXCEPT !.pc = "high", !.part = low]
  BY <1>3 DEF ReadBlockLow, HostStep, Still
<1>5. /\ reader' \in Hosts /\ reader'.pc = "high" /\ reader'.first = reader.first
      /\ reader'.part = low /\ reader'.have = reader.have /\ reader'.before = reader.before
      /\ reader'.slots = reader.slots
  BY <1>2, <1>4 DEF Hosts, HostStates
<1>6. RingInv'
  BY <1>1, <1>4, <1>5, HostKeepsRing
<1>7. Watching' /\ Returned'
  BY <1>1, <1>4, <1>5 DEF HostInv, Watching, Still, Quiet, Returned
<1>8. Fetching'
  BY <1>3, <1>4, <1>5 DEF Fetching, Still
<1>9. Snapped' /\ Fetched'
  BY <1>1, <1>4, <1>5, SnappedStays, FetchedStays DEF HostInv
<1> QED BY <1>6, <1>7, <1>8, <1>9 DEF IInv, HostInv

\* A block fetched under one sequence becomes a whole one; another is dropped.
LEMMA TryAgainSteps ==
    ASSUME SnapshotConstants, IInv, Still, reader.pc \in {"first", "low", "high", "last"},
           reader' = [reader EXCEPT !.pc = "first", !.part = NewBlock]
    PROVE  IInv'
<1>1. RingInv /\ HostInv
  BY DEF IInv
<1>2. reader \in Hosts /\ NewBlock \in Blocks
  BY <1>1, RingFacts, NewHostType
<1>3. /\ reader' \in Hosts /\ reader'.pc = "first" /\ reader'.have = reader.have
      /\ reader'.before = reader.before /\ reader'.slots = reader.slots
  BY <1>2 DEF Hosts, HostStates
<1>4. RingInv'
  BY <1>1, <1>3, HostKeepsRing
<1>5. Watching' /\ Fetching' /\ Returned'
  BY <1>3 DEF Watching, Fetching, Returned
<1>6. Snapped' /\ Fetched'
  BY <1>1, <1>3, SnappedStays, FetchedStays DEF HostInv
<1> QED BY <1>4, <1>5, <1>6 DEF IInv, HostInv

LEMMA ReadBlockHighSteps == ASSUME SnapshotConstants, IInv, ReadBlockHigh PROVE IInv'
<1>1. RingInv /\ HostInv
  BY DEF IInv
<1>2. reader \in Hosts /\ block \in Blocks
  BY <1>1, RingFacts
<1>3. reader.pc = "high" /\ Still
  BY DEF ReadBlockHigh, HostStep, Still
<1>4. CASE reader.part.seq # reader.first
  BY <1>3, <1>4, TryAgainSteps DEF ReadBlockHigh, HostStep
<1>5. CASE reader.part.seq = reader.first
  <2>1. PICK whole \in Blocks :
          /\ whole = [reader.part EXCEPT !.rx_accepted = block.rx_accepted,
                                       !.at_status = block.at_status]
          /\ whole.rx_read = reader.part.rx_read /\ whole.rx_write = reader.part.rx_write
          /\ whole.rx_accepted = block.rx_accepted
    <3> DEFINE new == [reader.part EXCEPT !.rx_accepted = block.rx_accepted,
                                        !.at_status = block.at_status]
    <3>1. reader.part \in Blocks
      BY <1>2 DEF Hosts
    <3>2. new \in Blocks /\ new.rx_read = reader.part.rx_read
          /\ new.rx_write = reader.part.rx_write /\ new.rx_accepted = block.rx_accepted
      BY <1>2, <3>1 DEF Blocks
    <3> QED BY <3>2
  <2>2. reader' = [reader EXCEPT !.pc = "last", !.part = whole]
    BY <1>2, <1>5, <2>1 DEF ReadBlockHigh, HostStep, Hosts, Blocks
  <2>3. /\ reader' \in Hosts /\ reader'.pc = "last" /\ reader'.first = reader.first
        /\ reader'.part = whole /\ reader'.have = reader.have /\ reader'.before = reader.before
        /\ reader'.slots = reader.slots
    BY <1>2, <2>2 DEF Hosts, HostStates
  <2>4. RingInv'
    BY <1>1, <1>3, <2>3, HostKeepsRing
  <2>5. Watching' /\ Returned'
    BY <1>1, <1>3, <2>3 DEF HostInv, Watching, Still, Quiet, Returned
  <2>6. Fetching'
    BY <1>1, <1>3, <1>5, <2>1, <2>3 DEF HostInv, Fetching, SameRing, Still
  <2>7. Snapped' /\ Fetched'
    BY <1>1, <1>3, <2>3, SnappedStays, FetchedStays DEF HostInv
  <2> QED BY <2>4, <2>5, <2>6, <2>7 DEF IInv, HostInv
<1> QED BY <1>4, <1>5

LEMMA UnstableSteps == ASSUME SnapshotConstants, IInv, Unstable PROVE IInv'
  BY TryAgainSteps DEF Unstable, HostStep, Still

\* A stable block is the block itself, and no section is open.
LEMMA StableBlock ==
    ASSUME SnapshotConstants, IInv, reader.pc = "last", Stable(block.seq)
    PROVE  /\ reader.part \in Blocks /\ reader.part.rx_accepted = Len(log)
           /\ reader.part.rx_read = block.rx_read /\ reader.part.rx_write = block.rx_write
           /\ reader.part.rx_write = Len(log) % RingSize
           /\ Span(reader.part.rx_read, reader.part.rx_write) = Len(log) - taken
<1>1. RingInv /\ HostInv
  BY DEF IInv
<1>2. reader.part \in Blocks
  BY <1>1, RingFacts DEF Hosts
<1>3. Quiet /\ SameRing(reader.part, block)
  BY <1>1 DEF HostInv, Watching, Fetching, Stable
<1>4. Written = Len(log)
  BY <1>3 DEF Quiet, Section, Written
<1> QED BY <1>1, <1>2, <1>3, <1>4 DEF RingInv, Indexed, SameRing

LEMMA SnapshotBeforeSteps == ASSUME SnapshotConstants, IInv, SnapshotBefore PROVE IInv'
<1>1. RingInv /\ HostInv
  BY DEF IInv
<1>2. reader \in Hosts /\ NewHost \in Hosts /\ taken \in Nat /\ Len(log) \in Nat
  BY <1>1, RingFacts, NewHostType
<1>3. /\ reader.pc = "last" /\ Stable(block.seq) /\ Still
      /\ reader' = [NewHost EXCEPT !.pc = "ringLow", !.before = reader.part, !.have = TRUE]
  BY DEF SnapshotBefore, HostStep, Still
<1>4. /\ reader.part \in Blocks /\ reader.part.rx_accepted = Len(log)
      /\ reader.part.rx_read = block.rx_read /\ reader.part.rx_write = block.rx_write
      /\ reader.part.rx_write = Len(log) % RingSize
      /\ Span(reader.part.rx_read, reader.part.rx_write) = Len(log) - taken
  BY <1>3, StableBlock
<1>5. reader' \in Hosts /\ reader'.pc = "ringLow" /\ reader'.before = reader.part
  BY <1>2, <1>3, <1>4 DEF Hosts, HostStates
<1>6. RingInv'
  BY <1>1, <1>3, <1>5, HostKeepsRing
<1>7. Watching' /\ Fetching' /\ Fetched' /\ Returned'
  BY <1>5 DEF Watching, Fetching, Fetched, Returned
<1>8. Had' = taken
  <2>1. PICK n \in Nat, t \in Nat : n = Len(log) /\ t = taken
    BY <1>2
  <2>2. Had' = n - (n - t)
    BY <1>4, <1>5, <2>1, Zenon DEF Had
  <2> QED BY <2>1, <2>2
<1>9. Snapped'
  BY <1>2, <1>3, <1>4, <1>5, <1>8 DEF Snapped, Still
<1> QED BY <1>6, <1>7, <1>9 DEF IInv, HostInv

LEMMA RestartSteps ==
    ASSUME SnapshotConstants, IInv, Still,
           reader' = NewHost \/ reader' = [NewHost EXCEPT !.pc = "failed"]
    PROVE  IInv'
<1>1. RingInv
  BY DEF IInv
<1>2. NewHost \in Hosts /\ NewHost.have = FALSE /\ NewHost.pc = "first"
  BY NewHostType DEF NewHost
<1>3. reader' \in Hosts /\ reader'.pc \in {"first", "failed"} /\ reader'.have = FALSE
  BY <1>2 DEF Hosts, HostStates
<1>4. RingInv'
  BY <1>1, <1>3, HostKeepsRing
<1>5. HostInv'
  BY <1>3 DEF HostInv, Watching, Fetching, Snapped, Fetched, Returned
<1> QED BY <1>4, <1>5 DEF IInv

\* Two equal snapshots: nothing was taken between them, so the slots fetched hold
\* the unread bytes of the first one.
LEMMA SnapshotAfterSteps == ASSUME SnapshotConstants, IInv, SnapshotAfter PROVE IInv'
<1>1. RingInv /\ HostInv
  BY DEF IInv
<1>2. reader \in Hosts /\ taken \in Nat /\ Len(log) \in Nat /\ log \in Seq(Nat)
  BY <1>1, RingFacts
<1>3. reader.pc = "last" /\ Stable(block.seq) /\ reader.have /\ Still
  BY DEF SnapshotAfter, HostStep, Still
<1>4. CASE ~SameRing(reader.before, reader.part)
  BY <1>3, <1>4, RestartSteps DEF SnapshotAfter, HostStep
<1>5. CASE SameRing(reader.before, reader.part)
  <2> DEFINE from == reader.part.rx_read
             to == reader.part.rx_write
             found == pending_ring_bytes(reader.slots, from, to)
  <2>1. reader' = [reader EXCEPT !.pc = "done", !.bytes = found]
    BY <1>5 DEF SnapshotAfter, HostStep
  <2>2. /\ reader.part \in Blocks /\ reader.part.rx_accepted = Len(log)
        /\ Span(from, to) = Len(log) - taken
    BY <1>3, StableBlock
  <2>3. from \in Slots /\ to \in Slots
    BY <2>2 DEF Blocks
  <2>4. reader.before.rx_read = from /\ reader.before.rx_write = to
        /\ reader.before.rx_accepted = Len(log)
    BY <1>5, <2>2 DEF SameRing
  <2>5. PICK n \in Nat, t \in Nat, m \in Nat :
          n = Len(log) /\ t = taken /\ m = Span(from, to) /\ m = n - t /\ m < RingSize
    <3>1. Span(from, to) \in 0 .. RingSize - 1
      BY <2>3, SpanType
    <3>2. RingSize \in Nat
      BY RingSizes
    <3> QED BY <1>2, <2>2, <3>1, <3>2
  <2>6. Had = taken
    <3>1. Had = n - m
      BY <2>4, <2>5, Zenon DEF Had
    <3> QED BY <2>5, <3>1
  <2>7. reader.slots \in [Slots -> Nat]
    BY <1>1, <1>3 DEF HostInv, Fetched
  <2>8. ASSUME NEW i \in 1 .. m
        PROVE  Nth(from, i) \in Slots /\ reader.slots[Nth(from, i)] = log[t + i]
    <3>1. i \in 1 .. Span(from, to)
      BY <2>5, <2>8
    <3>2. Nth(from, i) \in Slots
      BY <2>3, <3>1, NthOther
    <3>3. InFetch(Nth(from, i))
      BY <1>3 DEF InFetch
    <3>4. reader.slots[Nth(from, i)] = log[Had + i]
      BY <1>1, <1>3, <2>4, <2>6, <3>1, <3>3 DEF HostInv, Fetched
    <3> QED BY <2>5, <2>6, <3>2, <3>4
  <2>9. found = [i \in 1 .. m |-> reader.slots[Nth(from, i)]]
    BY <2>5, Zenon DEF pending_ring_bytes, Nth
  <2> HIDE DEF found, from, to
  <2>10. found \in Seq(Nat) /\ Len(found) = m /\ \A i \in 1 .. m : found[i] = log[t + i]
    <3>1. \A i \in 1 .. m : reader.slots[Nth(from, i)] \in Nat
      BY <2>7, <2>8
    <3> QED BY <2>8, <2>9, <3>1
  <2>11. /\ reader' \in Hosts /\ reader'.pc = "done" /\ reader'.have = reader.have
         /\ reader'.before = reader.before /\ reader'.slots = reader.slots
         /\ reader'.part = reader.part /\ reader'.bytes = found
    BY <1>2, <2>1, <2>10 DEF Hosts, HostStates
  <2>12. RingInv'
    BY <1>1, <1>3, <2>11, HostKeepsRing
  <2>13. Watching' /\ Fetching'
    BY <2>11 DEF Watching, Fetching
  <2>14. Snapped' /\ Fetched'
    BY <1>1, <1>3, <2>11, SnappedStays, FetchedStays DEF HostInv
  <2>15. Returned'
    <3>1. reader'.part.rx_accepted = n /\ log' = log
      BY <1>3, <2>2, <2>5, <2>11 DEF Still
    <3>2. n <= Len(log) /\ m <= n /\ n - m = t
      BY <2>5
    <3> QED BY <2>5, <2>10, <2>11, <3>1, <3>2 DEF Returned
  <2> QED BY <2>12, <2>13, <2>14, <2>15 DEF IInv, HostInv
<1> QED BY <1>4, <1>5

LEMMA ReadRingLowSteps == ASSUME SnapshotConstants, IInv, ReadRingLow PROVE IInv'
<1>1. RingInv /\ HostInv
  BY DEF IInv
<1>2. reader \in Hosts /\ ring \in [Slots -> Nat]
  BY <1>1, RingFacts
<1> DEFINE Low(s) == s < RingSize \div 2
           got == [s \in Slots |-> IF Low(s) THEN ring[s] ELSE Empty]
<1>3. reader.pc = "ringLow" /\ Still /\ reader' = [reader EXCEPT !.pc = "ringHigh", !.slots = got]
  BY DEF ReadRingLow, HostStep, Still
<1>4. got \in [Slots -> Nat] /\ \A s \in Slots : Low(s) => got[s] = ring[s]
  BY <1>2 DEF Empty
<1>5. \A s : InFetch(s)' => Low(s)
  BY <1>2, <1>3 DEF InFetch, Hosts
<1> HIDE DEF got, Low
<1>6. /\ reader' \in Hosts /\ reader'.pc = "ringHigh" /\ reader'.have = reader.have
      /\ reader'.before = reader.before /\ reader'.slots = got
  BY <1>2, <1>3, <1>4 DEF Hosts, HostStates, Fetches
<1>7. RingInv'
  BY <1>1, <1>3, <1>6, HostKeepsRing
<1>8. Watching' /\ Fetching' /\ Returned'
  BY <1>4, <1>6 DEF Watching, Fetching, Returned
<1>9. Snapped'
  BY <1>1, <1>3, <1>6, SnappedStays DEF HostInv
<1>10. Fetched'
  <2>1. SUFFICES ASSUME reader.have, taken = Had,
                        NEW i \in 1 .. Span(reader.before.rx_read, reader.before.rx_write),
                        InFetch(Nth(reader.before.rx_read, i))'
                 PROVE  got[Nth(reader.before.rx_read, i)] = log[Had + i]
    <3>1. Had' = Had /\ taken' = taken /\ log' = log
      BY <1>3, <1>6 DEF Had, Still
    <3> QED BY <1>4, <1>6, <3>1 DEF Fetched, InFetch
  <2>2. /\ Nth(reader.before.rx_read, i) \in Slots
        /\ ring[Nth(reader.before.rx_read, i)] = log[Had + i]
    BY <2>1, StillThere
  <2>3. Low(Nth(reader.before.rx_read, i))
    BY <1>5, <1>6, <2>1
  <2> QED BY <1>4, <2>2, <2>3
<1> QED BY <1>7, <1>8, <1>9, <1>10 DEF IInv, HostInv

LEMMA ReadRingHighSteps == ASSUME SnapshotConstants, IInv, ReadRingHigh PROVE IInv'
<1>1. RingInv /\ HostInv
  BY DEF IInv
<1>2. reader \in Hosts /\ ring \in [Slots -> Nat]
  BY <1>1, RingFacts
<1> DEFINE Low(s) == s < RingSize \div 2
           got == [s \in Slots |-> IF Low(s) THEN reader.slots[s] ELSE ring[s]]
<1>3. reader.pc = "ringHigh" /\ Still
  BY DEF ReadRingHigh, HostStep, Still
<1>4. reader' = [reader EXCEPT !.pc = "first", !.slots = got]
  BY DEF ReadRingHigh, HostStep
<1>5. reader.slots \in [Slots -> Nat]
  BY <1>1, <1>3 DEF HostInv, Fetching
<1>6. /\ got \in [Slots -> Nat]
      /\ \A s \in Slots : got[s] = IF Low(s) THEN reader.slots[s] ELSE ring[s]
  BY <1>2, <1>5
<1>7. \A s : Low(s) => InFetch(s)
  BY <1>3 DEF InFetch
<1> HIDE DEF got, Low
<1>8. /\ reader' \in Hosts /\ reader'.pc = "first" /\ reader'.have = reader.have
      /\ reader'.before = reader.before /\ reader'.slots = got
  BY <1>2, <1>4, <1>6 DEF Hosts, HostStates, Fetches
<1>9. RingInv'
  BY <1>1, <1>3, <1>8, HostKeepsRing
<1>10. Watching' /\ Fetching' /\ Returned'
  BY <1>8 DEF Watching, Fetching, Returned
<1>11. Snapped'
  BY <1>1, <1>3, <1>8, SnappedStays DEF HostInv
<1>12. Fetched'
  <2>1. SUFFICES ASSUME reader.have, taken = Had,
                        NEW i \in 1 .. Span(reader.before.rx_read, reader.before.rx_write)
                 PROVE  got[Nth(reader.before.rx_read, i)] = log[Had + i]
    <3>1. Had' = Had /\ taken' = taken /\ log' = log
      BY <1>3, <1>8 DEF Had, Still
    <3> QED BY <1>6, <1>8, <3>1 DEF Fetched
  <2>2. /\ Nth(reader.before.rx_read, i) \in Slots
        /\ ring[Nth(reader.before.rx_read, i)] = log[Had + i]
    BY <2>1, StillThere
  <2>3. Low(Nth(reader.before.rx_read, i)) =>
          reader.slots[Nth(reader.before.rx_read, i)] = log[Had + i]
    BY <1>1, <1>3, <1>7, <2>1 DEF HostInv, Fetched
  <2> QED BY <1>6, <2>2, <2>3
<1> QED BY <1>9, <1>10, <1>11, <1>12 DEF IInv, HostInv

LEMMA HostSteps == ASSUME SnapshotConstants, IInv, HostNext PROVE IInv'
<1>1. CASE Deadline
  BY <1>1, RestartSteps DEF Deadline, HostStep, Still
<1>2. CASE ~Deadline
  BY <1>2, ReadFirstSteps, ReadBlockLowSteps, ReadBlockHighSteps, UnstableSteps,
     SnapshotBeforeSteps, SnapshotAfterSteps, ReadRingLowSteps, ReadRingHighSteps DEF HostNext
<1> QED BY <1>1, <1>2

LEMMA StutterSteps == ASSUME IInv, UNCHANGED snapshotVars PROVE IInv'
<1>1. /\ ring' = ring /\ block' = block /\ sfc' = sfc /\ log' = log /\ taken' = taken
      /\ lost' = lost /\ sections' = sections /\ reader' = reader
  BY DEF snapshotVars
<1>2. RingInv'
  BY <1>1, HostKeepsRing DEF IInv, RingInv, Types, Still
<1>3. HostInv'
  BY <1>1 DEF IInv, HostInv, Watching, Fetching, Snapped, Fetched, Returned, Had, InFetch,
              Quiet, SameRing
<1> QED BY <1>2, <1>3 DEF IInv

-----------------------------------------------------------------------------
\* What the invariant says of the ring and of the host's result.

LEMMA TailOfLog ==
    ASSUME NEW s \in Seq(Nat), NEW t \in Nat, t <= Len(s), NEW f,
           f = [i \in 1 .. Len(s) - t |-> s[t + i]]
    PROVE  f = SubSeq(s, t + 1, Len(s))
  OBVIOUS

LEMMA StretchOfLog ==
    ASSUME NEW s \in Seq(Nat), NEW f \in Seq(Nat), NEW n \in Nat, NEW m \in Nat,
           m = Len(f), n <= Len(s), m <= n,
           \A i \in 1 .. m : f[i] = s[n - m + i]
    PROVE  f = SubSeq(s, n - m + 1, n)
<1>1. PICK k \in Nat : k = n - m
  OBVIOUS
<1>2. n = k + m /\ \A i \in 1 .. m : f[i] = s[k + i]
  BY <1>1
<1>3. f = [i \in 1 .. m |-> s[k + i]]
  <2>1. f = [i \in 1 .. m |-> f[i]]
    OBVIOUS
  <2> QED BY <1>2, <2>1
<1>4. f = SubSeq(s, k + 1, k + m)
  BY <1>2, <1>3
<1> QED BY <1>1, <1>2, <1>4

LEMMA RingOfLog == ASSUME SnapshotConstants, IInv PROVE RingHoldsUnread
<1>1. RingInv
  BY DEF IInv
<1>2. log \in Seq(Nat) /\ taken \in Nat /\ Len(log) \in Nat
  BY <1>1, RingFacts
<1>3. SUFFICES ASSUME sfc \notin {"index", "count"}
               PROVE  pending_ring_bytes(ring, block.rx_read, block.rx_write)
                        = SubSeq(log, taken + 1, Len(log))
  BY DEF RingHoldsUnread
<1>4. taken <= Len(log) /\ Span(block.rx_read, block.rx_write) = Len(log) - taken
  BY <1>1, <1>3 DEF RingInv, Indexed, Written
<1>5. pending_ring_bytes(ring, block.rx_read, block.rx_write)
        = [i \in 1 .. Len(log) - taken |-> ring[Nth(block.rx_read, i)]]
  BY <1>4, Zenon DEF pending_ring_bytes, Nth
<1>6. \A i \in 1 .. Len(log) - taken : ring[Nth(block.rx_read, i)] = log[taken + i]
  BY <1>1 DEF RingInv, Unread
<1>7. pending_ring_bytes(ring, block.rx_read, block.rx_write)
        = [i \in 1 .. Len(log) - taken |-> log[taken + i]]
  BY <1>5, <1>6
<1> QED BY <1>2, <1>4, <1>7, TailOfLog

LEMMA ResultOfLog == ASSUME SnapshotConstants, IInv PROVE PendingRxExact
<1>1. RingInv /\ HostInv
  BY DEF IInv
<1>2. log \in Seq(Nat) /\ reader \in Hosts /\ Len(log) \in Nat
  BY <1>1, RingFacts
<1>3. reader.part.rx_accepted \in Nat /\ reader.bytes \in Seq(Nat) /\ Len(reader.bytes) \in Nat
  <2>1. reader.part \in Blocks /\ reader.bytes \in Seq(Nat)
    BY <1>2 DEF Hosts
  <2>2. Len(reader.bytes) \in Nat
    BY <2>1, LenProperties
  <2> QED BY <2>1, <2>2 DEF Blocks
<1>4. SUFFICES ASSUME reader.pc = "done"
               PROVE  reader.bytes = SubSeq(log, reader.part.rx_accepted - Len(reader.bytes) + 1,
                                          reader.part.rx_accepted)
  BY DEF PendingRxExact
<1>5. /\ reader.part.rx_accepted <= Len(log) /\ Len(reader.bytes) <= reader.part.rx_accepted
      /\ \A i \in 1 .. Len(reader.bytes) :
            reader.bytes[i] = log[reader.part.rx_accepted - Len(reader.bytes) + i]
  BY <1>1, <1>4 DEF HostInv, Returned
<1>6. PICK n \in Nat, m \in Nat : n = reader.part.rx_accepted /\ m = Len(reader.bytes)
  BY <1>3
<1>7. reader.bytes = SubSeq(log, n - m + 1, n)
  BY <1>2, <1>3, <1>5, <1>6, StretchOfLog
<1> QED BY <1>6, <1>7, Zenon

\* read_pending_rx is exact: the ring always holds the accepted bytes nobody has
\* taken, a stable snapshot shows one moment, and what the host returns is a
\* stretch of what was received, for every order of the SFC's and the host's steps.
THEOREM RingBytesAreExact == ASSUME SnapshotConstants PROVE SnapshotSpec => []RingBytesExact
<1>1. SnapshotInit => IInv
  BY InitIInv
<1>2. IInv /\ [SnapshotNext]_snapshotVars => IInv'
  BY SfcSteps, HostSteps, StutterSteps DEF SnapshotNext
<1>3. IInv => RingBytesExact
  <2>1. SUFFICES ASSUME IInv PROVE RingBytesExact
    OBVIOUS
  <2>2. SnapshotConsistent
    BY <2>1 DEF IInv, HostInv, Snapped, SnapshotConsistent
  <2> QED BY <2>1, <2>2, RingOfLog, ResultOfLog DEF RingBytesExact
<1> QED BY <1>1, <1>2, <1>3, PTL DEF SnapshotSpec
=============================================================================
