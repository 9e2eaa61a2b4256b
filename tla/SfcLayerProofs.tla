--------------------------- MODULE SfcLayerProofs ---------------------------
(***************************************************************************)
(* What the pollers of SfcLcp, SfcAuth and SfcIpcp do to the shared state, *)
(* proved operator by operator: each keeps the types, leaves the other     *)
(* layers alone, never lets a layer wait with nothing to wake it, and      *)
(* touches the encoder only in the ways its code does.  SfcPppProofs puts  *)
(* them together along the main loop.                                      *)
(***************************************************************************)
EXTENDS SfcIpcp, TLAPS

\* A layer that waits for the peer has a running timer or something to send
\* after which one runs.  In Closing a Terminate-Ack is no such thing.
LcpAwake(l) ==
    l.state \in LcpWaiting =>
        \/ l.timer # "off"
        \/ l.pending \in {"ConfReq", "TermReq"}
        \/ l.pending = "TermAck" /\ l.state # "Closing"
        \/ l.deferred /\ l.pending \in LcpResponses
PapAwake(p) ==
    /\ p.state = "WaitingForReply" => p.timer # "off"
    /\ p.state = "RequestPending" => p.remaining > 0
IpcpAwake(l) ==
    l.state \in Negotiating =>
        \/ l.timer # "off"
        \/ l.pending = "ConfReq"
        \/ l.deferred /\ l.pending \in IpcpResponses

SoundLcp(l) == l \in LcpLayers /\ LcpAwake(l)
SoundPap(p) == p \in PapLayers /\ PapAwake(p)
SoundIpcp(l) == l \in IpcpLayers /\ IpcpAwake(l)
Sound(t) == t \in SharedStates /\ LcpAwake(t.lcp) /\ PapAwake(t.pap) /\ IpcpAwake(t.ipcp)

\* From layer l to m LCP does not open: m is Opened only if l was, with the same
\* authentication.  A quiet step does not start to negotiate either.
LcpUnraised(l, m) == m.state = "Opened" => l.state = "Opened" /\ m.auth = l.auth
LcpQuiet(l, m) ==
    LcpUnraised(l, m) /\ (m.state \in Negotiating => l.state \in Negotiating)

\* An empty slot is none of the things a slot may hold.
LEMMA NoneIsNothing ==
    /\ None \notin TxOwners /\ None \notin LcpResponses /\ None \notin LcpRequests
    /\ None # "TermAck" /\ None # "ConfReq"
BY NoneIsFresh DEF LcpPackets, LcpRequests

-----------------------------------------------------------------------------
\* LCP, the layer record.

\* Both ends of a Terminate and lower-down leave a sound layer that is down.
LEMMA LcpResetSound ==
    ASSUME NEW l \in LcpLayers, NEW state \in {"Closed", "Stopped"}
    PROVE  /\ SoundLcp(LcpReset(l, state))
           /\ LcpQuiet(l, LcpReset(l, state))
           /\ LcpReset(l, state).state = state
           /\ LcpReset(l, state).pending = None
BY DEF SoundLcp, LcpAwake, LcpQuiet, LcpUnraised, LcpReset, LcpLayers, LcpWaiting, Negotiating, Timers,
       LcpActions, LcpPackets

\* A new identifier changes nothing but what the peer may know.
LEMMA LcpUnknownSound ==
    ASSUME NEW l, SoundLcp(l)
    PROVE  LET m == [l EXCEPT !.known = FALSE]
           IN  /\ SoundLcp(m)
               /\ m.state = l.state /\ m.pending = l.pending /\ m.auth = l.auth
BY DEF SoundLcp, LcpAwake, LcpLayers

\* The open command starts a negotiation with its request pending.
LEMMA LcpOpenSound ==
    ASSUME NEW l, SoundLcp(l)
    PROVE  /\ SoundLcp(LcpOpen(l))
           /\ LcpOpen(l).state = "Opened" => l.state = "Opened" /\ LcpOpen(l).auth = l.auth
           /\ l.state \in {"Opened", "Closing"} => LcpOpen(l).state = l.state
           /\ LcpOpen(l).state \notin {"Closed", "Stopped"}
<1>1. CASE l.state \in {"Opened", "Closing"}
  <2>1. LcpOpen(l) = [l EXCEPT !.admin = TRUE]
    BY <1>1 DEF LcpOpen
  <2>2. QED
    BY <1>1, <2>1 DEF SoundLcp, LcpAwake, LcpLayers
<1>2. CASE l.state \notin {"Opened", "Closing"}
  <2>1. PICK k \in Nat : k = MaxConfigure - 1
    BY LimitsAssumption
  <2>2. LcpOpen(l) = [l EXCEPT !.admin = TRUE, !.state = "RequestSent", !.remaining = k,
                               !.known = TRUE, !.deferred = FALSE, !.pending = "ConfReq"]
    BY <1>2, <2>1 DEF LcpOpen
  <2>3. QED
    BY <1>2, <2>2 DEF SoundLcp, LcpAwake, LcpLayers, LcpActions, LcpPackets, Negotiating
<1>3. QED
  BY <1>1, <1>2

\* A Terminate-Request is pending in a layer that starts to close.
LEMMA LcpClosingSound ==
    ASSUME NEW l \in LcpLayers
    PROVE  SoundLcp(LcpClosing(l)) /\ LcpClosing(l).state = "Closing"
<1>1. PICK k \in Nat : k = MaxTerminate - 1
  BY LimitsAssumption
<1>2. LcpClosing(l) = [l EXCEPT !.state = "Closing", !.timer = "off", !.remaining = k,
                                !.deferred = FALSE, !.pending = "TermReq"]
  BY <1>1 DEF LcpClosing
<1>3. QED
  BY <1>2 DEF SoundLcp, LcpAwake, LcpLayers, LcpActions, LcpPackets, Timers

\* The restart timer never leaves a waiting layer without a successor.
LEMMA LcpTimeoutSound ==
    ASSUME NEW l, SoundLcp(l)
    PROVE  SoundLcp(LcpTimeout(l)) /\ LcpQuiet(l, LcpTimeout(l))
<1> USE DEF SoundLcp, LcpWaiting, Negotiating
<1>1. CASE l.timer # "expired"
  BY <1>1 DEF LcpTimeout, LcpQuiet, LcpUnraised
<1>2. CASE l.timer = "expired" /\ l.state \notin LcpWaiting
  <2>1. LcpTimeout(l) = [l EXCEPT !.timer = "off", !.deferred = FALSE]
    BY <1>2 DEF LcpTimeout
  <2>2. QED
    BY <1>2, <2>1 DEF LcpAwake, LcpLayers, Timers, LcpQuiet, LcpUnraised
<1>3. CASE l.timer = "expired" /\ l.state = "Closing" /\ l.remaining = 0
  <2>1. LcpTimeout(l) = LcpReset(l, "Closed")
    BY <1>3 DEF LcpTimeout
  <2>2. QED
    BY <2>1, LcpResetSound
<1>4. CASE l.timer = "expired" /\ l.state = "Closing" /\ l.remaining > 0
  <2>1. PICK k \in Nat : k = l.remaining - 1
    BY <1>4 DEF LcpLayers
  <2>2. LcpTimeout(l) = [l EXCEPT !.remaining = k, !.pending = "TermReq",
                                  !.timer = "off", !.deferred = FALSE]
    BY <1>4, <2>1 DEF LcpTimeout
  <2>3. QED
    BY <1>4, <2>2 DEF LcpAwake, LcpLayers, Timers, LcpActions, LcpPackets, LcpQuiet, LcpUnraised
<1>5. CASE l.timer = "expired" /\ l.state \in Negotiating /\ l.remaining = 0
  <2>1. LcpTimeout(l) = [l EXCEPT !.state = "Stopped", !.pending = None,
                                  !.timer = "off", !.deferred = FALSE]
    BY <1>5 DEF LcpTimeout
  <2>2. QED
    BY <1>5, <2>1 DEF LcpAwake, LcpLayers, Timers, LcpActions, LcpPackets, LcpQuiet, LcpUnraised
<1>6. CASE l.timer = "expired" /\ l.state \in Negotiating /\ l.remaining > 0
  <2>1. PICK k \in Nat : k = l.remaining - 1
    BY <1>6 DEF LcpLayers
  <2>2. PICK state \in Negotiating :
            state = IF l.state = "AckReceived" THEN "RequestSent" ELSE l.state
    BY <1>6
  <2>3. LcpTimeout(l) = [l EXCEPT !.remaining = k, !.pending = "ConfReq", !.state = state,
                                  !.timer = "off", !.deferred = FALSE]
    BY <1>6, <2>1, <2>2 DEF LcpTimeout
  <2>4. QED
    BY <1>6, <2>2, <2>3 DEF LcpAwake, LcpLayers, Timers, LcpActions, LcpPackets, LcpQuiet, LcpUnraised
<1>7. QED
  BY <1>1, <1>2, <1>3, <1>4, <1>5, <1>6 DEF LcpLayers

\* What the encoder has taken started its timer, if it was a request.  After a
\* response the deferred request, if there is one, is next.
LEMMA LcpSentSound ==
    ASSUME NEW l, SoundLcp(l), l.pending # None
    PROVE  /\ LcpSent(l) \in LcpLayers
           /\ LcpSent(l).state = l.state /\ LcpSent(l).auth = l.auth
           /\ LcpSent(l).pending = None
           /\ l.pending \in LcpRequests => SoundLcp(LcpSent(l))
           /\ l.pending = "TermAck" /\ l.state = "Closing" => SoundLcp(LcpSent(l))
           /\ l.pending \in LcpResponses =>
                LET m == LcpPromoteDeferred(LcpSent(l))
                IN  SoundLcp(m) /\ m.state = l.state /\ m.auth = l.auth
<1>1. PICK timer \in Timers : timer = IF l.pending \in LcpRequests THEN "armed" ELSE l.timer
  BY DEF SoundLcp, LcpLayers, Timers
<1>2. LcpSent(l) = [l EXCEPT !.timer = timer, !.pending = None]
  BY <1>1 DEF LcpSent
<1>3. /\ LcpSent(l) \in LcpLayers
      /\ LcpSent(l).state = l.state /\ LcpSent(l).auth = l.auth
      /\ LcpSent(l).pending = None /\ LcpSent(l).timer = timer
      /\ LcpSent(l).deferred = l.deferred
  BY <1>2 DEF SoundLcp, LcpLayers, LcpActions, LcpPackets
<1>4. ASSUME l.pending \in LcpRequests PROVE SoundLcp(LcpSent(l))
  BY <1>1, <1>3, <1>4 DEF SoundLcp, LcpAwake
<1>5. ASSUME l.pending = "TermAck", l.state = "Closing" PROVE SoundLcp(LcpSent(l))
  BY <1>1, <1>3, <1>5 DEF SoundLcp, LcpAwake, LcpWaiting, LcpRequests, LcpResponses
<1>6. ASSUME l.pending \in LcpResponses
      PROVE  LET m == LcpPromoteDeferred(LcpSent(l))
             IN  SoundLcp(m) /\ m.state = l.state /\ m.auth = l.auth
  <2>1. PICK m \in LcpLayers : m = LcpSent(l)
    BY <1>3
  <2>2. CASE m.deferred
    <3>1. LcpPromoteDeferred(m) = [m EXCEPT !.deferred = FALSE, !.pending = "ConfReq"]
      BY <2>2 DEF LcpPromoteDeferred
    <3>2. QED
      BY <3>1, <2>1, <1>3 DEF SoundLcp, LcpAwake, LcpLayers, LcpActions, LcpPackets
  <2>3. CASE ~m.deferred
    <3>1. LcpPromoteDeferred(m) = m
      BY <2>3 DEF LcpPromoteDeferred
    <3>2. QED
      BY <3>1, <2>1, <2>3, <1>1, <1>3, <1>6
         DEF SoundLcp, LcpAwake, LcpLayers, LcpRequests, LcpResponses
  <2>4. QED
    BY <2>1, <2>2, <2>3
<1>7. QED
  BY <1>3, <1>4, <1>5, <1>6

-----------------------------------------------------------------------------
\* LCP, the shared state.

\* The LCP poll on a live line from t to u: nothing but LCP's own layer, the
\* frame and the encoder, which gets LCP's frames only and keeps a
\* Terminate-Ack.
LcpMoves(t, u) ==
    /\ Sound(u)
    /\ u.modem = t.modem /\ u.enabled = t.enabled /\ u.active = t.active
    /\ u.pap = t.pap /\ u.chap = t.chap /\ u.ipcp = t.ipcp
    /\ u.credentials = t.credentials /\ u.icmpPending = t.icmpPending
    /\ u.tx = t.tx \/ (t.tx # "TermAck" /\ u.tx \in LcpOwners)
LcpSettles(t, u) == LcpMoves(t, u) /\ LcpQuiet(t.lcp, u.lcp)

LEMMA LcpMovesTrans ==
    ASSUME NEW t, NEW u, NEW v, LcpMoves(t, u), LcpMoves(u, v)
    PROVE  LcpMoves(t, v)
BY DEF LcpMoves

LEMMA LcpSettlesTrans ==
    ASSUME NEW t, NEW u, NEW v, LcpSettles(t, u), LcpSettles(u, v)
    PROVE  LcpSettles(t, v)
BY LcpMovesTrans DEF LcpSettles, LcpQuiet, LcpUnraised

LEMMA LcpSettlesRefl ==
    ASSUME NEW t, Sound(t)
    PROVE  LcpSettles(t, t)
BY DEF LcpSettles, LcpMoves, LcpQuiet, LcpUnraised

\* The ways an LCP operator writes the shared state.
PutLcp(t, l, x) == [t EXCEPT !.lcp = l, !.tx = x]

LEMMA WithLcp ==
    ASSUME NEW t, Sound(t), NEW l, SoundLcp(l)
    PROVE  LET u == [t EXCEPT !.lcp = l]
           IN  LcpMoves(t, u) /\ u.lcp = l /\ u.tx = t.tx /\ u.frame = t.frame
BY DEF Sound, SoundLcp, SharedStates, LcpMoves

LEMMA PutLcpMoves ==
    ASSUME NEW t, Sound(t), NEW l, SoundLcp(l), NEW x \in TxOwners \cup {None},
           x = t.tx \/ (t.tx # "TermAck" /\ x \in LcpOwners)
    PROVE  /\ LcpMoves(t, PutLcp(t, l, x))
           /\ PutLcp(t, l, x).lcp = l /\ PutLcp(t, l, x).frame = t.frame
BY DEF Sound, SoundLcp, SharedStates, LcpMoves, PutLcp

\* LCP's own frame enters an idle encoder.
LEMMA PutLcpSettles ==
    ASSUME NEW t, Sound(t), t.tx = None, NEW l, SoundLcp(l), LcpQuiet(t.lcp, l),
           NEW x \in LcpOwners
    PROVE  /\ LcpSettles(t, PutLcp(t, l, x))
           /\ PutLcp(t, l, x).lcp = l /\ PutLcp(t, l, x).frame = t.frame
<1>1. x \in TxOwners \cup {None} /\ t.tx # "TermAck"
  BY NoneIsNothing DEF TxOwners
<1>2. QED
  BY <1>1, PutLcpMoves DEF LcpSettles

LEMMA LcpReleases ==
    ASSUME NEW t, Sound(t)
    PROVE  /\ LcpSettles(t, pppReleaseFrame(t))
           /\ pppReleaseFrame(t).lcp = t.lcp /\ pppReleaseFrame(t).tx = t.tx
           /\ pppReleaseFrame(t).frame = None
BY DEF Sound, SharedStates, LcpMoves, LcpSettles, LcpQuiet, LcpUnraised, pppReleaseFrame

LEMMA LcpNextIdentifierMoves ==
    ASSUME NEW t, Sound(t), NEW l, SoundLcp(l)
    PROVE  LET u == LcpNextIdentifier(t, l)
           IN  /\ LcpMoves(t, u) /\ u.frame = t.frame
               /\ u.lcp.state = l.state /\ u.lcp.auth = l.auth /\ u.lcp.pending = l.pending
<1>1. PICK m : m = [l EXCEPT !.known = FALSE]
  OBVIOUS
<1>2. SoundLcp(m) /\ m.state = l.state /\ m.auth = l.auth /\ m.pending = l.pending
  BY <1>1, LcpUnknownSound
<1>3. PICK x : x = IF t.tx = "LcpRequest" THEN "LCP" ELSE t.tx
  OBVIOUS
<1>4. /\ x \in TxOwners \cup {None}
      /\ x = t.tx \/ (t.tx # "TermAck" /\ x \in LcpOwners)
  BY <1>3 DEF Sound, SharedStates, TxOwners, LcpOwners
<1>5. LcpNextIdentifier(t, l) = PutLcp(t, m, x)
  BY <1>1, <1>3 DEF LcpNextIdentifier, PutLcp
<1>6. QED
  BY <1>2, <1>4, <1>5, PutLcpMoves

LEMMA LcpNewRequestMoves ==
    ASSUME NEW t, Sound(t), NEW state \in {"RequestSent", "AckSent"}
    PROVE  LET u == LcpNewRequest(t, state)
           IN  /\ LcpMoves(t, u) /\ u.frame = t.frame
               /\ u.lcp.state = state /\ u.lcp.pending = "ConfReq"
<1>1. PICK k \in Nat : k = MaxConfigure - 1
  BY LimitsAssumption
<1>2. PICK l : l = [t.lcp EXCEPT !.state = state, !.remaining = k, !.timer = "off",
                                 !.deferred = FALSE, !.pending = "ConfReq"]
  OBVIOUS
<1>3. t.lcp \in LcpLayers
  BY DEF Sound, SharedStates
<1>4. SoundLcp(l) /\ l.state = state /\ l.pending = "ConfReq"
  BY <1>2, <1>3 DEF SoundLcp, LcpAwake, LcpLayers, Timers, LcpActions, LcpPackets, Negotiating
<1>5. LcpNewRequest(t, state) = LcpNextIdentifier(t, l)
  BY <1>1, <1>2 DEF LcpNewRequest
<1>6. QED
  BY <1>4, <1>5, LcpNextIdentifierMoves

\* The timer and the encoder: neither leads towards Opened.
LEMMA LcpTimeoutSettles ==
    ASSUME NEW t, Sound(t)
    PROVE  LcpSettles(t, pppLcpPollTimeout(t))
<1>1. SoundLcp(t.lcp)
  BY DEF Sound, SharedStates, SoundLcp
<1>2. SoundLcp(LcpTimeout(t.lcp)) /\ LcpQuiet(t.lcp, LcpTimeout(t.lcp))
  BY <1>1, LcpTimeoutSound
<1>3. pppLcpPollTimeout(t) = [t EXCEPT !.lcp = LcpTimeout(t.lcp)]
  BY DEF pppLcpPollTimeout
<1>4. QED
  BY <1>2, <1>3, WithLcp DEF LcpSettles

LEMMA LcpServicePendingSettles ==
    ASSUME NEW t, Sound(t)
    PROVE  LET u == LcpServicePending(t)
           IN  /\ LcpSettles(t, u)
               /\ u.frame \in {t.frame, None}
               /\ u.frame # None => u.lcp.state = t.lcp.state
               /\ ~LcpBlocked(t) /\ u.frame # None => u.lcp.pending = None
<1>1. PICK l : l = t.lcp
  OBVIOUS
<1>2. SoundLcp(l) /\ l \in LcpLayers /\ t \in SharedStates
  BY <1>1 DEF Sound, SharedStates, SoundLcp
<1>3. PICK u : u = LcpServicePending(t)
  OBVIOUS
<1> HIDE <1>3
<1>4. CASE l.pending = None \/ t.tx # None
  <2>1. u = t
    BY <1>1, <1>3, <1>4, NoneIsNothing DEF LcpServicePending, EncoderBusy
  <2>2. QED
    BY <1>1, <1>3, <2>1, <1>4, LcpSettlesRefl DEF LcpBlocked, EncoderBusy
<1>5. CASE l.pending \in LcpResponses /\ t.tx = None
  <2>1. PICK m : m = LcpPromoteDeferred(LcpSent(l))
    OBVIOUS
  <2>2. SoundLcp(m) /\ m.state = l.state /\ m.auth = l.auth
    BY <1>2, <1>5, <2>1, LcpSentSound, NoneIsNothing
  <2>3. LcpOwner(l.pending) = "LCP"
    BY <1>5 DEF LcpOwner, LcpRequests, LcpResponses
  <2>4. [pppLcpBuildPending(t) EXCEPT !.lcp = LcpPromoteDeferred(@)] = PutLcp(t, m, "LCP")
    BY <1>1, <1>2, <2>1, <2>3 DEF pppLcpBuildPending, SharedStates, PutLcp
  <2>5. u = pppReleaseFrame(PutLcp(t, m, "LCP"))
    <3>1. u = pppReleaseFrame([pppLcpBuildPending(t) EXCEPT !.lcp = LcpPromoteDeferred(@)])
      BY <1>1, <1>3, <1>5, NoneIsNothing DEF LcpServicePending, EncoderBusy, LcpResponses
    <3>2. QED
      BY <3>1, <2>4
  <2>6. LcpSettles(t, PutLcp(t, m, "LCP"))
    BY <1>1, <1>5, <2>2, PutLcpSettles DEF LcpQuiet, LcpUnraised, LcpOwners
  <2>7. QED
    BY <1>3, <2>5, <2>6, LcpReleases, LcpSettlesTrans DEF LcpSettles, LcpMoves
<1>6. CASE l.pending = "TermAck" /\ t.tx = None
  <2>1. LcpSent(l) \in LcpLayers /\ LcpSent(l).state = l.state /\ LcpSent(l).auth = l.auth
    BY <1>2, <1>6, LcpSentSound, NoneIsNothing
  <2>2. pppLcpBuildPending(t) = PutLcp(t, LcpSent(l), "TermAck")
    BY <1>1, <1>6 DEF pppLcpBuildPending, LcpOwner, LcpRequests, PutLcp
  <2>3. CASE l.state = "Closing"
    <3>1. u = pppReleaseFrame(PutLcp(t, LcpSent(l), "TermAck"))
      BY <1>1, <1>3, <1>6, <2>2, <2>3, NoneIsNothing
         DEF LcpServicePending, EncoderBusy, LcpResponses
    <3>2. SoundLcp(LcpSent(l))
      BY <1>2, <1>6, <2>3, LcpSentSound, NoneIsNothing
    <3>3. LcpSettles(t, PutLcp(t, LcpSent(l), "TermAck"))
      BY <1>1, <1>6, <2>1, <3>2, PutLcpSettles DEF LcpQuiet, LcpUnraised, LcpOwners
    <3>4. QED
      BY <1>3, <3>1, <3>3, LcpReleases, LcpSettlesTrans DEF LcpSettles, LcpMoves
  <2>4. CASE l.state # "Closing"
    <3>1. u = pppLcpPeerTerminateComplete(pppReleaseFrame(PutLcp(t, LcpSent(l), "TermAck")))
      BY <1>1, <1>3, <1>6, <2>2, <2>4, NoneIsNothing
         DEF LcpServicePending, EncoderBusy, LcpResponses
    <3>2. PICK m : m = LcpReset(LcpSent(l), "Stopped")
      OBVIOUS
    <3>3. SoundLcp(m) /\ m.state = "Stopped"
      BY <2>1, <3>2, LcpResetSound
    <3>4. u = pppReleaseFrame(PutLcp(t, m, "TermAck"))
      BY <1>2, <3>1, <3>2
         DEF pppReleaseFrame, pppLcpPeerTerminateComplete, SharedStates, PutLcp
    <3>5. LcpSettles(t, PutLcp(t, m, "TermAck"))
      BY <1>1, <1>6, <3>3, PutLcpSettles DEF LcpQuiet, LcpUnraised, LcpOwners, Negotiating
    <3>6. QED
      BY <1>3, <3>4, <3>5, LcpReleases, LcpSettlesTrans DEF LcpSettles, LcpMoves
  <2>5. QED
    BY <2>3, <2>4
<1>7. CASE l.pending \in LcpRequests /\ t.tx = None
  <2>1. SoundLcp(LcpSent(l)) /\ LcpSent(l).state = l.state /\ LcpSent(l).auth = l.auth
        /\ LcpSent(l).pending = None
    BY <1>2, <1>7, LcpSentSound, NoneIsNothing
  <2>2. pppLcpBuildPending(t) = PutLcp(t, LcpSent(l), "LcpRequest")
    <3>1. LcpOwner(l.pending) = "LcpRequest"
      BY <1>7 DEF LcpOwner, LcpRequests
    <3>2. QED
      BY <1>1, <3>1 DEF pppLcpBuildPending, PutLcp
  <2>3. u = PutLcp(t, LcpSent(l), "LcpRequest")
    BY <1>1, <1>3, <1>7, <2>2, NoneIsNothing
       DEF LcpServicePending, EncoderBusy, LcpRequests, LcpResponses
  <2>4. QED
    BY <1>1, <1>3, <1>7, <2>1, <2>3, PutLcpSettles DEF LcpQuiet, LcpUnraised, LcpOwners
<1>8. QED
  BY <1>2, <1>4, <1>5, <1>6, <1>7 DEF LcpLayers, LcpActions, LcpPackets, LcpRequests

LEMMA LcpTimerSettles ==
    ASSUME NEW t, Sound(t)
    PROVE  LcpSettles(t, LcpTimer(t))
<1>1. LcpSettles(t, pppLcpPollTimeout(t))
  BY LcpTimeoutSettles
<1>2. LcpSettles(pppLcpPollTimeout(t), LcpTimer(t))
  BY <1>1, LcpServicePendingSettles DEF LcpTimer, LcpSettles, LcpMoves
<1>3. QED
  BY <1>1, <1>2, LcpSettlesTrans

LEMMA LcpRespondSettles ==
    ASSUME NEW t, Sound(t)
    PROVE  LcpSettles(t, LcpRespond(t))
<1>1. LcpSettles(t, LcpServicePending(t))
  BY LcpServicePendingSettles
<1>2. LcpSettles(LcpServicePending(t), LcpTimer(LcpServicePending(t)))
  BY <1>1, LcpTimerSettles DEF LcpSettles, LcpMoves
<1>3. QED
  BY <1>1, <1>2, LcpSettlesTrans, LcpSettlesRefl DEF LcpRespond

\* A received LCP packet is handled while no answer waits, so a waiting layer has
\* its timer running and every answer finds it awake.
LEMMA LcpIdleHasTimer ==
    ASSUME NEW l, SoundLcp(l), l.pending = None, l.state \in LcpWaiting
    PROVE  l.timer # "off"
BY NoneIsNothing DEF SoundLcp, LcpAwake, LcpRequests

LEMMA LcpAnsweredFields ==
    ASSUME NEW l \in LcpLayers, NEW kind
    PROVE  LET m == LcpAnswered(l, kind)
           IN  /\ m \in LcpLayers /\ m.pending \in LcpResponses
               /\ m.timer = l.timer /\ m.deferred = l.deferred
               /\ m.state \in {"AckSent", "RequestSent"}
<1>1. AuthOf(kind) \in {"None", "PAP", "CHAP"}
  BY DEF AuthOf
<1>2. LcpVerdict(kind) \in {"ConfAck", "ConfNak", "ConfRej"}
  BY DEF LcpVerdict
<1>3. CASE LcpVerdict(kind) = "ConfAck"
  <2>1. LcpAnswered(l, kind)
          = [l EXCEPT !.pending = "ConfAck", !.auth = AuthOf(kind), !.state = "AckSent"]
    BY <1>3 DEF LcpAnswered
  <2>2. QED
    BY <1>1, <2>1 DEF LcpLayers, LcpActions, LcpPackets, LcpResponses, Negotiating
<1>4. CASE LcpVerdict(kind) # "ConfAck"
  <2>1. LcpAnswered(l, kind)
          = [l EXCEPT !.pending = LcpVerdict(kind), !.state = "RequestSent"]
    BY <1>4 DEF LcpAnswered
  <2>2. QED
    BY <1>2, <2>1 DEF LcpLayers, LcpActions, LcpPackets, LcpResponses, Negotiating
<1>5. QED
  BY <1>3, <1>4

LEMMA LcpConfigureRequestMoves ==
    ASSUME NEW t, Sound(t), NEW kind, t.lcp.pending = None,
           t.lcp.state \notin {"Closed", "Stopped"}
    PROVE  LET u == LcpConfigureRequest(t, kind)
           IN  /\ LcpMoves(t, u) /\ u.frame = t.frame
               /\ t.lcp.state \notin Negotiating => LcpUnraised(t.lcp, u.lcp)
<1>1. PICK l : l = t.lcp
  OBVIOUS
<1>2. SoundLcp(l) /\ l \in LcpLayers
  BY <1>1 DEF Sound, SharedStates, SoundLcp
<1>3. PICK m : m = LcpAnswered(l, kind)
  OBVIOUS
<1>4. /\ m \in LcpLayers /\ m.pending \in LcpResponses
      /\ m.timer = l.timer /\ m.deferred = l.deferred /\ m.state \in {"AckSent", "RequestSent"}
  BY <1>2, <1>3, LcpAnsweredFields
<1>5. CASE l.state = "Closing"
  <2>1. LcpConfigureRequest(t, kind) = t
    BY <1>1, <1>5 DEF LcpConfigureRequest
  <2>2. QED
    BY <1>1, <1>5, <2>1, LcpSettlesRefl DEF LcpSettles, LcpQuiet, LcpUnraised
<1>6. CASE l.state = "Opened"
  <2>1. PICK k \in Nat : k = MaxConfigure - 1
    BY LimitsAssumption
  <2>2. PICK n : n = [m EXCEPT !.remaining = k, !.timer = "off", !.deferred = TRUE]
    OBVIOUS
  <2>3. SoundLcp(n) /\ n.state \in {"AckSent", "RequestSent"}
    BY <1>4, <2>2 DEF SoundLcp, LcpAwake, LcpLayers, Timers
  <2>4. LcpConfigureRequest(t, kind) = LcpNextIdentifier(t, n)
    BY <1>1, <1>3, <1>6, <2>1, <2>2 DEF LcpConfigureRequest
  <2>5. QED
    BY <2>3, <2>4, LcpNextIdentifierMoves DEF LcpUnraised
<1>7. CASE l.state = "AckReceived" /\ LcpVerdict(kind) = "ConfAck"
  <2>1. PICK n : n = [m EXCEPT !.state = "Opened", !.remaining = 0, !.timer = "off"]
    OBVIOUS
  <2>2. SoundLcp(n)
    BY <1>4, <2>1 DEF SoundLcp, LcpAwake, LcpLayers, Timers, LcpWaiting, Negotiating
  <2>3. LcpConfigureRequest(t, kind) = [t EXCEPT !.lcp = n]
    BY <1>1, <1>3, <1>7, <2>1 DEF LcpConfigureRequest
  <2>4. QED
    BY <1>1, <1>7, <2>2, <2>3, WithLcp DEF Negotiating
<1>8. CASE l.state = "AckReceived" /\ LcpVerdict(kind) # "ConfAck"
  <2>1. PICK n : n = [m EXCEPT !.state = "AckReceived"]
    OBVIOUS
  <2>2. l.timer # "off"
    BY <1>1, <1>2, <1>8, LcpIdleHasTimer DEF LcpWaiting, Negotiating
  <2>3. SoundLcp(n)
    BY <1>4, <2>1, <2>2 DEF SoundLcp, LcpAwake, LcpLayers, Negotiating
  <2>4. LcpConfigureRequest(t, kind) = [t EXCEPT !.lcp = n]
    BY <1>1, <1>3, <1>8, <2>1 DEF LcpConfigureRequest
  <2>5. QED
    BY <1>1, <1>8, <2>3, <2>4, WithLcp DEF Negotiating
<1>9. CASE l.state \in {"RequestSent", "AckSent"}
  <2>1. l.timer # "off"
    BY <1>1, <1>2, <1>9, LcpIdleHasTimer DEF LcpWaiting, Negotiating
  <2>2. SoundLcp(m)
    BY <1>4, <2>1 DEF SoundLcp, LcpAwake
  <2>3. LcpConfigureRequest(t, kind) = [t EXCEPT !.lcp = m]
    BY <1>1, <1>3, <1>9 DEF LcpConfigureRequest
  <2>4. QED
    BY <1>1, <1>9, <2>2, <2>3, WithLcp DEF Negotiating
<1>10. QED
  BY <1>1, <1>2, <1>5, <1>6, <1>7, <1>8, <1>9 DEF LcpLayers, Negotiating

LEMMA LcpConfigureAckMoves ==
    ASSUME NEW t, Sound(t), t.lcp.pending = None
    PROVE  LET u == LcpConfigureAck(t)
           IN  /\ LcpMoves(t, u) /\ u.frame = t.frame
               /\ t.lcp.state \notin Negotiating => LcpUnraised(t.lcp, u.lcp)
<1>1. PICK l : l = t.lcp
  OBVIOUS
<1>2. SoundLcp(l) /\ l \in LcpLayers
  BY <1>1 DEF Sound, SharedStates, SoundLcp
<1>3. CASE l.state = "RequestSent"
  <2>1. PICK n : n = [l EXCEPT !.state = "AckReceived", !.remaining = MaxConfigure]
    OBVIOUS
  <2>2. l.timer # "off"
    BY <1>1, <1>2, <1>3, LcpIdleHasTimer DEF LcpWaiting, Negotiating
  <2>3. SoundLcp(n)
    BY <1>2, <2>1, <2>2, LimitsAssumption DEF SoundLcp, LcpAwake, LcpLayers, Negotiating
  <2>4. LcpConfigureAck(t) = [t EXCEPT !.lcp = n]
    BY <1>1, <1>3, <2>1 DEF LcpConfigureAck
  <2>5. QED
    BY <1>1, <1>3, <2>3, <2>4, WithLcp DEF Negotiating
<1>4. CASE l.state = "AckSent"
  <2>1. PICK n : n = [l EXCEPT !.state = "Opened", !.remaining = 0, !.timer = "off"]
    OBVIOUS
  <2>2. SoundLcp(n)
    BY <1>2, <2>1 DEF SoundLcp, LcpAwake, LcpLayers, Timers, LcpWaiting, Negotiating
  <2>3. LcpConfigureAck(t) = [t EXCEPT !.lcp = n]
    BY <1>1, <1>4, <2>1 DEF LcpConfigureAck
  <2>4. QED
    BY <1>1, <1>4, <2>2, <2>3, WithLcp DEF Negotiating
<1>5. CASE l.state \in {"AckReceived", "Opened"}
  <2>1. LcpConfigureAck(t) = LcpNewRequest(t, "RequestSent")
    BY <1>1, <1>5 DEF LcpConfigureAck
  <2>2. QED
    BY <2>1, LcpNewRequestMoves DEF LcpUnraised
<1>6. CASE l.state \notin {"RequestSent", "AckSent", "AckReceived", "Opened"}
  <2>1. LcpConfigureAck(t) = t
    BY <1>1, <1>6 DEF LcpConfigureAck
  <2>2. QED
    BY <2>1, LcpSettlesRefl DEF LcpSettles, LcpQuiet
<1>7. QED
  BY <1>3, <1>4, <1>5, <1>6

LEMMA LcpConfigureNegativeMoves ==
    ASSUME NEW t, Sound(t)
    PROVE  LET u == LcpConfigureNegative(t)
           IN  LcpMoves(t, u) /\ u.frame = t.frame /\ LcpUnraised(t.lcp, u.lcp)
<1>1. CASE t.lcp.state = "Closing"
  <2>1. LcpConfigureNegative(t) = t
    BY <1>1 DEF LcpConfigureNegative
  <2>2. QED
    BY <2>1, LcpSettlesRefl DEF LcpSettles, LcpQuiet
<1>2. CASE t.lcp.state # "Closing"
  <2>1. PICK state \in {"RequestSent", "AckSent"} :
            state = IF t.lcp.state = "AckSent" THEN "AckSent" ELSE "RequestSent"
    OBVIOUS
  <2>2. LcpConfigureNegative(t) = LcpNewRequest(t, state)
    BY <1>2, <2>1 DEF LcpConfigureNegative
  <2>3. QED
    BY <2>1, <2>2, LcpNewRequestMoves DEF LcpUnraised
<1>3. QED
  BY <1>1, <1>2

LEMMA LcpTerminateRequestSound ==
    ASSUME NEW l, SoundLcp(l), l.pending = None
    PROVE  SoundLcp(LcpTerminateRequest(l)) /\ LcpQuiet(l, LcpTerminateRequest(l))
<1>1. CASE l.state = "Closing"
  <2>1. LcpTerminateRequest(l) = [l EXCEPT !.pending = "TermAck"]
    BY <1>1 DEF LcpTerminateRequest
  <2>2. l.timer # "off"
    BY <1>1, LcpIdleHasTimer DEF LcpWaiting
  <2>3. QED
    BY <2>1, <2>2 DEF SoundLcp, LcpAwake, LcpLayers, LcpActions, LcpPackets, LcpQuiet, LcpUnraised
<1>2. CASE l.state # "Closing"
  <2>1. LcpTerminateRequest(l) = [l EXCEPT !.pending = "TermAck", !.remaining = 0,
                                           !.timer = "off", !.deferred = FALSE]
    BY <1>2 DEF LcpTerminateRequest
  <2>2. PICK m : m = LcpTerminateRequest(l)
    OBVIOUS
  <2>3. /\ m \in LcpLayers
        /\ m.state = l.state /\ m.auth = l.auth /\ m.pending = "TermAck"
    <3>1. l \in LcpLayers
      BY DEF SoundLcp
    <3>2. PICK k \in Nat : k = 0
      OBVIOUS
    <3>3. m = [l EXCEPT !.pending = "TermAck", !.remaining = k, !.timer = "off",
                        !.deferred = FALSE]
      BY <2>1, <2>2, <3>2
    <3> HIDE <2>1
    <3>4. QED
      BY <3>1, <3>3 DEF LcpLayers, LcpActions, LcpPackets, Timers
  <2>4. QED
    BY <1>2, <2>2, <2>3 DEF SoundLcp, LcpAwake, LcpQuiet, LcpUnraised
<1>3. QED
  BY <1>1, <1>2

\* A response that LCP owes: the layer is as awake as it was.
LcpOwes(t, action) == [t EXCEPT !.lcp.pending = action]

LEMMA LcpOwesSettles ==
    ASSUME NEW t, Sound(t), t.lcp.pending = None, NEW action \in LcpResponses
    PROVE  LcpSettles(t, LcpOwes(t, action)) /\ LcpOwes(t, action).frame = t.frame
<1>1. PICK l : l = t.lcp
  OBVIOUS
<1>2. SoundLcp(l) /\ l.pending = None
  BY <1>1 DEF Sound, SharedStates, SoundLcp
<1>3. PICK m : m = [l EXCEPT !.pending = action]
  OBVIOUS
<1>4. SoundLcp(m) /\ LcpQuiet(l, m)
  <2>1. l.state \in LcpWaiting => l.timer # "off"
    BY <1>2, LcpIdleHasTimer
  <2>2. QED
    BY <1>2, <1>3, <2>1 DEF SoundLcp, LcpAwake, LcpLayers, LcpActions, LcpPackets, LcpQuiet,
                            LcpUnraised
<1>5. LcpOwes(t, action) = [t EXCEPT !.lcp = m]
  BY <1>1, <1>3 DEF LcpOwes
<1>6. QED
  BY <1>1, <1>4, <1>5, WithLcp DEF LcpSettles

LEMMA LcpReceiveFrameMoves ==
    ASSUME NEW t, Sound(t), t.frame \in Frames, t.lcp.pending = None,
           t.lcp.state \notin {"Closed", "Stopped"}
    PROVE  LET u == pppLcpReceiveFrame(t)
           IN  /\ LcpMoves(t, u) /\ u.frame = t.frame
               /\ t.lcp.state \notin Negotiating => LcpUnraised(t.lcp, u.lcp)
<1>1. PICK kind : kind = t.frame.kind
  OBVIOUS
<1>2. PICK l : l = t.lcp
  OBVIOUS
<1>3. SoundLcp(l) /\ l \in LcpLayers /\ l.pending = None
  BY <1>2 DEF Sound, SharedStates, SoundLcp
<1>4. PICK u : u = pppLcpReceiveFrame(t)
  OBVIOUS
<1> HIDE <1>4
<1>5. CASE kind \in {"AcceptNone", "AcceptPap", "AcceptChap", "Counter", "Refuse"}
  <2>1. u = LcpConfigureRequest(t, kind)
    BY <1>1, <1>4, <1>5 DEF pppLcpReceiveFrame
  <2>2. QED
    BY <1>4, <2>1, LcpConfigureRequestMoves
<1>6. CASE kind = "Ack" /\ l.known
  <2>1. u = LcpConfigureAck(t)
    BY <1>1, <1>2, <1>4, <1>6 DEF pppLcpReceiveFrame
  <2>2. QED
    BY <1>4, <2>1, LcpConfigureAckMoves
<1>7. CASE kind \in {"Nak", "Rej"} /\ l.known
  <2>1. u = LcpConfigureNegative(t)
    BY <1>1, <1>2, <1>4, <1>7 DEF pppLcpReceiveFrame
  <2>2. QED
    BY <1>4, <2>1, LcpConfigureNegativeMoves
<1>8. CASE kind = "TermReq"
  <2>1. u = [t EXCEPT !.lcp = LcpTerminateRequest(l)]
    BY <1>1, <1>2, <1>4, <1>8 DEF pppLcpReceiveFrame
  <2>2. SoundLcp(LcpTerminateRequest(l)) /\ LcpQuiet(l, LcpTerminateRequest(l))
    BY <1>3, LcpTerminateRequestSound
  <2>3. QED
    BY <1>2, <1>4, <2>1, <2>2, WithLcp DEF LcpQuiet
<1>9. CASE kind = "TermAck" /\ l.known /\ l.state = "Closing"
  <2>1. u = [t EXCEPT !.lcp = LcpReset(l, "Closed")]
    BY <1>1, <1>2, <1>4, <1>9 DEF pppLcpReceiveFrame, pppLcpLocalTerminateComplete
  <2>2. SoundLcp(LcpReset(l, "Closed")) /\ LcpQuiet(l, LcpReset(l, "Closed"))
    BY <1>3, LcpResetSound
  <2>3. QED
    BY <1>2, <1>4, <2>1, <2>2, WithLcp DEF LcpQuiet
<1>10. CASE kind = "Echo" /\ l.state = "Opened"
  <2>1. u = LcpOwes(t, "EchoRep")
    BY <1>1, <1>2, <1>4, <1>10 DEF LcpOwes, pppLcpReceiveFrame
  <2>2. QED
    BY <1>2, <1>4, <2>1, LcpOwesSettles DEF LcpSettles, LcpQuiet, LcpResponses
<1>11. CASE kind = "UnknownCode"
  <2>1. u = LcpOwes(t, "CodeRej")
    BY <1>1, <1>2, <1>4, <1>11 DEF LcpOwes, pppLcpReceiveFrame, pppLcpRejectCode
  <2>2. QED
    BY <1>2, <1>4, <2>1, LcpOwesSettles DEF LcpSettles, LcpQuiet, LcpResponses
<1>12. CASE /\ kind \notin {"AcceptNone", "AcceptPap", "AcceptChap", "Counter", "Refuse",
                             "TermReq", "UnknownCode"}
            /\ ~(kind \in {"Ack", "Nak", "Rej"} /\ l.known)
            /\ ~(kind = "TermAck" /\ l.known /\ l.state = "Closing")
            /\ ~(kind = "Echo" /\ l.state = "Opened")
  <2>1. u = t
    BY <1>1, <1>2, <1>4, <1>12 DEF pppLcpReceiveFrame
  <2>2. QED
    BY <1>4, <2>1, LcpSettlesRefl DEF LcpSettles, LcpQuiet
<1>13. QED
  BY <1>5, <1>6, <1>7, <1>8, <1>9, <1>10, <1>11, <1>12

\* The rest of a poll after a packet was handled: the release of the frame, the
\* answer and the timer only settle.
LEMMA LcpReceiveMoves ==
    ASSUME NEW t, Sound(t), t.frame \in Frames, t.lcp.pending = None,
           t.lcp.state \notin {"Closed", "Stopped"}
    PROVE  /\ LcpMoves(t, LcpReceive(t))
           /\ t.lcp.state \notin Negotiating => LcpUnraised(t.lcp, LcpReceive(t).lcp)
<1>1. PICK r : r = pppLcpReceiveFrame(t)
  OBVIOUS
<1>2. /\ LcpMoves(t, r) /\ Sound(r)
      /\ t.lcp.state \notin Negotiating => LcpUnraised(t.lcp, r.lcp)
  BY <1>1, LcpReceiveFrameMoves DEF LcpMoves
<1>3. LcpSettles(r, LcpReceive(t))
  <2>1. CASE r.lcp.pending \in LcpResponses \cup {"TermAck"}
    <3>1. LcpReceive(t) = LcpRespond(r)
      BY <1>1, <2>1 DEF LcpReceive
    <3>2. QED
      BY <1>2, <3>1, LcpRespondSettles
  <2>2. CASE r.lcp.pending \notin LcpResponses \cup {"TermAck"}
    <3>1. LcpReceive(t) = LcpTimer(LcpServicePending(pppReleaseFrame(r)))
      BY <1>1, <2>2 DEF LcpReceive
    <3>2. LcpSettles(r, pppReleaseFrame(r))
      BY <1>2, LcpReleases
    <3>3. LcpSettles(pppReleaseFrame(r), LcpServicePending(pppReleaseFrame(r)))
      BY <3>2, LcpServicePendingSettles DEF LcpSettles, LcpMoves
    <3>4. LcpSettles(LcpServicePending(pppReleaseFrame(r)), LcpReceive(t))
      BY <3>1, <3>3, LcpTimerSettles DEF LcpSettles, LcpMoves
    <3>5. QED
      BY <3>2, <3>3, <3>4, LcpSettlesTrans
  <2>3. QED
    BY <2>1, <2>2
<1>4. QED
  BY <1>2, <1>3, LcpMovesTrans DEF LcpSettles, LcpQuiet, LcpUnraised

LEMMA LcpDispatchMoves ==
    ASSUME NEW t, Sound(t), t.frame # None => t.lcp.pending = None,
           t.frame # None => t.lcp.state \notin {"Closed", "Stopped"}
    PROVE  /\ LcpMoves(t, LcpDispatch(t))
           /\ t.lcp.state \notin Negotiating => LcpUnraised(t.lcp, LcpDispatch(t).lcp)
<1>1. CASE t.frame = None
  <2>1. LcpDispatch(t) = LcpTimer(t)
    BY <1>1 DEF LcpDispatch
  <2>2. QED
    BY <2>1, LcpTimerSettles DEF LcpSettles, LcpQuiet
<1>2. CASE t.frame # None /\ t.frame.proto = "LCP"
  <2>1. LcpDispatch(t) = LcpReceive(t)
    BY <1>2 DEF LcpDispatch, UpperProtocols
  <2>2. t.frame \in Frames
    BY <1>2 DEF Sound, SharedStates
  <2>3. QED
    BY <1>2, <2>1, <2>2, LcpReceiveMoves
<1>3. CASE t.frame # None /\ t.frame.proto # "LCP"
  <2>1. LcpSettles(t, pppReleaseFrame(t)) /\ LcpSettles(t, t)
    BY LcpReleases, LcpSettlesRefl
  <2>2. LcpSettles(pppReleaseFrame(t), LcpTimer(pppReleaseFrame(t)))
    BY <2>1, LcpTimerSettles DEF LcpSettles, LcpMoves
  <2>3. LcpSettles(t, LcpTimer(pppReleaseFrame(t))) /\ LcpSettles(t, LcpTimer(t))
    BY <2>1, <2>2, LcpSettlesTrans, LcpTimerSettles
  <2>4. LcpSettles(t, pppLcpRejectProtocol(t))
    <3>1. pppLcpRejectProtocol(t) = LcpOwes(t, "ProtRej")
      BY DEF pppLcpRejectProtocol, LcpOwes
    <3>2. QED
      BY <1>3, <3>1, LcpOwesSettles DEF LcpResponses
  <2>5. LcpSettles(pppLcpRejectProtocol(t), LcpRespond(pppLcpRejectProtocol(t)))
    BY <2>4, LcpRespondSettles DEF LcpSettles, LcpMoves
  <2>6. LcpSettles(t, LcpRespond(pppLcpRejectProtocol(t)))
    BY <2>4, <2>5, LcpSettlesTrans
  <2>7. LcpDispatch(t) \in {LcpTimer(t), LcpTimer(pppReleaseFrame(t)),
                            LcpRespond(pppLcpRejectProtocol(t))}
    BY <1>3 DEF LcpDispatch
  <2>8. LcpSettles(t, LcpDispatch(t))
    BY <2>3, <2>6, <2>7
  <2>9. QED
    BY <2>8 DEF LcpSettles, LcpQuiet
<1>4. QED
  BY <1>1, <1>2, <1>3

LEMMA LcpServiceMoves ==
    ASSUME NEW t, Sound(t), t.lcp.state \notin {"Closed", "Stopped"}
    PROVE  /\ LcpMoves(t, LcpService(t))
           /\ t.lcp.state \notin Negotiating => LcpUnraised(t.lcp, LcpService(t).lcp)
<1>1. CASE LcpBlocked(t)
  <2>1. LcpService(t) = t
    BY <1>1 DEF LcpService
  <2>2. QED
    BY <2>1, LcpSettlesRefl DEF LcpSettles, LcpQuiet
<1>2. CASE ~LcpBlocked(t)
  <2>1. PICK u : u = LcpServicePending(t)
    OBVIOUS
  <2>2. LcpService(t) = LcpDispatch(u)
    BY <1>2, <2>1 DEF LcpService
  <2>3. /\ LcpSettles(t, u)
        /\ u.frame # None => u.lcp.pending = None
        /\ u.frame # None => u.lcp.state = t.lcp.state
    BY <1>2, <2>1, LcpServicePendingSettles
  <2>4. /\ LcpMoves(u, LcpDispatch(u))
        /\ u.lcp.state \notin Negotiating => LcpUnraised(u.lcp, LcpDispatch(u).lcp)
    BY <2>3, LcpDispatchMoves DEF LcpSettles, LcpMoves
  <2>5. QED
    BY <2>2, <2>3, <2>4, LcpMovesTrans DEF LcpSettles, LcpQuiet, LcpUnraised
<1>3. QED
  BY <1>1, <1>2

\* The administrator's close is quiet; its open raises nothing to Opened.
LEMMA LcpCloseSettles ==
    ASSUME NEW t, Sound(t)
    PROVE  /\ LcpSettles(t, pppLcpClose(t)) /\ pppLcpClose(t).frame = t.frame
           /\ t.lcp.state \notin {"Closed", "Stopped"} =>
                 pppLcpClose(t).lcp.state \in {t.lcp.state, "Closing"}
<1>1. PICK l : l = [t.lcp EXCEPT !.admin = FALSE]
  OBVIOUS
<1>2. SoundLcp(t.lcp)
  BY DEF Sound, SharedStates, SoundLcp
<1>3. SoundLcp(l) /\ LcpQuiet(t.lcp, l) /\ l.state = t.lcp.state /\ l.pending = t.lcp.pending
  <2>1. PICK m : m = t.lcp
    OBVIOUS
  <2>2. QED
    BY <1>1, <1>2, <2>1 DEF SoundLcp, LcpAwake, LcpLayers, LcpQuiet, LcpUnraised
<1>4. PICK u : u = pppLcpClose(t)
  OBVIOUS
<1> HIDE <1>4
<1>5. CASE l.state \in {"Closed", "Stopped"}
  <2>1. u = [t EXCEPT !.lcp = LcpReset(l, "Closed")]
    BY <1>1, <1>4, <1>5 DEF pppLcpClose
  <2>2. SoundLcp(LcpReset(l, "Closed")) /\ LcpReset(l, "Closed").state = "Closed"
    BY <1>3, LcpResetSound DEF SoundLcp
  <2>3. QED
    BY <1>3, <1>4, <1>5, <2>1, <2>2, WithLcp DEF LcpSettles, LcpQuiet, LcpUnraised, Negotiating
<1>6. CASE /\ l.state \notin {"Closed", "Stopped"}
           /\ l.state = "Closing" \/ l.pending # None
  <2>1. u = [t EXCEPT !.lcp = l]
    BY <1>1, <1>4, <1>6 DEF pppLcpClose
  <2>2. QED
    BY <1>3, <1>4, <2>1, WithLcp DEF LcpSettles
<1>7. CASE l.state \notin {"Closed", "Stopped", "Closing"} /\ l.pending = None
  <2>1. u = LcpNextIdentifier(t, LcpClosing(l))
    BY <1>1, <1>4, <1>7 DEF pppLcpClose
  <2>2. SoundLcp(LcpClosing(l)) /\ LcpClosing(l).state = "Closing"
    BY <1>3, LcpClosingSound DEF SoundLcp
  <2>3. QED
    BY <1>4, <2>1, <2>2, LcpNextIdentifierMoves DEF LcpSettles, LcpQuiet, LcpUnraised, Negotiating
<1>8. QED
  BY <1>5, <1>6, <1>7

LEMMA LcpOpenMoves ==
    ASSUME NEW t, Sound(t)
    PROVE  /\ LcpMoves(t, pppLcpOpen(t)) /\ LcpUnraised(t.lcp, pppLcpOpen(t).lcp)
           /\ t.lcp.state \in {"Opened", "Closing"} => pppLcpOpen(t).lcp.state = t.lcp.state
           /\ pppLcpOpen(t).lcp.state \notin {"Closed", "Stopped"}
<1>1. SoundLcp(t.lcp)
  BY DEF Sound, SharedStates, SoundLcp
<1>2. PICK m : m = LcpOpen(t.lcp)
  OBVIOUS
<1>3. /\ SoundLcp(m) /\ LcpUnraised(t.lcp, m) /\ m.state \notin {"Closed", "Stopped"}
      /\ t.lcp.state \in {"Opened", "Closing"} => m.state = t.lcp.state
  BY <1>1, <1>2, LcpOpenSound DEF LcpUnraised
<1>4. pppLcpOpen(t) = [t EXCEPT !.lcp = m]
  BY <1>2 DEF pppLcpOpen
<1>5. QED
  BY <1>3, <1>4, WithLcp

\* The LCP poll on a live line.  Nothing but a negotiation opens LCP, and an
\* administratively closed layer stays closed.
LEMMA LcpPollLive ==
    ASSUME NEW t, Sound(t), LowerAvailable(t)
    PROVE  LET u == pppLcpPoll(t)
           IN  /\ LcpMoves(t, u)
               /\ t.lcp.state \in {"Opened", "Closing"} => LcpUnraised(t.lcp, u.lcp)
               /\ ~t.lcp.admin /\ t.lcp.state \in {"Closed", "Stopped"} =>
                     u.lcp.state \in {"Closed", "Stopped"}
<1>1. PICK u : u = pppLcpPoll(t)
  OBVIOUS
<1> HIDE <1>1
<1>2. CASE t.lcp.state = "Closed" /\ t.lcp.admin
  <2>1. u = LcpService(pppLcpOpen(t))
    BY <1>1, <1>2 DEF pppLcpPoll, LcpClosed
  <2>2. LcpMoves(t, pppLcpOpen(t)) /\ pppLcpOpen(t).lcp.state \notin {"Closed", "Stopped"}
    BY LcpOpenMoves
  <2>3. LcpMoves(pppLcpOpen(t), u)
    BY <2>1, <2>2, LcpServiceMoves DEF LcpMoves
  <2>4. QED
    BY <1>1, <1>2, <2>2, <2>3, LcpMovesTrans
<1>3. CASE t.lcp.state = "Closed" /\ ~t.lcp.admin
  <2>1. u = t
    BY <1>1, <1>3 DEF pppLcpPoll, LcpClosed
  <2>2. QED
    BY <1>1, <1>3, <2>1, LcpSettlesRefl DEF LcpSettles
<1>4. CASE t.lcp.state = "Stopped"
  <2>1. u = pppReleaseFrame(t)
    BY <1>1, <1>4 DEF pppLcpPoll, LcpStopped
  <2>2. QED
    BY <1>1, <1>4, <2>1, LcpReleases DEF LcpSettles
<1>5. CASE t.lcp.state \notin {"Closed", "Stopped"}
  <2>1. PICK v : v = IF ~t.lcp.admin /\ t.lcp.state # "Closing" /\ t.lcp.pending = None
                     THEN pppLcpClose(t) ELSE t
    OBVIOUS
  <2>2. u = LcpService(v)
    BY <1>1, <1>5, <2>1 DEF pppLcpPoll
  <2>3. LcpSettles(t, v) /\ v.lcp.state \notin {"Closed", "Stopped"}
    <3>1. CASE v = t
      BY <3>1, <1>5, LcpSettlesRefl
    <3>2. CASE /\ v = pppLcpClose(t)
               /\ t.lcp.state \notin {"Closed", "Stopped", "Closing"} /\ t.lcp.pending = None
      BY <3>2, LcpCloseSettles
    <3>3. QED
      BY <2>1, <1>5, <3>1, <3>2
  <2>4. /\ LcpMoves(v, u)
        /\ v.lcp.state \notin Negotiating => LcpUnraised(v.lcp, u.lcp)
    BY <2>2, <2>3, LcpServiceMoves DEF LcpSettles, LcpMoves
  <2>5. LcpMoves(t, u)
    BY <2>3, <2>4, LcpMovesTrans DEF LcpSettles
  <2>6. t.lcp.state \in {"Opened", "Closing"} => LcpUnraised(t.lcp, u.lcp)
    BY <2>3, <2>4 DEF LcpSettles, LcpQuiet, LcpUnraised, Negotiating
  <2>7. QED
    BY <1>1, <1>5, <2>5, <2>6
<1>6. QED
  BY <1>2, <1>3, <1>4, <1>5

\* Without the line LCP is Closed and both buffers are empty.
LEMMA LcpPollDead ==
    ASSUME NEW t, Sound(t), ~LowerAvailable(t)
    PROVE  LET u == pppLcpPoll(t)
           IN  /\ Sound(u) /\ u.lcp.state = "Closed" /\ u.frame = None /\ u.tx = None
               /\ u.modem = t.modem /\ u.enabled = t.enabled /\ u.active = t.active
               /\ u.pap = t.pap /\ u.chap = t.chap /\ u.ipcp = t.ipcp
               /\ u.credentials = t.credentials /\ u.icmpPending = t.icmpPending
<1>1. PICK l : l = IF t.lcp.state = "Closed" THEN t.lcp ELSE LcpReset(t.lcp, "Closed")
  OBVIOUS
<1>2. SoundLcp(l) /\ l.state = "Closed"
  BY <1>1, LcpResetSound DEF Sound, SharedStates, SoundLcp
<1>3. pppLcpPoll(t) = [t EXCEPT !.lcp = l, !.frame = None, !.tx = None]
  BY <1>1 DEF pppLcpPoll, LcpLowerUnavailable, pppReleaseFrame, pppTransmitAbort,
              pppLcpLowerDown, Sound, SharedStates
<1>4. QED
  BY <1>2, <1>3 DEF Sound, SoundLcp, SharedStates

-----------------------------------------------------------------------------
\* PAP.

\* The PAP poll from t to u: its own layer, the credentials, the frame, which it
\* may release, and an idle encoder.
PapMoves(t, u) ==
    /\ Sound(u)
    /\ u.modem = t.modem /\ u.enabled = t.enabled /\ u.active = t.active
    /\ u.lcp = t.lcp /\ u.chap = t.chap /\ u.ipcp = t.ipcp /\ u.icmpPending = t.icmpPending
    /\ u.frame = t.frame \/ u.frame = None
    /\ u.tx = t.tx \/ (t.tx = None /\ u.tx = "PAP")

\* Without an answer of the peer PAP neither opens nor comes to expect one.
PapUnraised(p, q) ==
    /\ q.state = "Opened" => p.state = "Opened"
    /\ q.state = "WaitingForReply" /\ q.known => p.state = "WaitingForReply" /\ p.known
PapSettles(t, u) == PapMoves(t, u) /\ PapUnraised(t.pap, u.pap)

LEMMA PapSettlesTrans ==
    ASSUME NEW t, NEW u, NEW v, PapSettles(t, u), PapSettles(u, v)
    PROVE  PapSettles(t, v)
BY DEF PapSettles, PapMoves, PapUnraised

LEMMA PapSettlesRefl ==
    ASSUME NEW t, Sound(t)
    PROVE  PapSettles(t, t)
BY DEF PapSettles, PapMoves, PapUnraised

PutPap(t, p, x) == [t EXCEPT !.pap = p, !.tx = x]

LEMMA PutPapMoves ==
    ASSUME NEW t, Sound(t), NEW p, SoundPap(p), NEW x \in TxOwners \cup {None},
           x = t.tx \/ (t.tx = None /\ x = "PAP")
    PROVE  /\ PapMoves(t, PutPap(t, p, x))
           /\ PutPap(t, p, x).pap = p /\ PutPap(t, p, x).frame = t.frame
           /\ PutPap(t, p, x).tx = x
BY DEF Sound, SoundPap, SharedStates, PapMoves, PutPap

LEMMA PapReleases ==
    ASSUME NEW t, Sound(t)
    PROVE  PapSettles(t, pppReleaseFrame(t)) /\ pppReleaseFrame(t).pap = t.pap
BY DEF Sound, SharedStates, PapMoves, PapSettles, PapUnraised, pppReleaseFrame

LEMMA ClearSensitiveKeeps ==
    ASSUME NEW t, Sound(t)
    PROVE  LET u == pppPapCredentialsClearSensitive(t)
           IN  /\ Sound(u)
               /\ u.modem = t.modem /\ u.enabled = t.enabled /\ u.active = t.active
               /\ u.lcp = t.lcp /\ u.pap = t.pap /\ u.chap = t.chap /\ u.ipcp = t.ipcp
               /\ u.icmpPending = t.icmpPending /\ u.frame = t.frame /\ u.tx = t.tx
<1>1. CASE t.credentials.transient
  <2>1. PICK c \in CredentialStores : c = [transient |-> TRUE, fields |-> {}]
    BY DEF CredentialStores
  <2>2. pppPapCredentialsClearSensitive(t) = [t EXCEPT !.credentials = c]
    BY <1>1, <2>1 DEF pppPapCredentialsClearSensitive, pppPapCredentialsClear
  <2>3. QED
    BY <2>2 DEF Sound, SharedStates
<1>2. CASE ~t.credentials.transient
  BY <1>2 DEF pppPapCredentialsClearSensitive
<1>3. QED
  BY <1>1, <1>2

LEMMA PapClears ==
    ASSUME NEW t, Sound(t)
    PROVE  LET u == pppPapCredentialsClearSensitive(t)
           IN  PapSettles(t, u) /\ u.pap = t.pap /\ u.frame = t.frame /\ u.tx = t.tx
BY ClearSensitiveKeeps DEF PapSettles, PapMoves, PapUnraised

LEMMA PapBuildPendingSettles ==
    ASSUME NEW t, Sound(t)
    PROVE  PapSettles(t, pppPapBuildPending(t)) /\ pppPapBuildPending(t).frame = t.frame
<1>1. PICK p : p = t.pap
  OBVIOUS
<1>2. SoundPap(p) /\ p \in PapLayers /\ t.tx \in TxOwners \cup {None} /\ t \in SharedStates
  BY <1>1 DEF Sound, SharedStates, SoundPap
<1>3. PICK u : u = pppPapBuildPending(t)
  OBVIOUS
<1> HIDE <1>3
<1>4. CASE \/ p.state # "RequestPending"
           \/ p.state = "RequestPending" /\ pppPapCredentialsReady(t) /\ EncoderBusy(t)
  <2>1. u = t
    BY <1>1, <1>3, <1>4 DEF pppPapBuildPending
  <2>2. QED
    BY <1>3, <2>1, PapSettlesRefl
<1>5. CASE p.state = "RequestPending" /\ ~pppPapCredentialsReady(t)
  <2>1. PICK q : q = [p EXCEPT !.state = "Failed"]
    OBVIOUS
  <2>2. SoundPap(q) /\ q.state = "Failed"
    BY <1>2, <2>1 DEF SoundPap, PapAwake, PapLayers
  <2>3. u = PutPap(t, q, t.tx)
    BY <1>1, <1>2, <1>3, <1>5, <2>1 DEF pppPapBuildPending, PutPap, SharedStates
  <2>4. QED
    BY <1>2, <1>3, <2>2, <2>3, PutPapMoves DEF PapSettles, PapUnraised
<1>6. CASE p.state = "RequestPending" /\ pppPapCredentialsReady(t) /\ ~EncoderBusy(t)
  <2>1. PICK k \in Nat : k = p.remaining - 1
    BY <1>2, <1>6 DEF SoundPap, PapAwake, PapLayers
  <2>2. PICK q : q = [p EXCEPT !.state = "WaitingForReply", !.remaining = k,
                               !.timer = "armed", !.known = FALSE]
    OBVIOUS
  <2>3. SoundPap(q) /\ q.state = "WaitingForReply" /\ q.known = FALSE
    BY <1>2, <2>2 DEF SoundPap, PapAwake, PapLayers, Timers
  <2>4. u = PutPap(t, q, "PAP")
    <3>1. PapSent(p) = q
      BY <1>2, <2>1, <2>2 DEF PapSent, PapLayers
    <3>2. QED
      BY <1>1, <1>3, <1>6, <3>1 DEF pppPapBuildPending, PutPap
  <2>5. t.tx = None /\ "PAP" \in TxOwners \cup {None}
    BY <1>6 DEF EncoderBusy, TxOwners
  <2>6. QED
    BY <1>3, <2>3, <2>4, <2>5, PutPapMoves DEF PapSettles, PapUnraised
<1>7. QED
  BY <1>4, <1>5, <1>6

LEMMA PapTimeoutSettles ==
    ASSUME NEW t, Sound(t)
    PROVE  PapSettles(t, pppPapPollTimeout(t))
<1>1. PICK p : p = t.pap
  OBVIOUS
<1>2. SoundPap(p) /\ p \in PapLayers /\ t.tx \in TxOwners \cup {None} /\ t \in SharedStates
  BY <1>1 DEF Sound, SharedStates, SoundPap
<1>3. PICK u : u = pppPapPollTimeout(t)
  OBVIOUS
<1> HIDE <1>3
<1>4. CASE p.timer # "expired"
  <2>1. u = t
    BY <1>1, <1>3, <1>4 DEF pppPapPollTimeout
  <2>2. QED
    BY <1>3, <2>1, PapSettlesRefl
<1>5. CASE p.timer = "expired" /\ p.state # "WaitingForReply"
  <2>1. PICK q : q = [p EXCEPT !.timer = "off"]
    OBVIOUS
  <2>2. SoundPap(q) /\ q.state = p.state
    BY <1>2, <1>5, <2>1 DEF SoundPap, PapAwake, PapLayers, Timers
  <2>3. u = PutPap(t, q, t.tx)
    BY <1>1, <1>2, <1>3, <1>5, <2>1 DEF pppPapPollTimeout, PutPap, SharedStates
  <2>4. QED
    BY <1>1, <1>2, <1>3, <1>5, <2>2, <2>3, PutPapMoves DEF PapSettles, PapUnraised
<1>6. CASE p.timer = "expired" /\ p.state = "WaitingForReply" /\ p.remaining > 0
  <2>1. PICK q : q = [p EXCEPT !.timer = "off", !.state = "RequestPending"]
    OBVIOUS
  <2>2. SoundPap(q) /\ q.state = "RequestPending"
    BY <1>2, <1>6, <2>1 DEF SoundPap, PapAwake, PapLayers, Timers
  <2>3. u = PutPap(t, q, t.tx)
    BY <1>1, <1>2, <1>3, <1>6, <2>1 DEF pppPapPollTimeout, PutPap, SharedStates
  <2>4. QED
    BY <1>2, <1>3, <2>2, <2>3, PutPapMoves DEF PapSettles, PapUnraised
<1>7. CASE p.timer = "expired" /\ p.state = "WaitingForReply" /\ ~(p.remaining > 0)
  <2>1. PICK q : q = [p EXCEPT !.timer = "off", !.state = "Failed"]
    OBVIOUS
  <2>2. SoundPap(q) /\ q.state = "Failed"
    BY <1>2, <2>1 DEF SoundPap, PapAwake, PapLayers, Timers
  <2>3. u = pppPapCredentialsClearSensitive(PutPap(t, q, t.tx))
    BY <1>1, <1>2, <1>3, <1>7, <2>1 DEF pppPapPollTimeout, PutPap, SharedStates
  <2>4. PapSettles(t, PutPap(t, q, t.tx))
    BY <1>2, <2>2, PutPapMoves DEF PapSettles, PapUnraised
  <2>5. QED
    BY <1>3, <2>3, <2>4, PapClears, PapSettlesTrans DEF PapSettles, PapMoves
<1>8. QED
  BY <1>4, <1>5, <1>6, <1>7

\* The peer's Ack to the request that PAP waits for is what opens it.
PapAccepted(t) ==
    /\ t.pap.state = "WaitingForReply" /\ t.pap.known
    /\ t.frame # None /\ t.frame.proto = "PAP" /\ t.frame.kind = "Ack"

LEMMA PapReceiveFrameMoves ==
    ASSUME NEW t, Sound(t), t.frame \in Frames, t.frame.proto = "PAP"
    PROVE  LET u == pppPapReceiveFrame(t)
           IN  /\ PapMoves(t, u)
               /\ u.pap.state = "Opened" => t.pap.state = "Opened" \/ PapAccepted(t)
<1>1. PICK p : p = t.pap
  OBVIOUS
<1>2. /\ SoundPap(p) /\ p \in PapLayers /\ t.tx \in TxOwners \cup {None} /\ t \in SharedStates
      /\ t.frame # None
  BY <1>1, NoneIsFresh DEF Sound, SharedStates, SoundPap
<1>3. PICK u : u = pppPapReceiveFrame(t)
  OBVIOUS
<1> HIDE <1>3
<1>4. CASE p.state # "WaitingForReply" \/ ~p.known \/ t.frame.kind = "Ignored"
  <2>1. u = t
    BY <1>1, <1>3, <1>4 DEF pppPapReceiveFrame
  <2>2. QED
    BY <1>3, <2>1, PapSettlesRefl DEF PapSettles
<1>5. CASE p.state = "WaitingForReply" /\ p.known /\ t.frame.kind # "Ignored"
  <2>1. PICK state \in {"Opened", "Failed"} :
            state = IF t.frame.kind = "Ack" THEN "Opened" ELSE "Failed"
    OBVIOUS
  <2>2. PICK q : q = [p EXCEPT !.timer = "off", !.state = state]
    OBVIOUS
  <2>3. SoundPap(q) /\ q.state = state
    BY <1>2, <2>2 DEF SoundPap, PapAwake, PapLayers, Timers
  <2>4. u = pppPapCredentialsClearSensitive(PutPap(t, q, t.tx))
    BY <1>1, <1>2, <1>3, <1>5, <2>1, <2>2 DEF pppPapReceiveFrame, PutPap, SharedStates
  <2>5. PapMoves(t, PutPap(t, q, t.tx)) /\ PutPap(t, q, t.tx).pap = q
    BY <1>2, <2>3, PutPapMoves
  <2>6. PapMoves(PutPap(t, q, t.tx), u) /\ u.pap = q
    BY <2>4, <2>5, PapClears DEF PapSettles, PapMoves
  <2>7. PapMoves(t, u)
    BY <2>5, <2>6 DEF PapMoves
  <2>8. u.pap.state = "Opened" => PapAccepted(t)
    BY <1>1, <1>2, <1>5, <2>1, <2>3, <2>6 DEF PapAccepted
  <2>9. QED
    BY <1>3, <2>7, <2>8
<1>6. QED
  BY <1>4, <1>5

LEMMA PapTakesFrameMoves ==
    ASSUME NEW t, Sound(t)
    PROVE  LET u == PapTakesFrame(t)
           IN  /\ PapMoves(t, u)
               /\ u.pap.state = "Opened" => t.pap.state = "Opened" \/ PapAccepted(t)
<1>1. CASE t.frame = None
  BY <1>1, PapSettlesRefl DEF PapTakesFrame, PapSettles
<1>2. CASE t.frame # None /\ t.frame.proto = "PAP"
  <2>1. PICK r : r = pppPapReceiveFrame(t)
    OBVIOUS
  <2>2. PapTakesFrame(t) = pppReleaseFrame(r)
    BY <1>2, <2>1 DEF PapTakesFrame
  <2>3. t.frame \in Frames
    BY <1>2 DEF Sound, SharedStates
  <2>4. /\ PapMoves(t, r) /\ Sound(r)
        /\ r.pap.state = "Opened" => t.pap.state = "Opened" \/ PapAccepted(t)
    BY <1>2, <2>1, <2>3, PapReceiveFrameMoves DEF PapMoves
  <2>5. PapMoves(r, pppReleaseFrame(r)) /\ pppReleaseFrame(r).pap = r.pap
    BY <2>4, PapReleases DEF PapSettles
  <2>6. PapMoves(t, pppReleaseFrame(r))
    BY <2>4, <2>5 DEF PapMoves
  <2>7. QED
    BY <2>2, <2>4, <2>5, <2>6
<1>3. CASE t.frame # None /\ t.frame.proto # "PAP"
  <2>1. PapTakesFrame(t) \in {t, pppReleaseFrame(t)}
    BY <1>3 DEF PapTakesFrame
  <2>2. QED
    BY <2>1, PapReleases, PapSettlesRefl DEF PapSettles
<1>4. QED
  BY <1>1, <1>2, <1>3

\* The PAP poll: without LCP it is Inactive and sends nothing; where the peer
\* asked for PAP, only the peer's Ack opens it.
LEMMA PapPollMoves ==
    ASSUME NEW t, Sound(t)
    PROVE  LET u == pppPapPoll(t)
           IN  /\ PapMoves(t, u)
               /\ ~LcpUp(t) => u.pap.state = "Inactive" /\ u.frame = t.frame /\ u.tx = t.tx
               /\ LcpUp(t) /\ t.lcp.auth = "PAP" /\ u.pap.state = "Opened" =>
                     t.pap.state = "Opened" \/ PapAccepted(t)
<1>1. t.tx \in TxOwners \cup {None} /\ t \in SharedStates
  BY DEF Sound, SharedStates
<1>2. PICK u : u = pppPapPoll(t)
  OBVIOUS
<1> HIDE <1>2
<1>3. CASE ~LcpUp(t) /\ t.pap.state = "Inactive"
  <2>1. u = t
    BY <1>2, <1>3 DEF pppPapPoll
  <2>2. QED
    BY <1>2, <1>3, <2>1, PapSettlesRefl DEF PapSettles
<1>4. CASE ~LcpUp(t) /\ t.pap.state # "Inactive"
  <2>1. PICK q : q = [state |-> "Inactive", timer |-> "off", remaining |-> 0, known |-> FALSE]
    OBVIOUS
  <2>2. SoundPap(q) /\ q.state = "Inactive"
    BY <2>1 DEF SoundPap, PapAwake, PapLayers, Timers
  <2>3. u = pppPapCredentialsClearSensitive(PutPap(t, q, t.tx))
    BY <1>1, <1>2, <1>4, <2>1 DEF pppPapPoll, pppPapLowerDown, PutPap, SharedStates
  <2>4. /\ PapMoves(t, PutPap(t, q, t.tx)) /\ PutPap(t, q, t.tx).pap = q
        /\ PutPap(t, q, t.tx).frame = t.frame /\ PutPap(t, q, t.tx).tx = t.tx
    BY <1>1, <2>2, PutPapMoves
  <2>5. PapMoves(PutPap(t, q, t.tx), u) /\ u.pap = q /\ u.frame = t.frame /\ u.tx = t.tx
    BY <2>3, <2>4, PapClears DEF PapSettles, PapMoves
  <2>6. PapMoves(t, u)
    BY <2>4, <2>5 DEF PapMoves
  <2>7. QED
    BY <1>2, <1>4, <2>2, <2>5, <2>6
<1>5. CASE LcpUp(t)
  <2>1. PICK v : v = IF t.pap.state = "Inactive" THEN pppPapLowerUp(t) ELSE t
    OBVIOUS
  <2>2. u = pppPapBuildPending(pppPapPollTimeout(PapTakesFrame(pppPapBuildPending(v))))
    BY <1>2, <1>5, <2>1 DEF pppPapPoll
  <2>3. /\ PapMoves(t, v) /\ v.frame = t.frame
        /\ t.lcp.auth = "PAP" => PapUnraised(t.pap, v.pap)
    <3>1. CASE t.pap.state = "Inactive"
      <4>1. PICK state : state = CASE t.lcp.auth # "PAP" -> "Opened"
                     [] t.lcp.auth = "PAP" /\ pppPapCredentialsReady(t) -> "RequestPending"
                     [] OTHER -> "Failed"
        OBVIOUS
      <4>2. /\ state \in {"Opened", "RequestPending", "Failed"}
            /\ t.lcp.auth = "PAP" => state # "Opened"
        BY <4>1
      <4>3. PICK q : q = [state |-> state, timer |-> "off", remaining |-> MaxAuthenticate,
                          known |-> FALSE]
        OBVIOUS
      <4>4. SoundPap(q) /\ q.state = state
        BY <4>2, <4>3, LimitsAssumption DEF SoundPap, PapAwake, PapLayers, Timers
      <4>5. v = PutPap(t, q, t.tx)
        BY <1>1, <2>1, <3>1, <4>1, <4>3 DEF pppPapLowerUp, PutPap, SharedStates
      <4>6. QED
        BY <1>1, <4>2, <4>4, <4>5, PutPapMoves DEF PapUnraised
    <3>2. CASE t.pap.state # "Inactive"
      BY <2>1, <3>2, PapSettlesRefl DEF PapSettles
    <3>3. QED
      BY <3>1, <3>2
  <2>4. PICK b : b = pppPapBuildPending(v)
    OBVIOUS
  <2>5. PapSettles(v, b) /\ b.frame = v.frame
    BY <2>3, <2>4, PapBuildPendingSettles DEF PapMoves
  <2>6. PICK r : r = PapTakesFrame(b)
    OBVIOUS
  <2>7. /\ PapMoves(b, r)
        /\ r.pap.state = "Opened" => b.pap.state = "Opened" \/ PapAccepted(b)
    BY <2>5, <2>6, PapTakesFrameMoves DEF PapSettles, PapMoves
  <2>8. PICK w : w = pppPapPollTimeout(r)
    OBVIOUS
  <2>9. PapSettles(r, w)
    BY <2>7, <2>8, PapTimeoutSettles DEF PapMoves
  <2>10. PapSettles(w, u)
    BY <2>2, <2>4, <2>6, <2>8, <2>9, PapBuildPendingSettles DEF PapSettles, PapMoves
  <2>11. PapMoves(t, u)
    BY <2>3, <2>5, <2>7, <2>9, <2>10 DEF PapSettles, PapMoves
  <2>12. ASSUME t.lcp.auth = "PAP", u.pap.state = "Opened"
         PROVE  t.pap.state = "Opened" \/ PapAccepted(t)
    BY <2>3, <2>5, <2>7, <2>9, <2>10, <2>12 DEF PapSettles, PapUnraised, PapAccepted
  <2>13. QED
    BY <1>2, <1>5, <2>11, <2>12
<1>6. QED
  BY <1>3, <1>4, <1>5

-----------------------------------------------------------------------------
\* CHAP.

ChapMoves(t, u) ==
    /\ Sound(u)
    /\ u.modem = t.modem /\ u.enabled = t.enabled /\ u.active = t.active
    /\ u.lcp = t.lcp /\ u.pap = t.pap /\ u.ipcp = t.ipcp /\ u.icmpPending = t.icmpPending
    /\ u.frame = t.frame \/ u.frame = None
    /\ u.tx = t.tx \/ (t.tx = None /\ u.tx = "CHAP")

ChapTakes(t, kinds) == t.frame # None /\ t.frame.proto = "CHAP" /\ t.frame.kind \in kinds

LEMMA ChapMovesTrans ==
    ASSUME NEW t, NEW u, NEW v, ChapMoves(t, u), ChapMoves(u, v)
    PROVE  ChapMoves(t, v)
BY DEF ChapMoves

LEMMA ChapMovesRefl ==
    ASSUME NEW t, Sound(t)
    PROVE  ChapMoves(t, t)
BY DEF ChapMoves

PutChap(t, c, x) == [t EXCEPT !.chap = c, !.tx = x]

LEMMA PutChapMoves ==
    ASSUME NEW t, Sound(t), NEW c \in ChapLayers, NEW x \in TxOwners \cup {None},
           x = t.tx \/ (t.tx = None /\ x = "CHAP")
    PROVE  /\ ChapMoves(t, PutChap(t, c, x))
           /\ PutChap(t, c, x).chap = c /\ PutChap(t, c, x).frame = t.frame
           /\ PutChap(t, c, x).tx = x
BY DEF Sound, SharedStates, ChapMoves, PutChap

LEMMA ChapReleases ==
    ASSUME NEW t, Sound(t)
    PROVE  ChapMoves(t, pppReleaseFrame(t)) /\ pppReleaseFrame(t).chap = t.chap
BY DEF Sound, SharedStates, ChapMoves, pppReleaseFrame

LEMMA ChapClears ==
    ASSUME NEW t, Sound(t)
    PROVE  LET u == pppPapCredentialsClearSensitive(t)
           IN  ChapMoves(t, u) /\ u.chap = t.chap /\ u.frame = t.frame /\ u.tx = t.tx
BY ClearSensitiveKeeps DEF ChapMoves

LEMMA ChapBuildPendingMoves ==
    ASSUME NEW t, Sound(t)
    PROVE  LET u == pppChapBuildPending(t)
           IN  /\ ChapMoves(t, u) /\ u.frame = t.frame
               /\ u.chap.state = "Opened" => t.chap.state = "Opened"
               /\ t.chap.state # "ResponsePending" => u = t
<1>1. PICK c : c = t.chap
  OBVIOUS
<1>2. c \in ChapLayers /\ t.tx \in TxOwners \cup {None} /\ t \in SharedStates
  BY <1>1 DEF Sound, SharedStates
<1>3. PICK u : u = pppChapBuildPending(t)
  OBVIOUS
<1> HIDE <1>3
<1>4. CASE c.state # "ResponsePending" \/ EncoderBusy(t)
  <2>1. u = t
    BY <1>1, <1>3, <1>4 DEF pppChapBuildPending
  <2>2. QED
    BY <1>3, <2>1, ChapMovesRefl
<1>5. CASE c.state = "ResponsePending" /\ ~EncoderBusy(t) /\ ~pppPapCredentialsReady(t)
  <2>1. PICK d : d = [c EXCEPT !.state = "Failed"]
    OBVIOUS
  <2>1a. d \in ChapLayers /\ d.state = "Failed"
    BY <1>2, <2>1 DEF ChapLayers
  <2>2. u = PutChap(t, d, t.tx)
    BY <1>1, <1>2, <1>3, <1>5, <2>1 DEF pppChapBuildPending, PutChap, SharedStates
  <2>3. QED
    BY <1>1, <1>2, <1>3, <1>5, <2>1a, <2>2, PutChapMoves
<1>6. CASE c.state = "ResponsePending" /\ ~EncoderBusy(t) /\ pppPapCredentialsReady(t)
  <2>1. PICK d : d = [c EXCEPT !.state = "WaitingResult"]
    OBVIOUS
  <2>1a. d \in ChapLayers /\ d.state = "WaitingResult"
    BY <1>2, <2>1 DEF ChapLayers
  <2>2. u = PutChap(t, d, "CHAP")
    BY <1>1, <1>2, <1>3, <1>6, <2>1 DEF pppChapBuildPending, PutChap, SharedStates
  <2>3. t.tx = None /\ "CHAP" \in TxOwners \cup {None}
    BY <1>6 DEF EncoderBusy, TxOwners
  <2>4. QED
    BY <1>1, <1>2, <1>3, <1>6, <2>1a, <2>2, <2>3, PutChapMoves
<1>7. QED
  BY <1>4, <1>5, <1>6

LEMMA ChapReceiveFrameMoves ==
    ASSUME NEW t, Sound(t), t.frame # None, t.frame.proto = "CHAP"
    PROVE  LET u == pppChapReceiveFrame(t)
           IN  /\ ChapMoves(t, u)
               /\ u.chap.state = "Opened" =>
                     \/ t.chap.state = "Opened" /\ ~ChapTakes(t, {"Challenge", "Repeat"})
                     \/ t.chap.state = "WaitingResult" /\ ChapTakes(t, {"Success"})
<1>1. PICK c : c = t.chap
  OBVIOUS
<1>2. c \in ChapLayers /\ t.tx \in TxOwners \cup {None} /\ t \in SharedStates
  BY <1>1 DEF Sound, SharedStates
<1>3. PICK u : u = pppChapReceiveFrame(t)
  OBVIOUS
<1>4. PICK kind : kind = t.frame.kind
  OBVIOUS
<1> HIDE <1>3
<1>5. CASE /\ kind \in {"Challenge", "Repeat"}
           /\ c.state \in {"WaitingChallenge", "WaitingResult", "Opened"}
  <2>1. PICK d : d = [state |-> "ResponsePending", matches |-> TRUE]
    OBVIOUS
  <2>1a. d \in ChapLayers /\ d.state = "ResponsePending"
    BY <2>1 DEF ChapLayers
  <2>2. u = PutChap(t, d, t.tx)
    BY <1>1, <1>2, <1>3, <1>4, <1>5, <2>1 DEF pppChapReceiveFrame, PutChap, SharedStates
  <2>3. QED
    BY <1>2, <1>3, <2>1a, <2>2, PutChapMoves
<1>6. CASE kind \in {"Success", "Failure"} /\ c.state = "WaitingResult"
  <2>1. PICK state \in {"Opened", "Failed"} :
            state = IF kind = "Success" THEN "Opened" ELSE "Failed"
    OBVIOUS
  <2>2. PICK d : d = [c EXCEPT !.state = state]
    OBVIOUS
  <2>2a. d \in ChapLayers /\ d.state = state
    BY <1>2, <2>2 DEF ChapLayers
  <2>3. u = pppPapCredentialsClearSensitive(PutChap(t, d, t.tx))
    BY <1>1, <1>2, <1>3, <1>4, <1>6, <2>1, <2>2 DEF pppChapReceiveFrame, PutChap, SharedStates
  <2>4. ChapMoves(t, PutChap(t, d, t.tx)) /\ PutChap(t, d, t.tx).chap = d
    BY <1>2, <2>2a, PutChapMoves
  <2>5. ChapMoves(PutChap(t, d, t.tx), u) /\ u.chap = d
    BY <2>3, <2>4, ChapClears DEF ChapMoves
  <2>6. QED
    BY <1>1, <1>3, <1>4, <1>6, <2>1, <2>2a, <2>4, <2>5, ChapMovesTrans DEF ChapTakes
<1>7. CASE /\ ~(/\ kind \in {"Challenge", "Repeat"}
                /\ c.state \in {"WaitingChallenge", "WaitingResult", "Opened"})
           /\ ~(kind \in {"Success", "Failure"} /\ c.state = "WaitingResult")
  <2>1. PICK b \in BOOLEAN :
            b = (c.matches /\ (c.state = "ResponsePending" => kind = "Repeat"))
    OBVIOUS
  <2>2. PICK d : d = [c EXCEPT !.matches = b]
    OBVIOUS
  <2>2a. d \in ChapLayers /\ d.state = c.state
    BY <1>2, <2>2 DEF ChapLayers
  <2>3. u = PutChap(t, d, t.tx)
    BY <1>1, <1>2, <1>3, <1>4, <1>7, <2>1, <2>2 DEF pppChapReceiveFrame, PutChap, SharedStates
  <2>4. QED
    BY <1>1, <1>2, <1>3, <1>4, <1>7, <2>2a, <2>3, PutChapMoves DEF ChapTakes
<1>8. QED
  BY <1>5, <1>6, <1>7

LEMMA ChapTakesFrameMoves ==
    ASSUME NEW t, Sound(t)
    PROVE  LET u == ChapTakesFrame(t)
           IN  /\ ChapMoves(t, u)
               /\ u.chap.state = "Opened" =>
                     \/ t.chap.state = "Opened" /\ ~ChapTakes(t, {"Challenge", "Repeat"})
                     \/ t.chap.state = "WaitingResult" /\ ChapTakes(t, {"Success"})
<1>1. CASE t.frame = None
  BY <1>1, ChapMovesRefl DEF ChapTakesFrame, ChapTakes
<1>2. CASE t.frame # None /\ t.frame.proto = "CHAP"
  <2>1. PICK r : r = pppChapReceiveFrame(t)
    OBVIOUS
  <2>2. /\ ChapMoves(t, r)
        /\ r.chap.state = "Opened" =>
              \/ t.chap.state = "Opened" /\ ~ChapTakes(t, {"Challenge", "Repeat"})
              \/ t.chap.state = "WaitingResult" /\ ChapTakes(t, {"Success"})
    BY <1>2, <2>1, ChapReceiveFrameMoves
  <2>3. PICK v : v = pppReleaseFrame(r)
    OBVIOUS
  <2>4. ChapMoves(r, v) /\ v.chap = r.chap
    BY <2>2, <2>3, ChapReleases DEF ChapMoves
  <2>5. ChapTakesFrame(t) = pppChapBuildPending(v)
    BY <1>2, <2>1, <2>3 DEF ChapTakesFrame
  <2>6. /\ ChapMoves(v, ChapTakesFrame(t))
        /\ ChapTakesFrame(t).chap.state = "Opened" => v.chap.state = "Opened"
    BY <2>4, <2>5, ChapBuildPendingMoves DEF ChapMoves
  <2>7. QED
    BY <2>2, <2>4, <2>6, ChapMovesTrans
<1>3. CASE t.frame # None /\ t.frame.proto # "CHAP"
  <2>1. ChapTakesFrame(t) \in {t, pppReleaseFrame(t)}
    BY <1>3 DEF ChapTakesFrame
  <2>2. ~ChapTakes(t, {"Challenge", "Repeat"})
    BY <1>3 DEF ChapTakes
  <2>3. QED
    BY <2>1, <2>2, ChapReleases, ChapMovesRefl
<1>4. QED
  BY <1>1, <1>2, <1>3

\* The CHAP poll: without LCP it is Inactive and sends nothing; where the peer
\* asked for CHAP it is open only by the peer's Success to its Response, and
\* until the next Challenge.
LEMMA ChapPollMoves ==
    ASSUME NEW t, Sound(t)
    PROVE  LET u == pppChapPoll(t)
           IN  /\ ChapMoves(t, u)
               /\ ~LcpUp(t) => u.chap.state = "Inactive" /\ u.frame = t.frame /\ u.tx = t.tx
               /\ LcpUp(t) /\ t.lcp.auth = "CHAP" /\ u.chap.state = "Opened" =>
                     \/ t.chap.state = "Opened" /\ ~ChapTakes(t, {"Challenge", "Repeat"})
                     \/ /\ pppChapBuildPending(t).chap.state = "WaitingResult"
                        /\ ChapTakes(t, {"Success"})
<1>1. PICK c : c = t.chap
  OBVIOUS
<1>2. c \in ChapLayers /\ t.tx \in TxOwners \cup {None} /\ t \in SharedStates
  BY <1>1 DEF Sound, SharedStates
<1>3. PICK u : u = pppChapPoll(t)
  OBVIOUS
<1> HIDE <1>3
<1>4. CASE ~LcpUp(t) /\ c.state = "Inactive"
  <2>1. u = t
    BY <1>1, <1>3, <1>4 DEF pppChapPoll
  <2>2. QED
    BY <1>1, <1>3, <1>4, <2>1, ChapMovesRefl
<1>5. CASE ~LcpUp(t) /\ c.state # "Inactive"
  <2>1. PICK d : d = [c EXCEPT !.state = "Inactive"]
    OBVIOUS
  <2>2. d \in ChapLayers /\ d.state = "Inactive"
    BY <1>2, <2>1 DEF ChapLayers
  <2>3. u = pppPapCredentialsClearSensitive(PutChap(t, d, t.tx))
    BY <1>1, <1>2, <1>3, <1>5, <2>1 DEF pppChapPoll, pppChapLowerDown, PutChap, SharedStates
  <2>4. /\ ChapMoves(t, PutChap(t, d, t.tx)) /\ PutChap(t, d, t.tx).chap = d
        /\ PutChap(t, d, t.tx).frame = t.frame /\ PutChap(t, d, t.tx).tx = t.tx
    BY <1>2, <2>2, PutChapMoves
  <2>5. ChapMoves(PutChap(t, d, t.tx), u) /\ u.chap = d /\ u.frame = t.frame /\ u.tx = t.tx
    BY <2>3, <2>4, ChapClears DEF ChapMoves
  <2>6. QED
    BY <1>3, <1>5, <2>2, <2>4, <2>5, ChapMovesTrans
<1>6. CASE LcpUp(t) /\ c.state = "Inactive"
  <2>1. PICK state : state = CASE t.lcp.auth # "CHAP" -> "Opened"
              [] t.lcp.auth = "CHAP" /\ pppPapCredentialsReady(t) -> "WaitingChallenge"
              [] OTHER -> "Failed"
    OBVIOUS
  <2>2. /\ state \in {"Opened", "WaitingChallenge", "Failed"}
        /\ t.lcp.auth = "CHAP" => state # "Opened"
    BY <2>1
  <2>3. PICK d : d = [c EXCEPT !.state = state]
    OBVIOUS
  <2>4. d \in ChapLayers /\ d.state = state
    BY <1>2, <2>2, <2>3 DEF ChapLayers
  <2>5. PICK v : v = PutChap(t, d, t.tx)
    OBVIOUS
  <2>6. ChapMoves(t, v) /\ v.chap = d
    BY <1>2, <2>4, <2>5, PutChapMoves
  <2>7. pppChapLowerUp(t) = v
    BY <1>1, <1>2, <2>1, <2>3, <2>5 DEF pppChapLowerUp, PutChap, SharedStates
  <2>8. pppChapBuildPending(v) = v
    BY <2>2, <2>4, <2>6, ChapBuildPendingMoves DEF ChapMoves
  <2>9. u = ChapTakesFrame(v)
    BY <1>1, <1>3, <1>6, <2>7, <2>8 DEF pppChapPoll
  <2>10. /\ ChapMoves(v, u)
         /\ u.chap.state = "Opened" => v.chap.state \in {"Opened", "WaitingResult"}
    BY <2>6, <2>9, ChapTakesFrameMoves DEF ChapMoves
  <2>11. ChapMoves(t, u)
    BY <2>6, <2>10, ChapMovesTrans
  <2>12. t.lcp.auth = "CHAP" => u.chap.state # "Opened"
    BY <2>2, <2>4, <2>6, <2>10
  <2>13. QED
    BY <1>3, <1>6, <2>11, <2>12
<1>7. CASE LcpUp(t) /\ c.state # "Inactive"
  <2>1. PICK v : v = pppChapBuildPending(t)
    OBVIOUS
  <2>2. /\ ChapMoves(t, v) /\ v.frame = t.frame
        /\ v.chap.state = "Opened" => t.chap.state = "Opened"
    BY <2>1, ChapBuildPendingMoves
  <2>3. u = ChapTakesFrame(v)
    BY <1>1, <1>3, <1>7, <2>1 DEF pppChapPoll
  <2>4. /\ ChapMoves(v, u)
        /\ u.chap.state = "Opened" =>
              \/ v.chap.state = "Opened" /\ ~ChapTakes(v, {"Challenge", "Repeat"})
              \/ v.chap.state = "WaitingResult" /\ ChapTakes(v, {"Success"})
    BY <2>2, <2>3, ChapTakesFrameMoves DEF ChapMoves
  <2>5. ChapMoves(t, u)
    BY <2>2, <2>4, ChapMovesTrans
  <2>6. QED
    BY <1>3, <1>7, <2>1, <2>2, <2>4, <2>5 DEF ChapTakes
<1>8. QED
  BY <1>4, <1>5, <1>6, <1>7

-----------------------------------------------------------------------------
\* IPCP, the layer record.

LEMMA IpcpUnknownSound ==
    ASSUME NEW l, SoundIpcp(l)
    PROVE  LET m == [l EXCEPT !.known = FALSE]
           IN  SoundIpcp(m) /\ m.state = l.state /\ m.pending = l.pending
BY DEF SoundIpcp, IpcpAwake, IpcpLayers

LEMMA IpcpTimeoutSound ==
    ASSUME NEW l, SoundIpcp(l)
    PROVE  SoundIpcp(IpcpTimeout(l)) /\ (l.state # "Closed" => IpcpTimeout(l).state # "Closed")
<1> USE DEF SoundIpcp, Negotiating
<1>1. CASE l.timer # "expired"
  BY <1>1 DEF IpcpTimeout
<1>2. CASE l.timer = "expired" /\ l.state \notin Negotiating
  <2>1. IpcpTimeout(l) = [l EXCEPT !.timer = "off", !.deferred = FALSE]
    BY <1>2 DEF IpcpTimeout
  <2>2. QED
    BY <1>2, <2>1 DEF IpcpAwake, IpcpLayers, Timers
<1>3. CASE l.timer = "expired" /\ l.state \in Negotiating /\ l.remaining = 0
  <2>1. IpcpTimeout(l) = [l EXCEPT !.state = "Stopped", !.pending = None,
                                   !.timer = "off", !.deferred = FALSE]
    BY <1>3 DEF IpcpTimeout
  <2>2. QED
    BY <1>3, <2>1 DEF IpcpAwake, IpcpLayers, Timers, IpcpActions
<1>4. CASE l.timer = "expired" /\ l.state \in Negotiating /\ l.remaining > 0
  <2>1. PICK k \in Nat : k = l.remaining - 1
    BY <1>4 DEF IpcpLayers
  <2>2. PICK state \in Negotiating :
            state = IF l.state = "AckReceived" THEN "RequestSent" ELSE l.state
    BY <1>4
  <2>3. IpcpTimeout(l) = [l EXCEPT !.remaining = k, !.pending = "ConfReq", !.state = state,
                                   !.timer = "off", !.deferred = FALSE]
    BY <1>4, <2>1, <2>2 DEF IpcpTimeout
  <2>4. QED
    BY <1>4, <2>2, <2>3 DEF IpcpAwake, IpcpLayers, Timers, IpcpActions
<1>5. QED
  BY <1>1, <1>2, <1>3, <1>4 DEF IpcpLayers

LEMMA IpcpSentSound ==
    ASSUME NEW l, SoundIpcp(l), l.pending # None
    PROVE  /\ IpcpSent(l) \in IpcpLayers
           /\ IpcpSent(l).state = l.state /\ IpcpSent(l).pending = None
           /\ l.pending = "ConfReq" => SoundIpcp(IpcpSent(l))
           /\ l.pending \in IpcpResponses =>
                LET m == IpcpPromoteDeferred(IpcpSent(l))
                IN  SoundIpcp(m) /\ m.state = l.state
<1>1. PICK timer \in Timers : timer = IF l.pending = "ConfReq" THEN "armed" ELSE l.timer
  BY DEF SoundIpcp, IpcpLayers, Timers
<1>2. IpcpSent(l) = [l EXCEPT !.timer = timer, !.pending = None]
  BY <1>1 DEF IpcpSent
<1>3. /\ IpcpSent(l) \in IpcpLayers
      /\ IpcpSent(l).state = l.state /\ IpcpSent(l).pending = None
      /\ IpcpSent(l).timer = timer /\ IpcpSent(l).deferred = l.deferred
  BY <1>2 DEF SoundIpcp, IpcpLayers, IpcpActions
<1>4. ASSUME l.pending = "ConfReq" PROVE SoundIpcp(IpcpSent(l))
  BY <1>1, <1>3, <1>4 DEF SoundIpcp, IpcpAwake
<1>5. ASSUME l.pending \in IpcpResponses
      PROVE  LET m == IpcpPromoteDeferred(IpcpSent(l))
             IN  SoundIpcp(m) /\ m.state = l.state
  <2>1. PICK m \in IpcpLayers : m = IpcpSent(l)
    BY <1>3
  <2>2. CASE m.deferred
    <3>1. IpcpPromoteDeferred(m) = [m EXCEPT !.deferred = FALSE, !.pending = "ConfReq"]
      BY <2>2 DEF IpcpPromoteDeferred
    <3>2. QED
      BY <3>1, <2>1, <1>3 DEF SoundIpcp, IpcpAwake, IpcpLayers, IpcpActions
  <2>3. CASE ~m.deferred
    <3>1. IpcpPromoteDeferred(m) = m
      BY <2>3 DEF IpcpPromoteDeferred
    <3>2. QED
      BY <3>1, <2>1, <2>3, <1>1, <1>3, <1>5 DEF SoundIpcp, IpcpAwake, IpcpLayers, IpcpResponses
  <2>4. QED
    BY <2>1, <2>2, <2>3
<1>6. QED
  BY <1>3, <1>4, <1>5

-----------------------------------------------------------------------------
\* IPCP, the shared state.

\* The IPCP poll while the layers below are up: its own layer, which does not
\* close, the frame and the encoder, which keeps a Terminate-Ack.
IpcpMoves(t, u) ==
    /\ Sound(u)
    /\ u.modem = t.modem /\ u.enabled = t.enabled /\ u.active = t.active
    /\ u.lcp = t.lcp /\ u.pap = t.pap /\ u.chap = t.chap
    /\ u.credentials = t.credentials /\ u.icmpPending = t.icmpPending
    /\ u.frame = t.frame \/ u.frame = None
    /\ u.tx = t.tx \/ (t.tx # "TermAck" /\ u.tx \in NetworkOwners)
    /\ t.ipcp.state # "Closed" => u.ipcp.state # "Closed"

LEMMA IpcpMovesTrans ==
    ASSUME NEW t, NEW u, NEW v, IpcpMoves(t, u), IpcpMoves(u, v)
    PROVE  IpcpMoves(t, v)
BY DEF IpcpMoves

LEMMA IpcpMovesRefl ==
    ASSUME NEW t, Sound(t)
    PROVE  IpcpMoves(t, t)
BY DEF IpcpMoves

PutIpcp(t, l, x) == [t EXCEPT !.ipcp = l, !.tx = x]

LEMMA PutIpcpMoves ==
    ASSUME NEW t, Sound(t), NEW l, SoundIpcp(l), NEW x \in TxOwners \cup {None},
           x = t.tx \/ (t.tx # "TermAck" /\ x \in NetworkOwners),
           t.ipcp.state # "Closed" => l.state # "Closed"
    PROVE  /\ IpcpMoves(t, PutIpcp(t, l, x))
           /\ PutIpcp(t, l, x).ipcp = l /\ PutIpcp(t, l, x).frame = t.frame
BY DEF Sound, SoundIpcp, SharedStates, IpcpMoves, PutIpcp

LEMMA WithIpcp ==
    ASSUME NEW t, Sound(t), NEW l, SoundIpcp(l), t.ipcp.state # "Closed" => l.state # "Closed"
    PROVE  LET u == [t EXCEPT !.ipcp = l]
           IN  IpcpMoves(t, u) /\ u.ipcp = l /\ u.tx = t.tx /\ u.frame = t.frame
BY DEF Sound, SoundIpcp, SharedStates, IpcpMoves

LEMMA IpcpReleases ==
    ASSUME NEW t, Sound(t)
    PROVE  IpcpMoves(t, pppReleaseFrame(t)) /\ pppReleaseFrame(t).ipcp = t.ipcp
           /\ pppReleaseFrame(t).frame = None
BY DEF Sound, SharedStates, IpcpMoves, pppReleaseFrame

LEMMA IpcpNextIdentifierMoves ==
    ASSUME NEW t, Sound(t), NEW l, SoundIpcp(l), l.state # "Closed"
    PROVE  IpcpMoves(t, IpcpNextIdentifier(t, l))
<1>1. PICK m : m = [l EXCEPT !.known = FALSE]
  OBVIOUS
<1>2. SoundIpcp(m) /\ m.state = l.state
  BY <1>1, IpcpUnknownSound
<1>3. PICK x : x = IF t.tx = "IpcpRequest" THEN "IPCP" ELSE t.tx
  OBVIOUS
<1>4. /\ x \in TxOwners \cup {None}
      /\ x = t.tx \/ (t.tx # "TermAck" /\ x \in NetworkOwners)
  BY <1>3 DEF Sound, SharedStates, TxOwners, NetworkOwners
<1>5. IpcpNextIdentifier(t, l) = PutIpcp(t, m, x)
  BY <1>1, <1>3 DEF IpcpNextIdentifier, PutIpcp
<1>6. QED
  BY <1>2, <1>4, <1>5, PutIpcpMoves

LEMMA IpcpNewRequestMoves ==
    ASSUME NEW t, Sound(t), NEW state \in {"RequestSent", "AckSent"}
    PROVE  IpcpMoves(t, IpcpNewRequest(t, state))
<1>1. PICK k \in Nat : k = MaxConfigure - 1
  BY LimitsAssumption
<1>2. PICK l : l = [t.ipcp EXCEPT !.state = state, !.remaining = k, !.timer = "off",
                                  !.deferred = FALSE, !.pending = "ConfReq"]
  OBVIOUS
<1>3. t.ipcp \in IpcpLayers
  BY DEF Sound, SharedStates
<1>4. SoundIpcp(l) /\ l.state # "Closed"
  BY <1>2, <1>3 DEF SoundIpcp, IpcpAwake, IpcpLayers, Timers, IpcpActions, Negotiating
<1>5. IpcpNewRequest(t, state) = IpcpNextIdentifier(t, l)
  BY <1>1, <1>2 DEF IpcpNewRequest
<1>6. QED
  BY <1>4, <1>5, IpcpNextIdentifierMoves

LEMMA IpcpServicePendingMoves ==
    ASSUME NEW t, Sound(t)
    PROVE  LET u == IpcpServicePending(t)
           IN  /\ IpcpMoves(t, u)
               /\ u.ipcp.state = t.ipcp.state
               /\ ~IpcpBlocked(t) /\ u.frame # None => u.ipcp.pending = None
<1>1. PICK l : l = t.ipcp
  OBVIOUS
<1>2. SoundIpcp(l) /\ l \in IpcpLayers /\ t \in SharedStates
  BY <1>1 DEF Sound, SharedStates, SoundIpcp
<1>3. PICK u : u = IpcpServicePending(t)
  OBVIOUS
<1> HIDE <1>3
<1>4. CASE l.pending = None \/ t.tx # None
  <2>1. u = t
    BY <1>1, <1>3, <1>4, NoneIsNothing DEF IpcpServicePending, EncoderBusy
  <2>2. QED
    BY <1>1, <1>3, <2>1, <1>4, IpcpMovesRefl DEF IpcpBlocked, EncoderBusy
<1>5. CASE l.pending = "ConfReq" /\ t.tx = None
  <2>1. SoundIpcp(IpcpSent(l)) /\ IpcpSent(l).state = l.state /\ IpcpSent(l).pending = None
    BY <1>2, <1>5, IpcpSentSound, NoneIsNothing
  <2>2. pppIpcpBuildPending(t) = PutIpcp(t, IpcpSent(l), "IpcpRequest")
    BY <1>1, <1>5 DEF pppIpcpBuildPending, PutIpcp
  <2>3. u = PutIpcp(t, IpcpSent(l), "IpcpRequest")
    BY <1>1, <1>3, <1>5, <2>2, NoneIsNothing DEF IpcpServicePending, EncoderBusy
  <2>4. t.tx # "TermAck" /\ "IpcpRequest" \in NetworkOwners /\ "IpcpRequest" \in TxOwners
    BY <1>5, NoneIsNothing DEF TxOwners, NetworkOwners
  <2>5. QED
    BY <1>1, <1>3, <1>5, <2>1, <2>3, <2>4, PutIpcpMoves
<1>6. CASE l.pending \in IpcpResponses /\ t.tx = None
  <2>1. PICK m : m = IpcpPromoteDeferred(IpcpSent(l))
    OBVIOUS
  <2>2. l.pending # None /\ l.pending # "ConfReq"
    BY <1>6, NoneIsNothing DEF IpcpResponses, LcpResponses
  <2>3. SoundIpcp(m) /\ m.state = l.state
    BY <1>2, <1>6, <2>1, <2>2, IpcpSentSound
  <2>4. [pppIpcpBuildPending(t) EXCEPT !.ipcp = IpcpPromoteDeferred(@)] = PutIpcp(t, m, "IPCP")
    BY <1>1, <1>2, <2>1, <2>2 DEF pppIpcpBuildPending, SharedStates, PutIpcp
  <2>5. u = pppReleaseFrame(PutIpcp(t, m, "IPCP"))
    <3>1. u = pppReleaseFrame([pppIpcpBuildPending(t) EXCEPT !.ipcp = IpcpPromoteDeferred(@)])
      BY <1>1, <1>3, <1>6, <2>2 DEF IpcpServicePending, EncoderBusy
    <3>2. QED
      BY <3>1, <2>4
  <2>6. t.tx # "TermAck" /\ "IPCP" \in NetworkOwners /\ "IPCP" \in TxOwners
    BY <1>6, NoneIsNothing DEF TxOwners, NetworkOwners
  <2>7. IpcpMoves(t, PutIpcp(t, m, "IPCP")) /\ PutIpcp(t, m, "IPCP").ipcp = m
    BY <1>1, <2>3, <2>6, PutIpcpMoves
  <2>8. IpcpMoves(PutIpcp(t, m, "IPCP"), u) /\ u.ipcp = m /\ u.frame = None
    BY <2>5, <2>7, IpcpReleases DEF IpcpMoves
  <2>9. QED
    BY <1>1, <1>3, <2>3, <2>7, <2>8, IpcpMovesTrans
<1>7. QED
  BY <1>2, <1>4, <1>5, <1>6 DEF IpcpLayers, IpcpActions

LEMMA IpcpTimerMoves ==
    ASSUME NEW t, Sound(t)
    PROVE  IpcpMoves(t, IpcpTimer(t))
<1>1. SoundIpcp(t.ipcp)
  BY DEF Sound, SharedStates, SoundIpcp
<1>2. PICK m : m = IpcpTimeout(t.ipcp)
  OBVIOUS
<1>3. SoundIpcp(m) /\ (t.ipcp.state # "Closed" => m.state # "Closed")
  BY <1>1, <1>2, IpcpTimeoutSound
<1>4. pppIpcpPollTimeout(t) = [t EXCEPT !.ipcp = m]
  BY <1>2 DEF pppIpcpPollTimeout
<1>5. IpcpMoves(t, pppIpcpPollTimeout(t))
  BY <1>3, <1>4, WithIpcp
<1>6. IpcpMoves(pppIpcpPollTimeout(t), IpcpTimer(t))
  BY <1>5, IpcpServicePendingMoves DEF IpcpTimer, IpcpMoves
<1>7. QED
  BY <1>5, <1>6, IpcpMovesTrans

\* A packet is handled while no answer waits, so a negotiating layer has its
\* timer running.
LEMMA IpcpIdleHasTimer ==
    ASSUME NEW l, SoundIpcp(l), l.pending = None, l.state \in Negotiating
    PROVE  l.timer # "off"
BY NoneIsNothing DEF SoundIpcp, IpcpAwake, IpcpResponses, LcpResponses

LEMMA IpcpConfigureRequestMoves ==
    ASSUME NEW t, Sound(t), NEW kind, t.ipcp.pending = None,
           t.ipcp.state \notin {"Closed", "Stopped"}
    PROVE  IpcpMoves(t, IpcpConfigureRequest(t, kind))
<1>1. PICK l : l = t.ipcp
  OBVIOUS
<1>2. SoundIpcp(l) /\ l \in IpcpLayers
  BY <1>1 DEF Sound, SharedStates, SoundIpcp
<1>3. PICK m : m = IpcpAnswered(l, kind)
  OBVIOUS
<1>4. PICK action \in IpcpResponses : action = IpcpVerdict(kind)
  BY DEF IpcpVerdict, IpcpResponses
<1>5. PICK state \in {"AckSent", "RequestSent"} :
          state = IF IpcpVerdict(kind) = "ConfAck" THEN "AckSent" ELSE "RequestSent"
  OBVIOUS
<1>6. m = [l EXCEPT !.pending = action, !.state = state]
  BY <1>3, <1>4, <1>5 DEF IpcpAnswered
<1>7. /\ m \in IpcpLayers /\ m.pending \in IpcpResponses /\ m.state = state
      /\ m.timer = l.timer
  BY <1>2, <1>6 DEF IpcpLayers, IpcpActions, Negotiating
<1>8. CASE l.state = "Opened"
  <2>1. PICK k \in Nat : k = MaxConfigure - 1
    BY LimitsAssumption
  <2>2. PICK n : n = [m EXCEPT !.remaining = k, !.timer = "off", !.deferred = TRUE]
    OBVIOUS
  <2>3. SoundIpcp(n) /\ n.state # "Closed"
    BY <1>7, <2>2 DEF SoundIpcp, IpcpAwake, IpcpLayers, Timers
  <2>4. IpcpConfigureRequest(t, kind) = IpcpNextIdentifier(t, n)
    BY <1>1, <1>3, <1>8, <2>1, <2>2 DEF IpcpConfigureRequest
  <2>5. QED
    BY <2>3, <2>4, IpcpNextIdentifierMoves
<1>9. CASE l.state = "AckReceived" /\ IpcpVerdict(kind) = "ConfAck"
  <2>1. PICK n : n = [m EXCEPT !.state = "Opened", !.remaining = 0, !.timer = "off"]
    OBVIOUS
  <2>2. SoundIpcp(n) /\ n.state # "Closed"
    BY <1>7, <2>1 DEF SoundIpcp, IpcpAwake, IpcpLayers, Timers, Negotiating
  <2>3. IpcpConfigureRequest(t, kind) = [t EXCEPT !.ipcp = n]
    BY <1>1, <1>3, <1>9, <2>1 DEF IpcpConfigureRequest
  <2>4. QED
    BY <2>2, <2>3, WithIpcp
<1>10. CASE l.state = "AckReceived" /\ IpcpVerdict(kind) # "ConfAck"
  <2>1. PICK n : n = [m EXCEPT !.state = "AckReceived"]
    OBVIOUS
  <2>2. l.timer # "off"
    BY <1>1, <1>2, <1>10, IpcpIdleHasTimer DEF Negotiating
  <2>3. SoundIpcp(n) /\ n.state # "Closed"
    BY <1>7, <2>1, <2>2 DEF SoundIpcp, IpcpAwake, IpcpLayers, Negotiating
  <2>4. IpcpConfigureRequest(t, kind) = [t EXCEPT !.ipcp = n]
    BY <1>1, <1>3, <1>10, <2>1 DEF IpcpConfigureRequest
  <2>5. QED
    BY <2>3, <2>4, WithIpcp
<1>11. CASE l.state \in {"RequestSent", "AckSent"}
  <2>1. l.timer # "off"
    BY <1>1, <1>2, <1>11, IpcpIdleHasTimer DEF Negotiating
  <2>2. SoundIpcp(m) /\ m.state # "Closed"
    BY <1>7, <2>1 DEF SoundIpcp, IpcpAwake
  <2>3. IpcpConfigureRequest(t, kind) = [t EXCEPT !.ipcp = m]
    BY <1>1, <1>3, <1>11 DEF IpcpConfigureRequest
  <2>4. QED
    BY <2>2, <2>3, WithIpcp
<1>12. QED
  BY <1>1, <1>2, <1>8, <1>9, <1>10, <1>11 DEF IpcpLayers, Negotiating

LEMMA IpcpConfigureAckMoves ==
    ASSUME NEW t, Sound(t), t.ipcp.pending = None
    PROVE  IpcpMoves(t, IpcpConfigureAck(t))
<1>1. PICK l : l = t.ipcp
  OBVIOUS
<1>2. SoundIpcp(l) /\ l \in IpcpLayers
  BY <1>1 DEF Sound, SharedStates, SoundIpcp
<1>3. CASE l.state = "RequestSent"
  <2>1. PICK n : n = [l EXCEPT !.state = "AckReceived", !.remaining = MaxConfigure]
    OBVIOUS
  <2>2. l.timer # "off"
    BY <1>1, <1>2, <1>3, IpcpIdleHasTimer DEF Negotiating
  <2>3. SoundIpcp(n) /\ n.state # "Closed"
    BY <1>2, <2>1, <2>2, LimitsAssumption DEF SoundIpcp, IpcpAwake, IpcpLayers, Negotiating
  <2>4. IpcpConfigureAck(t) = [t EXCEPT !.ipcp = n]
    BY <1>1, <1>3, <2>1 DEF IpcpConfigureAck
  <2>5. QED
    BY <2>3, <2>4, WithIpcp
<1>4. CASE l.state = "AckSent"
  <2>1. PICK n : n = [l EXCEPT !.state = "Opened", !.remaining = 0, !.timer = "off"]
    OBVIOUS
  <2>2. SoundIpcp(n) /\ n.state # "Closed"
    BY <1>2, <2>1 DEF SoundIpcp, IpcpAwake, IpcpLayers, Timers, Negotiating
  <2>3. IpcpConfigureAck(t) = [t EXCEPT !.ipcp = n]
    BY <1>1, <1>4, <2>1 DEF IpcpConfigureAck
  <2>4. QED
    BY <2>2, <2>3, WithIpcp
<1>5. CASE l.state \notin {"RequestSent", "AckSent"}
  <2>1. IpcpConfigureAck(t) = IpcpNewRequest(t, "RequestSent")
    BY <1>1, <1>5 DEF IpcpConfigureAck
  <2>2. QED
    BY <2>1, IpcpNewRequestMoves
<1>6. QED
  BY <1>3, <1>4, <1>5

LEMMA IpcpReceiveFrameMoves ==
    ASSUME NEW t, Sound(t), t.ipcp.pending = None, t.ipcp.state \notin {"Closed", "Stopped"}
    PROVE  IpcpMoves(t, pppIpcpReceiveFrame(t))
<1>1. PICK kind : kind = t.frame.kind
  OBVIOUS
<1>2. PICK state \in {"RequestSent", "AckSent"} :
          state = IF t.ipcp.state = "AckSent" THEN "AckSent" ELSE "RequestSent"
  OBVIOUS
<1>3. CASE kind \in {"Accept", "Counter", "Refuse"}
  <2>1. pppIpcpReceiveFrame(t) = IpcpConfigureRequest(t, kind)
    BY <1>1, <1>3 DEF pppIpcpReceiveFrame
  <2>2. QED
    BY <2>1, IpcpConfigureRequestMoves
<1>4. CASE kind = "Ack" /\ t.ipcp.known
  <2>1. pppIpcpReceiveFrame(t) = IpcpConfigureAck(t)
    BY <1>1, <1>4 DEF pppIpcpReceiveFrame
  <2>2. QED
    BY <2>1, IpcpConfigureAckMoves
<1>5. CASE kind \in {"Nak", "Rej"} /\ t.ipcp.known
  <2>1. pppIpcpReceiveFrame(t) = IpcpNewRequest(t, state)
    BY <1>1, <1>2, <1>5 DEF pppIpcpReceiveFrame
  <2>2. QED
    BY <2>1, IpcpNewRequestMoves
<1>6. CASE /\ kind \notin {"Accept", "Counter", "Refuse"}
           /\ ~(kind \in {"Ack", "Nak", "Rej"} /\ t.ipcp.known)
  <2>1. pppIpcpReceiveFrame(t) = t
    BY <1>1, <1>6 DEF pppIpcpReceiveFrame
  <2>2. QED
    BY <2>1, IpcpMovesRefl
<1>7. QED
  BY <1>3, <1>4, <1>5, <1>6

LEMMA IpcpReceiveMoves ==
    ASSUME NEW t, Sound(t), t.ipcp.pending = None, t.ipcp.state \notin {"Closed", "Stopped"}
    PROVE  IpcpMoves(t, IpcpReceive(t))
<1>1. PICK r : r = pppIpcpReceiveFrame(t)
  OBVIOUS
<1>2. IpcpMoves(t, r) /\ Sound(r)
  BY <1>1, IpcpReceiveFrameMoves DEF IpcpMoves
<1>3. PICK v \in {r, pppReleaseFrame(r)} :
          IpcpReceive(t) = r \/ IpcpReceive(t) = IpcpTimer(IpcpServicePending(v))
  BY <1>1 DEF IpcpReceive
<1>4. IpcpMoves(r, v)
  BY <1>2, <1>3, IpcpMovesRefl, IpcpReleases
<1>5. IpcpMoves(v, IpcpServicePending(v))
  BY <1>4, IpcpServicePendingMoves DEF IpcpMoves
<1>6. IpcpMoves(IpcpServicePending(v), IpcpTimer(IpcpServicePending(v)))
  BY <1>5, IpcpTimerMoves DEF IpcpMoves
<1>7. QED
  BY <1>2, <1>3, <1>4, <1>5, <1>6, IpcpMovesTrans

LEMMA IpcpServiceMoves ==
    ASSUME NEW t, Sound(t), t.ipcp.state \notin {"Closed", "Stopped"}
    PROVE  IpcpMoves(t, IpcpService(t))
<1>1. CASE IpcpBlocked(t)
  BY <1>1, IpcpMovesRefl DEF IpcpService
<1>2. CASE ~IpcpBlocked(t)
  <2>1. PICK u : u = IpcpServicePending(t)
    OBVIOUS
  <2>2. /\ IpcpMoves(t, u) /\ Sound(u) /\ u.ipcp.state = t.ipcp.state
        /\ u.frame # None => u.ipcp.pending = None
    BY <1>2, <2>1, IpcpServicePendingMoves DEF IpcpMoves
  <2>3. IpcpService(t) = IpcpDispatch(u)
    BY <1>2, <2>1 DEF IpcpService
  <2>4. IpcpMoves(u, IpcpDispatch(u))
    <3>1. CASE u.frame # None /\ u.frame.proto = "IPCP"
      <4>1. IpcpDispatch(u) = IpcpReceive(u)
        BY <3>1 DEF IpcpDispatch
      <4>2. QED
        BY <2>2, <3>1, <4>1, IpcpReceiveMoves
    <3>2. CASE ~(u.frame # None /\ u.frame.proto = "IPCP")
      <4>1. IpcpDispatch(u) \in {u, IpcpTimer(u), IpcpTimer(pppReleaseFrame(u))}
        BY <3>2 DEF IpcpDispatch
      <4>2. IpcpMoves(u, pppReleaseFrame(u))
        BY <2>2, IpcpReleases
      <4>3. IpcpMoves(pppReleaseFrame(u), IpcpTimer(pppReleaseFrame(u)))
        BY <4>2, IpcpTimerMoves DEF IpcpMoves
      <4>4. QED
        BY <2>2, <4>1, <4>2, <4>3, IpcpMovesTrans, IpcpMovesRefl, IpcpTimerMoves
    <3>3. QED
      BY <3>1, <3>2
  <2>5. QED
    BY <2>2, <2>3, <2>4, IpcpMovesTrans
<1>3. QED
  BY <1>1, <1>2

\* The IPCP poll.  With the layers below down IPCP is Closed, and of the encoder
\* a Terminate-Ack survives on a live line; with them up IPCP has left Closed.
LEMMA IpcpPollDown ==
    ASSUME NEW t, Sound(t), ~IpcpLowerUp(t), t.ipcp.state = "Closed" => t.tx \notin NetworkOwners
    PROVE  LET u == pppIpcpPoll(t)
           IN  /\ Sound(u) /\ u.ipcp.state = "Closed" /\ u.tx \notin NetworkOwners
               /\ u.modem = t.modem /\ u.enabled = t.enabled /\ u.active = t.active
               /\ u.lcp = t.lcp /\ u.pap = t.pap /\ u.chap = t.chap
               /\ u.credentials = t.credentials /\ u.icmpPending = t.icmpPending
               /\ u.frame = t.frame \/ u.frame = None
               /\ u.tx = t.tx \/ (u.tx = None /\ ~(t.tx = "TermAck" /\ LowerAvailable(t)))
<1>1. CASE t.ipcp.state = "Closed"
  <2>1. pppIpcpPoll(t) = t
    BY <1>1 DEF pppIpcpPoll
  <2>2. QED
    BY <1>1, <2>1
<1>2. CASE t.ipcp.state # "Closed"
  <2>1. PICK l : l = [state |-> "Closed", pending |-> None, deferred |-> FALSE,
                      timer |-> "off", remaining |-> 0, known |-> FALSE]
    OBVIOUS
  <2>2. SoundIpcp(l) /\ l.state = "Closed"
    BY <2>1 DEF SoundIpcp, IpcpAwake, IpcpLayers, IpcpActions, Timers, Negotiating
  <2>3. PICK x : x = IF LowerAvailable(t) /\ t.tx \in {None, "TermAck"} THEN t.tx ELSE None
    OBVIOUS
  <2>4. pppIpcpPoll(t) = [t EXCEPT !.frame = None, !.ipcp = l, !.tx = x]
    <3>1. pppIpcpPoll(t) = IpcpGoesDown(t) /\ t \in SharedStates
      BY <1>2 DEF pppIpcpPoll, Sound
    <3>2. CASE LowerAvailable(t) /\ t.tx \in {None, "TermAck"}
      <4>1. IpcpGoesDown(t) = [t EXCEPT !.frame = None, !.ipcp = l]
        BY <2>1, <3>2 DEF IpcpGoesDown, pppIpcpLowerDown, pppReleaseFrame
      <4>2. QED
        BY <2>3, <3>1, <3>2, <4>1 DEF SharedStates
    <3>3. CASE ~(LowerAvailable(t) /\ t.tx \in {None, "TermAck"})
      BY <2>1, <2>3, <3>1, <3>3
         DEF IpcpGoesDown, pppIpcpLowerDown, pppReleaseFrame, pppTransmitAbort
    <3>4. QED
      BY <3>2, <3>3
  <2>5. x \in {t.tx, None} /\ x \notin NetworkOwners
        /\ (x = t.tx \/ (x = None /\ ~(t.tx = "TermAck" /\ LowerAvailable(t))))
    BY <2>3, NoneIsNothing DEF NetworkOwners, TxOwners
  <2>6. QED
    BY <2>2, <2>4, <2>5 DEF Sound, SoundIpcp, SharedStates
<1>3. QED
  BY <1>1, <1>2

LEMMA IpcpPollUp ==
    ASSUME NEW t, Sound(t), IpcpLowerUp(t)
    PROVE  IpcpMoves(t, pppIpcpPoll(t)) /\ pppIpcpPoll(t).ipcp.state # "Closed"
<1>1. CASE t.ipcp.state = "Closed"
  <2>1. PICK k \in Nat : k = MaxConfigure - 1
    BY LimitsAssumption
  <2>2. PICK l : l = [state |-> "RequestSent", pending |-> "ConfReq", deferred |-> FALSE,
                      timer |-> "off", remaining |-> k, known |-> TRUE]
    OBVIOUS
  <2>3. SoundIpcp(l) /\ l.state = "RequestSent"
    BY <2>2 DEF SoundIpcp, IpcpAwake, IpcpLayers, IpcpActions, Timers, Negotiating
  <2>4. pppIpcpLowerUp(t) = [t EXCEPT !.ipcp = l]
    BY <2>1, <2>2 DEF pppIpcpLowerUp
  <2>5. IpcpMoves(t, pppIpcpLowerUp(t)) /\ pppIpcpLowerUp(t).ipcp = l
    BY <2>3, <2>4, WithIpcp
  <2>6. pppIpcpPoll(t) = IpcpService(pppIpcpLowerUp(t))
    BY <1>1 DEF pppIpcpPoll
  <2>7. IpcpMoves(pppIpcpLowerUp(t), pppIpcpPoll(t))
    BY <2>3, <2>5, <2>6, IpcpServiceMoves DEF IpcpMoves
  <2>8. pppIpcpPoll(t).ipcp.state # "Closed"
    BY <2>3, <2>5, <2>7 DEF IpcpMoves
  <2>9. QED
    BY <2>5, <2>7, <2>8, IpcpMovesTrans
<1>2. CASE t.ipcp.state = "Stopped"
  <2>1. pppIpcpPoll(t) = pppReleaseFrame(t)
    BY <1>2 DEF pppIpcpPoll
  <2>2. QED
    BY <1>2, <2>1, IpcpReleases
<1>3. CASE t.ipcp.state \notin {"Closed", "Stopped"}
  <2>1. pppIpcpPoll(t) = IpcpService(t)
    BY <1>3 DEF pppIpcpPoll
  <2>2. QED
    BY <1>3, <2>1, IpcpServiceMoves DEF IpcpMoves
<1>4. QED
  BY <1>1, <1>2, <1>3

-----------------------------------------------------------------------------
\* IPv4.

PutIp(t, f, x, b) == [t EXCEPT !.frame = f, !.tx = x, !.icmpPending = b]

LEMMA PutIpKeeps ==
    ASSUME NEW t, Sound(t), NEW f \in Frames \cup {None}, NEW x \in TxOwners \cup {None},
           NEW b, b \in BOOLEAN
    PROVE  LET u == PutIp(t, f, x, b)
           IN  /\ Sound(u) /\ u.frame = f /\ u.tx = x
               /\ u.modem = t.modem /\ u.enabled = t.enabled /\ u.active = t.active
               /\ u.lcp = t.lcp /\ u.pap = t.pap /\ u.chap = t.chap /\ u.ipcp = t.ipcp
               /\ u.credentials = t.credentials
BY DEF Sound, SharedStates, PutIp

\* The IPv4 poll releases the frame or keeps it, and sends over a network that is
\* up only.
LEMMA Ipv4PollMoves ==
    ASSUME NEW t, Sound(t)
    PROVE  LET u == pppIpv4Poll(t)
           IN  /\ Sound(u)
               /\ u.modem = t.modem /\ u.enabled = t.enabled /\ u.active = t.active
               /\ u.lcp = t.lcp /\ u.pap = t.pap /\ u.chap = t.chap /\ u.ipcp = t.ipcp
               /\ u.credentials = t.credentials
               /\ u.frame = t.frame \/ u.frame = None
               /\ u.tx = t.tx \/ (t.tx = None /\ u.tx = "IP" /\ NetworkUp(t))
<1>1. PICK u : u = pppIpv4Poll(t)
  OBVIOUS
<1>2. t \in SharedStates
  BY DEF Sound
<1>3. PICK f, x, b : /\ u = [t EXCEPT !.frame = f, !.tx = x, !.icmpPending = b]
                     /\ f \in {t.frame, None} /\ b \in BOOLEAN
                     /\ x = t.tx \/ (t.tx = None /\ x = "IP" /\ NetworkUp(t))
  <2> HIDE <1>1
  <2>1. CASE ~HoldsDatagram(t)
    <3>1. u = t
      BY <1>1, <2>1 DEF pppIpv4Poll
    <3>2. u = [t EXCEPT !.frame = t.frame, !.tx = t.tx, !.icmpPending = t.icmpPending]
      BY <1>2, <3>1 DEF SharedStates
    <3>3. t.icmpPending \in BOOLEAN
      BY <1>2 DEF SharedStates
    <3>4. QED
      BY <3>2, <3>3
  <2>2. CASE HoldsDatagram(t) /\ ~NetworkUp(t)
    <3>1. u = [t EXCEPT !.frame = None, !.tx = t.tx, !.icmpPending = FALSE]
      BY <1>1, <1>2, <2>2 DEF pppIpv4Poll, pppReleaseFrame, pppIcmpCancelPending, SharedStates
    <3>2. QED
      BY <3>1
  <2>3. CASE HoldsDatagram(t) /\ NetworkUp(t) /\ t.tx = None
    <3>1. \E b \in BOOLEAN : \E x \in {t.tx, "IP"} :
             u = [t EXCEPT !.frame = None, !.tx = x, !.icmpPending = b]
      <4>1. CASE t.icmpPending
        <5>1. u = [t EXCEPT !.frame = None, !.tx = "IP", !.icmpPending = FALSE]
          BY <1>1, <1>2, <2>3, <4>1
             DEF pppIpv4Poll, pppIcmpRetryPending, EncoderBusy, pppReleaseFrame, SharedStates
        <5>2. QED
          BY <5>1
      <4>2. CASE ~t.icmpPending /\ t.frame.kind = "EchoRequest"
        <5>1. u = [t EXCEPT !.frame = None, !.tx = "IP", !.icmpPending = FALSE]
          BY <1>1, <1>2, <2>3, <4>2
             DEF pppIpv4Poll, pppIpv4ReceiveFrame, pppIcmpReceive, EncoderBusy, pppReleaseFrame,
                 SharedStates
        <5>2. QED
          BY <5>1
      <4>3. CASE ~t.icmpPending /\ t.frame.kind # "EchoRequest"
        <5>1. u = [t EXCEPT !.frame = None, !.tx = t.tx, !.icmpPending = FALSE]
          BY <1>1, <1>2, <2>3, <4>3
             DEF pppIpv4Poll, pppIpv4ReceiveFrame, pppReleaseFrame, SharedStates
        <5>2. QED
          BY <5>1
      <4>4. QED
        BY <4>1, <4>2, <4>3
    <3>2. QED
      BY <2>3, <3>1
  <2>4. CASE HoldsDatagram(t) /\ NetworkUp(t) /\ t.tx # None
    <3>1. \E b \in BOOLEAN : \E f \in {t.frame, None} :
             u = [t EXCEPT !.frame = f, !.tx = t.tx, !.icmpPending = b]
      <4>1. CASE t.icmpPending \/ t.frame.kind = "EchoRequest"
        <5>1. u = [t EXCEPT !.frame = t.frame, !.tx = t.tx, !.icmpPending = TRUE]
          BY <1>1, <1>2, <2>4, <4>1
             DEF pppIpv4Poll, pppIcmpRetryPending, pppIpv4ReceiveFrame, pppIcmpReceive,
                 EncoderBusy, SharedStates
        <5>2. QED
          BY <5>1
      <4>2. CASE ~t.icmpPending /\ t.frame.kind # "EchoRequest"
        <5>1. u = [t EXCEPT !.frame = None, !.tx = t.tx, !.icmpPending = FALSE]
          BY <1>1, <1>2, <2>4, <4>2
             DEF pppIpv4Poll, pppIpv4ReceiveFrame, pppReleaseFrame, SharedStates
        <5>2. QED
          BY <5>1
      <4>3. QED
        BY <4>1, <4>2
    <3>2. QED
      BY <3>1
  <2>5. QED
    BY <2>1, <2>2, <2>3, <2>4
<1>4. /\ f = t.frame \/ f = None
      /\ x = t.tx \/ (t.tx = None /\ x = "IP" /\ NetworkUp(t))
      /\ u = PutIp(t, f, x, b) /\ b \in BOOLEAN
  BY <1>3 DEF PutIp
<1>5. f \in Frames \cup {None} /\ x \in TxOwners \cup {None}
  BY <1>2, <1>4 DEF SharedStates, TxOwners, NetworkOwners
<1>6. /\ Sound(u) /\ u.frame = f /\ u.tx = x
      /\ u.modem = t.modem /\ u.enabled = t.enabled /\ u.active = t.active
      /\ u.lcp = t.lcp /\ u.pap = t.pap /\ u.chap = t.chap /\ u.ipcp = t.ipcp
      /\ u.credentials = t.credentials
  <2>1. CASE u = PutIp(t, f, x, TRUE)
    BY <1>5, <2>1, PutIpKeeps
  <2>2. CASE u = PutIp(t, f, x, FALSE)
    BY <1>5, <2>2, PutIpKeeps
  <2>3. QED
    BY <1>4, <2>1, <2>2
<1>7. QED
  BY <1>1, <1>4, <1>6
=============================================================================
