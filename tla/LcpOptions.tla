----------------------------- MODULE LcpOptions -----------------------------
(***************************************************************************)
(* The Configuration Option policy of the LCP reference machine            *)
(* (crates/ndm24-ppp/src/lcp/negotiation.rs): how a peer Configure-Request *)
(* is judged, and how a Nak or a Reject rewrites the local option list.    *)
(*                                                                         *)
(* An option keeps what the policy looks at: its type, whether its length  *)
(* is the one the type requires (wf) and its value.  PFC, ACFC,            *)
(* Quality-Protocol and the unknown types are "other", told apart by val.  *)
(***************************************************************************)
EXTENDS Integers, Sequences, FiniteSets

CONSTANTS MagicSpace,      \* magic numbers are 0 .. MagicSpace - 1 (2^32 in the code)
          MagicIncrement,  \* MAGIC_RETRY_INCREMENT, 0x9e3779b9 in the code
          DefaultMru, DefaultAccm,
          None             \* Option::None

ASSUME MagicAssumption ==
    /\ MagicSpace \in Nat \ {0, 1}
    /\ MagicIncrement \in 1 .. MagicSpace - 1
ASSUME DefaultsAssumption == DefaultMru \in Nat \ {0} /\ DefaultAccm \in Nat

Magics == 0 .. MagicSpace - 1

PAP == 0
CHAP == 1     \* CHAP with algorithm 5 (MD5)
OtherAuth == 2

OptionTypes == {"mru", "accm", "auth", "magic", "other"}
Options == [type : OptionTypes, wf : BOOLEAN, val : Nat]

\* Two options carry the same Type octet.
SameType(a, b) == a.type = b.type /\ (a.type = "other" => a.val = b.val)

Opt(t, v) == [type |-> t, wf |-> TRUE, val |-> v]

\* PeerConfiguration: what the peer may ask of our transmitter.
PeerConfigurations ==
    [mru : Nat, accm : Nat, auth : {PAP, CHAP, None}, magic : Nat \cup {None}]

ASSUME NoneAssumption ==
    None \notin Int /\ None \notin Options /\ None \notin PeerConfigurations

DefaultConfiguration ==
    [mru |-> DefaultMru, accm |-> DefaultAccm, auth |-> None, magic |-> None]

\* SfcPolicy: which authentication protocols the local side accepts.
Policies == [accept_pap : BOOLEAN, accept_chap_md5 : BOOLEAN]

next_magic(current) ==
    LET candidate == (current + MagicIncrement) % MagicSpace
    IN  IF candidate = 0 THEN MagicIncrement ELSE candidate

\* The local option list, kept by position: negotiation replaces options in
\* place and drops them, but never reorders or adds any.  None is a dropped one.
Slots(n) == [1 .. n -> Options \cup {None}]

\* The option list as it goes on the wire.
Wire(slots) == LET Kept(o) == o # None IN SelectSeq(slots, Kept)

HoldsMagic(o) == o # None /\ o.type = "magic" /\ o.wf

\* The first well-formed Magic-Number of the local options, or None.
local_magic(slots) ==
    IF \E i \in DOMAIN slots : HoldsMagic(slots[i])
    THEN slots[CHOOSE j \in DOMAIN slots :
                  /\ HoldsMagic(slots[j])
                  /\ \A k \in DOMAIN slots : k < j => ~HoldsMagic(slots[k])].val
    ELSE None

-----------------------------------------------------------------------------
\* The Nak replacement a peer option earns; only used when IsNaked holds.
Replacement(o, policy, proposed) ==
    CASE o.type = "mru"  -> Opt("mru", DefaultMru)
      [] o.type = "accm" -> Opt("accm", DefaultAccm)
      [] o.type = "auth" -> Opt("auth", IF policy.accept_chap_md5 THEN CHAP ELSE PAP)
      [] OTHER -> Opt("magic", next_magic(IF proposed = None THEN o.val ELSE proposed))

\* evaluate_option, the accepting arms.
IsAcceptable(o, policy, proposed) ==
    \/ o.type = "mru" /\ o.wf /\ o.val # 0
    \/ o.type = "accm" /\ o.wf
    \/ o.type = "auth" /\ o.wf /\ o.val = CHAP /\ policy.accept_chap_md5
    \/ o.type = "auth" /\ o.wf /\ o.val = PAP /\ policy.accept_pap
    \/ o.type = "magic" /\ o.wf /\ o.val # 0 /\ o.val # proposed

\* evaluate_option, the counter-proposing arms.
IsCountered(o, policy, proposed) ==
    /\ ~IsAcceptable(o, policy, proposed)
    /\ \/ o.type \in {"mru", "accm"}
       \/ o.type = "auth" /\ (policy.accept_chap_md5 \/ policy.accept_pap)
       \/ o.type = "magic" /\ o.wf

IsDuplicated(o, opts) ==
    \E i, j \in DOMAIN opts : i # j /\ SameType(opts[i], o) /\ SameType(opts[j], o)

IsRejected(o, opts, policy, proposed) ==
    \/ IsDuplicated(o, opts)
    \/ ~IsAcceptable(o, policy, proposed) /\ ~IsCountered(o, policy, proposed)

IsNaked(o, opts, policy, proposed) ==
    ~IsDuplicated(o, opts) /\ IsCountered(o, policy, proposed)

\* The value an option list gives to a field of the peer configuration.
Chosen(opts, type, default) ==
    IF \E i \in DOMAIN opts : opts[i].type = type
    THEN opts[CHOOSE i \in DOMAIN opts : opts[i].type = type].val
    ELSE default

Configuration(opts) ==
    [mru   |-> Chosen(opts, "mru", DefaultMru),
     accm  |-> Chosen(opts, "accm", DefaultAccm),
     auth  |-> Chosen(opts, "auth", None),
     magic |-> Chosen(opts, "magic", None)]

\* evaluate_peer_request: Reject outranks Nak, Nak outranks Ack, and only a
\* request that is acknowledged whole yields a configuration.
evaluate_peer_request(opts, policy, proposed) ==
    LET Rej(o) == IsRejected(o, opts, policy, proposed)
        Nak(o) == IsNaked(o, opts, policy, proposed)
        naked  == SelectSeq(opts, Nak)
    IN  CASE \E i \in DOMAIN opts : Rej(opts[i]) ->
               [code |-> "ConfRej", data |-> SelectSeq(opts, Rej), configuration |-> None]
          [] (\A i \in DOMAIN opts : ~Rej(opts[i])) /\ (\E i \in DOMAIN opts : Nak(opts[i])) ->
               [code |-> "ConfNak",
                data |-> [i \in DOMAIN naked |-> Replacement(naked[i], policy, proposed)],
                configuration |-> None]
          [] OTHER ->
               [code |-> "ConfAck", data |-> opts, configuration |-> Configuration(opts)]

-----------------------------------------------------------------------------
HasDuplicates(opts) ==
    \E i, j \in DOMAIN opts : i # j /\ SameType(opts[i], opts[j])

\* What a Nak's suggestion s turns the local option o into.
Adopted(o, s) ==
    IF o.type = "magic" /\ o.wf /\ s.wf /\ s.val \in {0, o.val}
    THEN Opt("magic", next_magic(o.val))
    ELSE s

Suggests(suggestions, o) ==
    o # None /\ \E j \in DOMAIN suggestions : SameType(suggestions[j], o)

apply_nak(slots, suggestions) ==
    [i \in DOMAIN slots |->
        IF Suggests(suggestions, slots[i])
        THEN Adopted(slots[i],
                     suggestions[CHOOSE j \in DOMAIN suggestions :
                                    SameType(suggestions[j], slots[i])])
        ELSE slots[i]]

\* A Reject is valid when it lists, once each, options we really sent.
IsValidReject(slots, rejected) ==
    /\ rejected # <<>>
    /\ ~HasDuplicates(rejected)
    /\ \A i \in DOMAIN rejected : \E j \in DOMAIN slots : slots[j] = rejected[i]

apply_reject(slots, rejected) ==
    [i \in DOMAIN slots |->
        IF \E j \in DOMAIN rejected : rejected[j] = slots[i] THEN None ELSE slots[i]]
=============================================================================
