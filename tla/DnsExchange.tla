---------------------------- MODULE DnsExchange -----------------------------
(***************************************************************************)
(* DNS queries of the client, encoded by DnsCodec, and the answers servers *)
(* make of them (external), whole or cut short.                            *)
(***************************************************************************)
EXTENDS DnsCodec

CONSTANTS Names,     \* names to ask for
          Ids,       \* DNS identifiers
          Replies,   \* [flags, records] a DNS server may answer with
          Capacity

VARIABLES wire,     \* the octets in flight
          request,  \* {} or {what was asked}
          answer,   \* {} or {what a server answered}
          stage     \* "idle", "refused", "asked", "answered" or "cut"
vars == <<wire, request, answer, stage>>

Init == wire = <<>> /\ request = {} /\ answer = {} /\ stage = "idle"

AskName(id, name) ==
    LET encoded == encode_a_query(id, name, Capacity)
    IN  /\ stage = "idle"
        /\ request' = {[id |-> id, name |-> name]}
        /\ IF IsOk(encoded) THEN wire' = encoded.ok /\ stage' = "asked"
           ELSE stage' = "refused" /\ UNCHANGED wire
        /\ UNCHANGED answer

Record(r) ==
    r.owner \o BigEndian(r.type) \o BigEndian(r.class) \o Zeros(4) \o BigEndian(Len(r.data)) \o r.data
ServeName(reply) ==
    /\ stage = "asked"
    /\ wire' = Slice(wire, 0, 2) \o BigEndian(reply.flags) \o BigEndian(1)
               \o BigEndian(Len(reply.records)) \o Zeros(4) \o From(wire, HEADER_LENGTH)
               \o FlattenSeq([i \in DOMAIN reply.records |-> Record(reply.records[i])])
    /\ answer' = {reply}
    /\ stage' = "answered"
    /\ UNCHANGED request

Cut ==
    /\ stage \in {"answered", "cut"} /\ wire # <<>>
    /\ wire' = Front(wire)
    /\ stage' = "cut"
    /\ UNCHANGED <<request, answer>>

Next ==
    \/ \E id \in Ids, name \in Names : AskName(id, name)
    \/ \E reply \in Replies : ServeName(reply)
    \/ Cut
Spec == Init /\ [][Next]_vars

-----------------------------------------------------------------------------
\* A query carries its name whole: skip_name walks it to the type field, the
\* lengths and labels spell the name, and only a name DNS cannot carry, or a
\* small buffer, is refused.
NameIsWhole ==
    \A r \in request :
        LET name == StripDot(r.name)
            end == Len(wire) - 4
            spelt == FlattenSeq([i \in DOMAIN Labels(name) |-> <<Dot>> \o Labels(name)[i]])
        IN  IF stage = "asked"
            THEN /\ skip_name(wire, HEADER_LENGTH) = Ok(end)
                 /\ Len(wire) <= HEADER_LENGTH + 255 + 4
                 /\ Len(spelt) = end - 1 - HEADER_LENGTH
                 /\ \A i \in DOMAIN spelt :
                        \/ spelt[i] = At(wire, HEADER_LENGTH + i - 1)
                        \/ spelt[i] = Dot /\ At(wire, HEADER_LENGTH + i - 1) \in 1 .. 63
            ELSE stage = "refused" =>
                     \/ Len(name) \notin 1 .. 253 \/ Len(name) + 18 > Capacity
                     \/ \E i \in DOMAIN Labels(name) : Len(Labels(name)[i]) \notin 1 .. 63
                     \/ \E i \in DOMAIN name : name[i] \notin Alphanumeric \cup {Dot, Hyphen}

\* The address taken from an answer is the data of its first A record, past
\* records of other types and names in either form.  A shortened answer gives
\* that address or an error, never another; a query is never an answer.
AddressIsAnswered ==
    request # {} => \A id \in Ids :
        LET parsed == parse_a_response(id, wire)
            own == \A r \in request : r.id = id
            As(reply) == SelectSeq(reply.records,
                             LAMBDA x : x.type = 1 /\ x.class = 1 /\ Len(x.data) = 4)
            Good(reply) == reply.flags = 33152 /\ As(reply) # <<>>
        IN  IF own /\ \E a \in answer : Good(a)
            THEN \A a \in answer :
                     \/ parsed = Ok(As(a)[1].data)
                     \/ stage = "cut" /\ ~IsOk(parsed)
            ELSE ~IsOk(parsed)

\* The DNS client takes exactly what was answered.
NamesAreExact == NameIsWhole /\ AddressIsAnswered
=============================================================================
