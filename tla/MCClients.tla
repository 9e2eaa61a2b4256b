----------------------------- MODULE MCClients -----------------------------
(***************************************************************************)
(* The two reference clients that run above LCP.  They share nothing, so   *)
(* one of them takes all the steps of a behaviour and the other rests in   *)
(* its initial state.                                                      *)
(***************************************************************************)
EXTENDS PapClient, IpcpSession

VARIABLE works   \* "PAP" or "IPCP"

Address(type, a) == [type |-> type, addr |-> a]
Ip(a) == Address("IpAddress", a)
Dns(a) == Address("PrimaryDns", a)
Dns2(a) == Address("SecondaryDns", a)
BadIp == Ip(-1)

\* Option lists of the IPCP peer: the empty list, acceptable and zero addresses,
\* lists to be Nak'ed, rejected or half applied.
PeerLists ==
    {<<>>, <<Ip(1)>>, <<Ip(0)>>, <<BadIp>>, <<Dns(1)>>, <<Dns(0)>>,
     <<Ip(0), Dns(0)>>, <<Ip(0), Dns(0), Dns2(0)>>, <<Ip(1), Dns(0), Dns2(0)>>,
     <<Ip(0), Dns2(0)>>, <<Ip(1), Dns2(0)>>, <<Dns(0), Dns2(0)>>, <<Ip(1), Ip(1)>>,
     <<Ip(1), Dns(0)>>, <<Dns2(0)>>, <<Dns(1), Dns2(0)>>, <<Ip(1), Dns(1), Dns2(0)>>,
     <<Ip(0), Address("other", 0)>>}

ASSUME IpcpAssumption == IpcpConstants

ClientsInit == Init /\ IpcpInit /\ works \in {"PAP", "IPCP"}
ClientsNext ==
    /\ UNCHANGED works
    /\ \/ works = "PAP" /\ Next /\ UNCHANGED ipcpVars
       \/ works = "IPCP" /\ IpcpNext /\ UNCHANGED vars
ClientsSpec ==
    /\ ClientsInit /\ [][ClientsNext]_<<vars, ipcpVars, works>>
    /\ Fairness /\ IpcpFairness
=============================================================================
