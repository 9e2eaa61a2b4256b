---------------------------- MODULE MCSfcSafety ----------------------------
(***************************************************************************)
(* The SFC without fairness, a component or a pair of peer and host per    *)
(* behaviour: its main loop over an unauthenticated and an authenticated   *)
(* link, its receive ring and snapshots, its three requesters, and the     *)
(* width lint its code has to pass.  The parts share nothing: one takes    *)
(* all the steps of a behaviour and the others rest in an initial state;   *)
(* the lint, which has many, is Idle.  The constants of the cfg are those  *)
(* of the unauthenticated link, the ring (it fills, wraps and is read      *)
(* while it moves) and the requesters (a frame counter that wraps and tags *)
(* that do not come round).                                                *)
(***************************************************************************)
EXTENDS SfcApproval, SfcPeers, HostSnapshot, Requesters, TLC

CONSTANTS Idle,
          Short, Long   \* lengths of the lint's procedures

VARIABLES works,   \* "plain", "auth", "snapshot", "requests" or "lint"
          proc, at, w, bytes   \* AsmRun

Auth == INSTANCE SfcApproval WITH
    PeerFrames <- AuthFrames, HostCommands <- AuthCommands,
    MaxConfigure <- 1, MaxTerminate <- 1

\* Families of procedures for the lint: every body of Short or Long statements
\* over an alphabet, closed by a return.
Abi(a, i) == [a |-> a, i |-> i]
NoAbi == Abi(0, 0)
Statement(op, to, abi) == [op |-> op, to |-> to, abi |-> abi]
Simple(ops) == {Statement(op, 0, NoAbi) : op \in ops}
To(ops, targets) == {Statement(op, to, NoAbi) : op \in ops, to \in targets}
Edges(n) == {1, n, n + 1}   \* back to the start, over the last statement, to the return
WithAbi(ops) == {Statement(op, 0, Abi(a, 16)) : op \in ops, a \in {8, 16}}
Sized(ops) == {Statement(op, size, NoAbi) : op \in ops, size \in {0, 1, 2}}
Procedures(kind, abi, n, alphabet, end) ==
    [kind |-> kind, abi |-> abi, length |-> n, alphabet |-> alphabet, end |-> end]
Rts == Statement("rts", 0, NoAbi)
Ordinary(n, alphabet) == Procedures("Ordinary", Abi(16, 16), n, alphabet, <<Rts>>)
plp_m16_i16 == Statement("plp", 0, Abi(16, 16))

\* Widths across branches and loops, at calls and asserts; saved registers and
\* saved status; local subroutines; raw words; memory, from A16 and from A8; a branch
\* over a return to an immediate between php and plp_m16_i16; a local subroutine that
\* pulls and pushes; an interrupt that may find any width.
AllFamilies ==
    {   Ordinary(Long, To({"bcc"}, {1, 3, Long, Long + 1}) \cup Simple({"m8", "m16", "lda#"})),
        Ordinary(Short, To({"bcc", "bra"}, Edges(Short)) \cup Simple({"m8", "i8", "mi16", "ldx#"})
                        \cup WithAbi({"assert", "call"})),
        Ordinary(Long, To({"bcc"}, Edges(Long))
                       \cup Simple({"m8", "php", "plp_interrupt", "pha", "pla"})),
        Ordinary(Short, Simple({"m8", "i8", "mi16", "php", "phx", "plx", "rts"})
                        \cup To({"bcc"}, Edges(Short)) \cup WithAbi({"plp"})),
        Ordinary(Long, To({"jsr"}, 3 .. Long)
                       \cup Simple({"m8", "m16", "lda#", "pha", "pla", "rts"})),
        Ordinary(Short, Simple({"phb", "phd", "pea", "pla", "plb", "pld", "m8", "ldx#", "mi8"})),
        Ordinary(Short, To({"bcc"}, Edges(Short)) \cup Simple({"m8", "m16", "i8", "i16"})
                        \cup Sized({"sta", "stx"})),
        Ordinary(Short, Simple({"i8", "i16"}) \cup Sized({"sta", "stx"})
                        \cup {Statement("inc32", 4, NoAbi)}),
        Procedures("Ordinary", Abi(8, 16), Short,
                   Simple({"m8", "m16", "lda#"}) \cup Sized({"sta"}) \cup To({"bcc"}, {Short + 1})
                   \cup {Statement("inc32", 4, NoAbi)}, <<Rts>>),
        Procedures("Ordinary", Abi(16, 16), Long,
                   Simple({"php", "m8", "m16", "rts"}) \cup To({"bcc"}, {Long + 1})
                   \cup {plp_m16_i16}, <<Statement("lda#", 0, NoAbi), plp_m16_i16, Rts>>),
        Procedures("Ordinary", Abi(16, 16), Short,
                   Simple({"pha", "pla", "php", "m8", "rts"}) \cup To({"jsr"}, {3, Short + 1}),
                   <<Statement("pla", 0, NoAbi), Statement("pha", 0, NoAbi), Rts>>),
        Procedures("Interrupt", NoAbi, Long,
                   Simple({"php", "mi16", "pha", "pla", "plp_interrupt", "lda#", "m8"}),
                   <<Statement("rti", 0, NoAbi)>>)}
Lint == INSTANCE AsmRun WITH MaxCalls <- 3, Families <- AllFamilies, pc <- at

ASSUME InstancesAssumption == SnapshotConstants /\ RequesterConstants

-----------------------------------------------------------------------------
loopVars == <<vars, approvals>>
lintVars == <<proc, at, w, bytes>>

NoLint == proc = Idle /\ at = Idle /\ w = Idle /\ bytes = Idle

SafetyInit ==
    /\ ApprovalInit /\ SnapshotInit /\ RequestersInit
    /\ \/ works \in {"plain", "auth", "snapshot"} /\ clock = 0 /\ NoLint
       \/ works = "requests" /\ NoLint
       \/ works = "lint" /\ clock = 0 /\ Lint!Init
SafetyNext ==
    /\ UNCHANGED works
    /\ \/ works = "plain" /\ ApprovalNext /\ UNCHANGED <<snapshotVars, requesterVars, lintVars>>
       \/ works = "auth" /\ Auth!ApprovalNext /\ UNCHANGED <<snapshotVars, requesterVars, lintVars>>
       \/ works = "snapshot" /\ SnapshotNext /\ UNCHANGED <<loopVars, requesterVars, lintVars>>
       \/ works = "requests" /\ RequestersNext /\ UNCHANGED <<loopVars, snapshotVars, lintVars>>
       \/ works = "lint" /\ Lint!Next /\ UNCHANGED <<loopVars, snapshotVars, requesterVars>>
safetyVars == <<works, loopVars, snapshotVars, requesterVars, lintVars>>
SafetySpec == SafetyInit /\ [][SafetyNext]_safetyVars
LintSpec == works = "lint" /\ SafetyInit /\ [][SafetyNext]_safetyVars

-----------------------------------------------------------------------------
\* A procedure that is accepted and followed keeps to the widths it was encoded for,
\* pulls only what it pushed, returns to an address and stays inside the allocations
\* it names, on every path (AsmRun; asm_lint.rs).  Followed leaves out three shapes the
\* lint accepts without looking at them: see AcceptedIsSafe.
FollowedIsSafe == works = "lint" => Lint!FollowedIsSafe

\* The same of every accepted procedure, as docs/assembly-width.md:25-28 and 68-75 and
\* src/macro/utility.asm:77-79 have it: every path to a return has the widths of the
\* entry and a balanced stack, and plp_m*_i* restores the assembler's declarations.
AcceptedIsSafe == works = "lint" => Lint!AcceptedIsSafe
=============================================================================
