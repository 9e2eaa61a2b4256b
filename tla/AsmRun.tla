------------------------------- MODULE AsmRun -------------------------------
(***************************************************************************)
(* What the width lint is for: a procedure it accepts is assembled by ca65 *)
(* and executed by the 65816.  The assembler fixes the size of an          *)
(* immediate from the declarations in source order; the CPU takes it from  *)
(* its M and X flags.  The stack is the real one, byte by byte, with the   *)
(* return addresses on it.                                                 *)
(***************************************************************************)
EXTENDS AsmLint

\* The procedures offered to the lint, as families: every body of a length over
\* an alphabet of statements, followed by an end.
CONSTANT Families

VARIABLES proc,     \* the accepted procedure, and whether the lint follows all of it
          pc,       \* its next statement, 0 once it has returned
          w,        \* the widths the M and X flags select
          bytes     \* the bytes on the stack above the caller's own

vars == <<proc, pc, w, bytes>>

-----------------------------------------------------------------------------
\* The assembler: the macros plp_m*_i* and inc32 declare widths too.
Assembled(st) ==
    CASE st.op \in {"assert", "plp"} -> st.abi
      [] st.op = "inc32" -> Abi(16, 0)
      [] OTHER -> Sets(st.op)

RECURSIVE EncodedWidths(_, _)
EncodedWidths(p, k) ==
    IF k = 1 THEN p.abi
    ELSE Override(EncodedWidths(p, k - 1), Assembled(p.code[k - 1]))

-----------------------------------------------------------------------------
\* Three things the lint does not follow: the declarations of plp_m*_i* (and inc32),
\* that inc32 leaves A 16 bits wide, and that the return address of a local subroutine
\* lies on top of what its caller pushed.  A procedure is followed when no immediate
\* depends on the first, inc32 is met in A16 only and no local subroutine pulls what
\* its caller pushed.
FollowedAt(p, k, state) ==
    LET op == p.code[k].op
    IN  /\ op = "lda#" => AssemblerWidths(p, k).a = EncodedWidths(p, k).a
        /\ op = "ldx#" => AssemblerWidths(p, k).i = EncodedWidths(p, k).i
        /\ op = "inc32" => state.w.a = 16
        /\ (Pulls(op) /\ state.calls # <<>>) => Len(state.stack) > Len(Top(state.calls).stack)
Followed(p) ==
    \A entry \in Entries(p) :
        LET states == analyze_procedure(p, entry).states
        IN  \A k \in 1 .. Len(p.code) : \A state \in states[k] : FollowedAt(p, k, state)

-----------------------------------------------------------------------------
\* The stack.
Byte(kind, to, abi) == [kind |-> kind, to |-> to, abi |-> abi]
Data == Byte("data", 0, NoAbi)
ReturnTo(k) == <<Byte("return", k, NoAbi), Byte("return", k, NoAbi)>>
Saved(abi) == Byte("status", 0, abi)

\* What is on the stack when the procedure starts.
EntryBytes(p, entry) ==
    IF p.kind = "Interrupt" THEN Append(ReturnTo(0), Saved(entry)) ELSE ReturnTo(0)

PushedBytes(st) ==
    CASE st.op = "pha" -> [k \in 1 .. w.a \div 8 |-> Data]
      [] st.op = "phx" -> [k \in 1 .. w.i \div 8 |-> Data]
      [] st.op = "php" -> <<Saved(w)>>
      [] st.op = "phb" -> <<Data>>
      [] st.op \in {"phd", "pea"} -> <<Data, Data>>
      [] st.op = "jsr" -> ReturnTo(pc + 1)
      [] OTHER -> <<>>

PulledCount(st) ==
    CASE st.op = "pla" -> w.a \div 8
      [] st.op = "plx" -> w.i \div 8
      [] st.op \in {"plb", "plp", "plp_interrupt"} -> 1
      [] st.op \in {"pld", "rts"} -> 2
      [] st.op = "rti" -> 3
      [] OTHER -> 0

\* The topmost n bytes, lowest first, and what is under them.
TopBytes(n) == SubSeq(bytes, Len(bytes) - n + 1, Len(bytes))
Under(n) == SubSeq(bytes, 1, Len(bytes) - n)

-----------------------------------------------------------------------------
Init ==
    /\ \E f \in Families : \E body \in [1 .. f.length -> f.alphabet] :
         LET p == [kind |-> f.kind, abi |-> f.abi, code |-> body \o f.end]
         IN  /\ Passes(p)
             /\ proc = [kind |-> p.kind, abi |-> p.abi, code |-> p.code, followed |-> Followed(p)]
    /\ \E entry \in Entries(proc) : w = entry /\ bytes = EntryBytes(proc, entry)
    /\ pc = 1

St == proc.code[pc]
Running(ops) == pc > 0 /\ St.op \in ops
Goto(k) == pc' = k /\ proc' = proc
Sequential == {"m8", "m16", "i8", "i16", "mi8", "mi16", "assert", "lda#", "ldx#",
               "sta", "stx", "inc32", "call", "php", "pha", "phx", "phb", "phd", "pea",
               "pla", "plx", "plb", "pld"}

\* Everything that goes on to the next statement and keeps or sets the flags.
\* A called procedure returns with the widths it was called with.
Execute ==
    /\ Running(Sequential)
    /\ w' = Override(w, IF St.op = "assert" THEN NoAbi ELSE Assembled(St))
    /\ bytes' = Under(PulledCount(St)) \o PushedBytes(St)
    /\ Goto(pc + 1)

RestoreStatus ==
    /\ Running({"plp", "plp_interrupt"})
    /\ w' = TopBytes(1)[1].abi
    /\ bytes' = Under(1)
    /\ Goto(pc + 1)

Jump ==
    /\ Running({"bra", "bcc", "jsr"})
    /\ bytes' = bytes \o PushedBytes(St)
    /\ Goto(St.to)
    /\ w' = w

BranchNotTaken == Running({"bcc"}) /\ Goto(pc + 1) /\ UNCHANGED <<w, bytes>>

Return ==
    /\ Running({"rts"})
    /\ Goto(TopBytes(1)[1].to)
    /\ bytes' = Under(2)
    /\ w' = w

InterruptReturn ==
    /\ Running({"rti"})
    /\ w' = TopBytes(1)[1].abi
    /\ bytes' = <<>>
    /\ Goto(0)

Next == Execute \/ RestoreStatus \/ Jump \/ BranchNotTaken \/ Return \/ InterruptReturn

Spec == Init /\ [][Next]_vars

-----------------------------------------------------------------------------
AtReturn == Running({"rts"}) /\ bytes = ReturnTo(0)

(* An accepted procedure never meets an immediate in another width than the  *)
(* one it was encoded for (its surplus byte would be executed), calls every  *)
(* procedure in its entry widths and returns in its own, on every path.      *)
WidthsAgree ==
    /\ Running({"lda#"}) => EncodedWidths(proc, pc).a = w.a
    /\ Running({"ldx#"}) => EncodedWidths(proc, pc).i = w.i
    /\ Running({"call"}) => w = St.abi
    /\ AtReturn => w = proc.abi

(* An accepted procedure never pulls its caller's return address as data nor *)
(* returns to data: every pull takes bytes it pushed itself, a status        *)
(* restore takes a saved status, and a return finds an address on top.       *)
StackBalanced ==
    pc > 0 =>
        LET n == PulledCount(St)
            top == TopBytes(n)
        IN  /\ n <= Len(bytes)
            /\ Running({"pla", "plx", "plb", "pld"}) =>
                 \A k \in 1 .. n : top[k].kind = "data"
            /\ Running({"plp", "plp_interrupt"}) => top[1].kind = "status"
            /\ Running({"rts"}) => \A k \in 1 .. n : top[k].kind = "return"
            /\ Running({"rti"}) => n = Len(bytes)

(* An access of an accepted procedure, in the width the CPU really has, ends *)
(* inside the WRAM allocation it names.                                      *)
MemoryInside ==
    Running({"sta", "stx", "inc32"}) => AccessBytes(St.op, w) <= St.to

\* What the lint's verdict promises, and what it can promise.
AcceptedIsSafe == WidthsAgree /\ StackBalanced /\ MemoryInside
FollowedIsSafe == proc.followed => AcceptedIsSafe
=============================================================================
