------------------------------ MODULE AsmLint ------------------------------
(***************************************************************************)
(* The 65816 width lint (xtask/src/asm_lint.rs): an abstract execution of  *)
(* every procedure over the widths of A and X/Y and the typed stack.       *)
(*                                                                         *)
(* A procedure is its kind, its entry ABI and its statements after label   *)
(* resolution: op, the statement a branch or call goes to, and a pair of   *)
(* widths (of an assert, a status restore or a callee).  "jsr" calls a     *)
(* local subroutine, "call" another procedure, "plp" is one of the macros  *)
(* plp_m*_i*; Y is like X and left out.  Bare rep, sep, plp, xce and width *)
(* directives are refused by the policy, so no procedure has them.  Text   *)
(* handling and conditional assembly are left out.                         *)
(***************************************************************************)
EXTENDS Naturals, Sequences

CONSTANT MaxCalls   \* bound on nested local calls: a recursive local
                    \* subroutine keeps the code's worklist growing for ever

Widths == {8, 16}
Abi(a, i) == [a |-> a, i |-> i]
NoAbi == Abi(0, 0)
Statement(op, to, abi) == [op |-> op, to |-> to, abi |-> abi]

\* StackItem
Item(kind, a, i) == [kind |-> kind, a |-> a, i |-> i]
Plain(kind, w) == Item(kind, w, 0)

IsReturn(op) == op \in {"rts", "rtl"}
IsJump(op) == op \in {"bra", "jmp"}
IsBranch(op) == op = "bcc"

\* The width macros: what they leave in A and in X/Y (0: unchanged).
Sets(op) ==
    CASE op = "m8" -> Abi(8, 0) [] op = "m16" -> Abi(16, 0)
      [] op = "i8" -> Abi(0, 8) [] op = "i16" -> Abi(0, 16)
      [] op = "mi8" -> Abi(8, 8) [] op = "mi16" -> Abi(16, 16)
      [] op = "enternativem8i16" -> Abi(8, 16)
      [] OTHER -> NoAbi

Override(w, new) ==
    Abi(IF new.a = 0 THEN w.a ELSE new.a, IF new.i = 0 THEN w.i ELSE new.i)

-----------------------------------------------------------------------------
\* parse_procedures: the widths the parser takes the assembler to use at every
\* statement, in source order whatever the control flow.
Declares(st) == IF st.op = "assert" THEN st.abi ELSE Sets(st.op)

RECURSIVE AssemblerWidths(_, _)
AssemblerWidths(proc, k) ==
    IF k = 1 THEN proc.abi
    ELSE Override(AssemblerWidths(proc, k - 1), Declares(proc.code[k - 1]))

-----------------------------------------------------------------------------
\* An abstract state of the analysis, and the analysis: states met at every
\* statement, the queue, and the diagnostics.
RuntimeState(abi) == [w |-> abi, stack |-> <<>>, calls |-> <<>>]

Report(an, index, what) == [an EXCEPT !.diagnostics = @ \cup {<<index, what>>}]
ReportIf(cond, an, index, what) == IF cond THEN Report(an, index, what) ELSE an

Top(stack) == IF stack = <<>> THEN Item("none", 0, 0) ELSE stack[Len(stack)]
Rest(stack) == IF stack = <<>> THEN <<>> ELSE SubSeq(stack, 1, Len(stack) - 1)

normalize_at_entry(op, state) == [state EXCEPT !.w = Override(@, Sets(op))]

merge_stateStackOnly(proc, successor, incoming, an) ==
    IF successor > Len(proc.code) THEN an
    ELSE LET s == normalize_at_entry(proc.code[successor].op, incoming)
             known == an.states[successor]
         IN  IF \E e \in known : e.calls = s.calls /\ e.stack = s.stack THEN an
             ELSE IF \E e \in known : e.calls = s.calls
             THEN Report(an, successor, "merge")
             ELSE [an EXCEPT !.states[successor] = @ \cup {s},
                             !.queue = Append(@, <<successor, s>>)]

\* A state seen before needs nothing; one that differs from a state with the same
\* pending calls is an error; any other is new work.
merge_state(proc, successor, incoming, an) ==
    IF successor > Len(proc.code) THEN an
    ELSE LET s == normalize_at_entry(proc.code[successor].op, incoming)
             known == an.states[successor]
         IN  IF s \in known THEN an
             ELSE IF \E e \in known : e.calls = s.calls
             THEN Report(an, successor, "merge")
             ELSE [an EXCEPT !.states[successor] = @ \cup {s},
                             !.queue = Append(@, <<successor, s>>)]

-----------------------------------------------------------------------------
\* Checks on a statement before it is executed.

\* inc32 touches four bytes, everything else as many as A or X/Y has.
AccessBytes(op, w) ==
    CASE op = "inc32" -> 4 [] op = "stx" -> w.i \div 8 [] OTHER -> w.a \div 8

\* st.to bytes of the allocation lie behind the offset.
validate_memory_access(st, w) == AccessBytes(st.op, w) <= st.to

validate_statement_width(proc, index, state, an) ==
    LET st == proc.code[index]
        asm == AssemblerWidths(proc, index)
    IN  CASE st.op = "lda#" -> ReportIf(asm.a # state.w.a, an, index, "immediate")
          [] st.op = "ldx#" -> ReportIf(asm.i # state.w.i, an, index, "immediate")
          [] st.op = "call" -> ReportIf(st.abi # state.w, an, index, "call ABI")
          [] st.op \in {"sta", "stx", "inc32"} ->
               ReportIf(~validate_memory_access(st, state.w), an, index, "access")
          [] OTHER -> an

-----------------------------------------------------------------------------
\* transfer: the abstract effect of a statement on widths and stack, and
\* whether what it pulls is what was pushed.

Pushed(st, w) ==
    CASE st.op = "pha" -> <<Plain("A", w.a)>>
      [] st.op = "phx" -> <<Plain("X", w.i)>>
      [] st.op = "php" -> <<Item("Status", w.a, w.i)>>
      [] st.op = "phb" -> <<Plain("Bank", 0)>>
      [] st.op = "phd" -> <<Plain("DirectPage", 0)>>
      [] st.op = "pea" -> <<Plain("RawWord", 0)>>
      [] OTHER -> <<>>

Pulls(op) == op \in {"pla", "plx", "plb", "pld", "plp_interrupt", "plp"}

\* pop_accumulator, pop_expected, pop_bank, pop_direct_page, restore_status
pop_accumulator(w, item) ==
    \/ item = Plain("A", w.a)
    \/ w.a = 16 /\ item = Plain("RawWord", 0)
    \/ w.a = 8 /\ item = Plain("RawByte", 0)
pop_expected(w, item) == item = Plain("X", w.i)
pop_bank(item) == item.kind \in {"Bank", "RawByte", "RawWord"}
pop_direct_page(item) == item.kind \in {"DirectPage", "RawWord"}
restore_status(st, item) ==
    item.kind = "Status" /\ (st.op = "plp" => Abi(item.a, item.i) = st.abi)

Matches(st, w, item) ==
    CASE st.op = "pla" -> pop_accumulator(w, item)
      [] st.op = "plx" -> pop_expected(w, item)
      [] st.op = "plb" -> pop_bank(item)
      [] st.op = "pld" -> pop_direct_page(item)
      [] OTHER -> restore_status(st, item)

transfer(st, state) ==
    LET item == Top(state.stack)
        under == Rest(state.stack)
    IN  IF Pulls(st.op)
        THEN [state EXCEPT
                !.stack = IF st.op = "plb" /\ item.kind = "RawWord"
                          THEN Append(under, Plain("RawByte", 0)) ELSE under,
                !.w = IF st.op \in {"plp", "plp_interrupt"} /\ Matches(st, state.w, item)
                      THEN Abi(item.a, item.i) ELSE @]
        ELSE [state EXCEPT !.w = Override(@, Sets(st.op)), !.stack = @ \o Pushed(st, state.w)]

TransferReports(index, st, state, an) ==
    LET bad == \/ Pulls(st.op) /\ ~Matches(st, state.w, Top(state.stack))
               \/ st.op = "assert" /\ st.abi # state.w
    IN  ReportIf(bad, an, index, "transfer")

-----------------------------------------------------------------------------
\* Returns.

\* A local call returns to its caller with the caller's stack; the procedure with
\* an empty one, in the widths of its ABI.
handle_return(proc, index, state, an) ==
    IF state.calls # <<>>
    THEN LET frame == Top(state.calls)
         IN  IF state.stack # frame.stack
             THEN Report(an, index, "local return")
             ELSE merge_state(proc, frame.to, [state EXCEPT !.calls = Rest(@)], an)
    ELSE ReportIf(proc.kind # "Ordinary" \/ state.stack # <<>> \/ state.w # proc.abi,
                  an, index, "return")

handle_interrupt_return(proc, index, state, an) ==
    ReportIf(proc.kind # "Interrupt" \/ state.calls # <<>> \/ state.stack # <<>>,
             an, index, "interrupt return")

\* The statements control may reach next; none behind the last one.
successors(proc, index) ==
    LET st == proc.code[index]
    IN  CASE IsJump(st.op) -> <<st.to>>
          [] IsBranch(st.op) /\ st.to # index + 1 -> <<index + 1, st.to>>
          [] st.op = "stp" -> <<>>
          [] OTHER -> <<index + 1>>

-----------------------------------------------------------------------------
\* One turn of the worklist.
MergeAll(proc, next, state, an) ==
    IF next = <<>> THEN an
    ELSE LET first == merge_state(proc, next[1], state, an)
         IN  IF Len(next) = 1 THEN first ELSE merge_state(proc, next[2], state, first)

Visit(proc, index, state, an) ==
    LET st == proc.code[index]
        v == validate_statement_width(proc, index, state, an)
        t == TransferReports(index, st, state, v)
        out == transfer(st, state)
    IN  CASE st.op = "rti" -> handle_interrupt_return(proc, index, state, v)
          [] IsReturn(st.op) -> handle_return(proc, index, state, v)
          [] st.op = "jsr" ->
               merge_state(proc, st.to,
                           [out EXCEPT !.calls = Append(@, [to |-> index + 1, stack |-> out.stack])], t)
          [] OTHER -> MergeAll(proc, successors(proc, index), out, t)

RECURSIVE Analyze(_, _)
Analyze(proc, an) ==
    IF an.queue = <<>> THEN an
    ELSE LET q == an.queue[1]
         IN  IF Len(q[2].calls) > MaxCalls THEN an
             ELSE Analyze(proc, Visit(proc, q[1], q[2], [an EXCEPT !.queue = Tail(@)]))

analyze_procedure(proc, entry) ==
    LET initial == RuntimeState(entry)
    IN  Analyze(proc, [states |-> [k \in 1 .. Len(proc.code) |-> IF k = 1 THEN {initial} ELSE {}],
                       queue |-> <<<<1, initial>>>>, diagnostics |-> {}])

Entries(proc) == IF proc.kind = "Ordinary" THEN {proc.abi} ELSE [a : Widths, i : Widths]

\* run: the build goes on only without a diagnostic.
Passes(proc) ==
    \A entry \in Entries(proc) :
        LET an == analyze_procedure(proc, entry)
        IN  an.diagnostics = {} /\ an.queue = <<>>
=============================================================================
