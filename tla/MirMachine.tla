----------------------------- MODULE MirMachine -----------------------------
(***************************************************************************)
(* What a program in the compiler's middle representation means: functions *)
(* found by name, locals that are names, jumps to labels, and one turn for *)
(* each instruction.  The repository has no such interpreter; this is the  *)
(* promise that code generation and the register machine keep together     *)
(* (module Backend).  It knows nothing of slots, words or code offsets.    *)
(***************************************************************************)
EXTENDS Ints, Sequences

CONSTANTS MirPrograms,  \* sequences of functions, one of them named main
          Temps,        \* the temporaries of a frame
          MaxDepth      \* the calls that may be active at once

VARIABLES mir, stack, status, result

vars == <<mir, stack, status, result>>

Returns == {"return_local", "return_temp", "return_const_int"}

Names(f) == {f.locals[i] : i \in DOMAIN f.locals}

\* The place of a name among the locals: the first, if it is declared twice.
Declared(f, n) == CHOOSE i \in DOMAIN f.locals :
    f.locals[i] = n /\ \A j \in DOMAIN f.locals : f.locals[j] = n => i <= j

LabelAt(f, l) == {i \in DOMAIN f.instrs : f.instrs[i].op = "label" /\ f.instrs[i].value = l}

LabelsDistinct(f) == \A i, j \in DOMAIN f.instrs :
    (f.instrs[i].op = "label" /\ j \in LabelAt(f, f.instrs[i].value)) => i = j

Activation(f, args, dest) ==
    [function |-> f,
     at       |-> 1,
     temps    |-> [t \in Temps |-> 0],
     locals   |-> [n \in Names(f) |->
                     IF Declared(f, n) \in DOMAIN args THEN args[Declared(f, n)] ELSE 0],
     dest     |-> dest]

Init == mir \in MirPrograms /\ stack = <<>> /\ status = "ready" /\ result = 0

Stop(s) == status' = s /\ UNCHANGED <<mir, stack, result>>

Start ==
    /\ status = "ready"
    /\ \A i \in DOMAIN mir : LabelsDistinct(mir[i])
    /\ \E i \in DOMAIN mir :
          mir[i].name = "main" /\ stack' = <<Activation(mir[i], <<>>, -1)>>
    /\ status' = "running"
    /\ UNCHANGED <<mir, result>>

StartRefused ==
    /\ status = "ready"
    /\ \E i \in DOMAIN mir : ~LabelsDistinct(mir[i])
    /\ Stop("failed")
-----------------------------------------------------------------------------
top == stack[Len(stack)]
instr == top.function.instrs[top.at]

Turn == status = "running" /\ top.at <= Len(top.function.instrs)

Becomes(frame) == stack' = [stack EXCEPT ![Len(stack)] = frame]
                  /\ UNCHANGED <<mir, status, result>>

SetTemp(t, v) == Becomes([top EXCEPT !.temps[t] = v, !.at = @ + 1])
GoTo(i) == Becomes([top EXCEPT !.at = i])

Const == Turn /\ instr.op = "const_int" /\ SetTemp(instr.dst, instr.value)
Load  == Turn /\ instr.op = "load_local" /\ SetTemp(instr.dst, top.locals[instr.name])

Store ==
    /\ Turn /\ instr.op \in {"bind_local", "store_local"}
    /\ Becomes([top EXCEPT !.locals[instr.name] = top.temps[instr.dst], !.at = @ + 1])

Operate ==
    /\ Turn /\ instr.op \in Operators
    /\ instr.op = "div" => top.temps[instr.rhs] # 0
    /\ SetTemp(instr.dst, Apply(instr.op, top.temps[instr.lhs], top.temps[instr.rhs]))

\* Division by zero fails; the quotient that overflows may trap.
DivideFails ==
    /\ Turn /\ instr.op = "div"
    /\ \/ top.temps[instr.rhs] = 0 /\ Stop("failed")
       \/ /\ top.temps[instr.lhs] = MinInt /\ top.temps[instr.rhs] = -1
          /\ Stop("trapped")

Pass == Turn /\ instr.op = "label" /\ GoTo(top.at + 1)

Taken ==
    \/ instr.op = "jump"
    \/ instr.op = "jump_if_false" /\ top.temps[instr.dst] = 0

Jump ==
    /\ Turn /\ Taken
    /\ IF LabelAt(top.function, instr.value) = {} THEN Stop("failed")
       ELSE \E i \in LabelAt(top.function, instr.value) : GoTo(i + 1)

FallThrough == Turn /\ instr.op = "jump_if_false" /\ ~Taken /\ GoTo(top.at + 1)

\* A call fails when the arguments do not match or the calls are too deep.
Call ==
    /\ Turn /\ instr.op = "call"
    /\ \E f \in {mir[i] : i \in DOMAIN mir} :
        /\ f.name = instr.name
        /\ IF Len(instr.args) # f.param_count \/ Len(stack) = MaxDepth THEN Stop("failed")
           ELSE /\ stack' = Append([stack EXCEPT ![Len(stack)].at = @ + 1],
                                   Activation(f, [i \in DOMAIN instr.args |->
                                                    top.temps[instr.args[i]]], instr.dst))
                /\ UNCHANGED <<mir, status, result>>

Answer ==
    CASE instr.op = "return_local"     -> top.locals[instr.name]
      [] instr.op = "return_temp"      -> top.temps[instr.dst]
      [] instr.op = "return_const_int" -> instr.value

Return ==
    /\ Turn /\ instr.op \in Returns
    /\ IF Len(stack) = 1
       THEN result' = Answer /\ status' = "returned" /\ stack' = <<>>
       ELSE /\ LET below == SubSeq(stack, 1, Len(stack) - 1) IN
               stack' = [below EXCEPT ![Len(below)].temps[top.dest] = Answer]
            /\ UNCHANGED <<status, result>>
    /\ UNCHANGED mir

\* A function whose control runs off its end has no result.
NoReturn == status = "running" /\ ~Turn /\ Stop("failed")

Next ==
    \/ Start \/ StartRefused \/ NoReturn
    \/ Const \/ Load \/ Store \/ Operate \/ DivideFails
    \/ Pass \/ Jump \/ FallThrough \/ Call \/ Return

\* Every step is one of these, and as long as one is possible, one is taken.
Steps == Init /\ [][Next]_vars
Spec == Steps /\ WF_vars(Next)
=============================================================================
