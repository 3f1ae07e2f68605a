------------------------------ MODULE Codegen -------------------------------
(***************************************************************************)
(* From the middle representation to bytecode (codegen.c): one bytecode    *)
(* instruction for each MIR instruction, locals replaced by their index in *)
(* the function's table of names and callees by theirs in the program.     *)
(*                                                                         *)
(* A MIR function is [name, param_count, locals, instrs]: a sequence of    *)
(* local names and a sequence of records as in mir.h, which have the       *)
(* fields that their operation uses.                                       *)
(***************************************************************************)
EXTENDS Opcodes, Sequences

CONSTANTS MaxCode,       \* BEET_BC_MAX_CODE
          MaxFunctions   \* BEET_BC_MAX_FUNCTIONS

\* The index, from 0, of the first place in `places` whose element has the
\* name; -1 if none has.
First(places) ==
    IF places = {} THEN -1 ELSE (CHOOSE i \in places : \A j \in places : i <= j) - 1

find_local_index(f, name) == First({i \in DOMAIN f.locals : f.locals[i] = name})
find_function_index(mir, name) == First({i \in DOMAIN mir : mir[i].name = name})

\* Mutant: "less or equal" becomes "less".
BinaryOpcode_Strict ==
    [add |-> ADD_INT, sub |-> SUB_INT, mul |-> MUL_INT, div |-> DIV_INT,
     eq |-> EQ_INT, ne |-> NE_INT, lt |-> LT_INT, le |-> LT_INT,
     gt |-> GT_INT, ge |-> GE_INT]

BinaryOpcode ==
    [add |-> ADD_INT, sub |-> SUB_INT, mul |-> MUL_INT, div |-> DIV_INT,
     eq |-> EQ_INT, ne |-> NE_INT, lt |-> LT_INT, le |-> LE_INT,
     gt |-> GT_INT, ge |-> GE_INT]

\* The words emitted for one instruction of f.
Words(mir, f, ins) ==
    CASE ins.op = "const_int"     -> <<CONST_INT, ins.dst, ins.value>>
      [] ins.op \in {"bind_local", "store_local"}
                                  -> <<STORE_LOCAL, find_local_index(f, ins.name), ins.dst>>
      [] ins.op = "load_local"    -> <<LOAD_LOCAL, ins.dst, find_local_index(f, ins.name)>>
      [] ins.op = "call"          -> <<CALL, ins.dst, find_function_index(mir, ins.name),
                                       Len(ins.args)>> \o ins.args
      [] ins.op \in DOMAIN BinaryOpcode
                                  -> <<BinaryOpcode[ins.op], ins.dst, ins.lhs, ins.rhs>>
      [] ins.op = "label"         -> <<LABEL, ins.value>>
      [] ins.op = "jump"          -> <<JUMP, ins.value>>
      [] ins.op = "jump_if_false" -> <<JUMP_IF_FALSE, ins.dst, ins.value>>
      [] ins.op = "return_local"  -> <<RETURN_LOCAL, find_local_index(f, ins.name)>>
      [] ins.op = "return_temp"   -> <<RETURN_TEMP, ins.dst>>
      [] ins.op = "return_const_int" -> <<RETURN_CONST_INT, ins.value>>

LocalOps == {"bind_local", "store_local", "load_local", "return_local"}

\* The names that the instruction uses are known.
NamesFound(mir, f, ins) ==
    /\ ins.op \in LocalOps => find_local_index(f, ins.name) >= 0
    /\ ins.op = "call" => find_function_index(mir, ins.name) >= 0

\* What the first so many of some sequences make, one behind the other.
Prefixes(parts) ==
    LET prefix[i \in 0 .. Len(parts)] ==
            IF i = 0 THEN <<>> ELSE prefix[i - 1] \o parts[i]
    IN prefix

\* The code of f after each number of instructions.
Emitted(mir, f) == Prefixes([i \in DOMAIN f.instrs |-> Words(mir, f, f.instrs[i])])

Size(mir, f) == Len(Emitted(mir, f)[Len(f.instrs)])

\* Generation of a function fails on an unknown name or when the code is full.
Generates(mir, f) ==
    /\ \A i \in DOMAIN f.instrs : NamesFound(mir, f, f.instrs[i])
    /\ Size(mir, f) <= MaxCode

GeneratesProgram(mir) ==
    Len(mir) <= MaxFunctions /\ \A i \in DOMAIN mir : Generates(mir, mir[i])

codegen_function(mir, f) ==
    LET emitted == Emitted(mir, f)
        words   == emitted[Len(f.instrs)]
    IN [count       |-> Len(words),
        code        |-> [p \in 0 .. Len(words) - 1 |-> words[p + 1]],
        param_count |-> f.param_count,
        starts      |-> {Len(emitted[i - 1]) : i \in DOMAIN f.instrs}]

\* The driver runs the program if exactly one function is called main.
Mains(mir) == {i \in DOMAIN mir : mir[i].name = "main"}
find_main_index(mir) == (CHOOSE i \in Mains(mir) : TRUE) - 1
Compiles(mir) == (\E i \in DOMAIN mir : Mains(mir) = {i}) /\ GeneratesProgram(mir)

\* The bytecode program.
codegen_program(mir) ==
    [functions |-> [i \in 0 .. Len(mir) - 1 |-> codegen_function(mir, mir[i + 1])],
     entry     |-> find_main_index(mir)]
=============================================================================
