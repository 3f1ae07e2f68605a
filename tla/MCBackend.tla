------------------------------ MODULE MCBackend ------------------------------
(***************************************************************************)
(* MIR programs for TLC: main with every body of up to three instructions, *)
(* beside sub(a, b), and a few longer ones.  Some name a local or a        *)
(* function that does not exist, which the code generator refuses.         *)
(***************************************************************************)
EXTENDS Backend, SequencesExt

Ins(op)            == [op |-> op]
Value(op, dst, v)  == [op |-> op, dst |-> dst, value |-> v]
Named(op, dst, n)  == [op |-> op, dst |-> dst, name |-> n]
Three(op, d, l, r) == [op |-> op, dst |-> d, lhs |-> l, rhs |-> r]
To(op, l)          == [op |-> op, value |-> l]
Calls(d, n, args)  == [op |-> "call", dst |-> d, name |-> n, args |-> args]

Function(name, params, locals, instrs) ==
    [name |-> name, param_count |-> params, locals |-> locals, instrs |-> instrs]

Instructions ==
    { Value("const_int", 0, 3), Value("const_int", 1, -1),
      Named("bind_local", 0, "y"), Named("store_local", 1, "x"),
      Named("load_local", 0, "y"), Named("load_local", 1, "x"),
      Three("lt", 1, 0, 1), To("label", 0), To("jump", 0),
      Value("jump_if_false", 1, 0),
      Calls(0, "sub", <<1, 0>>), Calls(1, "main", <<>>), Calls(1, "sub", <<0>>),
      Calls(0, "none", <<>>), Named("load_local", 0, "z"),
      Named("return_local", 0, "y"), Value("return_temp", 0, 0),
      To("return_const_int", -2) }

Sub == Function("sub", 2, <<"b", "a", "c">>,
         << Named("load_local", 0, "b"), Named("load_local", 1, "a"),
            Three("sub", 0, 0, 1), Named("bind_local", 0, "c"),
            Named("return_local", 0, "c") >>)

Main(body) == Function("main", 0, <<"x", "y">>, body)

Enumerated == {<<Sub, Main(body)>> : body \in SeqOf(Instructions, 3)}

Arithmetic ==
    {<<Main(<< Value("const_int", 0, x), Value("const_int", 1, y), Three(op, 1, 0, 1),
               Value("return_temp", 1, 0) >>)>> :
        x, y \in {MinInt, -1, 0, 3}, op \in DOMAIN Gen!BinaryOpcode}

\* Counts x from 3 down to 0 through calls, then returns it.
Loop == <<Main(<<
    Value("const_int", 0, 3), Named("bind_local", 0, "x"), To("label", 0),
    Named("load_local", 0, "x"), Value("jump_if_false", 0, 1),
    Value("const_int", 1, 1), Calls(1, "sub", <<0, 1>>), Named("store_local", 1, "x"),
    To("jump", 0), To("label", 1), Named("return_local", 0, "x") >>), Sub>>

\* Too many functions, no main, two of them, and a body that does not fit.
Refused == { <<Sub, Sub, Main(<<>>), Sub>>, <<Sub>>, <<Main(<<>>), Main(<<>>)>>,
             <<Main([i \in 1 .. MaxCode |-> To("label", i - 1)])>> }

MCMinInt == -4
MCMirPrograms == Enumerated \cup Arithmetic \cup Refused \cup {Loop}
MCPrograms == Compiled
=============================================================================
