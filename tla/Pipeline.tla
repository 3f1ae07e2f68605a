------------------------------ MODULE Pipeline ------------------------------
(***************************************************************************)
(* The driver behind the parser (compiler main.c): a program's syntax tree *)
(* goes through the checks of its declarations, name resolution and the    *)
(* checks of bodies (Resolve, Check), is lowered to MIR (Lower), turned    *)
(* into bytecode (Codegen) and run by the register machine (VM).  A pass   *)
(* that fails ends it.  The outcome is compared with what the source means *)
(* (Source).                                                               *)
(***************************************************************************)
EXTENDS VM, Checked

CONSTANTS MaxSymbols, MaxStack,
          MaxInstrs, MirLocals, MaxParts, MaxFunctions

VARIABLE pass      \* the pass that is next, or that refused the program

Names == INSTANCE Resolve
Low   == INSTANCE Lower
Gen   == INSTANCE Codegen

NoCode == [functions |-> [i \in {} |-> 0], entry |-> 0]

pipelineVars == <<pass, sourceVars, vars>>

\* `status` is that of the machine, before it has a program "compiling",
\* "refused" or "aborted".
PipelineInit ==
    /\ \E i \in DOMAIN Sources : source \in Sources[i]
    /\ AtRest
    /\ pass = "main"
    /\ program = NoCode
    /\ frames = [i \in 0 .. MaxFrames - 1 |-> NewFrame(0, 0)]
    /\ frame_count = 0
    /\ status = "compiling"
    /\ result = 0

\* A pass over the program, which may be refused.
Pass(this, ok, next) ==
    /\ status = "compiling" /\ pass = this
    /\ pass' = IF ok THEN next ELSE pass
    /\ status' = IF ok THEN "compiling" ELSE "refused"
    /\ UNCHANGED <<program, frames, frame_count, result>>

FindMain        == Pass("main", HasMain(source), "types") /\ UNCHANGED sourceVars
CheckTypes      == Pass("types", ChecksTypes(source), "signatures") /\ UNCHANGED sourceVars
CheckSignatures == Pass("signatures", ChecksSignatures(source), "names") /\ UNCHANGED sourceVars
ResolveNames    == Pass("names", Names!ResolvesProgram(source), "bodies") /\ UNCHANGED sourceVars

\* From here on the program has a meaning, which is computed along with what
\* the compiler makes of it.
CheckBodies ==
    /\ Pass("bodies", ChecksBodies(source), "lower")
    /\ \/ pass' = "lower" /\ Begin
       \/ pass' # "lower" /\ UNCHANGED sourceVars

Mir == Low!LowerProgram(source)

LowerFunctions == Pass("lower", Low!Lowers(Mir), "generate") /\ UNCHANGED sourceVars

\* A build with assertions stops where one fails.  What it does not stop it
\* treats as a build without them does.
AbortLowering ==
    /\ status = "compiling" /\ pass = "lower" /\ Low!Aborts(Mir)
    /\ status' = "aborted"
    /\ UNCHANGED <<pass, sourceVars, program, frames, frame_count, result>>

\* What is generated is loaded into the machine.
Generate(mir) ==
    /\ status = "compiling" /\ pass = "generate"
    /\ IF Gen!GeneratesProgram(mir)
       THEN pass' = "run" /\ status' = "ready" /\ program' = Gen!codegen_program(mir)
       ELSE status' = "refused" /\ UNCHANGED <<pass, program>>
    /\ UNCHANGED <<sourceVars, frames, frame_count, result>>

Stopped == status \notin {"compiling", "ready", "running"}

\* The machine's loop and the meaning take their steps together, until both
\* have come to an end.
Run ==
    /\ status \notin {"compiling", "aborted"} /\ ~(Over /\ Stopped)
    /\ \/ Over /\ UNCHANGED sourceVars
       \/ SourceNext
    /\ \/ Stopped /\ UNCHANGED vars
       \/ Next
    /\ UNCHANGED pass

PipelineNext ==
    \/ FindMain \/ CheckTypes \/ CheckSignatures \/ ResolveNames \/ CheckBodies
    \/ LowerFunctions \/ AbortLowering \/ Generate(Mir)
    \/ Run

\* The loop goes on: nothing suspends it.
PipelineSpec == PipelineInit /\ [][PipelineNext]_pipelineVars /\ WF_pipelineVars(Run)
-----------------------------------------------------------------------------
(* Which accepted programs have code: those in which structures and        *)
(* choices are written out where they are bound, matched or selected from. *)

\* Declaration d contains no value of its own type, however deep.
RECURSIVE Grounded(_, _, _)
Grounded(p, within, n) ==
    \/ FindType(p, n) = <<>>
    \/ /\ n \notin within
       /\ \A i \in DOMAIN FindType(p, n)[1].members :
             Grounded(p, within \cup {n}, FindType(p, n)[1].members[i].type)

Aggregate(p, locals, e) == TypeOf(p, locals, e).kind = "named"

\* The value of e fits in a register, and so do those it is computed from.
RECURSIVE InRegister(_, _, _)
InRegister(p, locals, e) ==
    /\ ~Aggregate(p, locals, e)
    /\ CASE e.kind = "call"   -> \A i \in DOMAIN e.args : InRegister(p, locals, e.args[i])
         [] e.kind = "negate" -> InRegister(p, locals, e.left)
         [] e.kind = "binary" -> InRegister(p, locals, e.left) /\ InRegister(p, locals, e.right)
         [] e.kind = "field"  -> IF Low!Written(e) # <<>> THEN InRegister(p, locals, Low!Written(e)[1])
                                 ELSE Low!Path(e) # <<>>
         [] OTHER -> TRUE

\* The value of e is bound to a variable.
RECURSIVE Bindable(_, _, _)
Bindable(p, locals, e) ==
    CASE e.kind = "construct" -> /\ Grounded(p, {}, e.type)
                                 /\ \A i \in DOMAIN e.values : Bindable(p, locals, e.values[i])
      [] OTHER -> InRegister(p, locals, e)

PayloadType(p, t, variant) ==
    TypeNamed(p, FindMember(FindType(p, t)[1], variant)[1].type)

\* A match is on a variable, or on a choice written out whose payload is of
\* the type of every payload that a case binds.
Matchable(p, locals, s) ==
    \/ s.expr.kind = "name"
    \/ /\ s.expr.kind = "construct"
       /\ \A i \in DOMAIN s.cases : s.cases[i].binding # <<>> =>
             /\ s.expr.values # <<>>
             /\ Bindable(p, locals, s.expr.values[1])
             /\ TypeOf(p, locals, s.expr.values[1])
                   = PayloadType(p, s.expr.type, s.cases[i].variant)

RECURSIVE DirectStmts(_, _, _)
DirectStmts(p, locals, stmts) ==
    IF stmts = <<>> THEN TRUE
    ELSE LET s == stmts[1]
             after == IF s.kind # "bind" THEN locals
                      ELSE Append(locals, [name |-> s.name, mutable |-> s.mutable,
                                           type |-> TypeOf(p, locals, s.expr)])
             bound(k) == [i \in DOMAIN k.binding |-> [name |-> k.binding[i], mutable |-> FALSE,
                            type |-> PayloadType(p, TypeOf(p, locals, s.expr).name, k.variant)]]
         IN /\ CASE s.kind = "bind"   -> Bindable(p, locals, s.expr)
                 [] s.kind \in {"assign", "return"} -> InRegister(p, locals, s.expr)
                 [] s.kind = "if"     -> /\ InRegister(p, locals, s.expr)
                                         /\ DirectStmts(p, locals, s.then)
                                         /\ DirectStmts(p, locals, s.else)
                 [] s.kind = "while"  -> /\ InRegister(p, locals, s.condition)
                                         /\ DirectStmts(p, locals, s.body)
                 [] s.kind = "match"  ->
                       /\ Matchable(p, locals, s)
                       /\ \A i \in DOMAIN s.cases :
                             DirectStmts(p, locals \o bound(s.cases[i]), s.cases[i].body)
            /\ DirectStmts(p, after, Tail(stmts))

Direct(p) ==
    \A i \in DOMAIN p.functions :
        LET f == p.functions[i]
            local(q) == [name |-> q.name, mutable |-> FALSE, type |-> TypeNamed(p, q.type)]
        IN /\ \A k \in DOMAIN f.params : local(f.params[k]).type.kind # "named"
           /\ DirectStmts(p, [k \in DOMAIN f.params |-> local(f.params[k])], f.body)
-----------------------------------------------------------------------------
(* Properties.                                                             *)

\* A variable is bound somewhere in the statements.
RECURSIVE BindsLocal(_)
BindsLocal(stmts) ==
    \E i \in DOMAIN stmts : LET s == stmts[i] IN
        \/ s.kind = "bind"
        \/ s.kind = "if" /\ (BindsLocal(s.then) \/ BindsLocal(s.else))
        \/ s.kind = "while" /\ BindsLocal(s.body)
        \/ /\ s.kind = "match"
           /\ \E k \in DOMAIN s.cases : s.cases[k].binding # <<>> \/ BindsLocal(s.cases[k].body)

\* A function that has parameters and binds a variable of its own as well.
Mixed(p) ==
    \E i \in DOMAIN p.functions : p.functions[i].params # <<>> /\ BindsLocal(p.functions[i].body)

\* An accepted program without a structure or a choice in a place where the
\* code generation has only a register is not refused by a later pass.  If the
\* compiler is built with assertions, it stops on such a program if and only
\* if a function of it has both parameters and variables of its own.
DirectProgramsCompile ==
    /\ status = "refused" /\ pass \in {"lower", "generate"} => ~Direct(source)
    /\ status = "compiling" /\ pass = "lower" /\ Direct(source) => (Low!Aborts(Mir) <=> Mixed(source))

\* A compiled program returns what its source means, and fails only if the
\* source fails: by division by zero, by calls too deep, or by the end of a
\* function that does not return.
MeansWhatItSays ==
    status \in {"returned", "failed"} /\ Over =>
        /\ outcome.how = status
        /\ status = "returned" => outcome.value.value = result

\* Its run stops if and only if the source does (one that divides by zero
\* or traps has stopped too).
StopsLikeItsSource ==
    (Over \/ status \in {"returned", "failed"}) ~> (Over /\ Stopped)
=============================================================================
