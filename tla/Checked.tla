------------------------------ MODULE Checked -------------------------------
(***************************************************************************)
(* The front end as a promise: what the driver (compiler main.c) and the   *)
(* type checker accept is executed as its source says (module Source).     *)
(* The other passes can only refuse more.                                  *)
(***************************************************************************)
EXTENDS Check, Source

CONSTANT Sources     \* families of programs

\* The compiler does not ask for it, but nothing gives a value to what main takes.
MainTakesNothing(p) ==
    \A i \in DOMAIN p.functions : p.functions[i].name = "main" => p.functions[i].params = <<>>

SourcesAssumption ==
    \A i \in DOMAIN Sources : \A p \in Sources[i] : p \in Tree /\ MainTakesNothing(p)

ASSUME SourcesAssumption

\* Exactly one function is called main.
HasMain(p) ==
    \E i \in DOMAIN p.functions :
        {j \in DOMAIN p.functions : p.functions[j].name = "main"} = {i}

Accepted(p) == HasMain(p) /\ ChecksTypes(p) /\ ChecksSignatures(p) /\ ChecksBodies(p)

CheckedInit == (\E i \in DOMAIN Sources : source \in Sources[i]) /\ AtRest

Accept == AtRest /\ Accepted(source) /\ Begin

CheckedNext == Accept \/ SourceNext

CheckedSpec == CheckedInit /\ [][CheckedNext]_sourceVars

\* What the checks of the front end accept never goes wrong: every name has a
\* value where it is used, every operand, argument, condition and member has
\* the type that its use needs, only mutable variables are assigned to.
AcceptedNeverWrong == outcome.how # "wrong"
=============================================================================
