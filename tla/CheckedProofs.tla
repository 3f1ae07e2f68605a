---------------------------- MODULE CheckedProofs ----------------------------
(***************************************************************************)
(* What the checks of the front end accept never goes wrong, for every     *)
(* program.                                                                *)
(*                                                                         *)
(* Trees come first: what is below an expression or a block is a relation  *)
(* without infinite descent, so that the recursive functions of the type   *)
(* checker have the values that their definitions say (TypeOfUnfolds,      *)
(* CheckStmtsUnfolds).  Then values and their types, and for each form of  *)
(* expression that its value is of the type that the checker gave it       *)
(* (ValueSound).  The invariant (Sound) says of every active call that the *)
(* checker accepts what is left of it with the locals that it has; one     *)
(* lemma for each action says that it stays so.                            *)
(***************************************************************************)
EXTENDS Checked, FiniteSetTheorems, SequenceTheorems, WellFoundedInduction, TLAPS
-----------------------------------------------------------------------------
(* Recursion.                                                              *)

\* Every set of numbers that is not empty has a least one.
LEMMA LeastNumber ==
    ASSUME NEW S \in SUBSET Nat, S # {}
    PROVE  \E n \in S : \A m \in S : n <= m
<1> DEFINE R == OpToRel(<, Nat)
<1>1. IsWellFoundedOn(R, Nat)
  BY NatLessThanWellFounded
<1>2. \A x, y \in Nat : x < y => <<x, y>> \in R
  BY DEF OpToRel
<1> HIDE DEF R
<1>3. PICK n \in S : \A m \in S : <<m, n>> \notin R
  BY <1>1, WFMin
<1>4. ASSUME NEW m \in S PROVE n <= m
  <2>1. ~(m < n)
    BY <1>2, <1>3
  <2> QED
    BY <2>1
<1> QED
  BY <1>4

\* Recursion over a relation in which every set has a minimal element: where
\* a step depends only on what is below, it has a fixed point.
HasMinima(S, Below) ==
    \A T \in SUBSET S : T # {} => \E x \in T : \A y \in T : <<y, x>> \notin Below

DependsBelow(Step, S, V, Below) ==
    /\ Step \in [[S -> V] -> [S -> V]]
    /\ \A f, g \in [S -> V] : \A x \in S :
          (\A y \in S : <<y, x>> \in Below => f[y] = g[y]) => Step[f][x] = Step[g][x]

\* Under these conditions the step has a fixed point.
LEMMA Recursion ==
    ASSUME NEW S, NEW V, V # {}, NEW Below, HasMinima(S, Below),
           NEW Step, DependsBelow(Step, S, V, Below)
    PROVE  \E f \in [S -> V] : f = Step[f]
<1> USE DEF HasMinima, DependsBelow
<1> DEFINE Closed(D) == /\ D \in SUBSET S
                        /\ \A x \in D : \A y \in S : <<y, x>> \in Below => y \in D
           Fixed(f, D) == f \in [S -> V] /\ \A x \in D : f[x] = Step[f][x]
           Good(f, D) == Closed(D) /\ Fixed(f, D)
<1>1. ASSUME NEW f, NEW g, NEW D, NEW E, Good(f, D), Good(g, E)
      PROVE  \A x \in D \cap E : f[x] = g[x]
  <2> DEFINE T == {x \in D \cap E : f[x] # g[x]}
  <2> SUFFICES ASSUME T # {} PROVE FALSE
    OBVIOUS
  <2>1. T \in SUBSET S
    BY <1>1
  <2> HIDE DEF T
  <2>2. PICK x \in T : \A y \in T : <<y, x>> \notin Below
    BY <2>1
  <2>3. x \in D /\ x \in E /\ x \in S /\ f[x] # g[x]
    BY <2>1 DEF T
  <2>4. \A y \in S : <<y, x>> \in Below => f[y] = g[y]
    BY <2>2, <2>3, <1>1 DEF T
  <2>5. Step[f][x] = Step[g][x]
    BY <2>3, <2>4, <1>1
  <2> QED
    BY <2>3, <2>5, <1>1
<1> DEFINE U == {x \in S : \E f, D : Good(f, D) /\ x \in D}
           Some(x) == CHOOSE f : \E D : Good(f, D) /\ x \in D
           F == [x \in S |-> IF x \in U THEN Some(x)[x] ELSE CHOOSE v \in V : TRUE]
<1>2. ASSUME NEW f, NEW D, Good(f, D) PROVE D \subseteq U /\ \A x \in D : F[x] = f[x]
  <2> SUFFICES ASSUME NEW x \in D PROVE x \in U /\ F[x] = f[x]
    OBVIOUS
  <2>1. x \in S /\ x \in U
    BY <1>2
  <2>2. PICK E : Good(Some(x), E) /\ x \in E
    BY <1>2
  <2>3. Some(x)[x] = f[x]
    <3> HIDE DEF Some, Good
    <3> QED
      BY <1>1, <1>2, <2>2
  <2> HIDE DEF Some, U, Good
  <2> QED
    BY <2>1, <2>3
<1>3. F \in [S -> V]
  <2> SUFFICES ASSUME NEW x \in S, x \in U PROVE Some(x)[x] \in V
    OBVIOUS
  <2>1. PICK E : Good(Some(x), E) /\ x \in E
    OBVIOUS
  <2>2. Some(x) \in [S -> V]
    BY <2>1
  <2> HIDE DEF Some
  <2> QED
    BY <2>2
<1> HIDE DEF F
<1>4. ASSUME NEW x \in U PROVE F[x] = Step[F][x] /\ \A y \in S : <<y, x>> \in Below => y \in U
  <2>1. PICK f, D : Good(f, D) /\ x \in D
    OBVIOUS
  <2>2. D \subseteq U /\ \A y \in D : F[y] = f[y]
    BY <1>2, <2>1
  <2>3. \A y \in S : <<y, x>> \in Below => y \in D
    BY <2>1
  <2>4. Step[F][x] = Step[f][x]
    BY <1>3, <2>1, <2>2, <2>3
  <2> QED
    BY <2>1, <2>2, <2>3, <2>4
<1>5. U = S
  <2> SUFFICES ASSUME S \ U # {} PROVE FALSE
    OBVIOUS
  <2>1. PICK x \in S \ U : \A y \in S \ U : <<y, x>> \notin Below
    <3> HIDE DEF U
    <3> QED
      OBVIOUS
  <2> DEFINE D == U \cup {x}
             g == [F EXCEPT ![x] = Step[F][x]]
  <2>2. Closed(D)
    BY <1>4, <2>1
  <2>3. g \in [S -> V] /\ g[x] = Step[F][x] /\ \A y \in S : y # x => g[y] = F[y]
    BY <1>3, <2>1
  <2>4. ASSUME NEW y \in D PROVE g[y] = Step[g][y]
    <3>1. y \in S
      BY <2>2
    <3>2. \A z \in S : <<z, y>> \in Below => z \in U
      BY <1>4, <2>1
    <3>3. \A z \in S : <<z, y>> \in Below => F[z] = g[z]
      BY <3>2, <2>3, <2>1
    <3> HIDE DEF g, U
    <3>4. Step[g][y] = Step[F][y]
      BY <3>1, <3>3, <1>3, <2>3
    <3> HIDE DEF U
    <3>5. CASE y = x
      BY <3>4, <3>5, <2>3
    <3>6. CASE y \in U
      BY <3>1, <3>4, <3>6, <2>1, <2>3, <1>4
    <3> QED
      BY <3>5, <3>6
  <2> HIDE DEF g
  <2>5. Good(g, D)
    BY <2>2, <2>3, <2>4
  <2>6. x \in U
    <3> HIDE DEF Good
    <3> QED
      BY <2>5, <2>1
  <2> QED
    BY <2>6, <2>1
<1>6. F = Step[F]
  <2>1. Step[F] \in [S -> V]
    BY <1>3
  <2> HIDE DEF U
  <2> QED
    BY <1>3, <1>4, <1>5, <2>1
<1> QED
  BY <1>3, <1>6
-----------------------------------------------------------------------------
(* Trees.                                                                  *)

\* The trees of each depth are made of those one less deep.
LEMMA TreesRecursion ==
    Trees = [n \in Nat |-> IF n = 0 THEN NoTrees ELSE Deeper(Trees[n - 1])]
<1> DEFINE Next1(e, i) == IF i = 0 THEN NoTrees ELSE Deeper(e[i - 1])
           Until(e, m) == e = [i \in 0 .. m |-> Next1(e, i)]
<1>1. ASSUME NEW m \in Nat, NEW n \in Nat, m <= n, NEW e, NEW d, Until(e, m), Until(d, n)
      PROVE  \A i \in 0 .. m : e[i] = d[i]
  <2> DEFINE T == {i \in 0 .. m : e[i] # d[i]}
  <2> SUFFICES ASSUME T # {} PROVE FALSE
    OBVIOUS
  <2>1. T \in SUBSET Nat
    OBVIOUS
  <2> HIDE DEF T
  <2>2. PICK i \in T : \A j \in T : i <= j
    BY <2>1, LeastNumber
  <2>3. i \in 0 .. m /\ e[i] # d[i]
    BY DEF T
  <2>4. e[i] = Next1(e, i) /\ d[i] = Next1(d, i)
    BY <2>3, <1>1
  <2>5. i # 0 => e[i - 1] = d[i - 1]
    BY <2>2, <2>3 DEF T
  <2> QED
    BY <2>3, <2>4, <2>5
<1> DEFINE S == {m \in Nat : \E e : Until(e, m)}
<1>2. S = Nat
  <2> DEFINE T == {m \in Nat : ~ \E e : Until(e, m)}
  <2> SUFFICES ASSUME T # {} PROVE FALSE
    OBVIOUS
  <2>1. PICK m \in T : \A j \in T : m <= j
    <3>1. T \in SUBSET Nat
      OBVIOUS
    <3> HIDE DEF T
    <3> QED
      BY <3>1, LeastNumber
  <2>2. CASE m = 0
    <3>1. Until([i \in 0 .. 0 |-> NoTrees], 0)
      OBVIOUS
    <3> HIDE DEF Until
    <3> QED
      BY <3>1, <2>2
  <2>3. CASE m # 0
    <3>1. m - 1 \in Nat /\ m - 1 \notin T
      <4>1. m \in Nat
        BY <2>1
      <4>2. m - 1 \in Nat /\ ~(m <= m - 1)
        BY <4>1, <2>3
      <4> HIDE DEF T
      <4> QED
        BY <4>2, <2>1
    <3>2. PICK e : Until(e, m - 1)
      <4> HIDE DEF Until
      <4> QED
        BY <3>1
    <3> DEFINE last == Deeper(e[m - 1])
               d == [i \in 0 .. m |-> IF i = m THEN last ELSE e[i]]
    <3>3. ASSUME NEW i \in 0 .. m PROVE d[i] = Next1(d, i)
      <4>1. CASE i = m
        BY <4>1, <2>3
      <4>2. CASE i # m
        <5>1. i \in 0 .. m - 1
          BY <4>2
        <5>2. e[i] = Next1(e, i)
          BY <5>1, <3>2
        <5>3. i # 0 => d[i - 1] = e[i - 1]
          BY <5>1
        <5> QED
          BY <4>2, <5>1, <5>2, <5>3
      <4> QED
        BY <4>1, <4>2
    <3>4. Until(d, m)
      <4>1. d = [i \in 0 .. m |-> d[i]]
        OBVIOUS
      <4> HIDE DEF d, Next1
      <4> QED
        BY <4>1, <3>3
    <3> HIDE DEF Until
    <3> QED
      BY <3>4
  <2> QED
    BY <2>2, <2>3
<1> DEFINE Nth(n) == (CHOOSE e : Until(e, n))
           F == [n \in Nat |-> Nth(n)[n]]
<1>3. ASSUME NEW n \in Nat PROVE Until(Nth(n), n)
  <2> HIDE DEF Until
  <2> QED
    BY <1>2
<1> HIDE DEF Nth
<1>4. ASSUME NEW n \in Nat PROVE F[n] = Next1(F, n)
  <2>1. Nth(n)[n] = Next1(Nth(n), n)
    BY <1>3
  <2>2. n # 0 => Nth(n)[n - 1] = Nth(n - 1)[n - 1]
    <3> SUFFICES ASSUME n # 0 PROVE Nth(n)[n - 1] = Nth(n - 1)[n - 1]
      OBVIOUS
    <3>1. n - 1 \in Nat /\ n - 1 <= n /\ Until(Nth(n), n) /\ Until(Nth(n - 1), n - 1)
      BY <1>3
    <3> HIDE DEF Until
    <3> QED
      BY <3>1, <1>1
  <2> QED
    BY <2>1, <2>2
<1> DEFINE Rec(f) == f = [n \in Nat |-> Next1(f, n)]
<1>5. Rec(F)
  <2>1. F = [n \in Nat |-> F[n]]
    OBVIOUS
  <2> HIDE DEF F, Next1
  <2> QED
    BY <2>1, <1>4
<1>6. Rec(Trees)
  <2>1. Trees = CHOOSE f : Rec(f)
    BY DEF Trees
  <2> HIDE DEF Rec
  <2> QED
    BY <2>1, <1>5
<1> QED
  BY <1>6

\* An element of a sequence.
LEMMA ElementOf ==
    ASSUME NEW S, NEW s \in Seq(S), NEW i \in DOMAIN s
    PROVE  s[i] \in S
OBVIOUS

\* Sequences over a larger set.
LEMMA SeqMonotone ==
    ASSUME NEW A, NEW B, A \subseteq B
    PROVE  Seq(A) \subseteq Seq(B) /\ Optional(A) \subseteq Optional(B)
<1>1. Seq(A) \subseteq Seq(B)
  OBVIOUS
<1> QED
  BY <1>1 DEF Optional

\* What there is in an expression of each kind.
LEMMA ExpressionKinds ==
    ASSUME NEW E, NEW e \in ExpressionsOf(E)
    PROVE  /\ e.kind \in {"int", "bool", "name", "negate", "binary", "call", "field", "construct"}
           /\ e.kind \in {"name", "call", "field"} => e.name \in STRING
           /\ e.kind \in {"negate", "binary", "field"} => e.left \in E
           /\ e.kind = "binary" => e.right \in E /\ e.op \in Operators
           /\ e.kind = "call" => e.args \in Seq(E)
           /\ e.kind = "construct" => /\ e.type \in STRING /\ e.names \in Seq(STRING) /\ e.values \in Seq(E)
                                      /\ Len(e.names) = 1 => Len(e.values) <= 1
<1>1. CASE e \in [kind : {"int"}, value : Nat]
  BY <1>1
<1>2. CASE e \in [kind : {"bool"}, value : BOOLEAN]
  BY <1>2
<1>3. CASE e \in [kind : {"name"}, name : STRING]
  BY <1>3
<1>4. CASE e \in [kind : {"negate"}, left : E]
  BY <1>4
<1>5. CASE e \in [kind : {"field"}, left : E, name : STRING]
  BY <1>5
<1>6. CASE e \in [kind : {"binary"}, op : Operators, left : E, right : E]
  BY <1>6
<1>7. CASE e \in [kind : {"call"}, name : STRING, args : Seq(E)]
  BY <1>7
<1>8. CASE e \in ConstructsOf(E)
  <2>1. /\ e \in [kind : {"construct"}, type : STRING, names : Seq(STRING), values : Seq(E)]
        /\ Len(e.values) = Len(e.names) \/ (Len(e.names) = 1 /\ e.values = <<>>)
    BY <1>8 DEF ConstructsOf
  <2>2. e.kind = "construct" /\ e.type \in STRING /\ e.names \in Seq(STRING) /\ e.values \in Seq(E)
    BY <2>1
  <2> DEFINE m == Len(e.names)
             n == Len(e.values)
  <2>3. n = m \/ (m = 1 /\ n = 0)
    BY <2>1
  <2> HIDE DEF m, n
  <2>4. m = 1 => n <= 1
    BY <2>3
  <2> QED
    BY <2>2, <2>4 DEF m, n
<1> QED
  BY <1>1, <1>2, <1>3, <1>4, <1>5, <1>6, <1>7, <1>8 DEF ExpressionsOf

\* The parts of an expression that is made of E are in E.
LEMMA PartsAreExpressions ==
    ASSUME NEW E, NEW e \in ExpressionsOf(E)
    PROVE  Parts(e) \in Seq(E)
<1>1. CASE e.kind \in {"negate", "field"}
  <2>1. e.left \in E
    BY <1>1, ExpressionKinds
  <2> QED
    BY <1>1, <2>1 DEF Parts
<1>2. CASE e.kind = "binary"
  <2>1. e.left \in E /\ e.right \in E
    BY <1>2, ExpressionKinds
  <2> QED
    BY <1>2, <2>1 DEF Parts
<1>3. CASE e.kind = "call"
  <2>1. e.args \in Seq(E)
    BY <1>3, ExpressionKinds
  <2> QED
    BY <1>3, <2>1 DEF Parts
<1>4. CASE e.kind = "construct"
  <2>1. e.values \in Seq(E)
    BY <1>4, ExpressionKinds
  <2> QED
    BY <1>4, <2>1 DEF Parts
<1>5. CASE e.kind \in {"int", "bool", "name"}
  BY <1>5 DEF Parts
<1> QED
  BY <1>1, <1>2, <1>3, <1>4, <1>5, ExpressionKinds

\* More expressions give more expressions.
LEMMA ExpressionsMonotone ==
    ASSUME NEW E, NEW F, E \subseteq F
    PROVE  ExpressionsOf(E) \subseteq ExpressionsOf(F)
<1>2. Seq(E) \subseteq Seq(F)
  BY SeqMonotone
<1>4. /\ [kind : {"negate"}, left : E] \subseteq [kind : {"negate"}, left : F]
      /\ [kind : {"field"}, left : E, name : STRING] \subseteq [kind : {"field"}, left : F, name : STRING]
      /\ [kind : {"binary"}, op : Operators, left : E, right : E]
            \subseteq [kind : {"binary"}, op : Operators, left : F, right : F]
  OBVIOUS
<1>5. [kind : {"call"}, name : STRING, args : Seq(E)] \subseteq [kind : {"call"}, name : STRING, args : Seq(F)]
  BY <1>2
<1>6. ConstructsOf(E) \subseteq ConstructsOf(F)
  BY <1>2 DEF ConstructsOf
<1> QED
  BY <1>4, <1>5, <1>6, Zenon DEF ExpressionsOf

\* What there is in a statement of each kind.
LEMMA StatementKinds ==
    ASSUME NEW E, NEW B, NEW s \in StatementsOf(E, B)
    PROVE  /\ s.kind \in {"bind", "assign", "return", "if", "while", "match"}
           /\ Subject(s) \in E
           /\ s.kind \in {"bind", "assign"} => s.name \in STRING
           /\ s.kind = "bind" => s.type \in STRING /\ s.mutable \in BOOLEAN
           /\ s.kind = "if" => s.then \in B /\ s.else \in B
           /\ s.kind = "while" => s.body \in B
           /\ s.kind = "match" =>
                 s.cases \in Seq([variant : STRING, binding : Optional(STRING), body : B])
<1>1. CASE s \in [kind : {"bind"}, name : STRING, type : STRING, expr : E, mutable : BOOLEAN]
  BY <1>1 DEF Subject
<1>2. CASE s \in [kind : {"assign"}, name : STRING, expr : E]
  BY <1>2 DEF Subject
<1>3. CASE s \in [kind : {"return"}, expr : E]
  BY <1>3 DEF Subject
<1>4. CASE s \in [kind : {"if"}, expr : E, then : B, else : B]
  BY <1>4 DEF Subject
<1>5. CASE s \in [kind : {"while"}, condition : E, body : B]
  BY <1>5 DEF Subject
<1>6. CASE s \in [kind : {"match"}, expr : E,
                  cases : Seq([variant : STRING, binding : Optional(STRING), body : B])]
  BY <1>6 DEF Subject
<1> QED
  BY <1>1, <1>2, <1>3, <1>4, <1>5, <1>6 DEF StatementsOf

\* A case of a match.
LEMMA CaseKinds ==
    ASSUME NEW E, NEW B, NEW s \in StatementsOf(E, B), s.kind = "match", NEW i \in DOMAIN s.cases
    PROVE  /\ s.cases[i].variant \in STRING /\ s.cases[i].body \in B
           /\ s.cases[i].binding \in Seq(STRING) /\ Len(s.cases[i].binding) <= 1
<1>1. s.cases \in Seq([variant : STRING, binding : Optional(STRING), body : B])
  BY StatementKinds
<1>2. s.cases[i] \in [variant : STRING, binding : Optional(STRING), body : B]
  BY <1>1, ElementOf
<1> QED
  BY <1>2 DEF Optional

\* More expressions and blocks give more statements.
LEMMA StatementsMonotone ==
    ASSUME NEW E, NEW F, E \subseteq F, NEW B, NEW C, B \subseteq C
    PROVE  StatementsOf(E, B) \subseteq StatementsOf(F, C)
<1> DEFINE Cases(X) == [variant : STRING, binding : Optional(STRING), body : X]
<1>1. Cases(B) \subseteq Cases(C)
  OBVIOUS
<1> HIDE DEF Cases
<1>2. Seq(Cases(B)) \subseteq Seq(Cases(C))
  BY <1>1, SeqMonotone
<1>3. /\ [kind : {"bind"}, name : STRING, type : STRING, expr : E, mutable : BOOLEAN]
            \subseteq [kind : {"bind"}, name : STRING, type : STRING, expr : F, mutable : BOOLEAN]
      /\ [kind : {"assign"}, name : STRING, expr : E] \subseteq [kind : {"assign"}, name : STRING, expr : F]
      /\ [kind : {"return"}, expr : E] \subseteq [kind : {"return"}, expr : F]
  OBVIOUS
<1>4. /\ [kind : {"if"}, expr : E, then : B, else : B]
            \subseteq [kind : {"if"}, expr : F, then : C, else : C]
      /\ [kind : {"while"}, condition : E, body : B] \subseteq [kind : {"while"}, condition : F, body : C]
  OBVIOUS
<1>5. [kind : {"match"}, expr : E, cases : Seq(Cases(B))]
         \subseteq [kind : {"match"}, expr : F, cases : Seq(Cases(C))]
  BY <1>2
<1> QED
  BY <1>3, <1>4, <1>5, Zenon DEF StatementsOf, Cases

\* The trees of a depth are among those of every greater depth.
LEMMA TreesMonotone ==
    ASSUME NEW n \in Nat
    PROVE  /\ Trees[0] = NoTrees /\ Trees[n + 1] = Deeper(Trees[n])
           /\ Trees[n].expressions \subseteq Trees[n + 1].expressions
           /\ Trees[n].blocks \subseteq Trees[n + 1].blocks
<1>1. Trees[0] = NoTrees /\ \A m \in Nat : Trees[m + 1] = Deeper(Trees[m])
  <2>1. Trees[0] = NoTrees
    BY TreesRecursion
  <2>2. ASSUME NEW m \in Nat PROVE Trees[m + 1] = Deeper(Trees[m])
    <3>1. m + 1 \in Nat /\ m + 1 # 0 /\ (m + 1) - 1 = m
      OBVIOUS
    <3> QED
      BY <3>1, TreesRecursion
  <2> QED
    BY <2>1, <2>2
<1> DEFINE Grows(m) == /\ Trees[m].expressions \subseteq Trees[m + 1].expressions
                       /\ Trees[m].blocks \subseteq Trees[m + 1].blocks
           T == {m \in Nat : ~Grows(m)}
<1>2. T = {}
  <2> SUFFICES ASSUME T # {} PROVE FALSE
    OBVIOUS
  <2>1. PICK m \in T : \A j \in T : m <= j
    <3>1. T \in SUBSET Nat
      OBVIOUS
    <3> HIDE DEF T
    <3> QED
      BY <3>1, LeastNumber
  <2>2. m \in Nat /\ ~Grows(m)
    OBVIOUS
  <2>3. m # 0
    <3>1. Trees[0].expressions = {} /\ Trees[0].blocks = {}
      BY <1>1 DEF NoTrees
    <3> QED
      BY <3>1, <2>2
  <2>4. m - 1 \in Nat /\ Grows(m - 1)
    <3>1. m - 1 \in Nat /\ ~(m <= m - 1)
      BY <2>2, <2>3
    <3> HIDE DEF Grows
    <3> QED
      BY <3>1, <2>1
  <2>5. Trees[m] = Deeper(Trees[m - 1]) /\ Trees[m + 1] = Deeper(Trees[m])
    <3>1. (m - 1) + 1 = m
      BY <2>2
    <3> QED
      BY <3>1, <2>2, <2>4, <1>1
  <2> DEFINE less == Trees[m - 1]
             more == Trees[m]
  <2>6. less.expressions \subseteq more.expressions /\ less.blocks \subseteq more.blocks
    <3>1. (m - 1) + 1 = m
      BY <2>2
    <3> QED
      BY <3>1, <2>4
  <2> HIDE DEF less, more
  <2>7. ExpressionsOf(less.expressions) \subseteq ExpressionsOf(more.expressions)
    BY <2>6, ExpressionsMonotone
  <2>8. Seq(StatementsOf(less.expressions, less.blocks))
           \subseteq Seq(StatementsOf(more.expressions, more.blocks))
    BY <2>6, StatementsMonotone, SeqMonotone
  <2>9. /\ Deeper(less).expressions \subseteq Deeper(more).expressions
        /\ Deeper(less).blocks \subseteq Deeper(more).blocks
    BY <2>7, <2>8 DEF Deeper
  <2> QED
    BY <2>2, <2>5, <2>9 DEF less, more
<1> QED
  BY <1>1, <1>2

\* What an expression or a block is made of are trees.
LEMMA TreesClosed ==
    ASSUME NEW n \in Nat
    PROVE  /\ \A m \in 0 .. n : /\ Trees[m].expressions \subseteq Trees[n].expressions
                                /\ Trees[m].blocks \subseteq Trees[n].blocks
           /\ Trees[n].expressions \subseteq ExpressionsOf(Trees[n].expressions)
           /\ Trees[n].blocks \subseteq Seq(StatementsOf(Trees[n].expressions, Trees[n].blocks))
<1> DEFINE Within(m) == /\ Trees[m].expressions \subseteq Trees[n].expressions
                        /\ Trees[m].blocks \subseteq Trees[n].blocks
<1>1. ASSUME NEW m \in 0 .. n PROVE Within(m)
  <2> DEFINE T == {k \in Nat : k <= n /\ ~Within(n - k)}
  <2> SUFFICES T = {}
    <3>1. n - m \in Nat /\ n - m <= n /\ n - (n - m) = m
      OBVIOUS
    <3> HIDE DEF Within
    <3> QED
      BY <3>1
  <2> SUFFICES ASSUME T # {} PROVE FALSE
    OBVIOUS
  <2>1. PICK k \in T : \A j \in T : k <= j
    <3>1. T \in SUBSET Nat
      OBVIOUS
    <3> HIDE DEF T
    <3> QED
      BY <3>1, LeastNumber
  <2>2. k \in Nat /\ k <= n /\ ~Within(n - k)
    OBVIOUS
  <2>3. k # 0
    <3>1. n - 0 = n
      OBVIOUS
    <3> QED
      BY <3>1, <2>2
  <2>4. Within(n - (k - 1))
    <3>1. k - 1 \in Nat /\ ~(k <= k - 1) /\ k - 1 <= n
      BY <2>2, <2>3
    <3> HIDE DEF Within
    <3> QED
      BY <3>1, <2>1
  <2>5. n - k \in Nat /\ (n - k) + 1 = n - (k - 1)
    BY <2>2
  <2> QED
    BY <2>2, <2>4, <2>5, TreesMonotone
<1>2. CASE n = 0
  <2>1. Trees[n].expressions = {} /\ Trees[n].blocks = {}
    BY <1>2, TreesMonotone DEF NoTrees
  <2> QED
    BY <1>1, <2>1
<1>3. CASE n # 0
  <2>1. n - 1 \in Nat /\ (n - 1) + 1 = n
    BY <1>3
  <2> DEFINE less == Trees[n - 1]
  <2>2. Trees[n] = Deeper(less)
    BY <2>1, TreesMonotone
  <2>3. less.expressions \subseteq Trees[n].expressions /\ less.blocks \subseteq Trees[n].blocks
    BY <2>1, TreesMonotone
  <2> HIDE DEF less
  <2>4. ExpressionsOf(less.expressions) \subseteq ExpressionsOf(Trees[n].expressions)
    BY <2>3, ExpressionsMonotone
  <2>5. Seq(StatementsOf(less.expressions, less.blocks))
           \subseteq Seq(StatementsOf(Trees[n].expressions, Trees[n].blocks))
    BY <2>3, StatementsMonotone, SeqMonotone
  <2>6. /\ Trees[n].expressions = ExpressionsOf(less.expressions)
        /\ Trees[n].blocks = Seq(StatementsOf(less.expressions, less.blocks))
    BY <2>2 DEF Deeper
  <2> QED
    BY <1>1, <2>4, <2>5, <2>6
<1> QED
  BY <1>2, <1>3

Statements == StatementsOf(Expressions, Blocks)

\* Expressions are made of expressions, blocks of statements.
LEMMA SyntaxClosed ==
    /\ Expressions \subseteq ExpressionsOf(Expressions)
    /\ Blocks \subseteq Seq(Statements)
BY TreesClosed, DepthAssumption DEF DepthAssumption, Expressions, Blocks, Statements

\* The rest of a block is a block.
LEMMA BlocksTail ==
    ASSUME NEW b \in Blocks, b # <<>>
    PROVE  b[1] \in Statements /\ Tail(b) \in Blocks /\ Len(Tail(b)) < Len(b)
<1>1. b \in Seq(Statements)
  BY SyntaxClosed
<1>2. Depth \in Nat /\ Blocks = Trees[Depth].blocks
  BY DepthAssumption DEF DepthAssumption, Blocks
<1>3. Depth # 0
  BY <1>2, TreesMonotone DEF NoTrees
<1> DEFINE less == Trees[Depth - 1]
<1>4. Depth - 1 \in Nat /\ (Depth - 1) + 1 = Depth
  BY <1>2, <1>3
<1>5. Blocks = Seq(StatementsOf(less.expressions, less.blocks))
  <2>1. Trees[Depth] = Deeper(less)
    BY <1>4, TreesMonotone
  <2> HIDE DEF less
  <2> QED
    BY <1>2, <2>1 DEF Deeper
<1> HIDE DEF less
<1>6. Tail(b) \in Blocks
  BY <1>5
<1> QED
  BY <1>1, <1>6

-----------------------------------------------------------------------------
(* Recursion over trees.                                                   *)

PartsBelow ==
    {z \in Expressions \X Expressions : \E i \in DOMAIN Parts(z[2]) : z[1] = Parts(z[2])[i]}

\* Among any expressions there is one that has none of them as a part.
LEMMA PartsWellFounded == HasMinima(Expressions, PartsBelow)
<1> SUFFICES ASSUME NEW T \in SUBSET Expressions, T # {}
             PROVE  \E x \in T : \A y \in T : <<y, x>> \notin PartsBelow
  BY DEF HasMinima
<1> DEFINE N == {n \in Nat : \E e \in T : e \in Trees[n].expressions}
<1>1. PICK n \in N : \A m \in N : n <= m
  <2>1. N \in SUBSET Nat
    OBVIOUS
  <2>2. N # {}
    BY DepthAssumption DEF DepthAssumption, Expressions
  <2> HIDE DEF N
  <2> QED
    BY <2>1, <2>2, LeastNumber
<1>2. PICK x \in T : x \in Trees[n].expressions
  BY <1>1
<1>3. n # 0
  BY <1>2, TreesMonotone DEF NoTrees
<1>4. n - 1 \in Nat /\ (n - 1) + 1 = n /\ ~(n <= n - 1)
  BY <1>1, <1>3
<1> DEFINE less == Trees[n - 1]
<1>5. x \in ExpressionsOf(less.expressions)
  <2>1. Trees[n] = Deeper(less)
    BY <1>4, TreesMonotone
  <2> HIDE DEF less
  <2> QED
    BY <1>2, <2>1 DEF Deeper
<1>6. \A y \in T : y \notin less.expressions
  BY <1>1, <1>4
<1> HIDE DEF less
<1>7. \A i \in DOMAIN Parts(x) : Parts(x)[i] \in less.expressions
  BY <1>5, PartsAreExpressions, ElementOf
<1> QED
  BY <1>2, <1>6, <1>7 DEF PartsBelow

\* The blocks that a statement contains.
Nested(s) ==
    CASE s.kind = "if"    -> {s.then, s.else}
      [] s.kind = "while" -> {s.body}
      [] s.kind = "match" -> {s.cases[i].body : i \in DOMAIN s.cases}
      [] OTHER -> {}

\* What is nested in a statement that is made of B is in B.
LEMMA NestedBlocks ==
    ASSUME NEW E, NEW B, NEW s \in StatementsOf(E, B)
    PROVE  Nested(s) \subseteq B
<1>1. CASE s.kind = "match"
  BY <1>1, CaseKinds DEF Nested
<1>2. CASE s.kind # "match"
  BY <1>2, StatementKinds DEF Nested
<1> QED
  BY <1>1, <1>2

BlocksBelow ==
    {z \in Blocks \X Blocks : z[2] # <<>> /\ (z[1] = Tail(z[2]) \/ z[1] \in Nested(z[2][1]))}

\* Among any blocks there is one of which none is the rest or nested in it.
LEMMA BlocksWellFounded == HasMinima(Blocks, BlocksBelow)
<1> SUFFICES ASSUME NEW T \in SUBSET Blocks, T # {}
             PROVE  \E x \in T : \A y \in T : <<y, x>> \notin BlocksBelow
  BY DEF HasMinima
<1> DEFINE N == {n \in Nat : \E b \in T : b \in Trees[n].blocks}
<1>1. PICK n \in N : \A m \in N : n <= m
  <2>1. N \in SUBSET Nat
    OBVIOUS
  <2>2. N # {}
    BY DepthAssumption DEF DepthAssumption, Blocks
  <2> HIDE DEF N
  <2> QED
    BY <2>1, <2>2, LeastNumber
<1> DEFINE L == {Len(b) : b \in T \cap Trees[n].blocks}
<1>2. PICK l \in L : \A k \in L : l <= k
  <2>1. L \in SUBSET Nat
    BY SyntaxClosed
  <2>2. L # {}
    BY <1>1
  <2> HIDE DEF L
  <2> QED
    BY <2>1, <2>2, LeastNumber
<1>3. PICK x \in T : x \in Trees[n].blocks /\ Len(x) = l
  BY <1>2
<1>4. n # 0
  BY <1>3, TreesMonotone DEF NoTrees
<1>5. n - 1 \in Nat /\ (n - 1) + 1 = n /\ ~(n <= n - 1)
  BY <1>1, <1>4
<1> DEFINE less == Trees[n - 1]
<1>6. Trees[n].blocks = Seq(StatementsOf(less.expressions, less.blocks))
  <2>1. Trees[n] = Deeper(less)
    BY <1>5, TreesMonotone
  <2> HIDE DEF less
  <2> QED
    BY <2>1 DEF Deeper
<1>7. \A y \in T : y \notin less.blocks
  BY <1>1, <1>5
<1> HIDE DEF less
<1>8. ASSUME NEW y \in T, x # <<>>, y \in Nested(x[1]) PROVE FALSE
  <2>1. x[1] \in StatementsOf(less.expressions, less.blocks)
    BY <1>3, <1>6, <1>8
  <2> QED
    BY <2>1, <1>7, <1>8, NestedBlocks
<1>9. ASSUME NEW y \in T, x # <<>>, y = Tail(x) PROVE FALSE
  <2>1. y \in Trees[n].blocks /\ Len(y) < Len(x) /\ Len(x) \in Nat /\ Len(y) \in Nat
    BY <1>3, <1>6, <1>9
  <2>2. Len(y) \in L
    BY <2>1
  <2> HIDE DEF L
  <2> QED
    BY <1>2, <1>3, <2>1, <2>2
<1> HIDE DEF L, N
<1> QED
  BY <1>3, <1>8, <1>9 DEF BlocksBelow

-----------------------------------------------------------------------------
(* Names.                                                                  *)

\* Find gives the first element of that name, if there is one.
LEMMA FindResult ==
    ASSUME NEW S, NEW s \in Seq(S), NEW n
    PROVE  /\ Find(s, n) = <<>> <=> \A i \in DOMAIN s : s[i].name # n
           /\ Find(s, n) # <<>> => \E i \in DOMAIN s :
                 Find(s, n) = <<s[i]>> /\ s[i].name = n /\ \A j \in DOMAIN s : s[j].name = n => i <= j
<1> DEFINE hits == {i \in DOMAIN s : s[i].name = n}
           first == CHOOSE i \in hits : \A j \in hits : i <= j
<1>1. CASE hits = {}
  BY <1>1 DEF Find
<1>2. CASE hits # {}
  <2>1. hits \in SUBSET Nat
    OBVIOUS
  <2>2. first \in hits /\ \A j \in hits : first <= j
    <3> HIDE DEF hits
    <3> QED
      BY <1>2, <2>1, LeastNumber
  <2>3. Find(s, n) = <<s[first]>>
    BY <1>2 DEF Find
  <2> HIDE DEF first
  <2> QED
    BY <2>2, <2>3
<1> QED
  BY <1>1, <1>2

\* LastOf is the last index of that name, if there is one.
LEMMA LastOfResult ==
    ASSUME NEW S, NEW s \in Seq(S), NEW n, \E i \in DOMAIN s : s[i].name = n
    PROVE  /\ LastOf(s, n) \in DOMAIN s /\ s[LastOf(s, n)].name = n
           /\ \A j \in DOMAIN s : s[j].name = n => j <= LastOf(s, n)
<1> DEFINE N == {k \in Nat : k <= Len(s) /\ Len(s) - k \in DOMAIN s /\ s[Len(s) - k].name = n}
<1>1. PICK k \in N : \A m \in N : k <= m
  <2>1. N \in SUBSET Nat
    OBVIOUS
  <2>2. N # {}
    <3>1. PICK i \in DOMAIN s : s[i].name = n
      OBVIOUS
    <3>2. Len(s) - i \in Nat /\ Len(s) - i <= Len(s) /\ Len(s) - (Len(s) - i) = i
      OBVIOUS
    <3> QED
      BY <3>1, <3>2
  <2> HIDE DEF N
  <2> QED
    BY <2>1, <2>2, LeastNumber
<1> DEFINE i == Len(s) - k
           Last(j) == s[j].name = n /\ \A m \in DOMAIN s : s[m].name = n => m <= j
<1>2. i \in DOMAIN s /\ s[i].name = n
  BY <1>1
<1>3. ASSUME NEW j \in DOMAIN s, s[j].name = n PROVE j <= i
  <2>1. Len(s) - j \in Nat /\ Len(s) - j <= Len(s) /\ Len(s) - (Len(s) - j) = j
    OBVIOUS
  <2>2. Len(s) - j \in N
    BY <2>1, <1>3
  <2>3. k <= Len(s) - j /\ k \in Nat
    BY <2>2, <1>1
  <2> QED
    BY <2>3
<1>4. Last(i)
  BY <1>2, <1>3
<1>5. LastOf(s, n) = CHOOSE j \in DOMAIN s : Last(j)
  BY DEF LastOf
<1> HIDE DEF i
<1>6. LastOf(s, n) \in DOMAIN s /\ Last(LastOf(s, n))
  <2> HIDE DEF Last
  <2> QED
    BY <1>2, <1>4, <1>5
<1> QED
  BY <1>6
-----------------------------------------------------------------------------
(* Types of expressions.                                                   *)

\* What a program is made of.
LEMMA TreeParts ==
    ASSUME NEW p \in Tree
    PROVE  /\ p.types \in Seq(TypeDecl) /\ p.functions \in Seq(FunctionDecl)
           /\ \A d \in TypeDecl : /\ d.name \in STRING /\ d.name # "" /\ d.choice \in BOOLEAN
                                  /\ d.members \in Seq(Member)
           /\ \A f \in FunctionDecl : /\ f.name \in STRING /\ f.params \in Seq(Member)
                                      /\ f.returns \in STRING /\ f.body \in Blocks
           /\ \A m \in Member : m.name \in STRING /\ m.type \in STRING
<1>1. p.types \in Seq(TypeDecl) /\ p.functions \in Seq(FunctionDecl)
  BY DEF Tree
<1>2. \A d \in TypeDecl : /\ d.name \in STRING /\ d.name # "" /\ d.choice \in BOOLEAN
                          /\ d.members \in Seq(Member)
  BY DEF TypeDecl
<1>3. \A f \in FunctionDecl : /\ f.name \in STRING /\ f.params \in Seq(Member)
                              /\ f.returns \in STRING /\ f.body \in Blocks
  BY DEF FunctionDecl
<1>4. \A m \in Member : m.name \in STRING /\ m.type \in STRING
  BY DEF Member
<1> QED
  BY <1>1, <1>2, <1>3, <1>4

\* The declarations that names lead to.
LEMMA FoundType ==
    ASSUME NEW p \in Tree, NEW n, FindType(p, n) # <<>>
    PROVE  /\ FindType(p, n) = <<FindType(p, n)[1]>>
           /\ FindType(p, n)[1] \in TypeDecl /\ FindType(p, n)[1].name = n
           /\ \E i \in DOMAIN p.types : FindType(p, n)[1] = p.types[i]
<1>1. p.types \in Seq(TypeDecl)
  BY TreeParts
<1>2. PICK i \in DOMAIN p.types : Find(p.types, n) = <<p.types[i]>> /\ p.types[i].name = n
  BY <1>1, FindResult DEF FindType
<1>3. p.types[i] \in TypeDecl
  BY <1>1, ElementOf
<1> QED
  BY <1>2, <1>3 DEF FindType

\* The function that a name leads to.
LEMMA FoundFunction ==
    ASSUME NEW p \in Tree, NEW n, FindFunction(p, n) # <<>>
    PROVE  /\ FindFunction(p, n) = <<FindFunction(p, n)[1]>>
           /\ FindFunction(p, n)[1] \in FunctionDecl /\ FindFunction(p, n)[1].name = n
           /\ \E i \in DOMAIN p.functions : FindFunction(p, n)[1] = p.functions[i]
<1>1. p.functions \in Seq(FunctionDecl)
  BY TreeParts
<1>2. PICK i \in DOMAIN p.functions : Find(p.functions, n) = <<p.functions[i]>> /\ p.functions[i].name = n
  BY <1>1, FindResult DEF FindFunction
<1>3. p.functions[i] \in FunctionDecl
  BY <1>1, ElementOf
<1> QED
  BY <1>2, <1>3 DEF FindFunction

\* The member that a name leads to.
LEMMA FoundMember ==
    ASSUME NEW d, d.members \in Seq(Member), NEW n, FindMember(d, n) # <<>>
    PROVE  /\ FindMember(d, n) = <<FindMember(d, n)[1]>>
           /\ FindMember(d, n)[1] \in Member /\ FindMember(d, n)[1].name = n
           /\ \E i \in DOMAIN d.members : FindMember(d, n)[1] = d.members[i]
<1>1. PICK i \in DOMAIN d.members : Find(d.members, n) = <<d.members[i]>> /\ d.members[i].name = n
  BY FindResult DEF FindMember
<1>2. d.members[i] \in Member
  BY ElementOf
<1> QED
  BY <1>1, <1>2 DEF FindMember

\* The local that a name leads to.
LEMMA FoundLocal ==
    ASSUME NEW l \in Seq(TypedLocal), NEW n, FindLocal(l, n) # <<>>
    PROVE  /\ \E i \in DOMAIN l : l[i].name = n
           /\ LastOf(l, n) \in DOMAIN l /\ l[LastOf(l, n)].name = n
           /\ FindLocal(l, n) = <<l[LastOf(l, n)]>>
           /\ FindLocal(l, n)[1] \in TypedLocal
<1>1. \E i \in DOMAIN l : l[i].name = n
  BY DEF FindLocal
<1>2. LastOf(l, n) \in DOMAIN l /\ l[LastOf(l, n)].name = n
  BY <1>1, LastOfResult
<1>3. FindLocal(l, n) = <<l[LastOf(l, n)]>>
  BY <1>1 DEF FindLocal
<1>4. l[LastOf(l, n)] \in TypedLocal
  BY <1>2, ElementOf
<1> QED
  BY <1>1, <1>2, <1>3, <1>4

\* The types that the checker computes with.
LEMMA NamesAreTypes ==
    ASSUME NEW p
    PROVE  /\ Invalid \in Type /\ IntType \in Type /\ BoolType \in Type
           /\ \A n \in STRING : NamedType(n) \in Type /\ TypeNamed(p, n) \in Type
BY DEF Invalid, IntType, BoolType, NamedType, TypeNamed, Type, Builtins

\* The checker gives a type to every expression, or none.
LEMMA ExprTypeIsType ==
    ASSUME NEW p \in Tree, NEW l \in Seq(TypedLocal), NEW types \in [Expressions -> Type],
           NEW e \in Expressions
    PROVE  ExprType(p, l, types, e) \in Type
<1>1. e \in ExpressionsOf(Expressions)
  BY SyntaxClosed
<1>2. CASE e.kind = "int"
  BY <1>2, NamesAreTypes DEF ExprType
<1>3. CASE e.kind = "bool"
  BY <1>3, NamesAreTypes DEF ExprType
<1>4. CASE e.kind = "name"
  <2>1. ExprType(p, l, types, e) = NameType(l, e.name)
    BY <1>4 DEF ExprType
  <2>2. FindLocal(l, e.name) # <<>> => FindLocal(l, e.name)[1].type \in Type
    BY FoundLocal DEF TypedLocal
  <2> QED
    BY <2>1, <2>2, NamesAreTypes DEF NameType
<1>5. CASE e.kind = "call"
  <2> DEFINE f == FindFunction(p, e.name)
  <2>1. ExprType(p, l, types, e) = IF f = <<>> THEN Invalid ELSE CallType(p, types, f[1], e.args)
    BY <1>5 DEF ExprType
  <2>2. f # <<>> => f[1].returns \in STRING
    BY FoundFunction, TreeParts
  <2> HIDE DEF f
  <2> QED
    BY <2>1, <2>2, NamesAreTypes DEF CallType
<1>6. CASE e.kind = "construct"
  <2> DEFINE d == FindType(p, e.type)
  <2>1. ExprType(p, l, types, e)
           = IF d = <<>> THEN Invalid
             ELSE IF d[1].choice THEN ChoiceType(p, types, d[1], e.names, e.values)
             ELSE StructureType(p, types, d[1], e.names, e.values)
    BY <1>6 DEF ExprType, ConstructType
  <2>2. d # <<>> => d[1].name \in STRING
    BY FoundType, TreeParts
  <2> HIDE DEF d
  <2> QED
    BY <2>1, <2>2, NamesAreTypes DEF StructureType, ChoiceType
<1>8. CASE e.kind = "field"
  <2> DEFINE d == Declaration(p, types[e.left])
             m == FindMember(d[1], e.name)
  <2>1. ExprType(p, l, types, e)
           = IF d = <<>> \/ d[1].choice \/ m = <<>> THEN Invalid ELSE TypeNamed(p, m[1].type)
    BY <1>8 DEF ExprType, FieldType
  <2>2. d # <<>> => d[1].members \in Seq(Member)
    BY FoundType, TreeParts DEF Declaration
  <2>3. d # <<>> /\ m # <<>> => m[1].type \in STRING
    BY <2>2, FoundMember, TreeParts
  <2> HIDE DEF d, m
  <2> QED
    BY <2>1, <2>3, NamesAreTypes
<1>9. CASE e.kind = "negate"
  BY <1>1, <1>9, NamesAreTypes, ExpressionKinds DEF ExprType, NegateType
<1>10. CASE e.kind = "binary"
  <2>1. ExprType(p, l, types, e) = BinaryType(e.op, types[e.left], types[e.right])
    BY <1>10 DEF ExprType
  <2> QED
    BY <2>1, NamesAreTypes DEF BinaryType
<1> QED
  BY <1>1, <1>2, <1>3, <1>4, <1>5, <1>6, <1>8, <1>9, <1>10, ExpressionKinds

\* The type of an expression depends only on the types of its parts.
LEMMA ExprTypeOfParts ==
    ASSUME NEW p, NEW l, NEW e \in Expressions, NEW f, NEW g,
           \A i \in DOMAIN Parts(e) : f[Parts(e)[i]] = g[Parts(e)[i]]
    PROVE  ExprType(p, l, f, e) = ExprType(p, l, g, e)
<1>1. e \in ExpressionsOf(Expressions)
  BY SyntaxClosed
<1>2. CASE e.kind \in {"int", "bool", "name"}
  BY <1>2 DEF ExprType
<1>3. CASE e.kind \in {"negate", "field"}
  <2>1. Parts(e) = <<e.left>>
    BY <1>3 DEF Parts
  <2>2. f[e.left] = g[e.left]
    BY <2>1
  <2> QED
    BY <1>3, <2>2 DEF ExprType
<1>4. CASE e.kind = "binary"
  <2>1. Parts(e) = <<e.left, e.right>>
    BY <1>4 DEF Parts
  <2>2. f[e.left] = g[e.left] /\ f[e.right] = g[e.right]
    BY <2>1
  <2> QED
    BY <1>4, <2>2 DEF ExprType
<1>5. CASE e.kind = "call"
  <2>1. \A i \in DOMAIN e.args : f[e.args[i]] = g[e.args[i]]
    BY <1>5 DEF Parts
  <2>2. \A d : CallType(p, f, d, e.args) = CallType(p, g, d, e.args)
    BY <2>1 DEF CallType
  <2> QED
    BY <1>5, <2>2 DEF ExprType
<1>6. CASE e.kind = "construct"
  <2>1. Parts(e) = e.values /\ e.values \in Seq(Expressions)
    BY <1>1, <1>6, ExpressionKinds DEF Parts
  <2>2. \A i \in DOMAIN e.values : f[e.values[i]] = g[e.values[i]]
    BY <2>1
  <2>3. \A d : StructureType(p, f, d, e.names, e.values) = StructureType(p, g, d, e.names, e.values)
    <3>1. Len(e.values) = Len(e.names) => DOMAIN e.values = DOMAIN e.names
      BY <1>1, <1>6, <2>1, ExpressionKinds
    <3> QED
      BY <2>2, <3>1 DEF StructureType, Suits
  <2>4. e.values # <<>> => f[e.values[1]] = g[e.values[1]]
    BY <2>1, <2>2
  <2>5. \A d : ChoiceType(p, f, d, e.names, e.values) = ChoiceType(p, g, d, e.names, e.values)
    BY <2>4 DEF ChoiceType, Suits
  <2> QED
    BY <1>6, <2>3, <2>5 DEF ExprType, ConstructType
<1> QED
  BY <1>1, <1>2, <1>3, <1>4, <1>5, <1>6, ExpressionKinds

\* The types of all expressions.
TypesIn(p, l) == [e \in Expressions |-> TypeOf(p, l, e)]

\* The type of an expression in terms of the types of its parts.
LEMMA TypeOfUnfolds ==
    ASSUME NEW p \in Tree, NEW l \in Seq(TypedLocal), NEW e \in Expressions
    PROVE  TypeOf(p, l, e) = ExprType(p, l, TypesIn(p, l), e)
<1> DEFINE Step == [f \in [Expressions -> Type] |-> [x \in Expressions |-> ExprType(p, l, f, x)]]
           Rec(g) == g = [x \in Expressions |-> ExprType(p, l, g, x)]
<1>1. Step \in [[Expressions -> Type] -> [Expressions -> Type]]
  BY ExprTypeIsType
<1>2. \A f, g \in [Expressions -> Type] : \A x \in Expressions :
         (\A y \in Expressions : <<y, x>> \in PartsBelow => f[y] = g[y]) => Step[f][x] = Step[g][x]
  <2> SUFFICES ASSUME NEW f \in [Expressions -> Type], NEW g \in [Expressions -> Type],
                      NEW x \in Expressions,
                      \A y \in Expressions : <<y, x>> \in PartsBelow => f[y] = g[y]
               PROVE  ExprType(p, l, f, x) = ExprType(p, l, g, x)
    OBVIOUS
  <2>1. Parts(x) \in Seq(Expressions)
    BY SyntaxClosed, PartsAreExpressions
  <2>2. \A i \in DOMAIN Parts(x) : f[Parts(x)[i]] = g[Parts(x)[i]]
    BY <2>1, ElementOf DEF PartsBelow
  <2> QED
    BY <2>2, ExprTypeOfParts
<1>3. Type # {}
  BY NamesAreTypes
<1>4. \E f \in [Expressions -> Type] : f = Step[f]
  <2> HIDE DEF Step
  <2>1. DependsBelow(Step, Expressions, Type, PartsBelow)
    BY <1>1, <1>2 DEF DependsBelow
  <2> QED
    BY <1>3, <2>1, PartsWellFounded, Recursion
<1>5. PICK f : Rec(f)
  BY <1>4
<1> DEFINE t == CHOOSE g : Rec(g)
<1>6. Rec(t)
  <2> HIDE DEF Rec
  <2> QED
    BY <1>5
<1>7. \A x \in Expressions : TypeOf(p, l, x) = t[x]
  BY DEF TypeOf
<1>8. TypesIn(p, l) = t
  <2> HIDE DEF t
  <2> QED
    BY <1>6, <1>7 DEF TypesIn
<1> HIDE DEF t
<1> QED
  BY <1>6, <1>7, <1>8

-----------------------------------------------------------------------------
(* Statements.                                                             *)

\* Whether a block is accepted depends only on the blocks that it contains.
LEMMA BlockOkOfParts ==
    ASSUME NEW p, NEW r, NEW l, NEW b \in Blocks, NEW f, NEW g,
           \A c \in Blocks : <<c, b>> \in BlocksBelow => f[c] = g[c]
    PROVE  BlockOk(p, r, f, l, b) <=> BlockOk(p, r, g, l, b)
<1> SUFFICES ASSUME b # <<>> PROVE BlockOk(p, r, f, l, b) <=> BlockOk(p, r, g, l, b)
  BY DEF BlockOk
<1> DEFINE s == b[1]
<1>1. s \in Statements /\ Tail(b) \in Blocks
  BY BlocksTail
<1>2. f[Tail(b)] = g[Tail(b)]
  BY <1>1 DEF BlocksBelow
<1>3. \A c \in Nested(s) : f[c] = g[c]
  <2>1. Nested(s) \subseteq Blocks
    BY <1>1, NestedBlocks DEF Statements
  <2> QED
    BY <2>1 DEF BlocksBelow
<1> HIDE DEF s
<1>4. StmtOk(p, r, f, l, s) <=> StmtOk(p, r, g, l, s)
  <2>1. CASE s.kind \in {"bind", "assign", "return"}
    BY <2>1 DEF StmtOk
  <2>2. CASE s.kind = "if"
    <3>1. f[s.then] = g[s.then] /\ f[s.else] = g[s.else]
      BY <1>3, <2>2 DEF Nested
    <3> QED
      BY <2>2, <3>1 DEF StmtOk
  <2>3. CASE s.kind = "while"
    <3>1. f[s.body] = g[s.body]
      BY <1>3, <2>3 DEF Nested
    <3> QED
      BY <2>3, <3>1 DEF StmtOk
  <2>4. CASE s.kind = "match"
    <3>1. \A i \in DOMAIN s.cases : f[s.cases[i].body] = g[s.cases[i].body]
      BY <1>3, <2>4 DEF Nested
    <3>2. \A d : \A i \in DOMAIN s.cases : CaseOk(p, f, l, d, s.cases[i]) <=> CaseOk(p, g, l, d, s.cases[i])
      BY <3>1 DEF CaseOk
    <3>3. MatchOk(p, f, l, s) <=> MatchOk(p, g, l, s)
      BY <3>2 DEF MatchOk
    <3> QED
      BY <2>4, <3>3 DEF StmtOk
  <2> QED
    BY <1>1, <2>1, <2>2, <2>3, <2>4, StatementKinds DEF Statements
<1> QED
  BY <1>2, <1>4 DEF BlockOk, s

\* The blocks that are accepted.
AcceptedIn(p, r) == [b \in Blocks |-> [l \in Seq(TypedLocal) |-> CheckStmts(p, r, l, b)]]

\* The check of a block in terms of that of the blocks that it contains.
LEMMA CheckStmtsUnfolds ==
    ASSUME NEW p, NEW r, NEW l \in Seq(TypedLocal), NEW b \in Blocks
    PROVE  CheckStmts(p, r, l, b) <=> BlockOk(p, r, AcceptedIn(p, r), l, b)
<1> DEFINE L == Seq(TypedLocal)
           V == [L -> BOOLEAN]
           Of(f, x) == [k \in L |-> BlockOk(p, r, f, k, x)]
           Step == [f \in [Blocks -> V] |-> [x \in Blocks |-> Of(f, x)]]
           Rec(g) == g = [x \in Blocks |-> Of(g, x)]
<1>1. \A f, x : Of(f, x) \in V
  BY DEF BlockOk
<1>2. ASSUME NEW f, NEW g, NEW x \in Blocks,
             \A y \in Blocks : <<y, x>> \in BlocksBelow => f[y] = g[y]
      PROVE  Of(f, x) = Of(g, x)
  <2>1. \A k \in L : BlockOk(p, r, f, k, x) <=> BlockOk(p, r, g, k, x)
    BY <1>2, BlockOkOfParts
  <2> QED
    BY <2>1 DEF BlockOk
<1> HIDE DEF Of, V
<1>3. DependsBelow(Step, Blocks, V, BlocksBelow)
  BY <1>1, <1>2 DEF DependsBelow
<1>4. V # {}
  BY <1>1
<1>5. PICK f : Rec(f)
  <2> HIDE DEF Step
  <2>1. \E f \in [Blocks -> V] : f = Step[f]
    BY <1>3, <1>4, BlocksWellFounded, Recursion
  <2> QED
    BY <2>1 DEF Step
<1> DEFINE t == CHOOSE g : Rec(g)
<1>6. Rec(t)
  <2> HIDE DEF Rec
  <2> QED
    BY <1>5
<1>7. ASSUME NEW x \in Blocks, NEW k \in L PROVE CheckStmts(p, r, k, x) = t[x][k]
  BY DEF CheckStmts, Of
<1> HIDE DEF t
<1>8. AcceptedIn(p, r) = t
  <2>1. \A x \in Blocks : t[x] = Of(t, x)
    BY <1>6
  <2>2. \A x \in Blocks : [k \in L |-> CheckStmts(p, r, k, x)] = [k \in L |-> t[x][k]]
    BY <1>7
  <2>3. \A x \in Blocks : t[x] = [k \in L |-> t[x][k]]
    BY <2>1 DEF Of
  <2>4. t = [x \in Blocks |-> t[x]]
    BY <1>6
  <2> QED
    BY <2>2, <2>3, <2>4 DEF AcceptedIn
<1>9. t[b][l] <=> BlockOk(p, r, t, l, b)
  <2>1. t[b] = Of(t, b)
    BY <1>6
  <2> QED
    BY <2>1 DEF Of
<1> QED
  BY <1>7, <1>8, <1>9

-----------------------------------------------------------------------------
(* Types of values.                                                        *)

\* A value with a type of its own name is one of a declared type.
TypeOfValue(v) ==
    IF "value" \in DOMAIN v THEN [kind |-> v.type, name |-> v.type] ELSE NamedType(v.type)

IsWord(v) == \E n : v = Number(n) \/ v = Truth(n)

MemberNames(d) == {d.members[k].name : k \in DOMAIN d.members}

\* A structure with the fields that its declaration has, all of them in W.
IsStructure(p, W, v) ==
    \E n, fields :
        LET d == FindType(p, n) IN
        /\ n \in STRING /\ v = [type |-> n, fields |-> fields]
        /\ d # <<>> /\ ~d[1].choice
        /\ DOMAIN fields = MemberNames(d[1])
        /\ \A m \in DOMAIN fields :
              /\ fields[m] \in W
              /\ TypeOfValue(fields[m]) = TypeNamed(p, FindMember(d[1], m)[1].type)

\* A choice of a variant that its declaration has, with a payload in W.
IsChoice(p, W, v) ==
    \E n, variant, payload :
        LET d == FindType(p, n)
            m == FindMember(d[1], variant)
        IN /\ n \in STRING /\ v = [type |-> n, variant |-> variant, payload |-> payload]
           /\ d # <<>> /\ d[1].choice /\ m # <<>>
           /\ \/ payload = <<>> /\ m[1].type = ""
              \/ /\ payload = <<payload[1]>> /\ payload[1] \in W
                 /\ TypeOfValue(payload[1]) = TypeNamed(p, m[1].type)

Typed(p, W) == \A v \in W : IsWord(v) \/ IsStructure(p, W, v) \/ IsChoice(p, W, v)

\* The kinds of types differ.
LEMMA TypeKinds ==
    /\ IntType.kind = "Int" /\ IntType.name = "Int" /\ BoolType.kind = "Bool" /\ BoolType.name = "Bool"
    /\ Invalid.kind = "invalid"
    /\ \A n : NamedType(n).kind = "named" /\ NamedType(n).name = n
    /\ \A t : t.kind # "invalid" => Valid(t)
<1>1. IntType.kind = "Int" /\ IntType.name = "Int" /\ BoolType.kind = "Bool" /\ BoolType.name = "Bool"
  BY DEF IntType, BoolType
<1>2. Invalid.kind = "invalid"
  BY DEF Invalid
<1>3. \A n : NamedType(n).kind = "named" /\ NamedType(n).name = n
  BY DEF NamedType
<1>4. ASSUME NEW t, t.kind # "invalid" PROVE Valid(t)
  BY <1>2, <1>4 DEF Valid
<1> QED
  BY <1>1, <1>2, <1>3, <1>4

\* The types of numbers and truth values.
LEMMA WordTypes ==
    \A n : /\ TypeOfValue(Number(n)) = IntType /\ Number(n).type = "Int" /\ Number(n).value = n
           /\ TypeOfValue(Truth(n)) = BoolType /\ Truth(n).type = "Bool" /\ Truth(n).value = n
BY DEF TypeOfValue, Number, Truth, IntType, BoolType

\* What there is in a structure and in a choice.
LEMMA StructureShape ==
    ASSUME NEW p, NEW W, NEW v, IsStructure(p, W, v)
    PROVE  LET d == FindType(p, v.type) IN
           /\ v.type \in STRING /\ TypeOfValue(v) = NamedType(v.type)
           /\ "fields" \in DOMAIN v
           /\ d # <<>> /\ ~d[1].choice
           /\ DOMAIN v.fields = MemberNames(d[1])
           /\ \A m \in DOMAIN v.fields :
                 /\ v.fields[m] \in W
                 /\ TypeOfValue(v.fields[m]) = TypeNamed(p, FindMember(d[1], m)[1].type)
<1>1. PICK n, fields :
         LET d == FindType(p, n) IN
         /\ n \in STRING /\ v = [type |-> n, fields |-> fields]
         /\ d # <<>> /\ ~d[1].choice
         /\ DOMAIN fields = MemberNames(d[1])
         /\ \A m \in DOMAIN fields :
               /\ fields[m] \in W
               /\ TypeOfValue(fields[m]) = TypeNamed(p, FindMember(d[1], m)[1].type)
  BY Zenon DEF IsStructure
<1>2. v.type = n /\ v.fields = fields /\ DOMAIN v = {"type", "fields"}
  BY <1>1
<1>3. TypeOfValue(v) = NamedType(n)
  BY <1>2 DEF TypeOfValue
<1> QED
  BY <1>1, <1>2, <1>3

\* A choice has a variant of its declaration, with a payload of its type.
LEMMA ChoiceShape ==
    ASSUME NEW p, NEW W, NEW v, IsChoice(p, W, v)
    PROVE  LET d == FindType(p, v.type)
               m == FindMember(d[1], v.variant)
           IN /\ v.type \in STRING /\ TypeOfValue(v) = NamedType(v.type)
              /\ "variant" \in DOMAIN v
              /\ d # <<>> /\ d[1].choice /\ m # <<>>
              /\ \/ v.payload = <<>> /\ m[1].type = ""
                 \/ /\ v.payload = <<v.payload[1]>> /\ v.payload[1] \in W
                    /\ TypeOfValue(v.payload[1]) = TypeNamed(p, m[1].type)
<1>1. PICK n, variant, payload :
         LET d == FindType(p, n)
             m == FindMember(d[1], variant)
         IN /\ n \in STRING /\ v = [type |-> n, variant |-> variant, payload |-> payload]
            /\ d # <<>> /\ d[1].choice /\ m # <<>>
            /\ \/ payload = <<>> /\ m[1].type = ""
               \/ /\ payload = <<payload[1]>> /\ payload[1] \in W
                  /\ TypeOfValue(payload[1]) = TypeNamed(p, m[1].type)
  BY Zenon DEF IsChoice
<1>2. /\ v.type = n /\ v.variant = variant /\ v.payload = payload
      /\ DOMAIN v = {"type", "variant", "payload"}
  BY <1>1
<1>3. TypeOfValue(v) = NamedType(n)
  BY <1>2 DEF TypeOfValue
<1> QED
  BY <1>1, <1>2, <1>3

\* The type of a value is a type.
LEMMA ValuesHaveTypes ==
    ASSUME NEW p, NEW W, Typed(p, W), NEW v \in W
    PROVE  TypeOfValue(v) \in Type /\ Valid(TypeOfValue(v)) /\ TypeOfValue(v).name = v.type
<1>1. CASE IsWord(v)
  <2>1. PICK n : v = Number(n) \/ v = Truth(n)
    BY <1>1 DEF IsWord
  <2>2. IntType \in Type /\ BoolType \in Type
    BY NamesAreTypes
  <2> QED
    BY <2>1, <2>2, WordTypes, TypeKinds
<1>2. CASE IsStructure(p, W, v) \/ IsChoice(p, W, v)
  <2>1. v.type \in STRING /\ TypeOfValue(v) = NamedType(v.type)
    BY <1>2, StructureShape, ChoiceShape
  <2>2. NamedType(v.type) \in Type
    BY <2>1, NamesAreTypes
  <2> QED
    BY <2>1, <2>2, TypeKinds
<1> QED
  BY <1>1, <1>2 DEF Typed

\* A value of the type of that name has the name, which is not empty.
LEMMA NamedTypeOfValue ==
    ASSUME NEW p \in Tree, NEW W, Typed(p, W), NEW v \in W, NEW n,
           TypeOfValue(v) = TypeNamed(p, n)
    PROVE  v.type = n /\ n # ""
<1>1. Valid(TypeNamed(p, n)) /\ TypeNamed(p, n).name = v.type
  BY ValuesHaveTypes
<1>2. TypeNamed(p, n).name = n /\ (n \in Builtins \/ FindType(p, n) # <<>>)
  BY <1>1 DEF TypeNamed, NamedType, Valid
<1>3. FindType(p, n) # <<>> => n # ""
  <2> SUFFICES ASSUME FindType(p, n) # <<>> PROVE n # ""
    OBVIOUS
  <2>1. FindType(p, n)[1] \in TypeDecl /\ FindType(p, n)[1].name = n
    BY FoundType
  <2> QED
    BY <2>1, TreeParts
<1> QED
  BY <1>1, <1>2, <1>3 DEF Builtins

\* More values do no harm.
LEMMA TypedGrows ==
    ASSUME NEW p, NEW W, NEW X, Typed(p, W), W \subseteq X, \A v \in X \ W :
               IsWord(v) \/ IsStructure(p, W, v) \/ IsChoice(p, W, v)
    PROVE  Typed(p, X)
<1> SUFFICES ASSUME NEW v \in X PROVE IsWord(v) \/ IsStructure(p, X, v) \/ IsChoice(p, X, v)
  BY DEF Typed
<1>1. IsWord(v) \/ IsStructure(p, W, v) \/ IsChoice(p, W, v)
  BY DEF Typed
<1>2. CASE IsStructure(p, W, v)
  <2>1. IsStructure(p, X, v)
    BY <1>2 DEF IsStructure
  <2> QED
    BY <2>1
<1>3. CASE IsChoice(p, W, v)
  <2>1. IsChoice(p, X, v)
    BY <1>3 DEF IsChoice
  <2> QED
    BY <2>1
<1> QED
  BY <1>1, <1>2, <1>3

\* Words are the values whose type is builtin.
LEMMA WordsOfBuiltins ==
    ASSUME NEW p, NEW W, Typed(p, W), NEW v \in W
    PROVE  /\ TypeOfValue(v).kind = "Int" => v.type = "Int"
           /\ TypeOfValue(v).kind = "Bool" => v.type = "Bool"
           /\ TypeOfValue(v).kind = "named" => IsStructure(p, W, v) \/ IsChoice(p, W, v)
<1>1. CASE IsWord(v)
  BY <1>1, WordTypes DEF IsWord, IntType, BoolType
<1>2. CASE IsStructure(p, W, v) \/ IsChoice(p, W, v)
  <2>1. TypeOfValue(v).kind = "named"
    <3>1. TypeOfValue(v) = NamedType(v.type)
      BY <1>2, StructureShape, ChoiceShape
    <3> QED
      BY <3>1, TypeKinds
  <2> QED
    BY <1>2, <2>1
<1> QED
  BY <1>1, <1>2 DEF Typed

-----------------------------------------------------------------------------
(* Environments: the list of locals that the checker has where a call has  *)
(* this environment.                                                       *)

Binding(W) == [name : STRING, value : W, mutable : BOOLEAN]

LocalFor(b) == [name |-> b.name, type |-> TypeOfValue(b.value), mutable |-> b.mutable]

Locals(env) == [i \in DOMAIN env |-> LocalFor(env[i])]

\* The locals for an environment are a list of the checker's.
LEMMA LocalsAreTyped ==
    ASSUME NEW p, NEW W, Typed(p, W), NEW env \in Seq(Binding(W))
    PROVE  Locals(env) \in Seq(TypedLocal) /\ Len(Locals(env)) = Len(env)
<1>1. ASSUME NEW i \in DOMAIN env PROVE LocalFor(env[i]) \in TypedLocal
  <2>1. env[i] \in Binding(W)
    BY ElementOf
  <2>2. env[i].name \in STRING /\ env[i].value \in W /\ env[i].mutable \in BOOLEAN
    BY <2>1 DEF Binding
  <2>3. TypeOfValue(env[i].value) \in Type
    BY <2>2, ValuesHaveTypes
  <2> QED
    BY <2>2, <2>3 DEF LocalFor, TypedLocal
<1>2. DOMAIN env = 1 .. Len(env) /\ Len(env) \in Nat
  OBVIOUS
<1> QED
  BY <1>1, <1>2 DEF Locals

\* The first elements of a sequence.
LEMMA PrefixProperties ==
    ASSUME NEW S, NEW s \in Seq(S), NEW n \in 0 .. Len(s)
    PROVE  /\ SubSeq(s, 1, n) \in Seq(S) /\ Len(SubSeq(s, 1, n)) = n
           /\ \A i \in 1 .. n : SubSeq(s, 1, n)[i] = s[i]
<1>1. \A i \in 1 .. n : s[i] \in S
  BY ElementOfSeq
<1>2. 1 \in Int /\ n \in Int
  OBVIOUS
<1>3. /\ SubSeq(s, 1, n) \in Seq(S)
      /\ Len(SubSeq(s, 1, n)) = IF 1 <= n THEN n - 1 + 1 ELSE 0
      /\ \A i \in 1 .. n - 1 + 1 : SubSeq(s, 1, n)[i] = s[1 + i - 1]
  BY <1>1, <1>2, SubSeqProperties
<1> QED
  BY <1>3

\* Sequences that begin alike have the same prefix.
LEMMA PrefixesEqual ==
    ASSUME NEW S, NEW s \in Seq(S), NEW t \in Seq(S), NEW n \in 0 .. Len(s), n <= Len(t),
           \A i \in 1 .. n : s[i] = t[i]
    PROVE  SubSeq(s, 1, n) = SubSeq(t, 1, n)
<1>1. /\ SubSeq(s, 1, n) \in Seq(S) /\ Len(SubSeq(s, 1, n)) = n
      /\ \A i \in 1 .. n : SubSeq(s, 1, n)[i] = s[i]
  BY PrefixProperties
<1>2. n \in 0 .. Len(t)
  OBVIOUS
<1>3. /\ SubSeq(t, 1, n) \in Seq(S) /\ Len(SubSeq(t, 1, n)) = n
      /\ \A i \in 1 .. n : SubSeq(t, 1, n)[i] = t[i]
  BY <1>2, PrefixProperties
<1> QED
  BY <1>1, <1>3, SeqEqual

\* Sequences of at most one element.
LEMMA ShortSequences ==
    ASSUME NEW S, NEW s \in Seq(S)
    PROVE  /\ Len(s) = 0 <=> s = <<>>
           /\ Len(s) = 1 => s # <<>> /\ s = <<s[1]>> /\ s[1] \in S
           /\ s # <<>> /\ Len(s) <= 1 => Len(s) = 1
<1>1. ASSUME Len(s) = 1 PROVE s = <<s[1]>>
  <2>1. s[1] \in S
    BY <1>1, ElementOfSeq
  <2>2. <<s[1]>> \in Seq(S) /\ Len(<<s[1]>>) = 1 /\ <<s[1]>>[1] = s[1]
    BY <2>1
  <2> QED
    BY <1>1, <2>2, SeqEqual
<1>2. Len(s) = 0 <=> s = <<>>
  OBVIOUS
<1>3. Len(s) = 1 => s # <<>> /\ s[1] \in S
  OBVIOUS
<1>4. s # <<>> /\ Len(s) <= 1 => Len(s) = 1
  <2> DEFINE n == Len(s)
  <2>1. n \in Nat /\ (n = 0 <=> s = <<>>)
    BY <1>2
  <2> HIDE DEF n
  <2>2. n # 0 /\ n <= 1 => n = 1
    BY <2>1
  <2> QED
    BY <2>1, <2>2 DEF n
<1> QED
  BY <1>1, <1>2, <1>3, <1>4

\* Bindings that agree in name, type and mutability are the same to the checker.
Agree(env, other, n) ==
    n \in 0 .. Len(env) /\ n <= Len(other) /\ \A i \in 1 .. n : LocalFor(env[i]) = LocalFor(other[i])

\* Environments that agree up to there have the same locals up to there.
LEMMA LocalsAgree ==
    ASSUME NEW p, NEW W, Typed(p, W), NEW env \in Seq(Binding(W)), NEW other \in Seq(Binding(W)),
           NEW n \in Nat, Agree(env, other, n)
    PROVE  SubSeq(Locals(env), 1, n) = SubSeq(Locals(other), 1, n)
<1> USE DEF Agree
<1>1. /\ Locals(env) \in Seq(TypedLocal) /\ Len(Locals(env)) = Len(env)
      /\ Locals(other) \in Seq(TypedLocal) /\ Len(Locals(other)) = Len(other)
  BY LocalsAreTyped
<1>2. \A i \in 1 .. n : Locals(env)[i] = Locals(other)[i]
  BY DEF Locals
<1> QED
  BY <1>1, <1>2, PrefixesEqual

\* The locals for the first bindings of an environment.
LEMMA LocalsOfPrefix ==
    ASSUME NEW p, NEW W, Typed(p, W), NEW env \in Seq(Binding(W)), NEW n \in 0 .. Len(env)
    PROVE  Locals(SubSeq(env, 1, n)) = SubSeq(Locals(env), 1, n)
<1>1. /\ SubSeq(env, 1, n) \in Seq(Binding(W)) /\ Len(SubSeq(env, 1, n)) = n
      /\ \A i \in 1 .. n : SubSeq(env, 1, n)[i] = env[i]
  BY PrefixProperties
<1>2. /\ Locals(env) \in Seq(TypedLocal) /\ Len(Locals(env)) = Len(env)
      /\ Locals(SubSeq(env, 1, n)) \in Seq(TypedLocal) /\ Len(Locals(SubSeq(env, 1, n))) = n
  BY <1>1, LocalsAreTyped
<1>3. /\ SubSeq(Locals(env), 1, n) \in Seq(TypedLocal) /\ Len(SubSeq(Locals(env), 1, n)) = n
      /\ \A i \in 1 .. n : SubSeq(Locals(env), 1, n)[i] = Locals(env)[i]
  BY <1>2, PrefixProperties
<1>4. \A i \in 1 .. n : /\ Locals(env)[i] = LocalFor(env[i])
                       /\ Locals(SubSeq(env, 1, n))[i] = LocalFor(SubSeq(env, 1, n)[i])
  BY <1>1 DEF Locals
<1> QED
  BY <1>1, <1>2, <1>3, <1>4, SeqEqual

\* The locals for two environments, one behind the other.
LEMMA LocalsOfBoth ==
    ASSUME NEW p, NEW W, Typed(p, W), NEW env \in Seq(Binding(W)), NEW own \in Seq(Binding(W))
    PROVE  Locals(env \o own) = Locals(env) \o Locals(own)
<1>1. /\ env \o own \in Seq(Binding(W)) /\ Len(env \o own) = Len(env) + Len(own)
      /\ \A i \in 1 .. Len(env) + Len(own) :
            (env \o own)[i] = IF i <= Len(env) THEN env[i] ELSE own[i - Len(env)]
  BY ConcatProperties
<1>2. /\ Locals(env) \in Seq(TypedLocal) /\ Len(Locals(env)) = Len(env)
      /\ Locals(own) \in Seq(TypedLocal) /\ Len(Locals(own)) = Len(own)
      /\ Locals(env \o own) \in Seq(TypedLocal) /\ Len(Locals(env \o own)) = Len(env) + Len(own)
  BY <1>1, LocalsAreTyped
<1>3. /\ Locals(env) \o Locals(own) \in Seq(TypedLocal)
      /\ Len(Locals(env) \o Locals(own)) = Len(env) + Len(own)
      /\ \A i \in 1 .. Len(env) + Len(own) : (Locals(env) \o Locals(own))[i]
            = IF i <= Len(env) THEN Locals(env)[i] ELSE Locals(own)[i - Len(env)]
  <2> DEFINE a == Locals(env)
             b == Locals(own)
  <2>1. /\ a \o b \in Seq(TypedLocal) /\ Len(a \o b) = Len(a) + Len(b)
        /\ \A i \in 1 .. Len(a) + Len(b) : (a \o b)[i] = IF i <= Len(a) THEN a[i] ELSE b[i - Len(a)]
    <3>1. a \in Seq(TypedLocal) /\ b \in Seq(TypedLocal)
      BY <1>2
    <3> HIDE DEF a, b
    <3> QED
      BY <3>1, ConcatProperties
  <2> QED
    BY <1>2, <2>1
<1>4. ASSUME NEW i \in 1 .. Len(env) + Len(own)
      PROVE  Locals(env \o own)[i] = (Locals(env) \o Locals(own))[i]
  <2>1. Locals(env \o own)[i] = LocalFor((env \o own)[i])
    BY <1>1 DEF Locals
  <2>2. i <= Len(env) => Locals(env)[i] = LocalFor(env[i])
    BY DEF Locals
  <2>3. ~(i <= Len(env)) => Locals(own)[i - Len(env)] = LocalFor(own[i - Len(env)])
    BY DEF Locals
  <2> QED
    BY <1>1, <1>3, <2>1, <2>2, <2>3
<1> QED
  BY <1>2, <1>3, <1>4, SeqEqual

-----------------------------------------------------------------------------
(* What the checks of expressions and statements say.                      *)

\* Every expression has a type or is invalid.
LEMMA TypeOfIsType ==
    ASSUME NEW p \in Tree, NEW l \in Seq(TypedLocal), NEW e \in Expressions
    PROVE  TypeOf(p, l, e) \in Type
<1> DEFINE T == {x \in Expressions : TypeOf(p, l, x) \notin Type}
<1> SUFFICES ASSUME T # {} PROVE FALSE
  OBVIOUS
<1>1. PICK x \in T : \A y \in T : <<y, x>> \notin PartsBelow
  BY PartsWellFounded DEF HasMinima
<1> DEFINE g == [y \in Expressions |-> IF y \in T THEN Invalid ELSE TypeOf(p, l, y)]
<1>2. g \in [Expressions -> Type]
  BY NamesAreTypes
<1>3. Parts(x) \in Seq(Expressions)
  BY SyntaxClosed, PartsAreExpressions
<1>4. \A i \in DOMAIN Parts(x) : Parts(x)[i] \in Expressions /\ g[Parts(x)[i]] = TypesIn(p, l)[Parts(x)[i]]
  <2> SUFFICES ASSUME NEW i \in DOMAIN Parts(x)
               PROVE  Parts(x)[i] \in Expressions /\ Parts(x)[i] \notin T
    BY DEF TypesIn
  <2>1. Parts(x)[i] \in Expressions
    BY <1>3, ElementOf
  <2> HIDE DEF T
  <2> QED
    BY <1>1, <2>1 DEF PartsBelow, T
<1>5. ExprType(p, l, g, x) = ExprType(p, l, TypesIn(p, l), x)
  BY <1>4, ExprTypeOfParts
<1>6. TypeOf(p, l, x) \in Type
  <2> HIDE DEF g
  <2> QED
    BY <1>2, <1>5, ExprTypeIsType, TypeOfUnfolds
<1> QED
  BY <1>1, <1>6

\* The parts of an expression that has a type have one.
LEMMA PartsAreValid ==
    ASSUME NEW p \in Tree, NEW l \in Seq(TypedLocal), NEW e \in Expressions, Valid(TypeOf(p, l, e)),
           NEW i \in DOMAIN Parts(e)
    PROVE  Parts(e)[i] \in Expressions /\ Valid(TypeOf(p, l, Parts(e)[i]))
<1> DEFINE types == TypesIn(p, l)
<1>1. e \in ExpressionsOf(Expressions) /\ Parts(e) \in Seq(Expressions)
  BY SyntaxClosed, PartsAreExpressions
<1>2. Parts(e)[i] \in Expressions /\ types[Parts(e)[i]] = TypeOf(p, l, Parts(e)[i])
  BY <1>1, ElementOf DEF TypesIn
<1> HIDE DEF types
<1>3. Valid(ExprType(p, l, types, e))
  BY TypeOfUnfolds DEF types
<1> SUFFICES Valid(types[Parts(e)[i]])
  BY <1>2
<1>4. ~Valid(Invalid)
  BY DEF Valid
<1>5. CASE e.kind \in {"int", "bool", "name"}
  BY <1>5 DEF Parts
<1>6. CASE e.kind = "negate"
  <2>1. Parts(e)[i] = e.left /\ Valid(NegateType(types[e.left]))
    BY <1>3, <1>6 DEF Parts, ExprType
  <2> QED
    BY <2>1, <1>4 DEF NegateType
<1>7. CASE e.kind = "field"
  <2>1. Parts(e)[i] = e.left /\ Valid(FieldType(p, types[e.left], e.name))
    BY <1>3, <1>7 DEF Parts, ExprType
  <2> QED
    BY <2>1, <1>4, TypeKinds DEF FieldType, Declaration
<1>8. CASE e.kind = "binary"
  <2>1. Parts(e)[i] \in {e.left, e.right} /\ Valid(BinaryType(e.op, types[e.left], types[e.right]))
    BY <1>3, <1>8 DEF Parts, ExprType
  <2> QED
    BY <2>1, <1>4, TypeKinds DEF BinaryType
<1>9. CASE e.kind = "call"
  <2>1. \E f : Valid(CallType(p, types, f, e.args))
    BY <1>3, <1>4, <1>9 DEF ExprType
  <2>2. Parts(e) = e.args
    BY <1>9 DEF Parts
  <2> QED
    BY <2>1, <2>2, <1>4 DEF CallType
<1>10. CASE e.kind = "construct"
  <2>1. \E d : \/ Valid(StructureType(p, types, d, e.names, e.values))
               \/ Valid(ChoiceType(p, types, d, e.names, e.values))
    BY <1>3, <1>4, <1>10 DEF ExprType, ConstructType
  <2>2. /\ Parts(e) = e.values /\ e.values \in Seq(Expressions) /\ e.names \in Seq(STRING)
        /\ Len(e.names) = 1 => Len(e.values) <= 1
    BY <1>1, <1>10, ExpressionKinds DEF Parts
  <2>3. CASE \E d : Valid(StructureType(p, types, d, e.names, e.values))
    <3>1. \E d : /\ Len(e.values) = Len(e.names)
                 /\ \A k \in DOMAIN e.names : Suits(p, types, d, e.names[k], e.values[k])
      BY <2>3, <1>4 DEF StructureType
    <3>2. i \in DOMAIN e.names
      BY <2>2, <3>1
    <3> QED
      BY <2>2, <3>1, <3>2 DEF Suits
  <2>4. CASE \E d : Valid(ChoiceType(p, types, d, e.names, e.values))
    <3>1. \E d : /\ Len(e.names) = 1
                 /\ e.values = <<>> \/ Suits(p, types, d, e.names[1], e.values[1])
      BY <2>4, <1>4 DEF ChoiceType
    <3>2. e.values # <<>> /\ i = 1
      BY <2>2, <3>1
    <3> QED
      BY <2>2, <3>1, <3>2 DEF Suits
  <2> QED
    BY <2>1, <2>3, <2>4
<1> QED
  BY <1>1, <1>5, <1>6, <1>7, <1>8, <1>9, <1>10, ExpressionKinds

\* A block that is accepted begins with a statement that is, and goes on with
\* a block that is.
LEMMA BlockChecked ==
    ASSUME NEW p \in Tree, NEW r, NEW l \in Seq(TypedLocal), NEW b \in Blocks, b # <<>>,
           CheckStmts(p, r, l, b)
    PROVE  /\ StmtOk(p, r, AcceptedIn(p, r), l, b[1])
           /\ LocalsAfter(p, l, b[1]) \in Seq(TypedLocal)
           /\ CheckStmts(p, r, LocalsAfter(p, l, b[1]), Tail(b))
<1>1. b[1] \in Statements /\ Tail(b) \in Blocks
  BY BlocksTail
<1>2. BlockOk(p, r, AcceptedIn(p, r), l, b)
  BY CheckStmtsUnfolds
<1>3. LocalsAfter(p, l, b[1]) \in Seq(TypedLocal)
  <2>1. CASE b[1].kind = "bind"
    <3>1. Subject(b[1]) = b[1].expr /\ b[1].expr \in Expressions /\ b[1].name \in STRING /\ b[1].mutable \in BOOLEAN
      <4>1. \A s \in Statements : s.kind = "bind" =>
               /\ Subject(s) = s.expr /\ Subject(s) \in Expressions
               /\ s.name \in STRING /\ s.mutable \in BOOLEAN
        BY StatementKinds DEF Subject, Statements
      <4> QED
        BY <1>1, <2>1, <4>1
    <3>2. TypeOf(p, l, b[1].expr) \in Type
      BY <3>1, TypeOfIsType
    <3>3. [name |-> b[1].name, type |-> TypeOf(p, l, b[1].expr), mutable |-> b[1].mutable] \in TypedLocal
      BY <3>1, <3>2 DEF TypedLocal
    <3> QED
      BY <2>1, <3>3 DEF LocalsAfter, WithLocal
  <2>2. CASE b[1].kind # "bind"
    BY <2>2 DEF LocalsAfter
  <2> QED
    BY <2>1, <2>2
<1>4. AcceptedIn(p, r)[Tail(b)][LocalsAfter(p, l, b[1])]
  BY <1>2 DEF BlockOk
<1> QED
  BY <1>1, <1>2, <1>3, <1>4 DEF BlockOk, AcceptedIn

\* The expression that an accepted statement begins with has a type.
LEMMA SubjectIsValid ==
    ASSUME NEW p \in Tree, NEW r, Valid(r), NEW accepts, NEW l \in Seq(TypedLocal),
           \A i \in DOMAIN l : Valid(l[i].type),
           NEW s \in Statements, StmtOk(p, r, accepts, l, s)
    PROVE  Subject(s) \in Expressions /\ Valid(TypeOf(p, l, Subject(s)))
<1>1. Subject(s) \in Expressions
  BY StatementKinds DEF Statements
<1>2. CASE s.kind = "bind"
  BY <1>1, <1>2 DEF Subject, StmtOk, BindingOk
<1>3. CASE s.kind = "assign"
  <2>1. AssignmentOk(p, l, s)
    BY <1>3 DEF StmtOk
  <2>2. FindLocal(l, s.name) # <<>> /\ TypeOf(p, l, s.expr) = FindLocal(l, s.name)[1].type
    BY <2>1 DEF AssignmentOk
  <2>3. FindLocal(l, s.name)[1] = l[LastOf(l, s.name)] /\ LastOf(l, s.name) \in DOMAIN l
    BY <2>2, FoundLocal
  <2> QED
    BY <1>1, <1>3, <2>2, <2>3 DEF Subject
<1>4. CASE s.kind = "return"
  BY <1>1, <1>4 DEF Subject, StmtOk
<1>5. CASE s.kind \in {"if", "while"}
  BY <1>1, <1>5, TypeKinds DEF Subject, StmtOk
<1>6. CASE s.kind = "match"
  <2>1. Declaration(p, TypeOf(p, l, s.expr)) # <<>>
    BY <1>6 DEF StmtOk, MatchOk
  <2> QED
    BY <1>1, <1>6, <2>1, TypeKinds DEF Subject, Declaration
<1> QED
  BY <1>2, <1>3, <1>4, <1>5, <1>6, StatementKinds DEF Statements

-----------------------------------------------------------------------------
(* The values of expressions.                                              *)

\* A sequence without repetitions has as many elements as places.
LEMMA DistinctCount ==
    ASSUME NEW S, NEW s \in Seq(S), Distinct(s)
    PROVE  /\ IsFiniteSet({s[i] : i \in DOMAIN s})
           /\ Cardinality({s[i] : i \in DOMAIN s}) = Len(s)
<1> DEFINE N == {s[i] : i \in DOMAIN s}
           f == [i \in 1 .. Len(s) |-> s[i]]
<1>1. f \in Bijection(1 .. Len(s), N)
  BY DEF Distinct, Bijection, Injection, Surjection, IsInjective
<1>2. ExistsBijection(1 .. Len(s), N)
  BY <1>1 DEF ExistsBijection
<1>3. Len(s) \in Nat
  OBVIOUS
<1> HIDE DEF N
<1>4. IsFiniteSet(N) /\ Cardinality(N) = Len(s)
  BY <1>2, <1>3, FS_CountingElements, FS_NatBijection
<1> QED
  BY <1>4 DEF N

\* Distinct names are as many as the members that have them.
LEMMA DistinctMembers ==
    ASSUME NEW s \in Seq(Member), DistinctNames(s)
    PROVE  /\ IsFiniteSet({s[i].name : i \in DOMAIN s})
           /\ Cardinality({s[i].name : i \in DOMAIN s}) = Len(s)
<1> DEFINE t == [i \in DOMAIN s |-> s[i].name]
<1>1. \A i \in 1 .. Len(s) : s[i].name \in STRING
  <2>1. ASSUME NEW i \in 1 .. Len(s) PROVE s[i] \in Member
    BY ElementOf
  <2> QED
    BY <2>1 DEF Member
<1>2. t \in Seq(STRING) /\ Len(t) = Len(s) /\ DOMAIN t = DOMAIN s
  BY <1>1
<1>3. Distinct(t)
  BY DEF DistinctNames
<1>4. {t[i] : i \in DOMAIN t} = {s[i].name : i \in DOMAIN s}
  OBVIOUS
<1> HIDE DEF t
<1> QED
  BY <1>2, <1>3, <1>4, DistinctCount

\* The declaration that a name leads to has members of different names.
LEMMA MembersDiffer ==
    ASSUME NEW p \in Tree, ChecksTypes(p), NEW n, FindType(p, n) # <<>>
    PROVE  /\ FindType(p, n)[1].members \in Seq(Member) /\ DistinctNames(FindType(p, n)[1].members)
           /\ \A k \in DOMAIN FindType(p, n)[1].members :
                 LET m == FindType(p, n)[1].members[k] IN FindMember(FindType(p, n)[1], m.name) = <<m>>
<1> DEFINE d == FindType(p, n)[1]
<1>1. d \in TypeDecl /\ \E i \in DOMAIN p.types : d = p.types[i]
  BY FoundType
<1>2. d.members \in Seq(Member)
  BY <1>1, TreeParts
<1>3. DistinctNames(d.members)
  BY <1>1 DEF ChecksTypes, DeclarationOk
<1> HIDE DEF d
<1>4. ASSUME NEW k \in DOMAIN d.members
      PROVE  FindMember(d, d.members[k].name) = <<d.members[k]>>
  <2>1. PICK i \in DOMAIN d.members : /\ Find(d.members, d.members[k].name) = <<d.members[i]>>
                                      /\ d.members[i].name = d.members[k].name
    BY <1>2, FindResult
  <2> QED
    BY <2>1, <1>3 DEF DistinctNames, Distinct, FindMember
<1> QED
  BY <1>2, <1>3, <1>4 DEF d

\* An operator on numbers yields a word of the operator's type, or fails.
LEMMA OperateSound ==
    ASSUME NEW op \in Operators, NEW l, l.type = "Int", NEW r, r.type = "Int"
    PROVE  \/ Operate(op, l, r) = Failed
           \/ \E v : /\ Operate(op, l, r) = Returned(v) /\ IsWord(v)
                     /\ TypeOfValue(v) = IF op \in Arithmetic THEN IntType ELSE BoolType
<1> DEFINE w == Apply(op, l.value, r.value)
<1>1. CASE op = "div" /\ r.value = 0
  BY <1>1 DEF Operate
<1>2. CASE ~(op = "div" /\ r.value = 0)
  <2>1. Operate(op, l, r) = Returned(IF Compares(op) THEN Truth(w) ELSE Number(w))
    BY <1>2 DEF Operate
  <2>2. Compares(op) <=> op \notin Arithmetic
    BY DEF Operators, Compares, Arithmetic
  <2> HIDE DEF w
  <2> QED
    BY <2>1, <2>2, WordTypes DEF IsWord
<1> QED
  BY <1>1, <1>2

\* The initializers of a construct of type n, and their values.
InitsFit(p, W, types, n, names, exprs, values) ==
    /\ n \in STRING /\ names \in Seq(STRING) /\ exprs \in Seq(Expressions)
    /\ Len(names) = 1 => Len(exprs) <= 1
    /\ FindType(p, n) # <<>>
    /\ values \in Seq(W) /\ Len(values) = Len(exprs)
    /\ \A i \in DOMAIN exprs : TypeOfValue(values[i]) = types[exprs[i]]

\* A structure that the checker accepts is one of its type.
LEMMA BuildSound ==
    ASSUME NEW p \in Tree, ChecksTypes(p), NEW W, Typed(p, W), NEW types, NEW n, NEW names, NEW exprs, NEW values,
           InitsFit(p, W, types, n, names, exprs, values), ~FindType(p, n)[1].choice,
           Valid(StructureType(p, types, FindType(p, n)[1], names, exprs))
    PROVE  \E v : /\ Build(FindType(p, n)[1], names, values) = Returned(v) /\ IsStructure(p, W, v)
                  /\ TypeOfValue(v) = NamedType(n)
<1> USE DEF InitsFit
<1> DEFINE d == FindType(p, n)[1]
           given == {names[i] : i \in DOMAIN names}
           members == {d.members[k].name : k \in DOMAIN d.members}
           Index(m) == CHOOSE i \in DOMAIN names : names[i] = m
           fields == [m \in given |-> values[Index(m)]]
           v == [type |-> n, fields |-> fields]
<1>1. /\ ~d.choice /\ Len(names) = Len(d.members) /\ Len(values) = Len(names)
      /\ DOMAIN exprs = DOMAIN names /\ DOMAIN values = DOMAIN names /\ Distinct(names)
  BY DEF StructureType, Valid
<1>2. \A i \in DOMAIN names : Suits(p, types, d, names[i], exprs[i])
  BY DEF StructureType, Valid
<1>3. d.members \in Seq(Member) /\ DistinctNames(d.members)
  BY MembersDiffer
<1>4. \A k \in DOMAIN d.members : FindMember(d, d.members[k].name) = <<d.members[k]>>
  BY MembersDiffer
<1>5. FindType(p, n) = <<d>> /\ d.name = n
  BY FoundType
<1> HIDE DEF d
<1>6. given = members
  <2>1. ASSUME NEW i \in DOMAIN names PROVE names[i] \in members
    <3>1. FindMember(d, names[i]) # <<>>
      BY <1>2 DEF Suits
    <3> QED
      BY <3>1, <1>3, FoundMember
  <2>2. given \subseteq members
    BY <2>1
  <2>3. IsFiniteSet(given) /\ Cardinality(given) = Len(names)
    BY <1>1, DistinctCount
  <2>4. IsFiniteSet(members) /\ Cardinality(members) = Len(names)
    BY <1>1, <1>3, DistinctMembers
  <2> HIDE DEF given, members
  <2> QED
    BY <2>2, <2>3, <2>4, FS_Subset
<1>7. ASSUME NEW m \in given
      PROVE  /\ fields[m] \in W
             /\ TypeOfValue(fields[m]) = TypeNamed(p, FindMember(d, m)[1].type)
  <2>1. Index(m) \in DOMAIN names /\ names[Index(m)] = m
    OBVIOUS
  <2>2. fields[m] = values[Index(m)]
    OBVIOUS
  <2> HIDE DEF Index, fields, given
  <2>3. types[exprs[Index(m)]] = TypeNamed(p, FindMember(d, m)[1].type)
    BY <1>2, <2>1 DEF Suits
  <2>4. values[Index(m)] \in W
    BY <1>1, <2>1, ElementOf
  <2> QED
    BY <1>1, <2>1, <2>2, <2>3, <2>4
<1>8. DOMAIN fields = given
  OBVIOUS
<1>9. \A k \in DOMAIN d.members : fields[d.members[k].name].type = d.members[k].type
  <2> SUFFICES ASSUME NEW k \in DOMAIN d.members
               PROVE  fields[d.members[k].name].type = d.members[k].type
    OBVIOUS
  <2> DEFINE m == d.members[k].name
  <2>1. m \in given
    BY <1>6
  <2>2. FindMember(d, m)[1] = d.members[k]
    BY <1>4
  <2> HIDE DEF fields, given, m
  <2>3. fields[m] \in W /\ TypeOfValue(fields[m]) = TypeNamed(p, d.members[k].type)
    BY <1>7, <2>1, <2>2
  <2>4. fields[m].type = d.members[k].type
    <3> DEFINE u == fields[m]
               name == d.members[k].type
    <3>1. u \in W /\ TypeOfValue(u) = TypeNamed(p, name)
      BY <2>3
    <3> HIDE DEF u, name
    <3>2. u.type = name
      BY <3>1, NamedTypeOfValue
    <3> QED
      BY <3>2 DEF u, name
  <2> QED
    BY <2>4 DEF m
<1>10. Build(d, names, values) = Returned(v)
  <2> HIDE DEF fields, given
  <2>1. /\ Len(names) = Len(d.members) /\ Len(values) = Len(names)
        /\ given = {d.members[k].name : k \in DOMAIN d.members}
        /\ \A k \in DOMAIN d.members : fields[d.members[k].name].type = d.members[k].type
    BY <1>1, <1>6, <1>9
  <2> QED
    BY <2>1, <1>5, Zenon DEF Build, fields, given
<1>11. IsStructure(p, W, v)
  <2> HIDE DEF fields, given, members
  <2>1. DOMAIN fields = MemberNames(d)
    BY <1>6, <1>8 DEF members, MemberNames
  <2> QED
    BY <1>1, <1>7, <1>8, <2>1, Zenon DEF IsStructure, d
<1>12. TypeOfValue(v) = NamedType(n)
  <2>1. v.type = n
    OBVIOUS
  <2> HIDE DEF v
  <2> QED
    BY <2>1, <1>11, StructureShape
<1> QED
  BY <1>10, <1>11, <1>12 DEF d

\* A choice that the checker accepts is one of its type.
LEMMA ChooseSound ==
    ASSUME NEW p \in Tree, NEW W, Typed(p, W), NEW types, NEW n, NEW names, NEW exprs, NEW values,
           InitsFit(p, W, types, n, names, exprs, values), FindType(p, n)[1].choice,
           Valid(ChoiceType(p, types, FindType(p, n)[1], names, exprs))
    PROVE  \E v : /\ Choose(FindType(p, n)[1], names, values) = Returned(v) /\ IsChoice(p, W, v)
                  /\ TypeOfValue(v) = NamedType(n)
<1> USE DEF InitsFit
<1> DEFINE d == FindType(p, n)[1]
           name == names[1]
           m == FindMember(d, name)[1]
           v == [type |-> n, variant |-> name, payload |-> values]
<1>1. /\ d.choice /\ Len(names) = 1 /\ FindMember(d, name) # <<>>
      /\ IF m.type = "" THEN exprs = <<>>
         ELSE exprs # <<>> /\ Suits(p, types, d, name, exprs[1])
  BY DEF ChoiceType, Valid
<1>2. d \in TypeDecl /\ FindType(p, n) = <<d>> /\ d.name = n
  BY FoundType
<1>3. d.members \in Seq(Member)
  BY <1>2, TreeParts
<1> HIDE DEF d
<1> HIDE DEF name
<1>4. m.name = name /\ \E k \in DOMAIN d.members : m = d.members[k]
  <2>1. FindMember(d, name) # <<>>
    BY <1>1
  <2> QED
    BY <1>3, <2>1, FoundMember
<1> HIDE DEF m
<1>5. PICK k \in DOMAIN d.members : m = d.members[k]
  BY <1>4
<1>6. \/ values = <<>> /\ m.type = ""
      \/ /\ values # <<>> /\ values = <<values[1]>> /\ values[1] \in W
         /\ TypeOfValue(values[1]) = TypeNamed(p, m.type)
  <2>1. CASE m.type = ""
    <3>1. exprs = <<>>
      BY <1>1, <2>1
    <3>2. Len(exprs) = 0
      BY <3>1
    <3>3. values = <<>>
      BY <3>2, ShortSequences
    <3> QED
      BY <2>1, <3>3
  <2>2. CASE m.type # ""
    <3>1. exprs # <<>> /\ types[exprs[1]] = TypeNamed(p, m.type)
      BY <1>1, <2>2 DEF Suits, m
    <3>2. Len(exprs) = 1
      BY <1>1, <3>1, ShortSequences
    <3>3. values # <<>> /\ values = <<values[1]>> /\ values[1] \in W
      BY <3>2, ShortSequences
    <3>4. TypeOfValue(values[1]) = types[exprs[1]]
      BY <3>2
    <3> QED
      BY <3>1, <3>3, <3>4
  <2> QED
    BY <2>1, <2>2
<1>7. values # <<>> => values[1].type = m.type
  <2> SUFFICES ASSUME values # <<>> PROVE values[1].type = m.type
    OBVIOUS
  <2> DEFINE u == values[1]
             type == m.type
  <2>1. u \in W /\ TypeOfValue(u) = TypeNamed(p, type)
    BY <1>6
  <2> HIDE DEF u, type
  <2>2. u.type = type
    BY <2>1, NamedTypeOfValue
  <2> QED
    BY <2>2 DEF u, type
<1>8. Choose(d, names, values) = Returned(v)
  <2>1. /\ Len(names) = 1
        /\ \E i \in DOMAIN d.members :
              /\ d.members[i].name = name
              /\ IF values = <<>> THEN d.members[i].type = ""
                 ELSE values[1].type = d.members[i].type
    BY <1>1, <1>4, <1>5, <1>6, <1>7
  <2> QED
    BY <2>1, <1>2, Zenon DEF Choose, name
<1>9. IsChoice(p, W, v)
  <2>1. \/ values = <<>> /\ m.type = ""
        \/ values = <<values[1]>> /\ values[1] \in W /\ TypeOfValue(values[1]) = TypeNamed(p, m.type)
    BY <1>6
  <2> QED
    BY <1>1, <1>2, <2>1, Zenon DEF IsChoice, d, m
<1>10. TypeOfValue(v) = NamedType(n)
  <2>1. v.type = n
    OBVIOUS
  <2> HIDE DEF v
  <2> QED
    BY <2>1, <1>9, ChoiceShape
<1> QED
  BY <1>8, <1>9, <1>10 DEF d

\* What a construct makes, as its declaration says.
LEMMA MakeSound ==
    ASSUME NEW p \in Tree, ChecksTypes(p), NEW W, Typed(p, W), NEW types, NEW e, NEW values,
           InitsFit(p, W, types, e.type, e.names, e.values, values), Valid(ConstructType(p, types, e))
    PROVE  \E v : /\ Make(p, e.type, e.names, values) = Returned(v)
                  /\ IsStructure(p, W, v) \/ IsChoice(p, W, v)
                  /\ TypeOfValue(v) = ConstructType(p, types, e)
<1> DEFINE n == e.type
           names == e.names
           exprs == e.values
           d == FindType(p, n)
<1>1. d # <<>> /\ d[1].name = n
  BY FoundType DEF InitsFit
<1>2. ConstructType(p, types, e) = IF d[1].choice THEN ChoiceType(p, types, d[1], names, exprs)
                                   ELSE StructureType(p, types, d[1], names, exprs)
  BY <1>1 DEF ConstructType
<1>3. ConstructType(p, types, e) = NamedType(n)
  BY <1>1, <1>2 DEF StructureType, ChoiceType, Valid
<1>4. Make(p, n, names, values) = IF d[1].choice THEN Choose(d[1], names, values)
                                  ELSE Build(d[1], names, values)
  BY <1>1 DEF Make, FindType
<1>5. InitsFit(p, W, types, n, names, exprs, values)
  OBVIOUS
<1> HIDE DEF n, names, exprs
<1>6. CASE d[1].choice
  BY <1>2, <1>3, <1>4, <1>5, <1>6, ChooseSound DEF n, names
<1>7. CASE ~d[1].choice
  BY <1>2, <1>3, <1>4, <1>5, <1>7, BuildSound DEF n, names
<1> QED
  BY <1>6, <1>7

\* The field of a structure has the type that the checker gives it.
LEMMA SelectSound ==
    ASSUME NEW p \in Tree, NEW W, Typed(p, W), NEW base \in W, NEW n,
           Valid(FieldType(p, TypeOfValue(base), n))
    PROVE  \E v \in W : Select(base, n) = Returned(v) /\ TypeOfValue(v) = FieldType(p, TypeOfValue(base), n)
<1> DEFINE d == Declaration(p, TypeOfValue(base))
<1>1. /\ d # <<>> /\ ~d[1].choice /\ FindMember(d[1], n) # <<>>
      /\ FieldType(p, TypeOfValue(base), n) = TypeNamed(p, FindMember(d[1], n)[1].type)
  BY DEF FieldType, Valid
<1>2. TypeOfValue(base).kind = "named" /\ d = FindType(p, base.type)
  BY <1>1, ValuesHaveTypes DEF Declaration
<1>3. IsStructure(p, W, base)
  <2>1. IsStructure(p, W, base) \/ IsChoice(p, W, base)
    BY <1>2, WordsOfBuiltins
  <2> HIDE DEF d
  <2>2. IsChoice(p, W, base) => d[1].choice
    BY <1>2, ChoiceShape
  <2> QED
    BY <1>1, <2>1, <2>2
<1> HIDE DEF d
<1>4. /\ "fields" \in DOMAIN base
      /\ DOMAIN base.fields = MemberNames(d[1])
      /\ \A m \in DOMAIN base.fields :
            /\ base.fields[m] \in W
            /\ TypeOfValue(base.fields[m]) = TypeNamed(p, FindMember(d[1], m)[1].type)
  <2> DEFINE D == FindType(p, base.type)
  <2>1. /\ "fields" \in DOMAIN base
        /\ DOMAIN base.fields = MemberNames(D[1])
        /\ \A m \in DOMAIN base.fields :
              /\ base.fields[m] \in W
              /\ TypeOfValue(base.fields[m]) = TypeNamed(p, FindMember(D[1], m)[1].type)
    BY <1>3, StructureShape
  <2>2. D = d
    BY <1>2
  <2> HIDE DEF D
  <2> QED
    BY <2>1, <2>2
<1>5. n \in DOMAIN base.fields
  <2>1. d[1] \in TypeDecl
    BY <1>1, <1>2, FoundType
  <2>2. d[1].members \in Seq(Member)
    BY <2>1, TreeParts
  <2>3. \E k \in DOMAIN d[1].members : d[1].members[k].name = n
    BY <1>1, <2>2, FoundMember
  <2> QED
    BY <1>4, <2>3 DEF MemberNames
<1>6. Select(base, n) = Returned(base.fields[n])
  BY <1>4, <1>5 DEF Select
<1> QED
  BY <1>1, <1>4, <1>5, <1>6

\* The binding that a name has is the local that the checker finds.
LEMMA BindingFound ==
    ASSUME NEW p, NEW W, Typed(p, W), NEW env \in Seq(Binding(W)), NEW n,
           FindLocal(Locals(env), n) # <<>>
    PROVE  /\ \E i \in DOMAIN env : env[i].name = n
           /\ LastOf(env, n) \in DOMAIN env /\ env[LastOf(env, n)] \in Binding(W)
           /\ FindLocal(Locals(env), n)[1] = LocalFor(env[LastOf(env, n)])
<1> DEFINE l == Locals(env)
<1>1. l \in Seq(TypedLocal) /\ DOMAIN l = DOMAIN env
  BY LocalsAreTyped DEF Locals
<1>2. \A i \in DOMAIN env : l[i] = LocalFor(env[i]) /\ l[i].name = env[i].name
  BY DEF Locals, LocalFor
<1> HIDE DEF l
<1>3. /\ \E i \in DOMAIN l : l[i].name = n
      /\ FindLocal(l, n) = <<l[LastOf(l, n)]>>
  BY <1>1, FoundLocal DEF l
<1>4. LastOf(l, n) \in DOMAIN l /\ l[LastOf(l, n)].name = n /\ \A j \in DOMAIN l : l[j].name = n => j <= LastOf(l, n)
  BY <1>1, <1>3, LastOfResult
<1>5. \E i \in DOMAIN env : env[i].name = n
  BY <1>1, <1>2, <1>3
<1>6. /\ LastOf(env, n) \in DOMAIN env /\ env[LastOf(env, n)].name = n
      /\ \A j \in DOMAIN env : env[j].name = n => j <= LastOf(env, n)
  BY <1>5, LastOfResult
<1>7. LastOf(env, n) = LastOf(l, n)
  <2> DEFINE a == LastOf(env, n)
             b == LastOf(l, n)
  <2>1. a \in Nat /\ b \in Nat /\ a <= b /\ b <= a
    <3>1. DOMAIN env \subseteq Nat
      OBVIOUS
    <3> QED
      BY <1>1, <1>2, <1>4, <1>6, <3>1
  <2> HIDE DEF a, b
  <2>2. a = b
    BY <2>1
  <2> QED
    BY <2>2 DEF a, b
<1>8. env[LastOf(env, n)] \in Binding(W)
  BY <1>6, ElementOf
<1> QED
  BY <1>2, <1>3, <1>5, <1>6, <1>7, <1>8 DEF l

-----------------------------------------------------------------------------
(* A call that is sound: the checker accepts what is left of each of its   *)
(* blocks with the locals that are there before it and after the block     *)
(* within, the expressions in focus have types, and the values that there  *)
(* are have the types of their expressions.                                *)

Begun == [rest : Blocks, keep : Nat]
Memo(W) == UNION {[D -> W] : D \in SUBSET Expressions}
Call(W) == [returns : STRING, env : Seq(Binding(W)), blocks : Seq(Begun), focus : Seq(Expressions),
            done : Memo(W)]

\* How many bindings there are for block k when the blocks within have ended.
Room(c, k) == IF k = Len(c.blocks) THEN Len(c.env) ELSE c.blocks[k + 1].keep

TypeIn(p, c, e) == TypeOf(p, Locals(c.env), e)

KeepsOk(c) ==
    /\ \A k \in DOMAIN c.blocks : c.blocks[k].keep <= Len(c.env)
    /\ \A j, k \in DOMAIN c.blocks : j <= k => c.blocks[j].keep <= c.blocks[k].keep

\* What is left of each block is accepted with the locals there will be.
BlocksOk(p, c) ==
    \A k \in DOMAIN c.blocks :
        CheckStmts(p, TypeNamed(p, c.returns), SubSeq(Locals(c.env), 1, Room(c, k)), c.blocks[k].rest)

FocusOk(p, c) == \A i \in DOMAIN c.focus : Valid(TypeIn(p, c, c.focus[i]))

DoneOk(p, c) == \A e \in DOMAIN c.done : TypeOfValue(c.done[e]) = TypeIn(p, c, e)

CallOk(p, W, c) ==
    /\ c \in Call(W) /\ Valid(TypeNamed(p, c.returns)) /\ c.blocks # <<>>
    /\ KeepsOk(c) /\ BlocksOk(p, c) /\ FocusOk(p, c) /\ DoneOk(p, c)
    /\ Latest(c.blocks).rest = <<>> => c.focus = <<>> /\ c.done = Nothing

\* The values f, and v for the expression e.
With(f, e, v) == [x \in DOMAIN f \cup {e} |-> IF x = e THEN v ELSE f[x]]

\* The values that a call has for expressions.
LEMMA MemoProperties ==
    ASSUME NEW W, NEW f \in Memo(W)
    PROVE  /\ DOMAIN f \subseteq Expressions /\ \A e \in DOMAIN f : f[e] \in W
           /\ Nothing \in Memo(W) /\ DOMAIN Nothing = {}
           /\ \A e \in Expressions, v \in W : With(f, e, v) \in Memo(W)
<1>1. PICK D \in SUBSET Expressions : f \in [D -> W]
  BY DEF Memo
<1>2. DOMAIN f \subseteq Expressions /\ \A e \in DOMAIN f : f[e] \in W
  BY <1>1
<1>3. Nothing \in Memo(W) /\ DOMAIN Nothing = {}
  <2>1. Nothing \in [{} -> W] /\ DOMAIN Nothing = {} /\ {} \in SUBSET Expressions
    BY DEF Nothing
  <2> QED
    BY <2>1 DEF Memo
<1>4. ASSUME NEW e \in Expressions, NEW v \in W
      PROVE  With(f, e, v) \in Memo(W)
  <2> DEFINE E == DOMAIN f \cup {e}
             g == [x \in E |-> IF x = e THEN v ELSE f[x]]
  <2>1. g \in [E -> W] /\ E \in SUBSET Expressions
    BY <1>1
  <2> HIDE DEF g, E
  <2>2. g \in Memo(W)
    BY <2>1 DEF Memo
  <2> QED
    BY <2>2 DEF g, E, With
<1> QED
  BY <1>2, <1>3, <1>4

\* The last element of a sequence, and those before it.
LEMMA LatestOlder ==
    ASSUME NEW S, NEW s \in Seq(S), s # <<>>
    PROVE  /\ Len(s) \in DOMAIN s /\ Len(s) \in Nat \ {0} /\ Latest(s) = s[Len(s)] /\ Latest(s) \in S
           /\ Older(s) \in Seq(S) /\ Len(Older(s)) = Len(s) - 1
           /\ DOMAIN Older(s) = 1 .. Len(s) - 1
           /\ \A i \in 1 .. Len(s) - 1 : Older(s)[i] = s[i]
<1>1. Len(s) \in Nat \ {0} /\ Len(s) \in DOMAIN s
  BY EmptySeq
<1>2. Latest(s) = s[Len(s)] /\ Latest(s) \in S
  BY <1>1, ElementOf DEF Latest
<1>3. Len(s) - 1 \in 0 .. Len(s)
  BY <1>1
<1>4. /\ Older(s) \in Seq(S) /\ Len(Older(s)) = Len(s) - 1
      /\ \A i \in 1 .. Len(s) - 1 : Older(s)[i] = s[i]
  BY <1>3, PrefixProperties DEF Older
<1> QED
  BY <1>1, <1>2, <1>4

\* The environment of a call, as the checker sees it.
LEMMA CallProperties ==
    ASSUME NEW p, NEW W, Typed(p, W), NEW c \in Call(W)
    PROVE  /\ c.returns \in STRING /\ c.env \in Seq(Binding(W)) /\ c.blocks \in Seq(Begun)
           /\ c.focus \in Seq(Expressions) /\ c.done \in Memo(W)
           /\ Locals(c.env) \in Seq(TypedLocal) /\ Len(Locals(c.env)) = Len(c.env)
           /\ \A i \in DOMAIN Locals(c.env) : Valid(Locals(c.env)[i].type)
           /\ SubSeq(Locals(c.env), 1, Len(c.env)) = Locals(c.env)
           /\ \A k \in DOMAIN c.blocks : c.blocks[k].rest \in Blocks /\ c.blocks[k].keep \in Nat
<1>1. /\ c.returns \in STRING /\ c.env \in Seq(Binding(W)) /\ c.blocks \in Seq(Begun)
      /\ c.focus \in Seq(Expressions) /\ c.done \in Memo(W)
  BY DEF Call
<1>2. Locals(c.env) \in Seq(TypedLocal) /\ Len(Locals(c.env)) = Len(c.env)
  BY <1>1, LocalsAreTyped
<1>3. ASSUME NEW i \in DOMAIN Locals(c.env) PROVE Valid(Locals(c.env)[i].type)
  <2>1. i \in DOMAIN c.env /\ Locals(c.env)[i].type = TypeOfValue(c.env[i].value)
    BY DEF Locals, LocalFor
  <2>2. c.env[i] \in Binding(W)
    BY <1>1, <2>1, ElementOf
  <2>3. c.env[i].value \in W
    BY <2>2 DEF Binding
  <2> QED
    BY <2>1, <2>3, ValuesHaveTypes
<1>4. SubSeq(Locals(c.env), 1, Len(c.env)) = Locals(c.env)
  BY <1>2, SubSeqFull
<1>5. ASSUME NEW k \in DOMAIN c.blocks PROVE c.blocks[k].rest \in Blocks /\ c.blocks[k].keep \in Nat
  <2>1. c.blocks[k] \in Begun
    BY <1>1, ElementOf
  <2> QED
    BY <2>1 DEF Begun
<1> QED
  BY <1>1, <1>2, <1>3, <1>4, <1>5

\* The statement that a sound call is at is accepted.
LEMMA StatementChecked ==
    ASSUME NEW p \in Tree, NEW W, Typed(p, W), NEW c, CallOk(p, W, c),
           Latest(c.blocks).rest # <<>>
    PROVE  LET l == Locals(c.env)
               r == TypeNamed(p, c.returns)
               b == Latest(c.blocks).rest
           IN /\ b \in Blocks /\ b[1] \in Statements /\ Tail(b) \in Blocks
              /\ CheckStmts(p, r, l, b)
              /\ StmtOk(p, r, AcceptedIn(p, r), l, b[1])
              /\ LocalsAfter(p, l, b[1]) \in Seq(TypedLocal)
              /\ CheckStmts(p, r, LocalsAfter(p, l, b[1]), Tail(b))
              /\ Subject(b[1]) \in Expressions /\ Valid(TypeIn(p, c, Subject(b[1])))
<1> DEFINE l == Locals(c.env)
           r == TypeNamed(p, c.returns)
           b == Latest(c.blocks).rest
           n == Len(c.blocks)
<1>1. c \in Call(W) /\ c.blocks # <<>> /\ Valid(r) /\ BlocksOk(p, c)
  BY DEF CallOk
<1>2. l \in Seq(TypedLocal) /\ c.blocks \in Seq(Begun)
  BY <1>1, CallProperties
<1>3. n \in DOMAIN c.blocks /\ b = c.blocks[n].rest
  BY <1>1, <1>2, LatestOlder
<1>4. b \in Blocks
  BY <1>1, <1>3, CallProperties
<1>5. CheckStmts(p, r, l, b)
  <2>1. Room(c, n) = Len(c.env)
    BY DEF Room
  <2>2. SubSeq(l, 1, Room(c, n)) = l
    BY <1>1, <2>1, CallProperties
  <2> QED
    BY <1>1, <1>3, <2>2 DEF BlocksOk
<1>6. b # <<>>
  OBVIOUS
<1>7. \A i \in DOMAIN l : Valid(l[i].type)
  BY <1>1, CallProperties
<1> HIDE DEF l, r, b
<1>8. b[1] \in Statements /\ Tail(b) \in Blocks
  BY <1>4, <1>6, BlocksTail
<1>9. /\ StmtOk(p, r, AcceptedIn(p, r), l, b[1])
      /\ LocalsAfter(p, l, b[1]) \in Seq(TypedLocal)
      /\ CheckStmts(p, r, LocalsAfter(p, l, b[1]), Tail(b))
  BY <1>2, <1>4, <1>5, <1>6, BlockChecked
<1>10. Subject(b[1]) \in Expressions /\ Valid(TypeOf(p, l, Subject(b[1])))
  BY <1>1, <1>2, <1>7, <1>8, <1>9, SubjectIsValid
<1> QED
  BY <1>4, <1>5, <1>8, <1>9, <1>10 DEF l, r, b, TypeIn

\* A value that the values in W make up.
IsValue(p, W, v) == v \in W \/ IsWord(v) \/ IsStructure(p, W, v) \/ IsChoice(p, W, v)

\* The value that an expression with a type comes to, once its parts have
\* theirs, has that type, unless the expression fails.
LEMMA ValueSound ==
    ASSUME NEW p \in Tree, ChecksTypes(p), NEW W, Typed(p, W), NEW c, CallOk(p, W, c),
           NEW e \in Expressions, e.kind # "call", Valid(TypeIn(p, c, e)),
           \A i \in DOMAIN Parts(e) : Parts(e)[i] \in DOMAIN c.done
    PROVE  \/ Value(p, c, e) = Failed
           \/ \E v : /\ Value(p, c, e) = Returned(v) /\ IsValue(p, W, v)
                     /\ TypeOfValue(v) = TypeIn(p, c, e)
<1> DEFINE l == Locals(c.env)
           types == TypesIn(p, l)
           t == TypeIn(p, c, e)
<1>1. c \in Call(W) /\ DoneOk(p, c)
  BY DEF CallOk
<1>2. l \in Seq(TypedLocal) /\ c.env \in Seq(Binding(W)) /\ c.done \in Memo(W)
  BY <1>1, CallProperties
<1>3. t = ExprType(p, l, types, e)
  BY <1>2, TypeOfUnfolds DEF TypeIn
<1>4. e \in ExpressionsOf(Expressions) /\ Parts(e) \in Seq(Expressions)
  BY SyntaxClosed, PartsAreExpressions
<1>5. ASSUME NEW x \in Expressions, x \in DOMAIN c.done
      PROVE  c.done[x] \in W /\ TypeOfValue(c.done[x]) = types[x]
  BY <1>1, <1>2, <1>5, MemoProperties DEF DoneOk, TypeIn, TypesIn
<1>6. ASSUME NEW i \in DOMAIN Parts(e)
      PROVE  Parts(e)[i] \in Expressions /\ c.done[Parts(e)[i]] \in W
             /\ TypeOfValue(c.done[Parts(e)[i]]) = types[Parts(e)[i]]
  BY <1>4, <1>5, ElementOf
<1>7. Valid(t)
  OBVIOUS
<1> HIDE DEF l, types, t
<1>8. CASE e.kind = "int"
  <2>1. Value(p, c, e) = Returned(Number(e.value)) /\ t = IntType
    BY <1>3, <1>8 DEF Value, ExprType
  <2> QED
    BY <2>1, WordTypes DEF IsValue, IsWord, t
<1>9. CASE e.kind = "bool"
  <2>1. Value(p, c, e) = Returned(Truth(Bool(e.value))) /\ t = BoolType
    BY <1>3, <1>9 DEF Value, ExprType
  <2> QED
    BY <2>1, WordTypes DEF IsValue, IsWord, t
<1>10. CASE e.kind = "name"
  <2>1. Value(p, c, e) = Lookup(c.env, e.name) /\ t = NameType(l, e.name)
    BY <1>3, <1>10 DEF Value, ExprType
  <2>2. FindLocal(l, e.name) # <<>> /\ t = FindLocal(l, e.name)[1].type
    BY <1>7, <2>1 DEF NameType, Valid
  <2> DEFINE b == c.env[LastOf(c.env, e.name)]
  <2>3. /\ \E i \in DOMAIN c.env : c.env[i].name = e.name
        /\ b \in Binding(W) /\ FindLocal(l, e.name)[1] = LocalFor(b)
    BY <1>2, <2>2, BindingFound DEF l
  <2>4. Value(p, c, e) = Returned(b.value)
    BY <2>1, <2>3 DEF Lookup
  <2> HIDE DEF b
  <2>5. b.value \in W /\ t = TypeOfValue(b.value)
    BY <2>2, <2>3 DEF Binding, LocalFor
  <2> QED
    BY <2>4, <2>5 DEF IsValue, t
<1>11. CASE e.kind = "negate"
  <2> DEFINE v == c.done[e.left]
  <2>1. Value(p, c, e) = Operate("sub", Number(0), v) /\ t = NegateType(types[e.left])
    BY <1>3, <1>11 DEF Value, ExprType
  <2>2. Parts(e) = <<e.left>>
    BY <1>11 DEF Parts
  <2>3. v \in W /\ TypeOfValue(v) = types[e.left]
    BY <1>6, <2>2
  <2> HIDE DEF v
  <2>4. types[e.left].kind = "Int" /\ t = types[e.left]
    BY <1>7, <2>1 DEF NegateType, Valid
  <2>5. v.type = "Int"
    BY <2>3, <2>4, WordsOfBuiltins
  <2>6. t = IntType
    BY <2>3, <2>4, <2>5 DEF TypeOfValue, NamedType, IntType
  <2>7. "sub" \in Operators /\ "sub" \in Arithmetic
    BY DEF Operators, Arithmetic
  <2> QED
    BY <2>1, <2>5, <2>6, <2>7, WordTypes, OperateSound DEF IsValue, t
<1>12. CASE e.kind = "binary"
  <2> DEFINE x == c.done[e.left]
             y == c.done[e.right]
  <2>1. /\ Value(p, c, e) = Operate(e.op, x, y)
        /\ t = BinaryType(e.op, types[e.left], types[e.right])
    BY <1>3, <1>12 DEF Value, ExprType
  <2>2. Parts(e) = <<e.left, e.right>>
    BY <1>12 DEF Parts
  <2>3. x \in W /\ TypeOfValue(x) = types[e.left] /\ y \in W /\ TypeOfValue(y) = types[e.right]
    BY <1>6, <2>2
  <2> HIDE DEF x, y
  <2>4. /\ types[e.left].kind = "Int" /\ types[e.right].kind = "Int"
        /\ t = IF e.op \in Arithmetic THEN IntType ELSE BoolType
    BY <1>7, <2>1 DEF BinaryType, Valid
  <2>5. x.type = "Int" /\ y.type = "Int"
    BY <2>3, <2>4, WordsOfBuiltins
  <2>6. e.op \in Operators
    BY <1>4, <1>12, ExpressionKinds
  <2> QED
    BY <2>1, <2>4, <2>5, <2>6, OperateSound DEF IsValue, t
<1>13. CASE e.kind = "field"
  <2> DEFINE base == c.done[e.left]
  <2>1. Value(p, c, e) = Select(base, e.name) /\ t = FieldType(p, types[e.left], e.name)
    BY <1>3, <1>13 DEF Value, ExprType
  <2>2. Parts(e) = <<e.left>>
    BY <1>13 DEF Parts
  <2>3. base \in W /\ TypeOfValue(base) = types[e.left]
    BY <1>6, <2>2
  <2> HIDE DEF base
  <2>4. \E v \in W : Select(base, e.name) = Returned(v) /\ TypeOfValue(v) = t
    BY <1>7, <2>1, <2>3, SelectSound
  <2> QED
    BY <2>1, <2>4 DEF IsValue, t
<1>14. CASE e.kind = "construct"
  <2> DEFINE values == ValuesOf(c, e.values)
  <2>1. Value(p, c, e) = Make(p, e.type, e.names, values) /\ t = ConstructType(p, types, e)
    BY <1>3, <1>14 DEF Value, ExprType
  <2>2. /\ e.type \in STRING /\ e.names \in Seq(STRING) /\ e.values \in Seq(Expressions)
        /\ Len(e.names) = 1 => Len(e.values) <= 1
    BY <1>4, <1>14, ExpressionKinds
  <2>3. Parts(e) = e.values
    BY <1>14 DEF Parts
  <2>4. ASSUME NEW i \in DOMAIN e.values
        PROVE  values[i] \in W /\ TypeOfValue(values[i]) = types[e.values[i]]
    BY <1>6, <2>3 DEF ValuesOf
  <2>5. values \in Seq(W) /\ Len(values) = Len(e.values)
    <3>1. DOMAIN values = DOMAIN e.values
      BY DEF ValuesOf
    <3>2. values = [i \in DOMAIN e.values |-> values[i]]
      BY DEF ValuesOf
    <3>3. DOMAIN e.values = 1 .. Len(e.values) /\ Len(e.values) \in Nat
      BY <2>2
    <3> HIDE DEF values
    <3> QED
      BY <2>4, <3>1, <3>2, <3>3
  <2> HIDE DEF values
  <2>6. FindType(p, e.type) # <<>>
    BY <1>7, <2>1 DEF ConstructType, Valid
  <2>7. InitsFit(p, W, types, e.type, e.names, e.values, values)
    BY <2>2, <2>4, <2>5, <2>6 DEF InitsFit
  <2>8. \E v : /\ Make(p, e.type, e.names, values) = Returned(v)
               /\ IsStructure(p, W, v) \/ IsChoice(p, W, v)
               /\ TypeOfValue(v) = t
    BY <1>7, <2>1, <2>7, MakeSound
  <2> QED
    BY <2>1, <2>8 DEF IsValue, t
<1> QED
  BY <1>4, <1>8, <1>9, <1>10, <1>11, <1>12, <1>13, <1>14, ExpressionKinds

-----------------------------------------------------------------------------
(* What the steps do to a call that is sound.                              *)

\* A call with other contents.
Focused(c, focus) == [c EXCEPT !.focus = focus]
Turned(c, focus, done) == [c EXCEPT !.focus = focus, !.done = done]
Moved(c, env, done, blocks) == [c EXCEPT !.env = env, !.done = done, !.blocks = blocks]
Left(c, env, blocks) == [c EXCEPT !.env = env, !.blocks = blocks]

\* A call with another focus.
LEMMA WithFocus ==
    ASSUME NEW W, NEW c \in Call(W), NEW focus \in Seq(Expressions)
    PROVE  LET d == Focused(c, focus) IN
              /\ d \in Call(W) /\ d.returns = c.returns /\ d.env = c.env /\ d.blocks = c.blocks
              /\ d.focus = focus /\ d.done = c.done
<1> DEFINE E == Seq(Binding(W))
           B == Seq(Begun)
           F == Seq(Expressions)
           M == Memo(W)
           C == [returns : STRING, env : E, blocks : B, focus : F, done : M]
<1>1. c \in C /\ focus \in F /\ Call(W) = C
  BY DEF Call
<1> HIDE DEF E, B, F, M
<1>2. LET d == Focused(c, focus) IN
              /\ d \in C /\ d.returns = c.returns /\ d.env = c.env /\ d.blocks = c.blocks
              /\ d.focus = focus /\ d.done = c.done
  BY <1>1 DEF Focused
<1> QED
  BY <1>1, <1>2

\* A call with another focus and other values.
LEMMA WithFocusDone ==
    ASSUME NEW W, NEW c \in Call(W), NEW focus \in Seq(Expressions), NEW done \in Memo(W)
    PROVE  LET d == Turned(c, focus, done) IN
              /\ d \in Call(W) /\ d.returns = c.returns /\ d.env = c.env /\ d.blocks = c.blocks
              /\ d.focus = focus /\ d.done = done
<1> DEFINE E == Seq(Binding(W))
           B == Seq(Begun)
           F == Seq(Expressions)
           M == Memo(W)
           C == [returns : STRING, env : E, blocks : B, focus : F, done : M]
<1>1. c \in C /\ focus \in F /\ done \in M /\ Call(W) = C
  BY DEF Call
<1> HIDE DEF E, B, F, M
<1>2. LET d == Turned(c, focus, done) IN
              /\ d \in C /\ d.returns = c.returns /\ d.env = c.env /\ d.blocks = c.blocks
              /\ d.focus = focus /\ d.done = done
  BY <1>1 DEF Turned
<1> QED
  BY <1>1, <1>2

\* A call with another environment, other values and blocks.
LEMMA WithEnvDoneBlocks ==
    ASSUME NEW W, NEW c \in Call(W), NEW env \in Seq(Binding(W)), NEW done \in Memo(W), NEW blocks \in Seq(Begun)
    PROVE  LET d == Moved(c, env, done, blocks) IN
              /\ d \in Call(W) /\ d.returns = c.returns /\ d.env = env /\ d.blocks = blocks
              /\ d.focus = c.focus /\ d.done = done
<1> DEFINE E == Seq(Binding(W))
           B == Seq(Begun)
           F == Seq(Expressions)
           M == Memo(W)
           C == [returns : STRING, env : E, blocks : B, focus : F, done : M]
<1>1. c \in C /\ env \in E /\ done \in M /\ blocks \in B /\ Call(W) = C
  BY DEF Call
<1> HIDE DEF E, B, F, M
<1>2. LET d == Moved(c, env, done, blocks) IN
              /\ d \in C /\ d.returns = c.returns /\ d.env = env /\ d.blocks = blocks
              /\ d.focus = c.focus /\ d.done = done
  BY <1>1 DEF Moved
<1> QED
  BY <1>1, <1>2

\* A call with another environment and other blocks.
LEMMA WithEnvBlocks ==
    ASSUME NEW W, NEW c \in Call(W), NEW env \in Seq(Binding(W)), NEW blocks \in Seq(Begun)
    PROVE  LET d == Left(c, env, blocks) IN
              /\ d \in Call(W) /\ d.returns = c.returns /\ d.env = env /\ d.blocks = blocks
              /\ d.focus = c.focus /\ d.done = c.done
<1> DEFINE E == Seq(Binding(W))
           B == Seq(Begun)
           F == Seq(Expressions)
           M == Memo(W)
           C == [returns : STRING, env : E, blocks : B, focus : F, done : M]
<1>1. c \in C /\ env \in E /\ blocks \in B /\ Call(W) = C
  BY DEF Call
<1> HIDE DEF E, B, F, M
<1>2. LET d == Left(c, env, blocks) IN
              /\ d \in C /\ d.returns = c.returns /\ d.env = env /\ d.blocks = blocks
              /\ d.focus = c.focus /\ d.done = c.done
  BY <1>1 DEF Left
<1> QED
  BY <1>1, <1>2

\* A call stays sound where there are more values.
LEMMA CallGrows ==
    ASSUME NEW p, NEW W, NEW X, W \subseteq X, NEW c, CallOk(p, W, c)
    PROVE  CallOk(p, X, c)
<1>1. Seq(Binding(W)) \subseteq Seq(Binding(X))
  <2>1. Binding(W) \subseteq Binding(X)
    BY DEF Binding
  <2> QED
    BY <2>1, SeqMonotone
<1>2. Memo(W) \subseteq Memo(X)
  <2> SUFFICES ASSUME NEW f \in Memo(W) PROVE f \in Memo(X)
    OBVIOUS
  <2>1. PICK D \in SUBSET Expressions : f \in [D -> W]
    BY DEF Memo
  <2>2. f \in [D -> X]
    BY <2>1
  <2> QED
    BY <2>2 DEF Memo
<1>3. c \in Call(W)
  BY DEF CallOk
<1>4. c \in Call(X)
  <2> DEFINE E == Seq(Binding(W))
             M == Memo(W)
             G == Seq(Binding(X))
             N == Memo(X)
             B == Seq(Begun)
             F == Seq(Expressions)
  <2>1. c \in [returns : STRING, env : E, blocks : B, focus : F, done : M] /\ E \subseteq G /\ M \subseteq N
    BY <1>1, <1>2, <1>3 DEF Call
  <2> HIDE DEF E, M, G, N, B, F
  <2>2. c \in [returns : STRING, env : G, blocks : B, focus : F, done : N]
    BY <2>1
  <2> QED
    BY <2>2 DEF Call, G, N, B, F
<1> QED
  BY <1>4 DEF CallOk

\* Descend: an expression that has a type comes into focus.
LEMMA DescendOk ==
    ASSUME NEW p, NEW W, NEW c, CallOk(p, W, c), NEW x \in Expressions,
           Valid(TypeIn(p, c, x)), Latest(c.blocks).rest # <<>>
    PROVE  CallOk(p, W, [c EXCEPT !.focus = Append(@, x)])
<1> DEFINE focus == Append(c.focus, x)
           d == Focused(c, focus)
<1>1. c \in Call(W) /\ c.focus \in Seq(Expressions) /\ FocusOk(p, c)
  BY DEF CallOk, Call
<1>2. focus \in Seq(Expressions)
  BY <1>1
<1>3. \A i \in DOMAIN focus : focus[i] = x \/ (i \in DOMAIN c.focus /\ focus[i] = c.focus[i])
  BY <1>1
<1> HIDE DEF focus
<1>4. /\ d \in Call(W) /\ d.returns = c.returns /\ d.env = c.env /\ d.blocks = c.blocks
      /\ d.focus = focus /\ d.done = c.done
  BY <1>1, <1>2, WithFocus
<1> HIDE DEF d
<1>5. FocusOk(p, d)
  BY <1>1, <1>3, <1>4 DEF FocusOk, TypeIn
<1>6. CallOk(p, W, d)
  BY <1>4, <1>5 DEF CallOk, KeepsOk, BlocksOk, DoneOk, Room, TypeIn
<1> QED
  BY <1>6 DEF d, focus, Focused

\* Evaluate, Replies: the expression in focus has a value of its type.
LEMMA EvaluatedOk ==
    ASSUME NEW p, NEW W, NEW c, CallOk(p, W, c), c.focus # <<>>, NEW v \in W,
           TypeOfValue(v) = TypeIn(p, c, Latest(c.focus))
    PROVE  CallOk(p, W, Evaluated(c, v))
<1> DEFINE x == Latest(c.focus)
           focus == Older(c.focus)
           done == With(c.done, x, v)
           d == Turned(c, focus, done)
<1>1. /\ c \in Call(W) /\ FocusOk(p, c) /\ DoneOk(p, c)
      /\ c.env \in Seq(Binding(W)) /\ c.blocks \in Seq(Begun)
      /\ c.focus \in Seq(Expressions) /\ c.done \in Memo(W)
  BY DEF CallOk, Call
<1>2. x \in Expressions /\ focus \in Seq(Expressions)
  BY <1>1, LatestOlder
<1>3. \A i \in DOMAIN focus : i \in DOMAIN c.focus /\ focus[i] = c.focus[i]
  <2>1. DOMAIN focus = 1 .. Len(c.focus) - 1 /\ \A i \in 1 .. Len(c.focus) - 1 : focus[i] = c.focus[i]
    BY <1>1, LatestOlder
  <2>2. DOMAIN c.focus = 1 .. Len(c.focus) /\ Len(c.focus) \in Nat
    BY <1>1
  <2> HIDE DEF focus
  <2> QED
    BY <2>1, <2>2
<1>4. done \in Memo(W)
  BY <1>1, <1>2, MemoProperties
<1>5. Evaluated(c, v) = d
  BY DEF Evaluated, With, Turned
<1>6. \A e \in DOMAIN done : (e = x /\ done[e] = v) \/ (e \in DOMAIN c.done /\ done[e] = c.done[e])
  BY DEF With
<1>7. TypeOfValue(v) = TypeIn(p, c, x)
  OBVIOUS
<1> HIDE DEF focus, done, x
<1>8. /\ d \in Call(W) /\ d.returns = c.returns /\ d.env = c.env /\ d.blocks = c.blocks
      /\ d.focus = focus /\ d.done = done
  BY <1>1, <1>2, <1>4, WithFocusDone
<1> HIDE DEF d
<1>9. FocusOk(p, d)
  BY <1>1, <1>3, <1>8 DEF FocusOk, TypeIn
<1>10. DoneOk(p, d)
  BY <1>1, <1>6, <1>7, <1>8 DEF DoneOk, TypeIn
<1>11. Latest(d.blocks).rest # <<>>
  BY <1>8 DEF CallOk
<1>12. CallOk(p, W, d)
  BY <1>8, <1>9, <1>10, <1>11 DEF CallOk, KeepsOk, BlocksOk, Room
<1> QED
  BY <1>5, <1>12

\* The statement is behind: what is left is accepted with these bindings.
LEMMA PastOk ==
    ASSUME NEW p, NEW W, Typed(p, W), NEW c, CallOk(p, W, c), c.focus = <<>>,
           Latest(c.blocks).rest # <<>>, Tail(Latest(c.blocks).rest) \in Blocks,
           NEW env \in Seq(Binding(W)), Len(c.env) <= Len(env),
           \A i \in 1 .. Len(c.env) : LocalFor(c.env[i]) = LocalFor(env[i]),
           CheckStmts(p, TypeNamed(p, c.returns), Locals(env), Tail(Latest(c.blocks).rest))
    PROVE  CallOk(p, W, Past(c, env))
<1> DEFINE n == Len(c.blocks)
           b == Begins(Tail(Latest(c.blocks).rest), Latest(c.blocks).keep)
           blocks == Append(Older(c.blocks), b)
           d == Moved(c, env, Nothing, blocks)
<1>1. /\ c \in Call(W) /\ c.blocks # <<>> /\ KeepsOk(c) /\ BlocksOk(p, c) /\ Valid(TypeNamed(p, c.returns))
      /\ c.env \in Seq(Binding(W)) /\ c.blocks \in Seq(Begun)
      /\ c.focus \in Seq(Expressions) /\ c.done \in Memo(W)
  BY DEF CallOk, Call
<1>2. n \in DOMAIN c.blocks /\ n \in Nat \ {0} /\ Latest(c.blocks) = c.blocks[n]
  BY <1>1, LatestOlder
<1>3. /\ blocks \in Seq(Begun) /\ DOMAIN blocks = DOMAIN c.blocks /\ Len(blocks) = n
      /\ \A k \in DOMAIN blocks : blocks[k].keep = c.blocks[k].keep
      /\ \A k \in DOMAIN blocks : k # n => blocks[k].rest = c.blocks[k].rest
      /\ blocks[n].rest = Tail(Latest(c.blocks).rest)
  <2>1. /\ Older(c.blocks) \in Seq(Begun) /\ Len(Older(c.blocks)) = n - 1
        /\ \A k \in 1 .. n - 1 : Older(c.blocks)[k] = c.blocks[k]
    BY <1>1, LatestOlder
  <2>2. b.rest = Tail(Latest(c.blocks).rest) /\ b.keep = Latest(c.blocks).keep
    BY DEF Begins
  <2>3. b \in Begun
    <3>1. Latest(c.blocks).keep \in Nat
      BY <1>1, <1>2, CallProperties
    <3> DEFINE B == Blocks
    <3>2. Tail(Latest(c.blocks).rest) \in B
      OBVIOUS
    <3> HIDE DEF B
    <3>3. b \in [rest : B, keep : Nat]
      BY <3>1, <3>2 DEF Begins
    <3> QED
      BY <3>3 DEF B, Begun
  <2>4. DOMAIN c.blocks = 1 .. n
    BY <1>1
  <2> HIDE DEF n, b
  <2>5. /\ blocks \in Seq(Begun) /\ Len(blocks) = n /\ DOMAIN blocks = 1 .. n /\ blocks[n] = b
        /\ \A k \in 1 .. n - 1 : blocks[k] = c.blocks[k]
    BY <1>2, <2>1, <2>3
  <2>6. \A k \in 1 .. n : k = n \/ k \in 1 .. n - 1
    BY <1>2
  <2> HIDE DEF blocks
  <2> QED
    BY <1>2, <2>2, <2>4, <2>5, <2>6
<1>4. Past(c, env) = d
  BY DEF Past, Moved
<1> HIDE DEF blocks, b
<1>5. Nothing \in Memo(W) /\ DOMAIN Nothing = {}
  BY <1>1, MemoProperties
<1>6. /\ d \in Call(W) /\ d.returns = c.returns /\ d.env = env /\ d.blocks = blocks
      /\ d.focus = c.focus /\ d.done = Nothing
  BY <1>1, <1>3, <1>5, WithEnvDoneBlocks
<1> HIDE DEF d
<1>7. Len(c.env) \in Nat /\ Len(env) \in Nat
  BY <1>1
<1>8. KeepsOk(d)
  <2>1. \A k \in DOMAIN c.blocks : c.blocks[k].keep \in Nat
    BY <1>1, CallProperties
  <2> QED
    BY <1>1, <1>3, <1>6, <1>7, <2>1 DEF KeepsOk
<1>9. BlocksOk(p, d)
  <2> SUFFICES ASSUME NEW k \in DOMAIN blocks
               PROVE  CheckStmts(p, TypeNamed(p, c.returns), SubSeq(Locals(env), 1, Room(d, k)), blocks[k].rest)
    BY <1>6 DEF BlocksOk
  <2>1. CASE k = n
    <3>1. Room(d, k) = Len(env)
      BY <1>3, <1>6, <2>1 DEF Room
    <3>2. SubSeq(Locals(env), 1, Len(env)) = Locals(env)
      BY LocalsAreTyped, SubSeqFull
    <3> QED
      BY <1>3, <2>1, <3>1, <3>2
  <2>2. CASE k # n
    <3>1. k \in DOMAIN c.blocks /\ k + 1 \in DOMAIN c.blocks
      BY <1>1, <1>2, <1>3, <2>2
    <3>2. Room(d, k) = c.blocks[k + 1].keep /\ Room(c, k) = c.blocks[k + 1].keep
      BY <1>3, <1>6, <2>2, <3>1 DEF Room
    <3> DEFINE m == c.blocks[k + 1].keep
    <3>3. m \in 0 .. Len(c.env) /\ m <= Len(env)
      <4>1. m \in Nat
        BY <1>1, <3>1, CallProperties
      <4>2. m <= Len(c.env)
        BY <1>1, <3>1 DEF KeepsOk
      <4> QED
        BY <1>7, <4>1, <4>2
    <3> HIDE DEF m
    <3>4. SubSeq(Locals(c.env), 1, m) = SubSeq(Locals(env), 1, m)
      <4>1. m \in Nat /\ Agree(c.env, env, m)
        BY <1>7, <3>3 DEF Agree
      <4> QED
        BY <1>1, <4>1, LocalsAgree
    <3>5. CheckStmts(p, TypeNamed(p, c.returns), SubSeq(Locals(c.env), 1, m), c.blocks[k].rest)
      BY <1>1, <3>1, <3>2 DEF BlocksOk, m
    <3> QED
      BY <1>3, <2>2, <3>2, <3>4, <3>5 DEF m
  <2> QED
    BY <2>1, <2>2
<1>10. FocusOk(p, d) /\ DoneOk(p, d)
  BY <1>5, <1>6 DEF FocusOk, DoneOk
<1>11. blocks # <<>>
  BY <1>2, <1>3
<1>12. CallOk(p, W, d)
  BY <1>1, <1>6, <1>8, <1>9, <1>10, <1>11 DEF CallOk
<1> QED
  BY <1>4, <1>12

\* A block is entered that is accepted with its own bindings after those that
\* there are.
LEMMA IntoOk ==
    ASSUME NEW p, NEW W, Typed(p, W), NEW c, CallOk(p, W, c), c.focus = <<>>,
           NEW own \in Seq(Binding(W)), NEW b \in Blocks,
           CheckStmts(p, TypeNamed(p, c.returns), Locals(c.env) \o Locals(own), b)
    PROVE  CallOk(p, W, Into(c, own, b))
<1> DEFINE n == Len(c.blocks)
           env == c.env \o own
           u == Begins(b, Len(c.env))
           blocks == Append(c.blocks, u)
           d == Moved(c, env, Nothing, blocks)
<1>1. /\ c \in Call(W) /\ c.blocks # <<>> /\ KeepsOk(c) /\ BlocksOk(p, c) /\ Valid(TypeNamed(p, c.returns))
      /\ c.env \in Seq(Binding(W)) /\ c.blocks \in Seq(Begun)
      /\ c.focus \in Seq(Expressions) /\ c.done \in Memo(W)
  BY DEF CallOk, Call
<1>2. n \in Nat \ {0} /\ DOMAIN c.blocks = 1 .. n
  BY <1>1, LatestOlder
<1>3. /\ env \in Seq(Binding(W)) /\ Len(c.env) \in Nat /\ Len(env) \in Nat /\ Len(c.env) <= Len(env)
      /\ \A i \in 1 .. Len(c.env) : env[i] = c.env[i]
  <2> DEFINE B == Binding(W)
  <2>1. c.env \in Seq(B) /\ own \in Seq(B)
    BY <1>1
  <2> HIDE DEF B
  <2>2. /\ env \in Seq(B) /\ Len(env) = Len(c.env) + Len(own) /\ Len(c.env) \in Nat /\ Len(own) \in Nat
        /\ \A i \in 1 .. Len(c.env) : env[i] = c.env[i]
    BY <2>1, ConcatProperties
  <2> HIDE DEF env
  <2> QED
    BY <2>2 DEF B
<1>4. u \in Begun /\ u.rest = b /\ u.keep = Len(c.env)
  <2> DEFINE B == Blocks
  <2>1. b \in B
    OBVIOUS
  <2> HIDE DEF B
  <2>2. u \in [rest : B, keep : Nat] /\ u.rest = b /\ u.keep = Len(c.env)
    BY <1>3, <2>1 DEF Begins
  <2> QED
    BY <2>2 DEF B, Begun
<1>5. Into(c, own, b) = d
  BY DEF Into, Moved
<1>6. Locals(env) = Locals(c.env) \o Locals(own)
  BY <1>1, LocalsOfBoth
<1>7. SubSeq(Locals(env), 1, Len(env)) = Locals(env)
  <2>1. Locals(env) \in Seq(TypedLocal) /\ Len(Locals(env)) = Len(env)
    BY <1>3, LocalsAreTyped
  <2> QED
    BY <2>1, SubSeqFull
<1> HIDE DEF env, u
<1>8. /\ blocks \in Seq(Begun) /\ Len(blocks) = n + 1 /\ DOMAIN blocks = 1 .. n + 1
      /\ blocks[n + 1] = u /\ \A k \in 1 .. n : blocks[k] = c.blocks[k]
  BY <1>1, <1>2, <1>4
<1>9. Nothing \in Memo(W) /\ DOMAIN Nothing = {}
  BY <1>1, MemoProperties
<1> HIDE DEF blocks
<1>10. /\ d \in Call(W) /\ d.returns = c.returns /\ d.env = env /\ d.blocks = blocks
       /\ d.focus = c.focus /\ d.done = Nothing
  BY <1>1, <1>3, <1>8, <1>9, WithEnvDoneBlocks
<1> HIDE DEF d, n
<1>11. KeepsOk(d)
  <2>1. \A k \in 1 .. n : c.blocks[k].keep \in Nat /\ c.blocks[k].keep <= Len(c.env)
    BY <1>1, <1>2, CallProperties DEF KeepsOk
  <2>2. \A j, k \in 1 .. n : j <= k => c.blocks[j].keep <= c.blocks[k].keep
    BY <1>1, <1>2 DEF KeepsOk
  <2>3. \A k \in 1 .. n + 1 : k = n + 1 \/ k \in 1 .. n
    BY <1>2
  <2>4. \A k \in DOMAIN blocks : blocks[k].keep \in Nat /\ blocks[k].keep <= Len(c.env)
    BY <1>3, <1>4, <1>8, <2>1, <2>3
  <2>5. \A k \in DOMAIN blocks : blocks[k].keep <= Len(env)
    BY <1>3, <2>4
  <2>6. ASSUME NEW j \in DOMAIN blocks, NEW k \in DOMAIN blocks, j <= k
        PROVE  blocks[j].keep <= blocks[k].keep
    <3>1. CASE k = n + 1
      BY <1>4, <1>8, <2>4, <3>1
    <3>2. CASE k \in 1 .. n
      <4>1. j \in 1 .. n
        BY <1>2, <1>8, <2>6, <3>2
      <4> QED
        BY <1>8, <2>2, <2>6, <3>2, <4>1
    <3> QED
      BY <1>8, <2>3, <3>1, <3>2
  <2> QED
    BY <1>10, <2>5, <2>6 DEF KeepsOk
<1>12. BlocksOk(p, d)
  <2> SUFFICES ASSUME NEW k \in DOMAIN blocks
               PROVE  CheckStmts(p, TypeNamed(p, c.returns), SubSeq(Locals(env), 1, Room(d, k)), blocks[k].rest)
    BY <1>10 DEF BlocksOk
  <2>1. CASE k = n + 1
    <3>1. Room(d, k) = Len(env)
      BY <1>8, <1>10, <2>1 DEF Room
    <3> QED
      BY <1>4, <1>6, <1>7, <1>8, <2>1, <3>1
  <2>2. CASE k # n + 1
    <3>1. k \in 1 .. n /\ k + 1 \in 1 .. n + 1 /\ k # Len(blocks)
      BY <1>2, <1>8, <2>2
    <3> DEFINE m == Room(c, k)
    <3>2. Room(d, k) = m /\ m \in Nat /\ m <= Len(c.env)
      <4>1. CASE k = n
        BY <1>3, <1>4, <1>8, <1>10, <3>1, <4>1 DEF Room, n
      <4>2. CASE k # n
        <5>1. k + 1 \in 1 .. n /\ blocks[k + 1] = c.blocks[k + 1]
          BY <1>2, <1>8, <3>1, <4>2
        <5>2. Room(d, k) = c.blocks[k + 1].keep /\ m = c.blocks[k + 1].keep
          BY <1>10, <3>1, <4>2, <5>1 DEF Room, n
        <5>3. c.blocks[k + 1].keep \in Nat /\ c.blocks[k + 1].keep <= Len(c.env)
          BY <1>1, <1>2, <5>1, CallProperties DEF KeepsOk
        <5> QED
          BY <5>2, <5>3
      <4> QED
        BY <4>1, <4>2
    <3>3. CheckStmts(p, TypeNamed(p, c.returns), SubSeq(Locals(c.env), 1, m), c.blocks[k].rest)
      BY <1>1, <1>2, <3>1 DEF BlocksOk
    <3> HIDE DEF m
    <3>4. SubSeq(Locals(c.env), 1, m) = SubSeq(Locals(env), 1, m)
      <4>1. m \in Nat /\ Agree(c.env, env, m)
        BY <1>3, <3>2 DEF Agree
      <4> QED
        BY <1>1, <1>3, <4>1, LocalsAgree
    <3> QED
      BY <1>8, <3>1, <3>2, <3>3, <3>4
  <2> QED
    BY <2>1, <2>2
<1>13. FocusOk(p, d) /\ DoneOk(p, d)
  BY <1>9, <1>10 DEF FocusOk, DoneOk
<1>14. blocks # <<>>
  BY <1>2, <1>8
<1>15. CallOk(p, W, d)
  BY <1>1, <1>10, <1>11, <1>12, <1>13, <1>14 DEF CallOk
<1> QED
  BY <1>5, <1>15

\* A block has ended: its bindings are gone.
LEMMA EndOk ==
    ASSUME NEW p, NEW W, Typed(p, W), NEW c, CallOk(p, W, c),
           Latest(c.blocks).rest = <<>>, Len(c.blocks) > 1
    PROVE  CallOk(p, W, [c EXCEPT !.env = SubSeq(@, 1, Latest(c.blocks).keep), !.blocks = Older(@)])
<1> DEFINE n == Len(c.blocks)
           keep == Latest(c.blocks).keep
           env == SubSeq(c.env, 1, keep)
           blocks == Older(c.blocks)
           d == Left(c, env, blocks)
<1>1. /\ c \in Call(W) /\ c.blocks # <<>> /\ KeepsOk(c) /\ BlocksOk(p, c) /\ Valid(TypeNamed(p, c.returns))
      /\ c.env \in Seq(Binding(W)) /\ c.blocks \in Seq(Begun)
      /\ c.focus \in Seq(Expressions) /\ c.done \in Memo(W) /\ c.focus = <<>> /\ c.done = Nothing
  BY DEF CallOk, Call
<1>2. /\ n \in Nat /\ n > 1 /\ DOMAIN c.blocks = 1 .. n /\ keep = c.blocks[n].keep /\ n \in DOMAIN c.blocks
      /\ blocks \in Seq(Begun) /\ Len(blocks) = n - 1 /\ DOMAIN blocks = 1 .. n - 1
      /\ \A k \in 1 .. n - 1 : blocks[k] = c.blocks[k]
  <2>1. /\ n \in Nat \ {0} /\ n \in DOMAIN c.blocks /\ Latest(c.blocks) = c.blocks[n]
        /\ blocks \in Seq(Begun) /\ Len(blocks) = n - 1 /\ DOMAIN blocks = 1 .. n - 1
        /\ \A k \in 1 .. n - 1 : blocks[k] = c.blocks[k]
    BY <1>1, LatestOlder
  <2>2. n > 1 /\ DOMAIN c.blocks = 1 .. n
    BY <1>1
  <2> HIDE DEF n, blocks
  <2> QED
    BY <2>1, <2>2
<1>3. /\ keep \in 0 .. Len(c.env)
      /\ \A k \in 1 .. n : c.blocks[k].keep \in Nat /\ c.blocks[k].keep <= keep
      /\ \A j, k \in 1 .. n : j <= k => c.blocks[j].keep <= c.blocks[k].keep
  <2>1. \A k \in 1 .. n : c.blocks[k].keep \in Nat /\ c.blocks[k].keep <= Len(c.env)
    BY <1>1, <1>2, CallProperties DEF KeepsOk
  <2>2. \A j, k \in 1 .. n : j <= k => c.blocks[j].keep <= c.blocks[k].keep
    BY <1>1, <1>2 DEF KeepsOk
  <2>3. Len(c.env) \in Nat /\ \A k \in 1 .. n : k <= n
    BY <1>1, <1>2
  <2> HIDE DEF keep, n
  <2> QED
    BY <1>2, <2>1, <2>2, <2>3
<1> HIDE DEF keep, n, blocks
<1>4. env \in Seq(Binding(W)) /\ Len(env) = keep /\ \A i \in 1 .. keep : env[i] = c.env[i]
  <2> DEFINE B == Binding(W)
  <2>1. c.env \in Seq(B)
    BY <1>1
  <2> HIDE DEF B
  <2>2. env \in Seq(B) /\ Len(env) = keep /\ \A i \in 1 .. keep : env[i] = c.env[i]
    BY <1>3, <2>1, PrefixProperties
  <2> QED
    BY <2>2 DEF B
<1> HIDE DEF env
<1>5. /\ d \in Call(W) /\ d.returns = c.returns /\ d.env = env /\ d.blocks = blocks
      /\ d.focus = c.focus /\ d.done = c.done
  BY <1>1, <1>2, <1>4, WithEnvBlocks
<1> HIDE DEF d
<1>6. KeepsOk(d)
  <2>1. \A k \in 1 .. n - 1 : k \in 1 .. n
    BY <1>2
  <2> QED
    BY <1>2, <1>3, <1>4, <1>5, <2>1 DEF KeepsOk
<1>7. BlocksOk(p, d)
  <2> SUFFICES ASSUME NEW k \in 1 .. n - 1
               PROVE  CheckStmts(p, TypeNamed(p, c.returns), SubSeq(Locals(env), 1, Room(d, k)), c.blocks[k].rest)
    BY <1>2, <1>5 DEF BlocksOk
  <2>1. k \in 1 .. n /\ k + 1 \in 1 .. n /\ k # n
    BY <1>2
  <2> DEFINE m == c.blocks[k + 1].keep
  <2>2. Room(c, k) = m /\ m \in 0 .. keep
    BY <1>3, <2>1 DEF Room, n
  <2>3. Room(d, k) = m
    <3>1. CASE k = n - 1
      <4>1. k + 1 = n
        BY <1>2, <3>1
      <4> QED
        BY <1>2, <1>4, <1>5, <3>1, <4>1 DEF Room
    <3>2. CASE k # n - 1
      <4>1. k + 1 \in 1 .. n - 1
        BY <1>2, <3>2
      <4> QED
        BY <1>2, <1>5, <3>2, <4>1 DEF Room
    <3> QED
      BY <3>1, <3>2
  <2>4. CheckStmts(p, TypeNamed(p, c.returns), SubSeq(Locals(c.env), 1, m), c.blocks[k].rest)
    BY <1>1, <1>2, <2>1, <2>2 DEF BlocksOk
  <2> HIDE DEF m
  <2>5. SubSeq(Locals(c.env), 1, m) = SubSeq(Locals(env), 1, m)
    <3>1. m \in Nat /\ Agree(c.env, env, m)
      <4>1. Len(c.env) \in Nat /\ m <= Len(c.env)
        BY <1>1, <1>3, <2>2
      <4> QED
        BY <1>3, <1>4, <2>2, <4>1 DEF Agree
    <3> QED
      BY <1>1, <1>4, <3>1, LocalsAgree
  <2> QED
    BY <2>3, <2>4, <2>5
<1>8. FocusOk(p, d) /\ DoneOk(p, d)
  <2>1. DOMAIN Nothing = {}
    BY DEF Nothing
  <2> QED
    BY <1>1, <1>5, <2>1 DEF FocusOk, DoneOk
<1>9. blocks # <<>>
  BY <1>2
<1>10. CallOk(p, W, d)
  BY <1>1, <1>5, <1>6, <1>7, <1>8, <1>9 DEF CallOk
<1>11. d = [c EXCEPT !.env = SubSeq(@, 1, Latest(c.blocks).keep), !.blocks = Older(@)]
  BY DEF d, Left, env, blocks, keep
<1> QED
  BY <1>10, <1>11

\* A function is called with values of the types of its parameters.
LEMMA ActivationOk ==
    ASSUME NEW p \in Tree, NEW W, Typed(p, W), NEW f \in FunctionDecl, ChecksBody(p, f),
           NEW args \in Seq(W), Len(args) = Len(f.params),
           \A i \in DOMAIN f.params : TypeOfValue(args[i]) = TypeNamed(p, f.params[i].type)
    PROVE  CallOk(p, W, Activation(f, args)) /\ Activation(f, args).returns = f.returns
<1> DEFINE n == Len(args)
           env == [i \in DOMAIN args |-> Bound(f.params[i].name, args[i], FALSE)]
           u == Begins(f.body, n)
           blocks == <<u>>
           c == Activation(f, args)
<1>1. /\ f.params \in Seq(Member) /\ f.returns \in STRING /\ f.body \in Blocks
      /\ n \in Nat /\ DOMAIN args = 1 .. n /\ DOMAIN f.params = 1 .. n
  <2>1. f.params \in Seq(Member) /\ f.returns \in STRING /\ f.body \in Blocks
    BY TreeParts
  <2> DEFINE q == f.params
  <2>2. q \in Seq(Member) /\ Len(q) = n
    BY <2>1
  <2> HIDE DEF q
  <2>3. n \in Nat /\ DOMAIN args = 1 .. n /\ DOMAIN q = 1 .. n
    BY <2>2
  <2> QED
    BY <2>1, <2>3 DEF q
<1>2. \A i \in 1 .. n : f.params[i].name \in STRING /\ f.params[i].type \in STRING /\ args[i] \in W
  <2> SUFFICES ASSUME NEW i \in 1 .. n
               PROVE  f.params[i].name \in STRING /\ f.params[i].type \in STRING /\ args[i] \in W
    OBVIOUS
  <2>1. f.params[i] \in Member /\ args[i] \in W
    BY <1>1, ElementOf
  <2> QED
    BY <2>1, TreeParts
<1>3. env \in Seq(Binding(W)) /\ Len(env) = n /\ DOMAIN env = 1 .. n
  <2>1. \A i \in 1 .. n : env[i] \in Binding(W)
    BY <1>1, <1>2 DEF Bound, Binding
  <2>2. env = [i \in 1 .. n |-> env[i]]
    BY <1>1
  <2> HIDE DEF env, n
  <2> QED
    BY <1>1, <2>1, <2>2
<1>4. Locals(env) = [i \in DOMAIN f.params |-> LocalOf(p, f.params[i])]
  <2>1. \A i \in 1 .. n : LocalFor(env[i]) = LocalOf(p, f.params[i])
    BY <1>1 DEF Bound, LocalFor, LocalOf
  <2> HIDE DEF env, n
  <2> QED
    BY <1>1, <1>3, <2>1 DEF Locals
<1>5. CheckStmts(p, TypeNamed(p, f.returns), Locals(env), f.body) /\ Valid(TypeNamed(p, f.returns))
  BY <1>4 DEF ChecksBody, SignatureOk
<1>6. u \in Begun /\ u.rest = f.body /\ u.keep = n
  <2> DEFINE B == Blocks
  <2>1. f.body \in B
    BY <1>1
  <2> HIDE DEF B, n
  <2>2. u \in [rest : B, keep : Nat] /\ u.rest = f.body /\ u.keep = n
    BY <1>1, <2>1 DEF Begins
  <2> QED
    BY <2>2 DEF B, Begun
<1>7. c = [returns |-> f.returns, env |-> env, blocks |-> blocks, focus |-> <<>>, done |-> Nothing]
  BY DEF Activation
<1> HIDE DEF u, env, n
<1>8. /\ blocks \in Seq(Begun) /\ Len(blocks) = 1 /\ DOMAIN blocks = {1} /\ blocks[1] = u /\ blocks # <<>>
      /\ Latest(blocks) = u
  BY <1>6 DEF Latest
<1>9. Nothing \in Memo(W) /\ DOMAIN Nothing = {}
  <2>1. Nothing \in [{} -> W] /\ DOMAIN Nothing = {} /\ {} \in SUBSET Expressions
    BY DEF Nothing
  <2> QED
    BY <2>1 DEF Memo
<1> HIDE DEF blocks, c
<1>10. /\ c.returns = f.returns /\ c.env = env /\ c.blocks = blocks /\ c.focus = <<>> /\ c.done = Nothing
       /\ c \in Call(W)
  <2> DEFINE E == Seq(Binding(W))
             B == Seq(Begun)
             F == Seq(Expressions)
             M == Memo(W)
  <2>1. f.returns \in STRING /\ env \in E /\ blocks \in B /\ <<>> \in F /\ Nothing \in M
    BY <1>1, <1>3, <1>8, <1>9
  <2> HIDE DEF E, B, F, M
  <2>2. c \in [returns : STRING, env : E, blocks : B, focus : F, done : M]
    BY <1>7, <2>1
  <2>3. c.returns = f.returns /\ c.env = env /\ c.blocks = blocks /\ c.focus = <<>> /\ c.done = Nothing
    BY <1>7
  <2> QED
    BY <2>2, <2>3 DEF Call, E, B, F, M
<1>11. KeepsOk(c)
  BY <1>1, <1>3, <1>6, <1>8, <1>10 DEF KeepsOk
<1>12. BlocksOk(p, c)
  <2>1. Room(c, 1) = Len(env)
    BY <1>8, <1>10 DEF Room
  <2>2. SubSeq(Locals(env), 1, Len(env)) = Locals(env)
    <3>1. Locals(env) \in Seq(TypedLocal) /\ Len(Locals(env)) = Len(env)
      BY <1>3, LocalsAreTyped
    <3> QED
      BY <3>1, SubSeqFull
  <2> QED
    BY <1>5, <1>6, <1>8, <1>10, <2>1, <2>2 DEF BlocksOk
<1>13. FocusOk(p, c) /\ DoneOk(p, c)
  BY <1>9, <1>10 DEF FocusOk, DoneOk
<1>14. CallOk(p, W, c)
  BY <1>5, <1>8, <1>10, <1>11, <1>12, <1>13 DEF CallOk
<1> QED
  BY <1>10, <1>14 DEF c

-----------------------------------------------------------------------------
(* The invariant: the calls are sound, and each but the innermost waits    *)
(* for a value of the type that the call within it returns.                *)

Waits(p, c, returns) ==
    c.focus # <<>> /\ TypeIn(p, c, Latest(c.focus)) = TypeNamed(p, returns)

CallsOk(p, W, cs) ==
    /\ Typed(p, W) /\ cs \in Seq(Call(W)) /\ cs # <<>>
    /\ \A k \in DOMAIN cs : CallOk(p, W, cs[k])
    /\ \A k \in 1 .. Len(cs) - 1 : Waits(p, cs[k], cs[k + 1].returns)

Sound ==
    /\ source \in Tree /\ MainTakesNothing(source)
    /\ \/ AtRest
       \/ outcome = Runs /\ Accepted(source) /\ \E W : CallsOk(source, W, calls)
       \/ outcome.how \in {"returned", "failed"}

\* The innermost call is replaced by one that is sound.
LEMMA CallReplaced ==
    ASSUME NEW p, NEW W, NEW X, NEW cs, CallsOk(p, W, cs), W \subseteq X, Typed(p, X),
           NEW d, CallOk(p, X, d), d.returns = Latest(cs).returns
    PROVE  CallsOk(p, X, [cs EXCEPT ![Len(cs)] = d])
<1> DEFINE n == Len(cs)
           ds == [cs EXCEPT ![n] = d]
<1>1. /\ cs \in Seq(Call(W)) /\ cs # <<>> /\ n \in DOMAIN cs /\ n \in Nat \ {0} /\ DOMAIN cs = 1 .. n
      /\ Latest(cs) = cs[n]
  <2> DEFINE S == Call(W)
  <2>1. cs \in Seq(S) /\ cs # <<>>
    BY DEF CallsOk
  <2> HIDE DEF S
  <2>2. n \in DOMAIN cs /\ n \in Nat \ {0} /\ Latest(cs) = cs[n]
    BY <2>1, LatestOlder
  <2>3. DOMAIN cs = 1 .. n
    BY <2>1
  <2> QED
    BY <2>1, <2>2, <2>3 DEF S
<1>2. \A k \in 1 .. n : CallOk(p, X, cs[k])
  BY <1>1, CallGrows DEF CallsOk
<1>3. \A k \in 1 .. n - 1 : Waits(p, cs[k], cs[k + 1].returns)
  BY DEF CallsOk
<1> HIDE DEF n
<1>4. DOMAIN ds = 1 .. n /\ Len(ds) = n /\ ds[n] = d /\ \A k \in 1 .. n - 1 : ds[k] = cs[k]
  BY <1>1
<1>5. ds = [k \in 1 .. n |-> ds[k]]
  BY <1>1
<1> HIDE DEF ds
<1>6. \A k \in 1 .. n : k = n \/ k \in 1 .. n - 1
  BY <1>1
<1>7. \A k \in 1 .. n : CallOk(p, X, ds[k])
  BY <1>2, <1>4, <1>6
<1>8. ds \in Seq(Call(X))
  <2> DEFINE S == Call(X)
  <2>1. \A k \in 1 .. n : ds[k] \in S
    BY <1>7 DEF CallOk
  <2> HIDE DEF S
  <2>2. ds \in Seq(S)
    BY <1>1, <1>5, <2>1
  <2> QED
    BY <2>2 DEF S
<1>9. ASSUME NEW k \in 1 .. n - 1 PROVE Waits(p, ds[k], ds[k + 1].returns)
  <2>1. k + 1 = n \/ k + 1 \in 1 .. n - 1
    BY <1>1
  <2>2. ds[k + 1].returns = cs[k + 1].returns
    BY <1>1, <1>4, <2>1
  <2> QED
    BY <1>3, <1>4, <2>2
<1>10. ds # <<>>
  BY <1>1, <1>4
<1>11. CallsOk(p, X, ds)
  BY <1>4, <1>7, <1>8, <1>9, <1>10 DEF CallsOk
<1> QED
  BY <1>11 DEF ds, n

\* A call begins that returns what the innermost one waits for.
LEMMA CallEntered ==
    ASSUME NEW p, NEW W, NEW cs, CallsOk(p, W, cs), NEW d, CallOk(p, W, d),
           Waits(p, Latest(cs), d.returns)
    PROVE  CallsOk(p, W, Append(cs, d))
<1> DEFINE n == Len(cs)
           ds == Append(cs, d)
           S == Call(W)
<1>1. cs \in Seq(S) /\ cs # <<>> /\ d \in S /\ Typed(p, W)
  BY DEF CallsOk, CallOk
<1>2. \A k \in 1 .. n : CallOk(p, W, cs[k])
  <2>1. DOMAIN cs = 1 .. n
    BY <1>1
  <2> QED
    BY <2>1 DEF CallsOk
<1>3. \A k \in 1 .. n - 1 : Waits(p, cs[k], cs[k + 1].returns)
  BY DEF CallsOk
<1> HIDE DEF S
<1>4. n \in Nat \ {0} /\ Latest(cs) = cs[n]
  BY <1>1, LatestOlder
<1>5. /\ ds \in Seq(S) /\ Len(ds) = n + 1 /\ DOMAIN ds = 1 .. n + 1
      /\ ds[n + 1] = d /\ \A k \in 1 .. n : ds[k] = cs[k]
  BY <1>1
<1> HIDE DEF n, ds
<1>6. \A k \in 1 .. n + 1 : k = n + 1 \/ k \in 1 .. n
  BY <1>4
<1>7. \A k \in 1 .. n + 1 : CallOk(p, W, ds[k])
  BY <1>2, <1>5, <1>6
<1>8. ASSUME NEW k \in 1 .. n PROVE Waits(p, ds[k], ds[k + 1].returns)
  <2>1. CASE k = n
    BY <1>4, <1>5, <2>1
  <2>2. CASE k # n
    <3>1. k \in 1 .. n - 1 /\ k + 1 \in 1 .. n
      BY <1>4, <2>2
    <3> QED
      BY <1>3, <1>5, <3>1
  <2> QED
    BY <2>1, <2>2
<1>9. ds # <<>> /\ Len(ds) - 1 = n
  BY <1>4, <1>5
<1>10. CallsOk(p, W, ds)
  BY <1>1, <1>5, <1>7, <1>8, <1>9 DEF CallsOk, S
<1> QED
  BY <1>10 DEF ds

\* The innermost call ends, and the one behind it has waited for what it returns.
LEMMA CallReturned ==
    ASSUME NEW p, NEW W, NEW cs, CallsOk(p, W, cs), Len(cs) # 1
    PROVE  /\ Len(cs) > 1 /\ CallsOk(p, W, Older(cs))
           /\ Waits(p, Latest(Older(cs)), Latest(cs).returns)
           /\ \A d : Append(Older(Older(cs)), d) = [Older(cs) EXCEPT ![Len(Older(cs))] = d]
<1> DEFINE n == Len(cs)
           ds == Older(cs)
           S == Call(W)
<1>1. cs \in Seq(S) /\ cs # <<>> /\ Typed(p, W)
  BY DEF CallsOk
<1>2. \A k \in 1 .. n : CallOk(p, W, cs[k])
  <2>1. DOMAIN cs = 1 .. n
    BY <1>1
  <2> QED
    BY <2>1 DEF CallsOk
<1>3. \A k \in 1 .. n - 1 : Waits(p, cs[k], cs[k + 1].returns)
  BY DEF CallsOk
<1> HIDE DEF S
<1>4. n \in Nat /\ n > 1 /\ Latest(cs) = cs[n]
  <2>1. n \in Nat \ {0} /\ Latest(cs) = cs[n]
    BY <1>1, LatestOlder
  <2>2. n # 1
    OBVIOUS
  <2> HIDE DEF n
  <2> QED
    BY <2>1, <2>2
<1>5. /\ ds \in Seq(S) /\ Len(ds) = n - 1 /\ DOMAIN ds = 1 .. n - 1
      /\ \A k \in 1 .. n - 1 : ds[k] = cs[k]
  BY <1>1, LatestOlder
<1> HIDE DEF n, ds
<1>6. ds # <<>> /\ Latest(ds) = ds[n - 1] /\ n - 1 \in 1 .. n - 1 /\ n - 1 \in Nat
  BY <1>4, <1>5 DEF Latest
<1>7. CallsOk(p, W, ds)
  <2>1. \A k \in 1 .. n - 1 : k \in 1 .. n
    BY <1>4
  <2>2. \A k \in 1 .. Len(ds) - 1 : k \in 1 .. n - 1 /\ k + 1 \in 1 .. n - 1
    BY <1>4, <1>5
  <2>3. \A k \in DOMAIN ds : CallOk(p, W, ds[k])
    BY <1>2, <1>5, <2>1
  <2>4. \A k \in 1 .. Len(ds) - 1 : Waits(p, ds[k], ds[k + 1].returns)
    BY <1>3, <1>5, <2>2
  <2> QED
    BY <1>1, <1>5, <1>6, <2>3, <2>4 DEF CallsOk, S
<1>8. Waits(p, Latest(ds), Latest(cs).returns)
  <2>1. n - 1 + 1 = n
    BY <1>4
  <2> QED
    BY <1>3, <1>4, <1>5, <1>6, <2>1
<1>9. ASSUME NEW d PROVE Append(Older(ds), d) = [ds EXCEPT ![Len(ds)] = d]
  <2> DEFINE m == n - 1
             a == Older(ds)
             b == Append(a, d)
             c == [ds EXCEPT ![m] = d]
             T == S \cup {d}
  <2>1. m \in Nat \ {0} /\ Len(ds) = m /\ DOMAIN ds = 1 .. m
    BY <1>4, <1>5
  <2>2. a \in Seq(S) /\ Len(a) = m - 1 /\ \A k \in 1 .. m - 1 : a[k] = ds[k]
    BY <1>5, <1>6, LatestOlder
  <2> HIDE DEF m, a
  <2>3. a \in Seq(T) /\ ds \in Seq(T) /\ d \in T
    BY <1>5, <2>2, SeqMonotone
  <2> HIDE DEF T
  <2>4. b \in Seq(T) /\ Len(b) = m /\ b[m] = d /\ \A k \in 1 .. m - 1 : b[k] = ds[k]
    BY <2>1, <2>2, <2>3
  <2>5. c \in Seq(T) /\ Len(c) = m /\ c[m] = d /\ \A k \in 1 .. m - 1 : c[k] = ds[k]
    BY <2>1, <2>3
  <2> HIDE DEF b, c
  <2>6. \A k \in 1 .. m : k = m \/ k \in 1 .. m - 1
    BY <2>1
  <2>7. b = c
    BY <2>4, <2>5, <2>6, SeqEqual
  <2> QED
    BY <2>1, <2>7 DEF a, b, c
<1> QED
  BY <1>4, <1>7, <1>8, <1>9 DEF n, ds

\* The locals with one binding more.
LEMMA LocalsAppend ==
    ASSUME NEW p, NEW W, Typed(p, W), NEW env \in Seq(Binding(W)), NEW b \in Binding(W)
    PROVE  Locals(Append(env, b)) = Append(Locals(env), LocalFor(b))
<1> DEFINE S == Binding(W)
           env2 == Append(env, b)
           n == Len(env)
<1>1. /\ env2 \in Seq(S) /\ Len(env2) = n + 1 /\ env2[n + 1] = b /\ n \in Nat
      /\ \A i \in 1 .. n : env2[i] = env[i]
  <2>1. env \in Seq(S) /\ b \in S
    OBVIOUS
  <2> HIDE DEF S
  <2> QED
    BY <2>1
<1> HIDE DEF env2
<1>2. Locals(env2) \in Seq(TypedLocal) /\ Len(Locals(env2)) = n + 1
  BY <1>1, LocalsAreTyped
<1>3. Locals(env) \in Seq(TypedLocal) /\ Len(Locals(env)) = n
  BY LocalsAreTyped
<1>4. /\ \A i \in 1 .. n + 1 : Locals(env2)[i] = LocalFor(env2[i])
      /\ \A i \in 1 .. n : Locals(env)[i] = LocalFor(env[i])
  <2>1. DOMAIN env2 = 1 .. n + 1 /\ DOMAIN env = 1 .. n
    BY <1>1
  <2> QED
    BY <2>1 DEF Locals
<1> DEFINE x == Locals(env2)
           l == Locals(env)
           u == LocalFor(b)
           y == Append(l, u)
<1>5. \A i \in 1 .. n : x[i] = l[i]
  <2>1. \A i \in 1 .. n : i \in 1 .. n + 1
    BY <1>1
  <2> QED
    BY <1>1, <1>4, <2>1
<1>6. x[n + 1] = u
  <2>1. n + 1 \in 1 .. n + 1
    BY <1>1
  <2> QED
    BY <1>1, <1>4, <2>1
<1>7. u \in TypedLocal
  <2>1. n + 1 \in DOMAIN x /\ x \in Seq(TypedLocal)
    BY <1>1, <1>2
  <2> HIDE DEF x
  <2> QED
    BY <1>6, <2>1, ElementOf
<1>8. x \in Seq(TypedLocal) /\ l \in Seq(TypedLocal) /\ Len(x) = n + 1 /\ Len(l) = n
  BY <1>2, <1>3
<1> HIDE DEF x, l, u, n
<1>9. /\ y \in Seq(TypedLocal) /\ Len(y) = n + 1 /\ y[n + 1] = u
      /\ \A i \in 1 .. n : y[i] = l[i]
  BY <1>1, <1>7, <1>8
<1> HIDE DEF y
<1>10. \A i \in 1 .. n + 1 : i = n + 1 \/ i \in 1 .. n
  BY <1>1
<1>11. x = y
  BY <1>1, <1>5, <1>6, <1>8, <1>9, <1>10, SeqEqual
<1> QED
  BY <1>11 DEF x, y, l, u, env2

\* The locals for no binding and for one.
LEMMA LocalsOfFew ==
    ASSUME NEW p, NEW W, Typed(p, W)
    PROVE  /\ <<>> \in Seq(Binding(W))
           /\ \A l \in Seq(TypedLocal) : l \o Locals(<<>>) = l
           /\ \A b \in Binding(W) : <<b>> \in Seq(Binding(W)) /\ Locals(<<b>>) = <<LocalFor(b)>>
<1>1. <<>> \in Seq(Binding(W)) /\ Locals(<<>>) = <<>>
  BY DEF Locals
<1>2. ASSUME NEW l \in Seq(TypedLocal) PROVE l \o <<>> = l
  OBVIOUS
<1>3. ASSUME NEW b \in Binding(W) PROVE <<b>> \in Seq(Binding(W)) /\ Locals(<<b>>) = <<LocalFor(b)>>
  <2>1. <<b>> \in Seq(Binding(W))
    <3> DEFINE S == Binding(W)
    <3>1. b \in S
      OBVIOUS
    <3> HIDE DEF S
    <3>2. <<b>> \in Seq(S)
      BY <3>1
    <3> QED
      BY <3>2 DEF S
  <2>2. Locals(<<b>>) = [i \in {1} |-> LocalFor(b)]
    BY DEF Locals
  <2> QED
    BY <2>1, <2>2
<1> QED
  BY <1>1, <1>2, <1>3

\* No type has the name that says there is none.
LEMMA NoNameNoType ==
    ASSUME NEW p \in Tree
    PROVE  ~Valid(TypeNamed(p, ""))
<1>1. FindType(p, "") = <<>>
  <2>1. ASSUME FindType(p, "") # <<>> PROVE FALSE
    <3>1. FindType(p, "")[1] \in TypeDecl /\ FindType(p, "")[1].name = ""
      BY <2>1, FoundType
    <3> QED
      BY <3>1, TreeParts
  <2> QED
    BY <2>1
<1> QED
  BY <1>1 DEF TypeNamed, Valid, Builtins

-----------------------------------------------------------------------------
(* The actions.                                                            *)

Running(W) ==
    /\ source \in Tree /\ MainTakesNothing(source) /\ Accepted(source)
    /\ outcome = Runs /\ CallsOk(source, W, calls)

\* What is known of the innermost call.
LEMMA Innermost ==
    ASSUME NEW p, NEW W, NEW cs, CallsOk(p, W, cs)
    PROVE  /\ Typed(p, W) /\ cs # <<>> /\ CallOk(p, W, Latest(cs))
           /\ Latest(cs).env \in Seq(Binding(W)) /\ Latest(cs).focus \in Seq(Expressions)
           /\ Latest(cs).done \in Memo(W)
           /\ Locals(Latest(cs).env) \in Seq(TypedLocal)
<1>1. Typed(p, W) /\ cs \in Seq(Call(W)) /\ cs # <<>> /\ \A k \in DOMAIN cs : CallOk(p, W, cs[k])
  BY DEF CallsOk
<1>2. Len(cs) \in DOMAIN cs /\ Latest(cs) = cs[Len(cs)]
  BY <1>1, LatestOlder
<1>3. CallOk(p, W, Latest(cs))
  BY <1>1, <1>2
<1>4. Latest(cs) \in Call(W)
  BY <1>3 DEF CallOk
<1> QED
  BY <1>1, <1>3, <1>4, CallProperties

\* A step that leaves the innermost call sound.
LEMMA StepSound ==
    ASSUME NEW W, NEW X, Running(W), W \subseteq X, Typed(source, X),
           NEW d, CallOk(source, X, d), d.returns = call.returns, GoesOn(d)
    PROVE  Sound'
<1>1. /\ source' = source /\ outcome' = Runs
      /\ source \in Tree /\ MainTakesNothing(source) /\ Accepted(source)
  BY DEF GoesOn, Running
<1>2. calls' = [calls EXCEPT ![Len(calls)] = d]
  BY DEF GoesOn
<1>3. CallsOk(source, X, [calls EXCEPT ![Len(calls)] = d])
  BY CallReplaced DEF Running, call
<1>4. CallsOk(source', X, calls')
  BY <1>1, <1>2, <1>3
<1> QED
  BY <1>1, <1>4 DEF Sound

\* A step that ends the program with a result, or fails.
LEMMA EndSound ==
    ASSUME NEW W, Running(W), NEW how, how.how \in {"returned", "failed"}, EndsAs(how)
    PROVE  Sound'
BY DEF Running, EndsAs, Sound

\* The part of an expression that has a type has one, too.
LEMMA DescendSound ==
    ASSUME NEW W, Running(W), Descend
    PROVE  Sound'
<1> DEFINE p == source
           c == call
<1>1. p \in Tree /\ CallsOk(p, W, calls)
  BY DEF Running
<1>2. /\ Typed(p, W) /\ CallOk(p, W, c)
      /\ c.focus \in Seq(Expressions) /\ Locals(c.env) \in Seq(TypedLocal)
  BY <1>1, Innermost DEF call
<1>3. PICK i \in Missing : GoesOn([c EXCEPT !.focus = Append(@, Before[i])])
  BY DEF Descend
<1>4. i \in DOMAIN Before /\ (c.focus # <<>> \/ Latest(c.blocks).rest # <<>>)
  BY DEF Descend, Missing, block
<1>5. /\ Before[i] \in Expressions /\ Valid(TypeIn(p, c, Before[i]))
      /\ Latest(c.blocks).rest # <<>>
  <2>1. CASE c.focus # <<>>
    <3> DEFINE e == Latest(c.focus)
    <3>1. Before = Parts(e)
      BY <2>1 DEF Before, expr
    <3>2. Len(c.focus) \in DOMAIN c.focus /\ e = c.focus[Len(c.focus)] /\ e \in Expressions
      BY <1>2, <2>1, LatestOlder
    <3>3. Valid(TypeIn(p, c, e))
      BY <1>2, <3>2 DEF CallOk, FocusOk
    <3>4. Latest(c.blocks).rest # <<>>
      BY <1>2, <2>1 DEF CallOk
    <3> HIDE DEF e, p, c
    <3> QED
      BY <1>1, <1>2, <1>4, <3>1, <3>2, <3>3, <3>4, PartsAreValid DEF TypeIn
  <2>2. CASE c.focus = <<>>
    <3>1. Before = <<Subject(stmt)>> /\ i = 1 /\ stmt = Latest(c.blocks).rest[1]
      BY <1>4, <2>2 DEF Before, stmt, block
    <3>2. Latest(c.blocks).rest # <<>>
      BY <1>4, <2>2
    <3> HIDE DEF p, c
    <3>3. /\ Subject(Latest(c.blocks).rest[1]) \in Expressions
          /\ Valid(TypeIn(p, c, Subject(Latest(c.blocks).rest[1])))
      BY <1>1, <1>2, <3>2, StatementChecked
    <3> QED
      BY <3>1, <3>2, <3>3
  <2> QED
    BY <2>1, <2>2
<1> DEFINE d == [c EXCEPT !.focus = Append(@, Before[i])]
<1>6. CallOk(p, W, d)
  <2> DEFINE x == Before[i]
  <2> HIDE DEF p, c, x
  <2>1. CallOk(p, W, [c EXCEPT !.focus = Append(@, x)])
    BY <1>2, <1>5, DescendOk DEF x
  <2> QED
    BY <2>1 DEF x
<1>7. d.returns = c.returns
  <2>1. c \in Call(W)
    BY <1>2 DEF CallOk
  <2> HIDE DEF c
  <2> QED
    BY <2>1 DEF Call
<1> HIDE DEF d
<1> QED
  BY <1>2, <1>3, <1>6, <1>7, StepSound DEF d

\* The expression in focus has a type, its parts have their values.
LEMMA InFocus ==
    ASSUME NEW W, Running(W), InExpression, Missing = {}
    PROVE  /\ source \in Tree /\ ChecksTypes(source) /\ Typed(source, W) /\ CallOk(source, W, call)
           /\ call.focus # <<>> /\ expr = Latest(call.focus)
           /\ expr \in Expressions /\ Valid(TypeIn(source, call, expr))
           /\ \A i \in DOMAIN Parts(expr) : Parts(expr)[i] \in DOMAIN call.done
<1> DEFINE c == call
<1>1. source \in Tree /\ CallsOk(source, W, calls) /\ ChecksTypes(source)
  BY DEF Running, Accepted
<1>2. /\ Typed(source, W) /\ CallOk(source, W, c) /\ c.focus \in Seq(Expressions)
  BY <1>1, Innermost DEF call
<1>3. c.focus # <<>> /\ expr = Latest(c.focus)
  BY DEF InExpression, expr
<1>4. Len(c.focus) \in DOMAIN c.focus /\ expr = c.focus[Len(c.focus)] /\ expr \in Expressions
  BY <1>2, <1>3, LatestOlder
<1>5. Valid(TypeIn(source, c, expr))
  BY <1>2, <1>4 DEF CallOk, FocusOk
<1>6. \A i \in DOMAIN Parts(expr) : Parts(expr)[i] \in DOMAIN c.done
  <2>1. Before = Parts(expr)
    BY <1>3 DEF Before
  <2> QED
    BY <2>1 DEF Missing
<1> QED
  BY <1>1, <1>2, <1>3, <1>4, <1>5, <1>6

\* An expression that has a type comes to a value of that type, or fails.
LEMMA EvaluateSound ==
    ASSUME NEW W, Running(W), Evaluate
    PROVE  Sound'
<1> DEFINE came == Value(source, call, expr)
<1>1. InExpression /\ Missing = {} /\ expr.kind # "call"
  BY DEF Evaluate
<1>2. \/ came.how = "returned" /\ GoesOn(Evaluated(call, came.value))
      \/ came.how # "returned" /\ EndsAs(came)
  BY DEF Evaluate
<1>3. /\ source \in Tree /\ ChecksTypes(source) /\ Typed(source, W) /\ CallOk(source, W, call)
      /\ call.focus # <<>> /\ expr = Latest(call.focus)
      /\ expr \in Expressions /\ Valid(TypeIn(source, call, expr))
      /\ \A i \in DOMAIN Parts(expr) : Parts(expr)[i] \in DOMAIN call.done
  BY <1>1, InFocus
<1>4. \/ came = Failed
      \/ \E v : /\ came = Returned(v) /\ IsValue(source, W, v)
                /\ TypeOfValue(v) = TypeIn(source, call, expr)
  <2> DEFINE p == source
             c == call
             e == expr
  <2>1. /\ p \in Tree /\ ChecksTypes(p) /\ Typed(p, W) /\ CallOk(p, W, c)
        /\ e \in Expressions /\ e.kind # "call" /\ Valid(TypeIn(p, c, e))
        /\ \A i \in DOMAIN Parts(e) : Parts(e)[i] \in DOMAIN c.done
    BY <1>1, <1>3
  <2> HIDE DEF p, c, e
  <2>2. \/ Value(p, c, e) = Failed
        \/ \E v : /\ Value(p, c, e) = Returned(v) /\ IsValue(p, W, v)
                  /\ TypeOfValue(v) = TypeIn(p, c, e)
    BY <2>1, ValueSound
  <2> QED
    BY <2>2 DEF p, c, e
<1> HIDE DEF came
<1>5. CASE came = Failed
  <2>1. came.how = "failed"
    BY <1>5 DEF Failed
  <2>2. EndsAs(came) /\ came.how \in {"returned", "failed"}
    BY <1>2, <2>1
  <2> QED
    BY <2>2, EndSound
<1>6. CASE came # Failed
  <2>1. PICK v : /\ came = Returned(v) /\ IsValue(source, W, v)
                 /\ TypeOfValue(v) = TypeIn(source, call, expr)
    BY <1>4, <1>6
  <2>2. came.how = "returned" /\ came.value = v
    BY <2>1 DEF Returned
  <2>3. GoesOn(Evaluated(call, v))
    BY <1>2, <2>2
  <2> DEFINE X == W \cup {v}
  <2>4. W \subseteq X /\ v \in X
    OBVIOUS
  <2>5. Typed(source, X)
    <3>1. \A u \in X \ W : IsWord(u) \/ IsStructure(source, W, u) \/ IsChoice(source, W, u)
      BY <2>1 DEF IsValue
    <3> HIDE DEF X
    <3> QED
      BY <1>3, <2>4, <3>1, TypedGrows
  <2> HIDE DEF X
  <2>6. CallOk(source, X, call)
    BY <1>3, <2>4, CallGrows
  <2>7. CallOk(source, X, Evaluated(call, v))
    <3> DEFINE p == source
               c == call
    <3>1. CallOk(p, X, c) /\ c.focus # <<>> /\ v \in X /\ TypeOfValue(v) = TypeIn(p, c, Latest(c.focus))
      BY <1>3, <2>1, <2>4, <2>6
    <3> HIDE DEF p, c
    <3>2. CallOk(p, X, Evaluated(c, v))
      BY <3>1, EvaluatedOk
    <3> QED
      BY <3>2 DEF p, c
  <2>8. Evaluated(call, v).returns = call.returns
    <3> DEFINE c == call
    <3>1. c \in Call(X)
      BY <2>6 DEF CallOk
    <3> HIDE DEF c
    <3>2. Evaluated(c, v).returns = c.returns
      BY <3>1 DEF Call, Evaluated
    <3> QED
      BY <3>2 DEF c
  <2> QED
    BY <2>3, <2>4, <2>5, <2>7, <2>8, StepSound
<1> QED
  BY <1>5, <1>6

\* A call that the checker accepts finds a function that takes its arguments.
LEMMA ArgumentsFit ==
    ASSUME NEW p \in Tree, ChecksBodies(p), NEW W, Typed(p, W), NEW c, CallOk(p, W, c),
           NEW e \in Expressions, e.kind = "call", Valid(TypeIn(p, c, e)),
           \A i \in DOMAIN Parts(e) : Parts(e)[i] \in DOMAIN c.done
    PROVE  LET f == FindFunction(p, e.name)
               args == ValuesOf(c, e.args)
           IN /\ f # <<>> /\ Takes(f[1], args) /\ TypeIn(p, c, e) = TypeNamed(p, f[1].returns)
              /\ CallOk(p, W, Activation(f[1], args)) /\ Activation(f[1], args).returns = f[1].returns
<1> DEFINE l == Locals(c.env)
           types == TypesIn(p, l)
           f == FindFunction(p, e.name)
           g == f[1]
           args == ValuesOf(c, e.args)
<1>1. c \in Call(W) /\ DoneOk(p, c)
  BY DEF CallOk
<1>2. l \in Seq(TypedLocal) /\ c.done \in Memo(W)
  BY <1>1, CallProperties
<1>3. TypeIn(p, c, e) = ExprType(p, l, types, e)
  BY <1>2, TypeOfUnfolds DEF TypeIn
<1>4. e.args \in Seq(Expressions) /\ Parts(e) = e.args
  <2>1. e \in ExpressionsOf(Expressions)
    BY SyntaxClosed
  <2> QED
    BY <2>1, ExpressionKinds DEF Parts
<1>5. ASSUME NEW i \in DOMAIN e.args
      PROVE  args[i] \in W /\ TypeOfValue(args[i]) = types[e.args[i]]
  <2> DEFINE x == e.args[i]
  <2>1. x \in Expressions /\ x \in DOMAIN c.done /\ args[i] = c.done[x]
    BY <1>4, ElementOf DEF ValuesOf
  <2> HIDE DEF x, args, l
  <2>2. c.done[x] \in W /\ TypeOfValue(c.done[x]) = TypeIn(p, c, x)
    BY <1>1, <1>2, <2>1, MemoProperties DEF DoneOk
  <2>3. types[x] = TypeIn(p, c, x)
    BY <2>1 DEF TypesIn, TypeIn, l
  <2> QED
    BY <2>1, <2>2, <2>3 DEF x
<1>6. DOMAIN args = DOMAIN e.args /\ args = [i \in DOMAIN e.args |-> args[i]]
  BY DEF ValuesOf
<1> HIDE DEF l, types, args
<1>7. args \in Seq(W) /\ Len(args) = Len(e.args)
  <2>1. DOMAIN e.args = 1 .. Len(e.args) /\ Len(e.args) \in Nat
    BY <1>4
  <2> QED
    BY <1>5, <1>6, <2>1
<1>8. TypeIn(p, c, e) = IF f = <<>> THEN Invalid ELSE CallType(p, types, g, e.args)
  BY <1>3 DEF ExprType
<1>9. f # <<>> /\ Valid(CallType(p, types, g, e.args)) /\ TypeIn(p, c, e) = CallType(p, types, g, e.args)
  BY <1>8 DEF Valid
<1>10. g \in FunctionDecl /\ \E i \in DOMAIN p.functions : g = p.functions[i]
  BY <1>9, FoundFunction
<1>11. ChecksBody(p, g)
  BY <1>10 DEF ChecksBodies
<1> HIDE DEF f
<1>12. /\ Len(e.args) = Len(g.params) /\ TypeIn(p, c, e) = TypeNamed(p, g.returns)
       /\ \A i \in DOMAIN e.args : types[e.args[i]] = TypeNamed(p, g.params[i].type)
  BY <1>9 DEF CallType, Valid
<1>13. DOMAIN g.params = DOMAIN e.args
  <2> DEFINE q == g.params
             a == e.args
  <2>1. q \in Seq(Member) /\ a \in Seq(Expressions) /\ Len(a) = Len(q)
    BY <1>4, <1>10, <1>12, TreeParts
  <2> HIDE DEF q, a
  <2>2. DOMAIN q = DOMAIN a
    BY <2>1
  <2> QED
    BY <2>2 DEF q, a
<1>14. Takes(g, args)
  <2>1. ASSUME NEW i \in DOMAIN args PROVE args[i].type = g.params[i].type
    <3> DEFINE v == args[i]
               n == g.params[i].type
    <3>1. v \in W /\ TypeOfValue(v) = TypeNamed(p, n)
      BY <1>5, <1>6, <1>12
    <3> HIDE DEF v, n
    <3>2. v.type = n
      BY <3>1, NamedTypeOfValue
    <3> QED
      BY <3>2 DEF v, n
  <2> QED
    BY <1>7, <1>12, <2>1 DEF Takes
<1>15. CallOk(p, W, Activation(g, args)) /\ Activation(g, args).returns = g.returns
  <2>1. \A i \in DOMAIN g.params : TypeOfValue(args[i]) = TypeNamed(p, g.params[i].type)
    BY <1>5, <1>12, <1>13
  <2> HIDE DEF g
  <2> QED
    BY <1>7, <1>10, <1>11, <1>12, <2>1, ActivationOk
<1> QED
  BY <1>9, <1>12, <1>14, <1>15 DEF f, args

\* The arguments of a call that has a type fit the parameters of its function.
LEMMA EnterSound ==
    ASSUME NEW W, Running(W), Enter
    PROVE  Sound'
<1> DEFINE f == FindFunction(source, expr.name)
           args == ValuesOf(call, expr.args)
<1>1. InExpression /\ Missing = {} /\ expr.kind = "call"
  BY DEF Enter
<1>2. \/ (f = <<>> \/ ~Takes(f[1], args)) /\ EndsAs(Wrong)
      \/ f # <<>> /\ Takes(f[1], args) /\ Len(calls) >= MaxDepth /\ EndsAs(Failed)
      \/ /\ f # <<>> /\ Takes(f[1], args) /\ Len(calls) < MaxDepth
         /\ calls' = Append(calls, Activation(f[1], args))
         /\ UNCHANGED <<source, outcome>>
  BY DEF Enter, FindFunction
<1>3. /\ source \in Tree /\ ChecksTypes(source) /\ Typed(source, W) /\ CallOk(source, W, call)
      /\ call.focus # <<>> /\ expr = Latest(call.focus)
      /\ expr \in Expressions /\ Valid(TypeIn(source, call, expr))
      /\ \A i \in DOMAIN Parts(expr) : Parts(expr)[i] \in DOMAIN call.done
  BY <1>1, InFocus
<1>4. /\ ChecksBodies(source) /\ CallsOk(source, W, calls) /\ outcome = Runs
      /\ Accepted(source) /\ MainTakesNothing(source)
  BY DEF Running, Accepted
<1>5. /\ f # <<>> /\ Takes(f[1], args) /\ TypeIn(source, call, expr) = TypeNamed(source, f[1].returns)
      /\ CallOk(source, W, Activation(f[1], args)) /\ Activation(f[1], args).returns = f[1].returns
  <2> DEFINE p == source
             c == call
             e == expr
  <2>1. /\ p \in Tree /\ ChecksBodies(p) /\ Typed(p, W) /\ CallOk(p, W, c)
        /\ e \in Expressions /\ e.kind = "call" /\ Valid(TypeIn(p, c, e))
        /\ \A i \in DOMAIN Parts(e) : Parts(e)[i] \in DOMAIN c.done
    BY <1>1, <1>3, <1>4
  <2> HIDE DEF p, c, e
  <2>2. LET g == FindFunction(p, e.name)
            as == ValuesOf(c, e.args)
        IN /\ g # <<>> /\ Takes(g[1], as) /\ TypeIn(p, c, e) = TypeNamed(p, g[1].returns)
           /\ CallOk(p, W, Activation(g[1], as)) /\ Activation(g[1], as).returns = g[1].returns
    BY <2>1, ArgumentsFit
  <2> QED
    BY <2>2 DEF p, c, e
<1> DEFINE d == Activation(f[1], args)
<1> HIDE DEF f, args
<1>6. CASE EndsAs(Failed)
  <2>1. Failed.how \in {"returned", "failed"}
    BY DEF Failed
  <2> QED
    BY <1>6, <2>1, EndSound
<1>7. CASE calls' = Append(calls, d) /\ UNCHANGED <<source, outcome>>
  <2>1. Waits(source, Latest(calls), d.returns)
    BY <1>3, <1>5 DEF Waits, call
  <2> HIDE DEF d
  <2>2. CallOk(source, W, d)
    BY <1>5 DEF d
  <2>3. CallsOk(source, W, Append(calls, d))
    BY <1>4, <2>1, <2>2, CallEntered
  <2>4. CallsOk(source', W, calls')
    BY <1>7, <2>3
  <2> QED
    BY <1>3, <1>4, <1>7, <2>4 DEF Sound
<1> QED
  BY <1>2, <1>5, <1>6, <1>7

\* A statement is next, and its expression has a value of its type.
StatementOk(p, W, c, s, v) ==
    /\ p \in Tree /\ Typed(p, W) /\ CallOk(p, W, c) /\ c.focus = <<>> /\ Latest(c.blocks).rest # <<>>
    /\ Valid(TypeNamed(p, c.returns)) /\ c.env \in Seq(Binding(W)) /\ Locals(c.env) \in Seq(TypedLocal)
    /\ s = Latest(c.blocks).rest[1] /\ s \in Statements /\ Tail(Latest(c.blocks).rest) \in Blocks
    /\ StmtOk(p, TypeNamed(p, c.returns), AcceptedIn(p, TypeNamed(p, c.returns)), Locals(c.env), s)
    /\ CheckStmts(p, TypeNamed(p, c.returns), LocalsAfter(p, Locals(c.env), s), Tail(Latest(c.blocks).rest))
    /\ v \in W /\ TypeOfValue(v) = TypeOf(p, Locals(c.env), Subject(s))

\* The value that a statement begins with has the type that the checker saw.
LEMMA AtStatementSound ==
    ASSUME NEW W, Running(W), NEW kind, AtStatement(kind)
    PROVE  StatementOk(source, W, call, stmt, value) /\ stmt.kind = kind
<1> DEFINE p == source
           c == call
           s == stmt
           v == value
           x == Subject(s)
           r == TypeNamed(p, c.returns)
<1>1. p \in Tree /\ CallsOk(p, W, calls)
  BY DEF Running
<1>2. /\ Typed(p, W) /\ CallOk(p, W, c) /\ c.env \in Seq(Binding(W)) /\ Locals(c.env) \in Seq(TypedLocal)
      /\ c.done \in Memo(W)
  BY <1>1, Innermost DEF call
<1>3. /\ c.focus = <<>> /\ Latest(c.blocks).rest # <<>> /\ Missing = {} /\ s.kind = kind
      /\ s = Latest(c.blocks).rest[1] /\ v = c.done[x]
  BY DEF AtStatement, block, stmt, value
<1>4. x \in DOMAIN c.done
  <2>1. Before = <<x>>
    BY <1>3 DEF Before
  <2>2. 1 \in DOMAIN Before /\ Before[1] = x
    BY <2>1
  <2> QED
    BY <1>3, <2>2 DEF Missing
<1> HIDE DEF p, c, s, v, x
<1>5. v \in W /\ TypeOfValue(v) = TypeOf(p, Locals(c.env), x)
  <2>1. DoneOk(p, c)
    BY <1>2 DEF CallOk
  <2> QED
    BY <1>2, <1>3, <1>4, <2>1, MemoProperties DEF DoneOk, TypeIn
<1>6. /\ s \in Statements /\ Tail(Latest(c.blocks).rest) \in Blocks
      /\ StmtOk(p, r, AcceptedIn(p, r), Locals(c.env), s)
      /\ CheckStmts(p, r, LocalsAfter(p, Locals(c.env), s), Tail(Latest(c.blocks).rest))
  BY <1>1, <1>2, <1>3, StatementChecked
<1>7. Valid(r)
  BY <1>2 DEF CallOk
<1>8. StatementOk(p, W, c, s, v)
  BY <1>1, <1>2, <1>3, <1>5, <1>6, <1>7 DEF StatementOk, x
<1> QED
  BY <1>3, <1>8 DEF p, c, s, v

\* The call that goes on behind a statement, or in a block of it.
LEMMA PastReturns ==
    ASSUME NEW W, NEW c \in Call(W)
    PROVE  /\ \A env : Past(c, env).returns = c.returns /\ Past(c, env).focus = c.focus
                       /\ Past(c, env).env = env
           /\ \A own, b : Into(c, own, b).returns = c.returns
<1> DEFINE E == Seq(Binding(W))
           B == Seq(Begun)
           F == Seq(Expressions)
           M == Memo(W)
<1>1. c \in [returns : STRING, env : E, blocks : B, focus : F, done : M]
  BY DEF Call
<1> HIDE DEF E, B, F, M
<1>2. ASSUME NEW env PROVE /\ Past(c, env).returns = c.returns /\ Past(c, env).focus = c.focus
                           /\ Past(c, env).env = env
  BY <1>1 DEF Past
<1>3. ASSUME NEW own, NEW b PROVE Into(c, own, b).returns = c.returns
  BY <1>1 DEF Into
<1> QED
  BY <1>2, <1>3

\* A statement that binds nothing leaves the bindings as the checker has them.
LEMMA PastStatement ==
    ASSUME NEW p, NEW W, NEW c, NEW s, NEW v, StatementOk(p, W, c, s, v), s.kind # "bind"
    PROVE  /\ CallOk(p, W, Past(c, c.env))
           /\ Past(c, c.env).returns = c.returns /\ Past(c, c.env).focus = <<>> /\ Past(c, c.env).env = c.env
<1>1. /\ CheckStmts(p, TypeNamed(p, c.returns), Locals(c.env), Tail(Latest(c.blocks).rest))
  BY DEF StatementOk, LocalsAfter
<1>2. c \in Call(W)
  BY DEF StatementOk, CallOk
<1>3. Past(c, c.env).returns = c.returns /\ Past(c, c.env).focus = <<>> /\ Past(c, c.env).env = c.env
  BY <1>2, PastReturns DEF StatementOk
<1>4. Len(c.env) <= Len(c.env) /\ \A i \in 1 .. Len(c.env) : LocalFor(c.env[i]) = LocalFor(c.env[i])
  <2>1. c.env \in Seq(Binding(W))
    BY DEF StatementOk
  <2>2. Len(c.env) \in Nat
    BY <2>1
  <2> QED
    BY <2>2
<1> DEFINE env == c.env
<1>5. /\ env \in Seq(Binding(W)) /\ Len(c.env) <= Len(env)
      /\ \A i \in 1 .. Len(c.env) : LocalFor(c.env[i]) = LocalFor(env[i])
      /\ CheckStmts(p, TypeNamed(p, c.returns), Locals(env), Tail(Latest(c.blocks).rest))
  BY <1>1, <1>4 DEF StatementOk
<1> HIDE DEF env
<1>6. CallOk(p, W, Past(c, env))
  BY <1>5, PastOk DEF StatementOk
<1> QED
  BY <1>3, <1>6 DEF env

\* A binding gives the checker's local a value of its type.
LEMMA BindsSound ==
    ASSUME NEW W, Running(W), Binds
    PROVE  Sound'
<1> DEFINE p == source
           c == call
           s == stmt
           v == value
           b == Bound(s.name, v, s.mutable)
           env == Append(c.env, b)
           l == Locals(c.env)
<1>1. StatementOk(p, W, c, s, v) /\ s.kind = "bind"
  BY AtStatementSound DEF Binds
<1>2. \/ s.type \notin {"", v.type} /\ EndsAs(Wrong)
      \/ s.type \in {"", v.type} /\ GoesOn(Past(c, env))
  BY DEF Binds
<1> HIDE DEF p, c, s, v
<1>3. BindingOk(p, l, s) /\ Subject(s) = s.expr
  BY <1>1 DEF StatementOk, StmtOk, Subject
<1>4. v \in W /\ TypeOfValue(v) = TypeOf(p, l, s.expr) /\ Typed(p, W) /\ p \in Tree
  BY <1>1, <1>3 DEF StatementOk
<1>5. s.type \in {"", v.type}
  <2>1. CASE s.type = ""
    BY <2>1
  <2>2. CASE s.type # ""
    <3>1. TypeOfValue(v) = TypeNamed(p, s.type)
      BY <1>3, <1>4, <2>2 DEF BindingOk
    <3> QED
      BY <1>4, <3>1, NamedTypeOfValue
  <2> QED
    BY <2>1, <2>2
<1>6. c.env \in Seq(Binding(W)) /\ c \in Call(W)
  BY <1>1 DEF StatementOk, CallOk
<1>7. b \in Binding(W)
  <2>1. s.name \in STRING /\ s.mutable \in BOOLEAN
    BY <1>1, StatementKinds DEF StatementOk, Statements
  <2> QED
    BY <1>4, <2>1 DEF Bound, Binding
<1>8. LocalsAfter(p, l, s) = Locals(env)
  <2>1. LocalFor(b) = [name |-> s.name, type |-> TypeOf(p, l, s.expr), mutable |-> s.mutable]
    BY <1>4 DEF LocalFor, Bound
  <2>2. LocalsAfter(p, l, s) = Append(l, [name |-> s.name, type |-> TypeOf(p, l, s.expr), mutable |-> s.mutable])
    BY <1>1 DEF LocalsAfter, WithLocal
  <2> HIDE DEF b
  <2>3. Locals(env) = Append(l, LocalFor(b))
    BY <1>4, <1>6, <1>7, LocalsAppend
  <2> QED
    BY <2>1, <2>2, <2>3
<1>9. /\ env \in Seq(Binding(W)) /\ Len(c.env) <= Len(env)
      /\ \A i \in 1 .. Len(c.env) : LocalFor(c.env[i]) = LocalFor(env[i])
  <2> DEFINE S == Binding(W)
             e == c.env
  <2>1. e \in Seq(S) /\ b \in S
    BY <1>6, <1>7
  <2> HIDE DEF S, e, b
  <2>2. /\ Append(e, b) \in Seq(S) /\ Len(e) <= Len(Append(e, b))
        /\ \A i \in 1 .. Len(e) : Append(e, b)[i] = e[i]
    BY <2>1
  <2> QED
    BY <2>2 DEF S, e
<1> HIDE DEF env, b
<1>10. CallOk(p, W, Past(c, env))
  BY <1>1, <1>8, <1>9, PastOk DEF StatementOk, l
<1>11. Past(c, env).returns = c.returns
  BY <1>6, PastReturns
<1>12. GoesOn(Past(c, env))
  BY <1>2, <1>5
<1> DEFINE d == Past(c, env)
<1>13. CallOk(source, W, d) /\ d.returns = call.returns /\ GoesOn(d) /\ Typed(source, W)
  BY <1>4, <1>10, <1>11, <1>12 DEF p, c
<1> HIDE DEF d
<1> QED
  BY <1>13, StepSound

\* The bindings with another value, of the same type, for one of them.
Assigned(env, i, v) == [env EXCEPT ![i].value = v]

\* An assignment of a value of the same type leaves the locals as they are.
LEMMA SameLocals ==
    ASSUME NEW p, NEW W, Typed(p, W), NEW env \in Seq(Binding(W)), NEW i \in DOMAIN env, NEW v \in W,
           TypeOfValue(v) = TypeOfValue(env[i].value)
    PROVE  LET env2 == Assigned(env, i, v) IN
           /\ env2 \in Seq(Binding(W)) /\ Len(env2) = Len(env) /\ Locals(env2) = Locals(env)
           /\ \A j \in 1 .. Len(env) : LocalFor(env[j]) = LocalFor(env2[j])
<1> DEFINE S == Binding(W)
           u == [env[i] EXCEPT !.value = v]
           env2 == [env EXCEPT ![i].value = v]
<1>1. env[i] \in Binding(W)
  BY ElementOf
<1>2. u \in S /\ LocalFor(u) = LocalFor(env[i])
  BY <1>1 DEF Binding, LocalFor
<1>3. env2 = [env EXCEPT ![i] = u] /\ env \in Seq(S)
  OBVIOUS
<1> HIDE DEF S, u, env2
<1>4. /\ env2 \in Seq(S) /\ Len(env2) = Len(env) /\ DOMAIN env2 = DOMAIN env
      /\ env2[i] = u /\ \A j \in DOMAIN env : j # i => env2[j] = env[j]
  BY <1>2, <1>3
<1>5. \A j \in DOMAIN env : LocalFor(env2[j]) = LocalFor(env[j])
  BY <1>2, <1>4
<1>6. Locals(env2) = Locals(env)
  BY <1>4, <1>5 DEF Locals
<1>7. DOMAIN env = 1 .. Len(env)
  BY <1>3
<1> QED
  BY <1>4, <1>5, <1>6, <1>7 DEF S, env2, Assigned

\* The variable assigned to is there, mutable and of the type of the value.
LEMMA AssignsSound ==
    ASSUME NEW W, Running(W), Assigns
    PROVE  Sound'
<1> DEFINE p == source
           c == call
           s == stmt
           v == value
           l == Locals(c.env)
           bound == \E j \in DOMAIN c.env : c.env[j].name = s.name
           i == LastOf(c.env, s.name)
           fits == c.env[i].mutable /\ c.env[i].value.type = v.type
           env == [c.env EXCEPT ![i].value = v]
<1>1. StatementOk(p, W, c, s, v) /\ s.kind = "assign"
  BY AtStatementSound DEF Assigns
<1>2. \/ ~(bound /\ fits) /\ EndsAs(Wrong)
      \/ bound /\ fits /\ GoesOn(Past(c, env))
  BY DEF Assigns
<1> HIDE DEF p, c, s, v
<1>3. AssignmentOk(p, l, s) /\ Subject(s) = s.expr
  BY <1>1 DEF StatementOk, StmtOk, Subject
<1>4. v \in W /\ TypeOfValue(v) = TypeOf(p, l, s.expr) /\ Typed(p, W) /\ p \in Tree
  BY <1>1, <1>3 DEF StatementOk
<1>5. c.env \in Seq(Binding(W)) /\ c \in Call(W)
  BY <1>1 DEF StatementOk, CallOk
<1>6. FindLocal(l, s.name) # <<>> /\ FindLocal(l, s.name)[1].mutable
      /\ TypeOf(p, l, s.expr) = FindLocal(l, s.name)[1].type
  BY <1>3 DEF AssignmentOk
<1> DEFINE e == c.env
           n == s.name
<1>7. /\ \E j \in DOMAIN e : e[j].name = n
      /\ LastOf(e, n) \in DOMAIN e /\ e[LastOf(e, n)] \in Binding(W)
      /\ FindLocal(l, n)[1] = LocalFor(e[LastOf(e, n)])
  <2>1. e \in Seq(Binding(W)) /\ l = Locals(e) /\ FindLocal(Locals(e), n) # <<>>
    BY <1>5, <1>6
  <2> HIDE DEF e, n, l
  <2> QED
    BY <1>4, <2>1, BindingFound
<1>8. bound /\ i \in DOMAIN c.env /\ c.env[i] \in Binding(W) /\ FindLocal(l, s.name)[1] = LocalFor(c.env[i])
  BY <1>7
<1> HIDE DEF bound, i, e, n
<1>9. c.env[i].mutable /\ TypeOfValue(v) = TypeOfValue(c.env[i].value)
  BY <1>4, <1>6, <1>8 DEF LocalFor
<1>10. fits
  <2>1. c.env[i].value \in W
    BY <1>8 DEF Binding
  <2>2. TypeOfValue(c.env[i].value).name = c.env[i].value.type /\ TypeOfValue(v).name = v.type
    BY <1>4, <2>1, ValuesHaveTypes
  <2> QED
    BY <1>9, <2>2
<1>11. GoesOn(Past(c, env))
  BY <1>2, <1>8, <1>10
<1>12. /\ env \in Seq(Binding(W)) /\ Len(env) = Len(c.env) /\ Locals(env) = Locals(c.env)
       /\ \A j \in 1 .. Len(c.env) : LocalFor(c.env[j]) = LocalFor(env[j])
  <2> DEFINE q == c.env
  <2>1. q \in Seq(Binding(W)) /\ i \in DOMAIN q /\ TypeOfValue(v) = TypeOfValue(q[i].value)
    BY <1>5, <1>8, <1>9
  <2> HIDE DEF q
  <2>2. LET env2 == Assigned(q, i, v) IN
           /\ env2 \in Seq(Binding(W)) /\ Len(env2) = Len(q) /\ Locals(env2) = Locals(q)
           /\ \A j \in 1 .. Len(q) : LocalFor(q[j]) = LocalFor(env2[j])
    BY <1>4, <2>1, SameLocals
  <2> QED
    BY <2>2 DEF q, Assigned
<1> HIDE DEF env, fits
<1>13. /\ Len(c.env) <= Len(env)
       /\ CheckStmts(p, TypeNamed(p, c.returns), Locals(env), Tail(Latest(c.blocks).rest))
  <2>1. LocalsAfter(p, l, s) = l
    BY <1>1 DEF LocalsAfter
  <2>2. Len(c.env) \in Nat
    BY <1>5
  <2> QED
    BY <1>1, <1>12, <2>1, <2>2 DEF StatementOk
<1>14. CallOk(p, W, Past(c, env))
  BY <1>1, <1>12, <1>13, PastOk DEF StatementOk
<1>15. Past(c, env).returns = c.returns
  BY <1>5, PastReturns
<1> DEFINE d == Past(c, env)
<1>16. CallOk(source, W, d) /\ d.returns = call.returns /\ GoesOn(d) /\ Typed(source, W)
  BY <1>4, <1>11, <1>14, <1>15 DEF p, c
<1> HIDE DEF d
<1> QED
  BY <1>16, StepSound

\* A block that the checker accepts with the bindings that there are.
LEMMA IntoBlock ==
    ASSUME NEW p, NEW W, Typed(p, W), NEW c, CallOk(p, W, c), c.focus = <<>>, NEW b \in Blocks,
           CheckStmts(p, TypeNamed(p, c.returns), Locals(c.env), b)
    PROVE  CallOk(p, W, Into(c, <<>>, b)) /\ Into(c, <<>>, b).returns = c.returns
<1>1. c \in Call(W) /\ Locals(c.env) \in Seq(TypedLocal)
  BY CallProperties DEF CallOk
<1> DEFINE own == <<>>
<1>2. own \in Seq(Binding(W)) /\ Locals(c.env) \o Locals(own) = Locals(c.env)
  BY <1>1, LocalsOfFew
<1> HIDE DEF own
<1>3. CheckStmts(p, TypeNamed(p, c.returns), Locals(c.env) \o Locals(own), b)
  BY <1>2
<1>4. CallOk(p, W, Into(c, own, b))
  BY <1>2, <1>3, IntoOk
<1>5. Into(c, own, b).returns = c.returns
  BY <1>1, PastReturns
<1> QED
  BY <1>4, <1>5 DEF own

\* The condition of an if is a truth value, and both blocks are accepted.
LEMMA BranchesSound ==
    ASSUME NEW W, Running(W), Branches
    PROVE  Sound'
<1> DEFINE p == source
           c == call
           s == stmt
           v == value
           r == TypeNamed(p, c.returns)
           past == Past(c, c.env)
           b == IF v.value = 0 THEN s.else ELSE s.then
           d == Into(past, <<>>, b)
<1>1. StatementOk(p, W, c, s, v) /\ s.kind = "if"
  BY AtStatementSound DEF Branches
<1>2. \/ v.type # "Bool" /\ EndsAs(Wrong)
      \/ v.type = "Bool" /\ GoesOn(d)
  BY DEF Branches
<1> HIDE DEF p, c, s, v
<1>3. /\ Subject(s) = s.expr /\ TypeOf(p, Locals(c.env), s.expr).kind = "Bool"
      /\ AcceptedIn(p, r)[s.then][Locals(c.env)] /\ AcceptedIn(p, r)[s.else][Locals(c.env)]
  BY <1>1 DEF StatementOk, StmtOk, Subject
<1>4. v.type = "Bool"
  <2>1. v \in W /\ TypeOfValue(v).kind = "Bool" /\ Typed(p, W)
    BY <1>1, <1>3 DEF StatementOk
  <2> QED
    BY <2>1, WordsOfBuiltins
<1>5. s.then \in Blocks /\ s.else \in Blocks
  BY <1>1, StatementKinds DEF StatementOk, Statements
<1>6. b \in Blocks /\ CheckStmts(p, r, Locals(c.env), b)
  <2>1. Locals(c.env) \in Seq(TypedLocal)
    BY <1>1 DEF StatementOk
  <2> QED
    BY <1>3, <1>5, <2>1 DEF AcceptedIn
<1> HIDE DEF b
<1>7. CallOk(p, W, past) /\ past.returns = c.returns /\ past.focus = <<>> /\ past.env = c.env
  BY <1>1, PastStatement
<1>8. Typed(p, W)
  BY <1>1 DEF StatementOk
<1> HIDE DEF past
<1>9. CallOk(p, W, d) /\ d.returns = past.returns
  BY <1>6, <1>7, <1>8, IntoBlock
<1>10. CallOk(source, W, d) /\ d.returns = call.returns /\ GoesOn(d) /\ Typed(source, W)
  BY <1>2, <1>4, <1>7, <1>8, <1>9 DEF p, c
<1> HIDE DEF d
<1> QED
  BY <1>10, StepSound

\* The condition of a while is a truth value, and after its block it is checked as before.
LEMMA LoopsSound ==
    ASSUME NEW W, Running(W), Loops
    PROVE  Sound'
<1> DEFINE p == source
           c == call
           s == stmt
           v == value
           r == TypeNamed(p, c.returns)
           past == Past(c, c.env)
           into == Into(c, <<>>, s.body)
<1>1. StatementOk(p, W, c, s, v) /\ s.kind = "while"
  BY AtStatementSound DEF Loops
<1>2. \/ v.type # "Bool" /\ EndsAs(Wrong)
      \/ GoesOn(past) \/ GoesOn(into)
  BY DEF Loops
<1> HIDE DEF p, c, s, v
<1>3. /\ Subject(s) = s.condition /\ TypeOf(p, Locals(c.env), s.condition).kind = "Bool"
      /\ AcceptedIn(p, r)[s.body][Locals(c.env)]
  BY <1>1 DEF StatementOk, StmtOk, Subject
<1>4. v.type = "Bool"
  <2>1. v \in W /\ TypeOfValue(v).kind = "Bool" /\ Typed(p, W)
    BY <1>1, <1>3 DEF StatementOk
  <2> QED
    BY <2>1, WordsOfBuiltins
<1>5. s.body \in Blocks
  BY <1>1, StatementKinds DEF StatementOk, Statements
<1>6. CheckStmts(p, r, Locals(c.env), s.body)
  <2>1. Locals(c.env) \in Seq(TypedLocal)
    BY <1>1 DEF StatementOk
  <2> QED
    BY <1>3, <1>5, <2>1 DEF AcceptedIn
<1>7. CallOk(p, W, past) /\ past.returns = c.returns
  BY <1>1, PastStatement
<1>8. Typed(p, W) /\ CallOk(p, W, c) /\ c.focus = <<>>
  BY <1>1 DEF StatementOk
<1>9. CallOk(p, W, into) /\ into.returns = c.returns
  BY <1>5, <1>6, <1>8, IntoBlock
<1> HIDE DEF past, into
<1>10. CallOk(source, W, past) /\ past.returns = call.returns /\ Typed(source, W)
  BY <1>7, <1>8 DEF p, c
<1>11. CallOk(source, W, into) /\ into.returns = call.returns
  BY <1>9 DEF p, c
<1> QED
  BY <1>2, <1>4, <1>10, <1>11, StepSound

\* The value that an accepted match looks at is a choice.
LEMMA MatchedChoice ==
    ASSUME NEW p \in Tree, NEW W, Typed(p, W), NEW v \in W,
           Declaration(p, TypeOfValue(v)) # <<>>, Declaration(p, TypeOfValue(v))[1].choice
    PROVE  IsChoice(p, W, v) /\ Declaration(p, TypeOfValue(v)) = FindType(p, v.type)
<1> DEFINE t == TypeOfValue(v)
           d == FindType(p, t.name)
<1>1. t.kind = "named" /\ Declaration(p, t) = d
  BY DEF Declaration
<1>2. t.name = v.type
  BY ValuesHaveTypes
<1>3. IsStructure(p, W, v) \/ IsChoice(p, W, v)
  BY <1>1, WordsOfBuiltins
<1>4. ASSUME IsStructure(p, W, v) PROVE FALSE
  <2> DEFINE D == FindType(p, v.type)
  <2>1. ~D[1].choice
    BY <1>4, StructureShape
  <2>2. D = d
    BY <1>2
  <2> HIDE DEF D, d
  <2> QED
    BY <1>1, <2>1, <2>2
<1> QED
  BY <1>1, <1>2, <1>3, <1>4

\* An accepted case of the variant that the value is: what it binds is there,
\* and its body is accepted with that.
LEMMA CaseSound ==
    ASSUME NEW p \in Tree, NEW W, Typed(p, W), NEW r, NEW l \in Seq(TypedLocal), NEW v,
           IsChoice(p, W, v), NEW k, k.variant = v.variant, k.body \in Blocks,
           k.binding \in Seq(STRING), Len(k.binding) <= 1,
           CaseOk(p, AcceptedIn(p, r), l, FindType(p, v.type)[1], k)
    PROVE  LET own == [n \in DOMAIN k.binding |-> Bound(k.binding[n], v.payload[n], FALSE)] IN
           /\ Len(k.binding) <= Len(v.payload)
           /\ own \in Seq(Binding(W)) /\ CheckStmts(p, r, l \o Locals(own), k.body)
<1> DEFINE d == FindType(p, v.type)
           m == FindMember(d[1], v.variant)
           own == [n \in DOMAIN k.binding |-> Bound(k.binding[n], v.payload[n], FALSE)]
<1>1. \/ v.payload = <<>> /\ m[1].type = ""
      \/ /\ v.payload = <<v.payload[1]>> /\ v.payload[1] \in W
         /\ TypeOfValue(v.payload[1]) = TypeNamed(p, m[1].type)
  <2> DEFINE D == FindType(p, v.type)
             M == FindMember(D[1], v.variant)
  <2>1. \/ v.payload = <<>> /\ M[1].type = ""
        \/ /\ v.payload = <<v.payload[1]>> /\ v.payload[1] \in W
           /\ TypeOfValue(v.payload[1]) = TypeNamed(p, M[1].type)
    BY ChoiceShape
  <2> QED
    BY <2>1
<1>2. IF k.binding = <<>> THEN AcceptedIn(p, r)[k.body][l]
      ELSE LET payload == TypeNamed(p, m[1].type) IN
           /\ Valid(payload) /\ Len(l) < MaxLocalTypes
           /\ AcceptedIn(p, r)[k.body][WithLocal(l, k.binding[1], payload, FALSE)]
  BY DEF CaseOk
<1> HIDE DEF d, m
<1>3. CASE k.binding = <<>>
  <2>1. own = <<>> /\ Len(k.binding) = 0
    BY <1>3
  <2>2. <<>> \in Seq(Binding(W)) /\ l \o Locals(<<>>) = l
    BY LocalsOfFew
  <2>3. CheckStmts(p, r, l, k.body)
    BY <1>2, <1>3 DEF AcceptedIn
  <2>4. Len(v.payload) \in Nat /\ 0 <= Len(v.payload)
    <3>1. CASE v.payload = <<>>
      BY <3>1
    <3>2. CASE v.payload = <<v.payload[1]>>
      <4> DEFINE a == v.payload[1]
      <4>1. v.payload = <<a>>
        BY <3>2
      <4> HIDE DEF a
      <4>2. Len(v.payload) = 1
        BY <4>1
      <4> QED
        BY <4>2
    <3> QED
      BY <1>1, <3>1, <3>2
  <2> HIDE DEF own
  <2> QED
    BY <2>1, <2>2, <2>3, <2>4 DEF own
<1>4. CASE k.binding # <<>>
  <2> DEFINE name == k.binding[1]
             type == TypeNamed(p, m[1].type)
             a == v.payload[1]
             b == Bound(name, a, FALSE)
             u == [name |-> name, type |-> type, mutable |-> FALSE]
  <2>1. Len(k.binding) = 1 /\ name \in STRING /\ DOMAIN k.binding = {1}
    <3> DEFINE q == k.binding
    <3>1. q \in Seq(STRING) /\ q # <<>> /\ Len(q) <= 1
      BY <1>4
    <3> HIDE DEF q
    <3>2. Len(q) = 1 /\ q[1] \in STRING /\ DOMAIN q = {1}
      <4>1. Len(q) = 1
        BY <3>1, ShortSequences
      <4> QED
        BY <3>1, <4>1
    <3> QED
      BY <3>2 DEF q
  <2>2. Valid(type) /\ AcceptedIn(p, r)[k.body][Append(l, u)]
    BY <1>2, <1>4 DEF WithLocal
  <2>3. m[1].type # ""
    BY <2>2, NoNameNoType
  <2>4. v.payload = <<a>> /\ a \in W /\ TypeOfValue(a) = type
    BY <1>1, <2>3
  <2>5. b \in Binding(W) /\ LocalFor(b) = u
    BY <2>1, <2>4 DEF Bound, Binding, LocalFor
  <2>6. own = <<b>>
    <3>1. own = [n \in {1} |-> b]
      BY <2>1
    <3> HIDE DEF own, b
    <3> QED
      BY <3>1
  <2>7. Len(v.payload) = 1
    <3> HIDE DEF a
    <3> QED
      BY <2>4
  <2> HIDE DEF own, b, a, u, type
  <2>8. <<b>> \in Seq(Binding(W)) /\ Locals(<<b>>) = <<u>>
    BY <2>5, LocalsOfFew
  <2>9. u \in TypedLocal
    <3>1. Locals(<<b>>) \in Seq(TypedLocal)
      BY <2>8, LocalsAreTyped
    <3> DEFINE x == <<u>>
    <3>2. x \in Seq(TypedLocal)
      BY <2>8, <3>1
    <3>3. 1 \in DOMAIN x /\ x[1] = u
      OBVIOUS
    <3> HIDE DEF x
    <3> QED
      BY <3>2, <3>3, ElementOf
  <2>10. Append(l, u) = l \o <<u>> /\ Append(l, u) \in Seq(TypedLocal)
    <3> DEFINE S == TypedLocal
    <3>1. l \in Seq(S) /\ u \in S
      BY <2>9
    <3> HIDE DEF S
    <3>2. Append(l, u) = l \o <<u>> /\ Append(l, u) \in Seq(S)
      BY <3>1
    <3> QED
      BY <3>2 DEF S
  <2>11. CheckStmts(p, r, Append(l, u), k.body)
    BY <2>2, <2>10 DEF AcceptedIn
  <2>12. own \in Seq(Binding(W)) /\ CheckStmts(p, r, l \o Locals(own), k.body)
    BY <2>6, <2>8, <2>10, <2>11
  <2> QED
    BY <2>1, <2>7, <2>12 DEF own
<1> QED
  BY <1>3, <1>4

\* A match is on a choice, and a payload that a case binds is there.
LEMMA MatchesSound ==
    ASSUME NEW W, Running(W), Matches
    PROVE  Sound'
<1> DEFINE p == source
           c == call
           s == stmt
           v == value
           r == TypeNamed(p, c.returns)
           l == Locals(c.env)
           past == Past(c, c.env)
           own(i) == [n \in DOMAIN s.cases[i].binding |->
                         Bound(s.cases[i].binding[n], v.payload[n], FALSE)]
           d == Declaration(p, TypeOfValue(v))
<1>1. StatementOk(p, W, c, s, v) /\ s.kind = "match"
  BY AtStatementSound DEF Matches
<1>2. \/ "variant" \notin DOMAIN v /\ EndsAs(Wrong)
      \/ GoesOn(past)
      \/ \E i \in DOMAIN s.cases :
            /\ s.cases[i].variant = v.variant
            /\ \/ Len(s.cases[i].binding) > Len(v.payload) /\ EndsAs(Wrong)
               \/ GoesOn(Into(past, own(i), s.cases[i].body))
  BY DEF Matches
<1> HIDE DEF p, c, s, v
<1>3. Subject(s) = s.expr /\ MatchOk(p, AcceptedIn(p, r), l, s)
  BY <1>1 DEF StatementOk, StmtOk, Subject
<1>4. /\ v \in W /\ TypeOfValue(v) = TypeOf(p, l, s.expr) /\ Typed(p, W) /\ p \in Tree
      /\ l \in Seq(TypedLocal) /\ s \in Statements /\ c.env \in Seq(Binding(W))
  BY <1>1, <1>3 DEF StatementOk
<1>5. d # <<>> /\ d[1].choice /\ \A i \in DOMAIN s.cases : CaseOk(p, AcceptedIn(p, r), l, d[1], s.cases[i])
  BY <1>3, <1>4 DEF MatchOk
<1>6. IsChoice(p, W, v) /\ d = FindType(p, v.type)
  BY <1>4, <1>5, MatchedChoice
<1>7. "variant" \in DOMAIN v
  BY <1>6, ChoiceShape
<1>8. CallOk(p, W, past) /\ past.returns = c.returns /\ past.focus = <<>> /\ past.env = c.env
  BY <1>1, PastStatement
<1> HIDE DEF past, d
<1>9. CASE GoesOn(past)
  <2>1. CallOk(source, W, past) /\ past.returns = call.returns /\ Typed(source, W)
    BY <1>4, <1>8 DEF p, c
  <2> QED
    BY <1>9, <2>1, StepSound
<1>10. ASSUME NEW i \in DOMAIN s.cases, s.cases[i].variant = v.variant,
              \/ Len(s.cases[i].binding) > Len(v.payload) /\ EndsAs(Wrong)
              \/ GoesOn(Into(past, own(i), s.cases[i].body))
       PROVE  Sound'
  <2> DEFINE k == s.cases[i]
             mine == own(i)
             b == k.body
  <2>1. k.body \in Blocks /\ k.binding \in Seq(STRING) /\ Len(k.binding) <= 1
    BY <1>1, <1>4, CaseKinds DEF Statements
  <2>2. CaseOk(p, AcceptedIn(p, r), l, FindType(p, v.type)[1], k) /\ k.variant = v.variant
    BY <1>5, <1>6, <1>10
  <2>3. /\ Len(k.binding) <= Len(v.payload)
        /\ mine \in Seq(Binding(W)) /\ CheckStmts(p, r, l \o Locals(mine), b)
    <3> DEFINE K == s.cases[i]
    <3>1. /\ K.body \in Blocks /\ K.binding \in Seq(STRING) /\ Len(K.binding) <= 1
          /\ CaseOk(p, AcceptedIn(p, r), l, FindType(p, v.type)[1], K) /\ K.variant = v.variant
      BY <2>1, <2>2
    <3> HIDE DEF K, l, r
    <3>2. LET ours == [n \in DOMAIN K.binding |-> Bound(K.binding[n], v.payload[n], FALSE)] IN
          /\ Len(K.binding) <= Len(v.payload)
          /\ ours \in Seq(Binding(W)) /\ CheckStmts(p, r, l \o Locals(ours), K.body)
      BY <1>4, <1>6, <3>1, CaseSound DEF l
    <3> QED
      BY <3>2 DEF K
  <2>4. GoesOn(Into(past, mine, b))
    <3>1. ~(Len(k.binding) > Len(v.payload))
      <4> DEFINE x == Len(k.binding)
                 y == Len(v.payload)
      <4>1. x \in Nat /\ y \in Nat /\ x <= y
        <5>1. x \in Nat
          BY <2>1
        <5>2. v.payload = <<>> \/ v.payload = <<v.payload[1]>>
          BY <1>6, ChoiceShape
        <5>3. y \in Nat
          <6>1. CASE v.payload = <<>>
            BY <6>1
          <6>2. CASE v.payload = <<v.payload[1]>>
            <7>1. y = 1
              BY <6>2
            <7> QED
              BY <7>1
          <6> QED
            BY <5>2, <6>1, <6>2
        <5> QED
          BY <2>3, <5>1, <5>3
      <4> HIDE DEF x, y
      <4>2. ~(x > y)
        BY <4>1
      <4> QED
        BY <4>2 DEF x, y
    <3> QED
      BY <1>10, <3>1
  <2> HIDE DEF mine, b
  <2>5. CallOk(p, W, Into(past, mine, b))
    <3>1. CheckStmts(p, TypeNamed(p, past.returns), Locals(past.env) \o Locals(mine), b)
      BY <1>8, <2>3
    <3>2. b \in Blocks
      BY <2>1 DEF b
    <3> QED
      BY <1>4, <1>8, <2>3, <3>1, <3>2, IntoOk
  <2>6. Into(past, mine, b).returns = past.returns
    <3>1. past \in Call(W)
      BY <1>8 DEF CallOk
    <3> QED
      BY <3>1, PastReturns
  <2> DEFINE n == Into(past, mine, b)
  <2>7. CallOk(source, W, n) /\ n.returns = call.returns /\ GoesOn(n) /\ Typed(source, W)
    BY <1>4, <1>8, <2>4, <2>5, <2>6 DEF p, c
  <2> HIDE DEF n
  <2> QED
    BY <2>7, StepSound
<1> QED
  BY <1>2, <1>7, <1>9, <1>10

\* What is returned is of the type that the waiting call needs.
LEMMA RepliesSound ==
    ASSUME NEW W, Running(W), Replies
    PROVE  Sound'
<1> DEFINE p == source
           c == call
           s == stmt
           v == value
           cs == calls
           ds == Older(calls)
           d == Latest(ds)
           e == Evaluated(d, v)
<1>1. StatementOk(p, W, c, s, v) /\ s.kind = "return"
  BY AtStatementSound DEF Replies
<1>2. \/ v.type # c.returns /\ EndsAs(Wrong)
      \/ EndsAs(Returned(v))
      \/ /\ Len(cs) > 1
         /\ calls' = Append(Older(ds), e) /\ UNCHANGED <<source, outcome>>
  BY DEF Replies
<1>3. /\ p \in Tree /\ MainTakesNothing(p) /\ CallsOk(p, W, cs)
      /\ outcome = Runs /\ Accepted(p) /\ c = Latest(cs)
  BY DEF Running, call
<1> HIDE DEF p, c, s, v
<1>4. TypeOfValue(v) = TypeNamed(p, c.returns) /\ v \in W
  BY <1>1 DEF StatementOk, StmtOk, Subject
<1>5. v.type = c.returns /\ Typed(p, W)
  <2>1. Typed(p, W)
    BY <1>1 DEF StatementOk
  <2> QED
    BY <1>3, <1>4, <2>1, NamedTypeOfValue
<1>6. CASE EndsAs(Returned(v))
  <2>1. Returned(v).how \in {"returned", "failed"}
    BY DEF Returned
  <2> QED
    BY <1>6, <2>1, EndSound
<1>7. CASE /\ Len(cs) > 1
           /\ calls' = Append(Older(ds), e) /\ UNCHANGED <<source, outcome>>
  <2> DEFINE all == calls
  <2>1. Len(all) # 1 /\ CallsOk(p, W, all)
    <3> DEFINE n == Len(cs)
    <3>1. n > 1
      BY <1>7
    <3>2. n # 1
      <4> HIDE DEF n
      <4> QED
        BY <3>1
    <3> QED
      BY <1>3, <3>2
  <2> HIDE DEF all
  <2>2. /\ CallsOk(p, W, Older(all))
        /\ Waits(p, Latest(Older(all)), Latest(all).returns)
        /\ \A x : Append(Older(Older(all)), x) = [Older(all) EXCEPT ![Len(Older(all))] = x]
    BY <2>1, CallReturned
  <2>3. /\ CallsOk(p, W, ds) /\ Waits(p, d, c.returns)
        /\ Append(Older(ds), e) = [ds EXCEPT ![Len(ds)] = e]
    BY <1>3, <2>2 DEF all
  <2> DEFINE dd == Older(calls)
  <2>4. CallOk(p, W, d)
    BY <2>3, Innermost
  <2>5. d.focus # <<>> /\ TypeOfValue(v) = TypeIn(p, d, Latest(d.focus))
    BY <1>4, <2>3 DEF Waits
  <2> HIDE DEF d
  <2>6. CallOk(p, W, e)
    BY <1>4, <2>4, <2>5, EvaluatedOk
  <2>7. e.returns = d.returns
    <3>1. d \in Call(W)
      BY <2>4 DEF CallOk
    <3> QED
      BY <3>1 DEF Call, Evaluated
  <2> HIDE DEF e, ds
  <2>8. CallsOk(p, W, [ds EXCEPT ![Len(ds)] = e])
    <3>1. e.returns = Latest(ds).returns /\ W \subseteq W
      BY <2>7 DEF d
    <3> QED
      BY <1>5, <2>3, <2>6, <3>1, CallReplaced
  <2>9. CallsOk(source', W, calls')
    BY <1>7, <2>3, <2>8 DEF p
  <2> QED
    BY <1>3, <1>7, <2>9 DEF Sound, p
<1> QED
  BY <1>2, <1>5, <1>6, <1>7

\* After a block the locals are those before it.
LEMMA EndBlockSound ==
    ASSUME NEW W, Running(W), EndBlock
    PROVE  Sound'
<1> DEFINE p == source
           c == call
           d == [c EXCEPT !.env = SubSeq(@, 1, Latest(c.blocks).keep), !.blocks = Older(@)]
<1>1. p \in Tree /\ CallsOk(p, W, calls)
  BY DEF Running
<1>2. Typed(p, W) /\ CallOk(p, W, c)
  BY <1>1, Innermost DEF call
<1>3. /\ Latest(c.blocks).rest = <<>>
      /\ \/ EndsAs(Failed)
         \/ Len(c.blocks) > 1 /\ GoesOn(d)
  BY DEF EndBlock, block
<1>4. CASE EndsAs(Failed)
  <2>1. Failed.how \in {"returned", "failed"}
    BY DEF Failed
  <2> QED
    BY <1>4, <2>1, EndSound
<1>5. CASE Len(c.blocks) > 1 /\ GoesOn(d)
  <2> HIDE DEF p, c
  <2>1. CallOk(p, W, [c EXCEPT !.env = SubSeq(@, 1, Latest(c.blocks).keep), !.blocks = Older(@)])
    BY <1>2, <1>3, <1>5, EndOk
  <2>2. d.returns = c.returns
    <3>1. c \in Call(W)
      BY <1>2 DEF CallOk
    <3> QED
      BY <3>1 DEF Call
  <2>3. CallOk(source, W, d) /\ d.returns = call.returns /\ GoesOn(d) /\ Typed(source, W)
    BY <1>2, <1>5, <2>1, <2>2 DEF p, c
  <2> HIDE DEF d
  <2> QED
    BY <2>3, StepSound
<1> QED
  BY <1>3, <1>4, <1>5

\* The call of main is sound at its begin.
LEMMA AcceptSound ==
    ASSUME source \in Tree, MainTakesNothing(source), Accept
    PROVE  Sound'
<1> DEFINE p == source
           f == FindFunction(p, "main")
           c == Activation(f[1], <<>>)
           W == {}
<1>1. /\ p \in Tree /\ MainTakesNothing(p) /\ Accepted(p) /\ outcome' = Runs /\ source' = source
      /\ calls' = <<c>>
  BY DEF Accept, Begin, FindFunction
<1>2. f # <<>>
  <2>1. PICK i \in DOMAIN p.functions :
           {j \in DOMAIN p.functions : p.functions[j].name = "main"} = {i}
    BY <1>1 DEF Accepted, HasMain
  <2>2. i \in DOMAIN p.functions /\ p.functions[i].name = "main"
    BY <2>1
  <2> DEFINE fs == p.functions
             hits == {j \in DOMAIN fs : fs[j].name = "main"}
  <2>3. hits # {}
    BY <2>2
  <2>4. f = IF hits = {} THEN <<>> ELSE <<fs[CHOOSE j \in hits : \A k \in hits : j <= k]>>
    BY DEF FindFunction, Find
  <2> HIDE DEF hits, fs, f
  <2> QED
    BY <2>3, <2>4
<1> HIDE DEF p
<1>3. f[1] \in FunctionDecl /\ f[1].name = "main" /\ \E i \in DOMAIN p.functions : f[1] = p.functions[i]
  BY <1>1, <1>2, FoundFunction
<1>4. ChecksBody(p, f[1])
  BY <1>1, <1>3 DEF Accepted, ChecksBodies
<1>5. f[1].params = <<>>
  BY <1>1, <1>3 DEF MainTakesNothing
<1>6. Typed(p, W)
  BY DEF Typed
<1> HIDE DEF W
<1> DEFINE g == f[1]
           args == <<>>
<1>7. CallOk(p, W, c)
  <2>1. /\ g \in FunctionDecl /\ ChecksBody(p, g) /\ args \in Seq(W) /\ Len(args) = Len(g.params)
        /\ \A i \in DOMAIN g.params : TypeOfValue(args[i]) = TypeNamed(p, g.params[i].type)
    BY <1>3, <1>4, <1>5
  <2> HIDE DEF g, args
  <2>2. CallOk(p, W, Activation(g, args))
    BY <1>1, <1>6, <2>1, ActivationOk
  <2> QED
    BY <2>2 DEF g, args
<1> HIDE DEF c
<1>8. CallsOk(p, W, <<c>>)
  <2> DEFINE S == Call(W)
             cs == <<c>>
  <2>1. c \in S
    BY <1>7 DEF CallOk
  <2> HIDE DEF S
  <2>2. cs \in Seq(S) /\ cs # <<>> /\ DOMAIN cs = {1} /\ cs[1] = c /\ Len(cs) = 1
    BY <2>1
  <2> HIDE DEF cs
  <2>3. CallsOk(p, W, cs)
    BY <1>6, <1>7, <2>2 DEF CallsOk, S
  <2> QED
    BY <2>3 DEF cs
<1>9. CallsOk(source', W, calls')
  BY <1>1, <1>8 DEF p
<1> QED
  BY <1>1, <1>9 DEF Sound, p

\* What is accepted runs soundly, from its acceptance on.
THEOREM SoundInvariant == CheckedSpec => []Sound
<1>1. CheckedInit => Sound
  BY SourcesAssumption DEF CheckedInit, SourcesAssumption, Sound
<1>2. ASSUME Sound, [CheckedNext]_sourceVars PROVE Sound'
  <2>1. source \in Tree /\ MainTakesNothing(source)
    BY <1>2 DEF Sound
  <2>2. CASE Accept
    BY <2>1, <2>2, AcceptSound
  <2>3. CASE SourceNext
    <3>1. outcome = Runs
      BY <2>3 DEF SourceNext, Descend, Evaluate, Enter, Binds, Assigns, Branches, Loops, Matches,
                  Replies, EndBlock, InExpression, AtStatement, Going
    <3>2. PICK W : CallsOk(source, W, calls)
      BY <1>2, <3>1 DEF Sound, AtRest, Runs, Unknown
    <3>3. Accepted(source)
      BY <1>2, <3>1 DEF Sound, AtRest, Runs, Unknown
    <3>4. Running(W)
      BY <2>1, <3>1, <3>2, <3>3 DEF Running
    <3> QED
      BY <2>3, <3>4, DescendSound, EvaluateSound, EnterSound, BindsSound, AssignsSound, BranchesSound,
         LoopsSound, MatchesSound, RepliesSound, EndBlockSound DEF SourceNext
  <2>4. CASE UNCHANGED sourceVars
    BY <1>2, <2>4 DEF sourceVars, Sound, AtRest
  <2> QED
    BY <1>2, <2>2, <2>3, <2>4 DEF CheckedNext
<1> QED
  BY <1>1, <1>2, PTL DEF CheckedSpec

\* What the checks of the front end accept never goes wrong.
THEOREM Checked_AcceptedNeverWrong == CheckedSpec => []AcceptedNeverWrong
<1>1. Sound => AcceptedNeverWrong
  BY DEF Sound, AcceptedNeverWrong, AtRest, Unknown, Runs
<1> QED
  BY <1>1, SoundInvariant, PTL
=============================================================================
