------------------------------ MODULE MCCompiler ------------------------------
(* Functions of statements and single expressions for TLC: a behaviour      *)
(* compiles and runs a function of one of the families below, or compiles   *)
(* one expression.                                                          *)
EXTENDS CodeGen, TLC, FiniteSetsExt

X == INSTANCE Expressions

VARIABLES form, expr, used    \* the kind of expression, it, and whether its value is used
exprVars == <<form, expr, used>>

None == [s \in Sorts |-> 0]

\* Jumps out of loops, switches and try blocks.
Control == ("plain" :> 1) @@ ("jump" :> 1) @@ ("return" :> 1) @@ ("if" :> 1) @@ ("loop" :> 1)
           @@ ("switch" :> 1) @@ ("case" :> 2) @@ ("try" :> 1) @@ ("total" :> 4) @@ None

\* Nested try blocks and loops.
Tries == ("plain" :> 2) @@ ("jump" :> 1) @@ ("return" :> 1) @@ ("loop" :> 2) @@ ("try" :> 2)
         @@ ("total" :> 5) @@ None

\* Captured variables of blocks and loops.
Variables == ("plain" :> 1) @@ ("var" :> 1) @@ ("capture" :> 1) @@ ("block" :> 1) @@ ("loop" :> 1) 
             @@ ("jump" :> 1) @@ ("try" :> 1) @@ ("total" :> 5) @@ None

\* Captured variables of cases.
Cases == ("plain" :> 1) @@ ("var" :> 1) @@ ("capture" :> 1) @@ ("switch" :> 1) @@ ("case" :> 2)
         @@ ("jump" :> 1) @@ ("return" :> 1) @@ ("total" :> 6) @@ None

MCBudgets == {None, Control, Tries, Variables, Cases}
MCNoBudget == {None}

-----------------------------------------------------------------------------
\* Expressions of every form over every leaf, and with one operand that is
\* itself of any form.
a == X!Local(1)
Two == X!Literal("int", 2)
Leaves == {Two, X!Literal("bool", 0), X!Literal("string", 7), X!Literal("null", 0),
           a, X!Local(2), X!OuterVar, X!Field(5)}
Few == {Two, a, X!Field(5)}
Branch == X!Many("cond", <<X!Local(2), Two, a>>)

Forms == X!BinOps \cup X!Updates \cup
         {"AND", "OR", "comma", "NOT", "NEG", "cond", "newslot", "call", "array", "get", "index"}

Slots(S) == {X!Field(5)} \cup {X!Dot(x, 6) : x \in S}
            \cup {X!Binary("index", xy[1], xy[2]) : xy \in (S \X Few) \cup (Few \X S)}
Places(S) == {a, X!OuterVar} \cup Slots(S)

Of(f, S, T) ==
    CASE f \in X!BinOps \cup {"AND", "OR", "comma", "index"} ->
            {X!Binary(f, x, y) : x \in S, y \in T}
      [] f \in {"NOT", "NEG"} -> {X!Unary(f, x) : x \in S}
      [] f = "get" -> {X!Dot(x, 6) : x \in S}
      [] f = "cond" -> {X!Many(f, <<x, y, z>>) : x \in S, y \in T, z \in Few}
                       \cup {X!Many(f, <<x, y, z>>) : x \in S, y \in Few, z \in T}
      [] f \in {"assign", "compound"} -> {X!Binary(f, x, y) : x \in Places(S), y \in T}
      [] f = "newslot" -> {X!Binary(f, x, y) : x \in Slots(S), y \in T}
      [] f \in {"pre", "post"} -> {X!Unary(f, x) : x \in Places(S)}
      [] f = "call" -> {X!Many(f, <<x>>) : x \in Places(S)}
                       \cup {X!Binary(f, x, y) : x \in Places(S), y \in T}
                       \cup {X!Many(f, <<X!Field(5), x, y>>) : x \in S, y \in T}
      [] f = "array" -> {X!Many(f, <<x>>) : x \in S} \cup {X!Binary(f, x, y) : x \in S, y \in T}

Deep == UNION {Of(f, {a, Two}, {a, Two}) : f \in Forms}

Compiles ==
    /\ form \in Forms
    /\ form' = "compiled"
    /\ expr' \in Of(form, Leaves, Leaves) \cup Of(form, Deep, Few \cup {Branch})
              \cup Of(form, Few, Deep)
    /\ used' \in BOOLEAN
    /\ UNCHANGED vars

MCInit ==
    /\ Init
    /\ form \in IF left = None THEN Forms ELSE {"statements"}
    /\ expr = a
    /\ used = TRUE

MCNext == Compiles \/ (form = "statements" /\ Next /\ UNCHANGED exprVars)

MCSpec == MCInit /\ [][MCNext]_<<vars, exprVars>>

-----------------------------------------------------------------------------
Frame == 0 :> X!Val("table", 0, <<>>) @@ 1 :> X!Number(1) @@ 2 :> X!Val("null", 0, <<>>)

\* Expression to FunctionCallArgs of compiler.cpp and AddInstruction: an
\* expression compiles to code that does what it means, leaves its one target
\* and no other register taken, and stays within _stacksize - unless a jump
\* was fused with a comparison it does not test, which FusionKeepsMeaning is about.
ExpressionsCompile ==
    form = "compiled" /\ X!Settled(expr) => X!CompilesRight(expr, used, Frame, X!Number(3))

\* funcstate.cpp:442 calls AddInstruction's fusions a "simple optimizer": with
\* them the code of an expression does what the expression means.
FusionKeepsMeaning ==
    form = "compiled" /\ X!Settled(expr) => X!Means(expr, used, Frame, X!Number(3))
=============================================================================
