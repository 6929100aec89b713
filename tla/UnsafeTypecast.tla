---------------------------- MODULE UnsafeTypecast ----------------------------
(***************************************************************************)
(* The unsafe-typecast lint of crates/lint/src/sol/high/unsafe_typecast.rs: *)
(* check_expr looks at a call whose callee is an ExprKind::TypeCall,      *)
(* which in solar's HIR is the expression type(T) (an ordinary cast       *)
(* uint8(x) has an ExprKind::Type callee, which line 25 does not match),  *)
(* infers the elementary type of its first argument (infer_expr_type),    *)
(* and reports the argument when check_unsafe_typecast returns true.      *)
(*                                                                         *)
(* Data abstraction: an expression is a tuple tagged by the ExprKind arm  *)
(* the code matches on; literals keep only their LitKind, type(T)        *)
(* expressions their T (elementary or not), operators only their          *)
(* operands. A `todo!()` reached by the code is the outcome "panic". The  *)
(* lint pass visits one expression at a time; the model checks one.       *)
(***************************************************************************)
EXTENDS Naturals, Sequences

CONSTANTS
    ElemTypes,  \* elementary types a type call may name
    Depth       \* bound on the nesting of unary and binary operators

(* ElemTypes holds "Bool" and none of the tags "udt", "none", "panic";    *)
(* Depth is a natural number.                                              *)

(* Leaves of an operand: bool, number and string literals, an            *)
(* identifier, and type(T) of an elementary or a user-defined type T.     *)
Leaves == {<<"lit", k>> : k \in {"bool", "number", "str"}} \cup {<<"ident">>}
          \cup {<<"typecall", t>> : t \in ElemTypes \cup {"udt"}}

(* Operands of nesting at most n.                                         *)
Operands[n \in Nat] ==
    IF n = 0 THEN Leaves
    ELSE LET S == Operands[n - 1]
         IN  S \cup {<<"unary", e>> : e \in S} \cup {<<"binary", l, r>> : l, r \in S}

(* Expressions the lint pass may be handed: calls with a type(T) callee,  *)
(* with an argument or none, and calls of an identifier.                   *)
Exprs == {<<"call", <<"typecall", t>>, args>> :
              t \in ElemTypes \cup {"udt"},
              args \in {<< >>} \cup {<<a>> : a \in Operands[Depth]}}
         \cup {<<"call", <<"ident">>, <<a>>>> : a \in Leaves}

(* infer_expr_type (lines 60-98): a bool literal is Bool and a number    *)
(* literal reaches todo!() (line 68); type(T) gives T when T is           *)
(* elementary (lines 75-81); a binary operation gives up with its left    *)
(* operand, then with its right one (the `?`s of lines 85-86), and        *)
(* otherwise reaches todo!() (line 88); a unary operation keeps its       *)
(* operand's type.                                                         *)
InferOf[e \in Operands[Depth]] ==
    CASE e[1] = "lit"      -> CASE e[2] = "bool"   -> "Bool"
                                [] e[2] = "number" -> "panic"
                                [] OTHER           -> "none"
      [] e[1] = "typecall" -> IF e[2] \in ElemTypes THEN e[2] ELSE "none"
      [] e[1] = "binary"   -> LET l == InferOf[e[2]]
                              IN  IF l \in {"none", "panic"} THEN l
                                  ELSE LET r == InferOf[e[3]]
                                       IN  IF r \in {"none", "panic"} THEN r ELSE "panic"
      [] e[1] = "unary"    -> InferOf[e[2]]
      [] OTHER             -> "none"
Infer(e) == InferOf[e]

(* check_unsafe_typecast (lines 38-56): an operand whose type cannot be  *)
(* inferred is safe (line 45), so is a cast to a type that is not        *)
(* elementary (line 51); anything else reaches todo!() (line 55). The    *)
(* bool it returns is "unsafe" (true) or "safe" (false).                  *)
CheckUnsafeTypecast(ty, e) ==
    LET k == Infer(e)
    IN  CASE k = "panic"                         -> "panic"
          [] k = "none"                          -> "safe"
          [] k \notin {"none", "panic"} /\ ty \notin ElemTypes -> "safe"
          [] OTHER                               -> "panic"

(* check_expr (lines 17-33): only a call whose callee is type(T) and     *)
(* that has a first argument is checked; the outcome is "report" when    *)
(* the check says unsafe, "silent" when it says safe.                     *)
CheckExpr(x) ==
    IF x[1] = "call" /\ x[2][1] = "typecall" /\ x[3] # << >>
    THEN LET c == CheckUnsafeTypecast(x[2][2], x[3][1])
         IN  CASE c = "unsafe" -> "report"
               [] c = "safe"   -> "silent"
               [] OTHER        -> "panic"
    ELSE "silent"

VARIABLES
    expr,       \* the expression handed to check_expr
    outcome     \* "pending", then "report", "silent" or "panic"

vars == <<expr, outcome>>

Init == /\ expr \in Exprs
        /\ outcome = "pending"

(* The lint pass calls check_expr on the expression.                     *)
Check == /\ outcome = "pending"
         /\ outcome' = CheckExpr(expr)
         /\ UNCHANGED expr

(* check_expr has returned or the pass has panicked.                     *)
Returned == /\ outcome # "pending"
            /\ UNCHANGED vars

Next == Check \/ Returned

Spec == Init /\ [][Next]_vars

-----------------------------------------------------------------------------
(* check_unsafe_typecast returns true or false, as its doc comment (lines *)
(* 36-37) says, and infer_expr_type Some or None (59-60): the lint pass   *)
(* never panics on an expression it checks.                               *)
LintReturns == outcome # "panic"

=============================================================================
