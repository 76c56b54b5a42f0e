---------------------------- MODULE DmExpression ----------------------------
(***************************************************************************)
(* The expressions of device properties (src/dmcontext/expression.go).     *)
(* SolveExpression: an expression in one variable is simplified to         *)
(* slope * x + offset on its syntax tree, and the x that gives it a value  *)
(* is computed from the two.  Checked against the evaluation of the        *)
(* expression at that x.  ExecExpression: values that a driver has read    *)
(* are mapped by an expression.                                            *)
(*                                                                         *)
(* A tree is <<"ident", v>>, <<"lit", n>>, <<"other">> (a node that is not *)
(* supported: a call, a sign) or <<op, left, right>>.  The arithmetic of   *)
(* float64 is that of the rationals <<numerator, denominator>>: results    *)
(* are not rounded, and trees that divide by zero are left out.            *)
(***************************************************************************)
EXTENDS DmFormat

CONSTANTS
    Leaves,     \* the leaves that trees are built from
    Targets,    \* the values asked for
    ArgValues   \* values that drivers put into expressions

Ops == {"+", "-", "*", "/"}
\* Bound: trees with at most two levels of operators.
Flat == Leaves \cup {<<op, l, r>> : op \in Ops, l \in Leaves, r \in Leaves}
Trees == Flat \cup {<<op, l, r>> : op \in Ops, l \in Flat, r \in Flat}

Zero(a) == a[1] = 0
Plus(a, b) == <<a[1] * b[2] + b[1] * a[2], a[2] * b[2]>>
Minus(a, b) == <<a[1] * b[2] - b[1] * a[2], a[2] * b[2]>>
Times(a, b) == <<a[1] * b[1], a[2] * b[2]>>
Over(a, b) == <<a[1] * b[2], a[2] * b[1]>>

-----------------------------------------------------------------------------
\* An affine form: slope and offset, or an error.
Form(s, o) == [err |-> FALSE, slope |-> s, offset |-> o]
Fail == [err |-> TRUE, slope |-> Rat(0), offset |-> Rat(0)]

\* processBinaryExpr
Binary(op, x, y) ==
    CASE op = "+" -> Form(Plus(x.slope, y.slope), Plus(x.offset, y.offset))
      [] op = "-" -> Form(Minus(x.slope, y.slope), Minus(x.offset, y.offset))
      [] op = "*" -> IF ~Zero(x.slope) /\ ~Zero(y.slope) THEN Fail
                     ELSE Form(Plus(Times(x.slope, y.offset), Times(x.offset, y.slope)),
                               Times(x.offset, y.offset))
      [] OTHER -> IF ~Zero(y.slope) THEN Fail
                  ELSE Form(Over(x.slope, y.offset), Over(x.offset, y.offset))

RECURSIVE Simple(_)
\* simpleExpression
Simple(t) ==
    CASE t[1] = "ident" -> Form(Rat(1), Rat(0))
      [] t[1] = "lit" -> Form(Rat(0), Rat(t[2]))
      [] t[1] = "other" -> Fail
      [] OTHER -> LET x == Simple(t[2])
                      y == Simple(t[3])
                  IN  IF x.err \/ y.err THEN Fail ELSE Binary(t[1], x, y)

RECURSIVE ParseExpression(_)
\* goexpr.Parse(e).Vars: every occurrence of a variable, from left to right.
ParseExpression(t) ==
    CASE t[1] = "ident" -> <<t[2]>>
      [] t[1] \in Ops -> ParseExpression(t[2]) \o ParseExpression(t[3])
      [] OTHER -> <<>>

Vars(t) == LET vars == ParseExpression(t) IN {vars[i] : i \in DOMAIN vars}

\* One variable exactly, a form, and a slope that is not zero.
OneVariable(t) == \E v \in Vars(t) : Vars(t) = {v}

Solvable(t) == OneVariable(t) /\ ~Simple(t).err /\ ~Zero(Simple(t).slope)

\* Faulty variant: the offset is added.
SolutionPlus(t, v) == Over(Plus(Rat(v), Simple(t).offset), Simple(t).slope)

\* (value - offset) / slope
Solution(t, v) == Over(Minus(Rat(v), Simple(t).offset), Simple(t).slope)

SolveExpression(t, v) == IF Solvable(t) THEN [status |-> "ok", x |-> Solution(t, v)]
                                       ELSE [status |-> "error", x |-> Rat(0)]

-----------------------------------------------------------------------------
(* The reference: what goexpr.Evaluate computes                            *)

RECURSIVE Eval(_, _)
\* The value of a tree when the variables have the values of env.
Eval(t, env) ==
    CASE t[1] = "ident" -> env[t[2]]
      [] t[1] = "lit" -> Rat(t[2])
      [] t[1] = "other" -> Rat(0)
      [] t[1] = "+" -> Plus(Eval(t[2], env), Eval(t[3], env))
      [] t[1] = "-" -> Minus(Eval(t[2], env), Eval(t[3], env))
      [] t[1] = "*" -> Times(Eval(t[2], env), Eval(t[3], env))
      [] OTHER -> Over(Eval(t[2], env), Eval(t[3], env))

\* All variables have the value x.
At(t, x) == [v \in Vars(t) |-> x]

RECURSIVE Divides(_, _)
\* No divisor of the tree is zero.
Divides(t, env) ==
    t[1] \in Ops =>
        /\ Divides(t[2], env) /\ Divides(t[3], env)
        /\ t[1] = "/" => ~Zero(Eval(t[3], env))

\* Bound: trees in which nothing divides by zero at two places.
Inputs == {t \in Trees : Divides(t, At(t, Rat(7))) /\ Divides(t, At(t, Rat(11)))}

-----------------------------------------------------------------------------
VARIABLE solved     \* the last call: its tree, its value and what it returned

NotSolved == [tree |-> <<"other">>, value |-> 0, result |-> [status |-> "none", x |-> Rat(0)]]

\* The call.
Solve(t, v) == solved' = [tree |-> t, value |-> v, result |-> SolveExpression(t, v)]

\* What SolveExpression returns solves the equation: the expression has the
\* value asked for when it is evaluated there.  When it refuses an expression
\* because the slope is zero, the expression does not depend on its variable: it
\* is the same at two places.
SolutionSolves ==
    LET form == Simple(solved.tree)
    IN  /\ solved.result.status = "ok" =>
            Same(Eval(solved.tree, At(solved.tree, solved.result.x)), Rat(solved.value))
        /\ ~form.err /\ Zero(form.slope) =>
            Same(Eval(solved.tree, At(solved.tree, Rat(7))), Eval(solved.tree, At(solved.tree, Rat(11))))

-----------------------------------------------------------------------------
(* ExecExpression                                                          *)

\* Sprintf("%.<p>f") and ParseFloat: to the nearest, a tie to the even digit.
ToPrecision(q, p) ==
    LET sign == IF q[2] < 0 THEN -1 ELSE 1
        n == sign * q[1] * 10 ^ p
        d == sign * q[2]
        low == n \div d
        rest == 2 * (n % d)
        up == rest > d \/ (rest = d /\ low % 2 = 1)
    IN  Lowest(<<IF up THEN low + 1 ELSE low, 10 ^ p>>)

\* The argument itself, if the expression has one variable; rounded if it can be.
processValueMapping(t, args, p) ==
    LET vars == ParseExpression(t)
    IN  IF Len(vars) # 1 \/ vars[1] \notin DOMAIN args THEN Error
        ELSE LET x == args[vars[1]]
             IN  IF p > 0 /\ isCalculable(x)
                 THEN Value("float64", ToPrecision(parseValueToFloat64(x).v, p)) ELSE x

\* Faulty variant: digits beyond the precision are cut off.
processCalcMappingCut(t, args, p) ==
    IF \E v \in Vars(t) : v \notin DOMAIN args \/ ~isCalculable(args[v]) THEN Error
    ELSE LET res == Eval(t, [v \in Vars(t) |-> parseValueToFloat64(args[v]).v])
         IN  Value("float64", IF p > 0 THEN <<Trunc(Times(res, Rat(10 ^ p))), 10 ^ p>> ELSE res)

\* The expression is evaluated, if its variables have arguments that are numbers.
processCalcMapping(t, args, p) ==
    IF \E v \in Vars(t) : v \notin DOMAIN args \/ ~isCalculable(args[v]) THEN Error
    ELSE LET res == Eval(t, [v \in Vars(t) |-> parseValueToFloat64(args[v]).v])
         IN  Value("float64", IF p > 0 THEN ToPrecision(res, p) ELSE res)

ExecExpressionWithPrecision(t, args, mappingType, p) ==
    CASE mappingType = "none" -> Nil
      [] mappingType = "value" -> processValueMapping(t, args, p)
      [] mappingType = "calc" -> processCalcMapping(t, args, p)
      [] OTHER -> Error

Exec(t, args, mappingType, p) ==
    done' = [op |-> "exec", tree |-> t, args |-> args, mapping |-> mappingType, precision |-> p,
             got |-> ExecExpressionWithPrecision(t, args, mappingType, p)]

\* The two kinds of mapping agree: for an expression that is just a variable the
\* calculation gives the number that the value mapping gives, rounded or not, once
\* that is a float64; and rounding is to the nearest, so that half a unit of the
\* last digit is all that a precision may change.
MappingsAgree ==
    done.op = "exec" /\ Numeric(done.got.type) =>
        LET p == done.precision
            got(m, n) == LET x == ExecExpressionWithPrecision(done.tree, done.args, m, n)
                         IN  IF m = "value" /\ n = 0 THEN parseValueToFloat64(x).v ELSE x.v
            change == Minus(got(done.mapping, p), got(done.mapping, 0))
        IN  /\ p > 0 => 2 * Abs(change[1]) * 10 ^ p <= Abs(change[2])
            /\ done.tree[1] = "ident" => Same(got("value", p), got("calc", p))
=============================================================================
