------------------------------ MODULE Formula ------------------------------
(***************************************************************************)
(* The formulas of a database field (devnote-database, formula.rs): the    *)
(* Pratt parser over a list of tokens and the evaluation over the values   *)
(* of a row and of all rows.  The state is one expression that grows; the  *)
(* parser and the evaluator are checked on every one of them.  Numbers are *)
(* fractions, without the rounding of f64; texts are sequences of letters  *)
(* that never read as numbers; powers are parsed and not evaluated.        *)
(***************************************************************************)
EXTENDS Integers, SequencesExt

CONSTANTS
    Leaves,      \* the expressions an expression grows by
    MaxSize,     \* bound on the tokens of an expression that still grows
    RowValues,   \* field -> value, the row of the formula
    AllRows      \* the rows an aggregate runs over

VARIABLE expr

Number(n) == [kind |-> "number", value |-> n]
Boolean(b) == [kind |-> "boolean", value |-> b]
Text(t) == [kind |-> "text", value |-> t]
Null == [kind |-> "null"]
Field(name) == [kind |-> "field", name |-> name]
Unary(op, operand) == [kind |-> "unary", op |-> op, operand |-> operand]
Binary(op, left, right) == [kind |-> "binary", op |-> op, left |-> left, right |-> right]
Call(name, args) == [kind |-> "call", name |-> name, args |-> args]

Literals == {"number", "boolean", "text", "null"}

-----------------------------------------------------------------------------
\* Variant: powers bind to the left.
BindingPowerLeft ==
    [or |-> <<1, 2>>, and |-> <<3, 4>>, eq |-> <<5, 6>>, ne |-> <<5, 6>>,
     lt |-> <<7, 8>>, gt |-> <<7, 8>>, plus |-> <<9, 10>>, minus |-> <<9, 10>>,
     times |-> <<11, 12>>, divide |-> <<11, 12>>,
     power |-> <<13, 14>>]

\* Tokens: literals and fields stand for themselves, the rest are strings.
BindingPower ==
    [or |-> <<1, 2>>, and |-> <<3, 4>>, eq |-> <<5, 6>>, ne |-> <<5, 6>>,
     lt |-> <<7, 8>>, gt |-> <<7, 8>>, plus |-> <<9, 10>>, minus |-> <<9, 10>>,
     times |-> <<11, 12>>, divide |-> <<11, 12>>,
     power |-> <<13, 12>>]

Mark(name) == [kind |-> "mark", name |-> name]

IsMark(tokens, at, name) == at <= Len(tokens) /\ tokens[at] = Mark(name)

IsOperator(tokens, at) ==
    at <= Len(tokens) /\ tokens[at].kind = "mark" /\ tokens[at].name \in DOMAIN BindingPower

\* A parse is an expression and the place after it, or a failure at place 0.
Failed == [tree |-> Null, at |-> 0]

RECURSIVE ParseExpr(_, _, _), ParseInfix(_, _, _), ParsePrefix(_, _), ParseArgs(_, _, _)

ParseExpr(tokens, at, minimum) == ParseInfix(tokens, ParsePrefix(tokens, at), minimum)

\* The loop of parse_expr: take operators that bind at least as tight as minimum.
ParseInfix(tokens, left, minimum) ==
    IF left.at = 0 \/ ~IsOperator(tokens, left.at) THEN left
    ELSE LET op == tokens[left.at].name
             power == BindingPower[op]
         IN  IF power[1] < minimum THEN left
             ELSE LET right == ParseExpr(tokens, left.at + 1, power[2])
                  IN  IF right.at = 0 THEN Failed
                      ELSE ParseInfix(tokens,
                              [tree |-> Binary(op, left.tree, right.tree), at |-> right.at],
                              minimum)

ParsePrefix(tokens, at) ==
    IF at > Len(tokens) THEN Failed
    ELSE LET token == tokens[at]
             Inner == ParseExpr(tokens, at + 1, 0)
             Operand == ParseExpr(tokens, at + 1, 14)
         IN  CASE token.kind \in Literals \cup {"field"} -> [tree |-> token, at |-> at + 1]
               [] token.kind = "function" ->
                    IF ~IsMark(tokens, at + 1, "(") THEN Failed
                    ELSE IF IsMark(tokens, at + 2, ")")
                         THEN [tree |-> Call(token.name, << >>), at |-> at + 3]
                         ELSE ParseArgs(tokens, at + 2, Call(token.name, << >>))
               [] token = Mark("(") ->
                    IF Inner.at # 0 /\ IsMark(tokens, Inner.at, ")")
                    THEN [Inner EXCEPT !.at = @ + 1] ELSE Failed
               [] token \in {Mark("minus"), Mark("not")} ->
                    IF Operand.at = 0 THEN Failed
                    ELSE [Operand EXCEPT !.tree = Unary(token.name, @)]
               [] OTHER -> Failed

ParseArgs(tokens, at, call) ==
    LET arg == ParseExpr(tokens, at, 0)
        grown == [call EXCEPT !.args = Append(@, arg.tree)]
    IN  CASE arg.at = 0 -> Failed
          [] IsMark(tokens, arg.at, ",") -> ParseArgs(tokens, arg.at + 1, grown)
          [] IsMark(tokens, arg.at, ")") -> [tree |-> grown, at |-> arg.at + 1]
          [] OTHER -> Failed

\* Variant: what follows the expression is ignored.
ParseBeginning(tokens) == ParseExpr(tokens, 1, 0)

\* parse: the expression must use every token.
Parse(tokens) ==
    LET parsed == ParseExpr(tokens, 1, 0)
    IN  IF parsed.at = Len(tokens) + 1 THEN parsed ELSE Failed

-----------------------------------------------------------------------------
Error(e) == [kind |-> "error", value |-> e]

IsError(v) == v.kind = "error"

AsNumber(v) ==
    CASE v.kind \in {"number", "error"} -> v
      [] v.kind = "boolean" -> Number(IF v.value THEN <<1, 1>> ELSE <<0, 1>>)
      [] OTHER -> Error("type")

IsZero(v) == v.kind = "number" /\ v.value[1] = 0

AsBoolean(v) ==
    CASE v.kind \in {"boolean", "error"} -> v
      [] v.kind = "number" -> Boolean(~IsZero(v))
      [] OTHER -> Error("type")

Plus(a, b) == <<a[1] * b[2] + b[1] * a[2], a[2] * b[2]>>

Times(a, b) == <<a[1] * b[1], a[2] * b[2]>>

Over(a, b) == IF b[1] < 0 THEN <<-(a[1] * b[2]), -(a[2] * b[1])>> ELSE <<a[1] * b[2], a[2] * b[1]>>

Negated(a) == <<-a[1], a[2]>>

Less(a, b) == a[1] * b[2] < b[1] * a[2]

Calculated(op, a, b) ==
    CASE op = "plus" -> Plus(a, b)
      [] op = "minus" -> Plus(a, Negated(b))
      [] op = "times" -> Times(a, b)
      [] op = "divide" -> Over(a, b)

\* Both operands as numbers, the first that is none as the error.
Arithmetic(op, left, right) ==
    LET l == AsNumber(left)
        r == AsNumber(right)
    IN  CASE IsError(l) -> l
          [] IsError(r) -> r
          [] OTHER -> Number(Calculated(op, l.value, r.value))

\* The divisor is looked at first.
Divide(left, right) ==
    LET r == AsNumber(right)
    IN  CASE IsZero(r) -> Error("div_by_zero")
          [] IsError(r) -> r
          [] OTHER -> Arithmetic("divide", left, right)

Add(left, right) ==
    IF left.kind = "text" /\ right.kind = "text" THEN Text(left.value \o right.value)
    ELSE Arithmetic("plus", left, right)

\* eval_comparison_eq: null equals null only, values of two types do not compare.
CompareEq(left, right) ==
    CASE "null" \in {left.kind, right.kind} -> Boolean(left.kind = right.kind)
      [] left.kind # right.kind -> Error("type")
      [] left.kind = "number" -> Boolean(left.value[1] * right.value[2] = right.value[1] * left.value[2])
      [] OTHER -> Boolean(left.value = right.value)

\* Letters of a text are numbers; the order is that of the texts.
TextLess(a, b) ==
    \E i \in 1..Len(b) :
        /\ SubSeq(a, 1, i - 1) = SubSeq(b, 1, i - 1)
        /\ i > Len(a) \/ a[i] < b[i]

\* eval_comparison_ord: two numbers or two texts.
CompareLess(left, right) ==
    CASE left.kind = "number" /\ right.kind = "number" -> Boolean(Less(left.value, right.value))
      [] left.kind = "text" /\ right.kind = "text" -> Boolean(TextLess(left.value, right.value))
      [] OTHER -> Error("type")

\* Variant: only truth values are negated.
NotOfBoolean(v) == IF v.kind = "boolean" THEN Boolean(~v.value) ELSE Error("type")

\* Variant: an error counts as false.
NotOfError(v) == LET b == AsBoolean(v) IN Boolean(IsError(b) \/ ~b.value)

Not(v) == LET b == AsBoolean(v) IN IF IsError(b) THEN b ELSE Boolean(~b.value)

EvalBinary(op, left, right) ==
    CASE op = "plus" -> Add(left, right)
      [] op \in {"minus", "times"} -> Arithmetic(op, left, right)
      [] op = "divide" -> Divide(left, right)
      [] op = "eq" -> CompareEq(left, right)
      [] op = "ne" -> LET eq == CompareEq(left, right) IN IF IsError(eq) THEN eq ELSE Not(eq)
      [] op = "lt" -> CompareLess(left, right)
      [] op = "gt" -> CompareLess(right, left)

\* Arguments, or cells, that are no numbers do not count: errors included.
Aggregate(name, values) ==
    LET numbers == SelectSeq([i \in DOMAIN values |-> AsNumber(values[i])],
                             LAMBDA v : ~IsError(v))
    IN  IF name = "COUNT" THEN Number(<<Len(numbers), 1>>)
        ELSE Number(FoldLeft(LAMBDA sum, v : Plus(sum, v.value), <<0, 1>>, numbers))

CellOf(row, name) == IF name \in DOMAIN row THEN row[name] ELSE Null

RECURSIVE Eval(_)

Decide(v, IfTrue, IfFalse) ==
    LET b == AsBoolean(v)
    IN  CASE IsError(b) -> b [] b.value -> IfTrue [] OTHER -> IfFalse

\* The operand that decides is evaluated first, and one that is not needed never.
EvalIf(args) ==
    IF Len(args) # 3 THEN Error("value")
    ELSE Decide(Eval(args[1]), Eval(args[2]), Eval(args[3]))

\* ABS, for the functions of one number.
EvalMathSingle(args) ==
    IF Len(args) # 1 THEN Error("value")
    ELSE LET v == AsNumber(Eval(args[1]))
         IN  IF ~IsError(v) /\ v.value[1] < 0 THEN Number(Negated(v.value)) ELSE v

\* LEN, for the functions of one text.
EvalStringFunc(args) ==
    IF Len(args) # 1 THEN Error("value")
    ELSE LET v == Eval(args[1])
         IN  CASE v.kind = "text" -> Number(<<Len(v.value), 1>>)
               [] IsError(v) -> v
               [] OTHER -> Error("type")

\* A single field stands for its column, any other arguments for themselves.
EvalAggregate(name, args) ==
    Aggregate(name,
        IF Len(args) = 1 /\ args[1].kind = "field"
        THEN [i \in DOMAIN AllRows |-> CellOf(AllRows[i], args[1].name)]
        ELSE [i \in DOMAIN args |-> Eval(args[i])])

EvalFunction(name, args) ==
    CASE name \in {"SUM", "COUNT"} -> EvalAggregate(name, args)
      [] name = "ABS" -> EvalMathSingle(args)
      [] name = "IF" -> EvalIf(args)
      [] name = "LEN" -> EvalStringFunc(args)
      [] OTHER -> Error("name")

Eval(e) ==
    CASE e.kind \in Literals -> e
      [] e.kind = "field" -> CellOf(RowValues, e.name)
      [] e.kind = "unary" ->
            IF e.op = "not" THEN Not(Eval(e.operand))
            ELSE Arithmetic("minus", Number(<<0, 1>>), Eval(e.operand))
      [] e.kind = "binary" /\ e.op = "and" ->
            Decide(Eval(e.left), AsBoolean(Eval(e.right)), Boolean(FALSE))
      [] e.kind = "binary" /\ e.op = "or" ->
            Decide(Eval(e.left), Boolean(TRUE), AsBoolean(Eval(e.right)))
      [] e.kind = "binary" ->
            LET left == Eval(e.left)
                right == Eval(e.right)
            IN  CASE IsError(left) -> left
                  [] IsError(right) -> right
                  [] OTHER -> EvalBinary(e.op, left, right)
      [] OTHER -> EvalFunction(e.name, e.args)

-----------------------------------------------------------------------------
Operators == DOMAIN BindingPower

\* The tokens a user writes for an expression, with the parentheses of the usual
\* reading: looser operators first, to the left among equals, powers to the right.
Looseness(op) ==
    CASE op = "or" -> 1 [] op = "and" -> 2 [] op \in {"eq", "ne"} -> 3
      [] op \in {"lt", "gt"} -> 4 [] op \in {"plus", "minus"} -> 5
      [] op \in {"times", "divide"} -> 6 [] op = "power" -> 7

RECURSIVE Written(_)

Written(e) ==
    LET Parens(list) == <<Mark("(")>> \o list \o <<Mark(")")>>
        Side(x, alone) ==
            IF x.kind = "binary" /\ (Looseness(x.op) < Looseness(e.op)
                                       \/ (Looseness(x.op) = Looseness(e.op) /\ ~alone))
            THEN Parens(Written(x)) ELSE Written(x)
        Separated == FoldLeft(LAMBDA list, a : IF list = << >> THEN Written(a)
                                               ELSE list \o <<Mark(",")>> \o Written(a),
                              << >>, e.args)
    IN  CASE e.kind \in Literals \cup {"field"} -> <<e>>
          [] e.kind = "unary" ->
                <<Mark(e.op)>> \o (IF e.operand.kind = "binary" THEN Parens(Written(e.operand))
                                   ELSE Written(e.operand))
          [] e.kind = "binary" -> Side(e.left, e.op # "power") \o <<Mark(e.op)>>
                                    \o Side(e.right, e.op = "power")
          [] e.kind = "call" -> <<[kind |-> "function", name |-> e.name]>> \o Parens(Separated)

FormulaInit == expr \in Leaves

\* The inputs: expressions that grow by an operator, a call or an operand.
Grow(e) ==
    /\ Len(Written(expr)) <= MaxSize
    /\ expr' = e

FormulaNext ==
    \/ \E op \in {"minus", "not"} : Grow(Unary(op, expr))
    \/ \E op \in Operators, leaf \in Leaves :
          Grow(Binary(op, expr, leaf)) \/ Grow(Binary(op, leaf, expr))
    \/ \E name \in {"SUM", "COUNT", "ABS", "LEN", "UNKNOWN"} : Grow(Call(name, <<expr>>))
    \/ \E a, b \in Leaves : Grow(Call("IF", <<expr, a, b>>))

FormulaSpec == FormulaInit /\ [][FormulaNext]_expr

RECURSIVE HasPower(_)

HasPower(e) ==
    CASE e.kind = "unary" -> HasPower(e.operand)
      [] e.kind = "binary" -> e.op = "power" \/ HasPower(e.left) \/ HasPower(e.right)
      [] e.kind = "call" -> \E i \in DOMAIN e.args : HasPower(e.args[i])
      [] OTHER -> FALSE

\* The parser reads an expression back from its tokens, with the fewest
\* parentheses that keep its meaning: precedence, associativity, unary operators
\* and arguments of calls, in every nesting.
ParsesAsWritten ==
    LET tokens == Written(expr)
    IN  Parse(tokens) = [tree |-> expr, at |-> Len(tokens) + 1]

\* No formula is read in part: one more operand, a parenthesis too many or a
\* missing last token is an error.
NoTokenIgnored ==
    LET tokens == Written(expr)
        Rejected(list) == Parse(list) = Failed
    IN  /\ Rejected(Append(tokens, Mark(")")))
        /\ \A leaf \in Leaves : leaf.kind \in Literals => Rejected(Append(tokens, leaf))
        /\ \A op \in Operators : Rejected(Append(tokens, Mark(op)))

\* and, or and not obey De Morgan's law, whichever operand is an error, a number
\* or no truth value at all and although the right one is not always evaluated.
DeMorgan ==
    ~HasPower(expr) =>
        \A leaf \in Leaves :
            Eval(Unary("not", Binary("and", expr, leaf)))
                = Eval(Binary("or", Unary("not", expr), Unary("not", leaf)))

\* The error of the operand that is evaluated first is the error of the whole:
\* no operator, condition or function of one argument turns it into a value or
\* into another error.
ErrorsSurface ==
    ~HasPower(expr) /\ IsError(Eval(expr)) =>
        /\ \A op \in Operators \ {"power"}, leaf \in Leaves :
              Eval(Binary(op, expr, leaf)) = Eval(expr)
        /\ \A op \in {"minus", "not"} : Eval(Unary(op, expr)) = Eval(expr)
        /\ \A leaf \in Leaves : Eval(Call("IF", <<expr, leaf, leaf>>)) = Eval(expr)
        /\ \A name \in {"ABS", "LEN"} : Eval(Call(name, <<expr>>)) = Eval(expr)
=============================================================================
