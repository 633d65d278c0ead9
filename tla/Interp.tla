------------------------------- MODULE Interp -------------------------------
(***************************************************************************)
(* The tree-walking interpreter of src/interp/interpreter.cpp, one step    *)
(* per evaluation of a node.  The C++ call stack is the variable kont: one *)
(* frame per active evalExpression, executeStatement or callFunction, with *)
(* the operands evaluated so far; ctl says what the innermost one is       *)
(* doing, and carries the Value or ExecSignal it returns.                  *)
(***************************************************************************)
EXTENDS Lang

CONSTANTS Programs, Nodes

(* Programs come out of the type checker; Nodes holds the AST nodes of     *)
(* them.                                                                   *)
ASSUME InterpAssumption ==
  LET nodes == Nodes
  IN  /\ {Node("", "", <<>>), Call(kEntry, <<>>)} \subseteq nodes
      /\ \A e \in nodes :
           /\ e = [Node(e.op, e.name, e.args) EXCEPT
                    !.lit = e.lit, !.type = e.type, !.const = e.const, !.fields = e.fields]
           /\ e.op \in Expressions \cup Statements \cup {""}
           /\ e.name \in STRING
           /\ e.args \in Seq(nodes)
           /\ e.op \in Strict \cup Logic \cup Loops \cup {"index", "setindex"} => Len(e.args) = 2
           /\ e.op = "assign" => Len(e.args) = 1
           /\ e.lit \in Literals
           /\ e.const \in BOOLEAN
      /\ \A p \in Programs : \A f \in DOMAIN p.funcs :
           /\ p.funcs[f].body \in nodes
           /\ \A i \in DOMAIN p.funcs[f].params : p.funcs[f].params[i].name \in STRING

VARIABLES
  program,  (* the ast::Program being run                                  *)
  ctl,      (* what the innermost active C++ function does                 *)
  kont,     (* the active C++ functions, the innermost last                *)
  scopes,   (* scopes_                                                     *)
  heap,     (* the objects behind shared_ptr<ArrayValue> and <StructValue> *)
  errors,   (* errors_, the messages                                       *)
  out,      (* stdoutBuffer_, a string value per line                      *)
  result    (* the RunResult once run() has returned, else Running         *)

vars == <<program, ctl, kont, scopes, heap, errors, out, result>>

Running == [done |-> FALSE, success |-> FALSE, exit |-> 0]
Finished(success, exit) == [done |-> TRUE, success |-> success, exit |-> exit]

NoNode == Node("", "", <<>>)
Control(do, node, val, sig) == [do |-> do, node |-> node, val |-> val, sig |-> sig]
Eval(expr) == Control("eval", expr, NullV, "None")
Exec(stmt) == Control("exec", stmt, NullV, "None")
Apply == Control("apply", NoNode, NullV, "None")
Returns(val) == Control("value", NoNode, val, "None")
Signals(sig, val) == Control("signal", NoNode, val, sig)

(* at is the operand being evaluated; slot is the scope a Binding* held by *)
(* an assignment points into.                                              *)
Frame(node, at, slot) == [node |-> node, at |-> at, vals |-> <<>>, slot |-> slot]
Top == kont[Len(kont)]
Below == SubSeq(kont, 1, Len(kont) - 1)
Push(frame) == Append(kont, frame)
Pushed(scope) == Append(scopes, scope)
Popped == SubSeq(scopes, 1, Len(scopes) - 1)

(* The result of a step of the interpreter: a value and what it reported.  *)
Ok(val) == [val |-> val, msgs |-> <<>>]
Err(msg) == [val |-> NullV, msgs |-> <<msg>>]
HasError == errors # <<>>

-----------------------------------------------------------------------------
(* A slip the runs must catch: scopes_ is searched from the outermost.     *)
SlotOutermost(name) ==
  LET found == {i \in DOMAIN scopes : name \in DOMAIN scopes[i]}
  IN  IF found = {} THEN 0 ELSE CHOOSE i \in found : \A j \in found : i <= j

(* lookupBinding: the innermost scope that declares the name, 0 if none.   *)
Slot(name) ==
  LET found == {i \in DOMAIN scopes : name \in DOMAIN scopes[i]}
  IN  IF found = {} THEN 0 ELSE CHOOSE i \in found : \A j \in found : j <= i

Binding(val, type, const) == [val |-> val, type |-> type, const |-> const]

(* asNumeric takes an integer, a double or a boolean.                      *)
IsNumeric(v) == v.kind \in {"Int", "Float", "Bool"}
NumericProblem(v) == IF IsNumeric(v) THEN <<>> ELSE <<"Numeric value expected">>

ValuesEqual(l, r) ==
  IF {l.kind, r.kind} \subseteq {"Int", "Float"} THEN SameNumber(l, r) ELSE l = r

IntFits(op, a, b) ==
  CASE op = "add" -> AddFits(a, b) [] op = "sub" -> SubFits(a, b)
    [] op = "mul" -> MulFits(a, b) [] op = "div" -> DivFits(a, b)

IntResult(op, a, b) ==
  CASE op = "add" -> a + b [] op = "sub" -> a - b
    [] op = "mul" -> a * b [] op = "div" -> Quotient(a, b)

FloatResult(op, l, r) ==
  CASE op = "add" -> FloatSum(l, r, 1) [] op = "sub" -> FloatSum(l, r, -1)
    [] op = "mul" -> FloatProduct(l, r) [] op = "div" -> FloatQuotient(l, r)

PromoteNumeric(op, l, r) ==
  CASE op = "div" /\ r.n = 0 -> Err("Division by zero")
    [] ~(op = "div" /\ r.n = 0) /\ "Float" \in {l.kind, r.kind} -> Ok(FloatResult(op, l, r))
    [] "Float" \notin {l.kind, r.kind} /\ ~(op = "div" /\ r.n = 0) ->
         IF IntFits(op, l.n, r.n) THEN Ok(IntV(IntResult(op, l.n, r.n)))
                                  ELSE Err("Integer overflow")

Compare(op, l, r) ==
  CASE op = "lt" -> LessThan(l, r) [] op = "le" -> ~LessThan(r, l)
    [] op = "gt" -> LessThan(r, l) [] op = "ge" -> ~LessThan(l, r)

EvalBinary(op, l, r) ==
  IF op \in Equality THEN Ok(BoolV(ValuesEqual(l, r) <=> op = "eq"))
  ELSE IF ~(IsNumeric(l) /\ IsNumeric(r))
       THEN [val |-> NullV, msgs |-> NumericProblem(l) \o NumericProblem(r)]
  ELSE IF op \in Arithmetic THEN PromoteNumeric(op, l, r)
  ELSE Ok(BoolV(Compare(op, l, r)))

Truth(v) == v.n = 1
BoolProblem == "Boolean value expected"

EvalUnary(op, v) ==
  CASE op = "not" /\ v.kind = "Bool" -> Ok(BoolV(~Truth(v)))
    [] op = "not" /\ v.kind # "Bool" -> Err(BoolProblem)
    [] op = "neg" /\ ~IsNumeric(v) -> Err("Numeric value expected")
    [] op = "neg" /\ v.kind = "Float" -> Ok(FloatV(-v.n, v.d))
    [] op = "neg" /\ v.kind \in {"Int", "Bool"} ->
         IF v.n = INT64_MIN THEN Err("Integer overflow") ELSE Ok(IntV(-v.n))

(* The fields of a declared struct; Position is 0 for an unknown field.    *)
FieldsOf(name) == program.structs[name]
Position(name, field) ==
  IF \E i \in DOMAIN FieldsOf(name) : FieldsOf(name)[i].name = field
  THEN CHOOSE i \in DOMAIN FieldsOf(name) : FieldsOf(name)[i].name = field
  ELSE 0

Object(struct, vals) == [struct |-> struct, vals |-> vals]

EvalFieldAccess(base, field) ==
  CASE base.kind = "Array" /\ field = Length -> Ok(IntV(Len(heap[base.n].vals)))
    [] base.kind = "Array" /\ field # Length -> Err("Unknown field on array")
    [] base.kind = "Struct" ->
         LET object == heap[base.n]
         IN  IF Position(object.struct, field) = 0 THEN Err("Unknown field on struct")
             ELSE Ok(object.vals[Position(object.struct, field)])
    [] base.kind \notin {"Array", "Struct"} -> Err("Field access requires a struct value")

(* asIntIndex and the bounds check, for elements 0 .. size - 1.            *)
IndexProblem(v, size) ==
  CASE ~IsNumeric(v) -> <<"Numeric value expected">>
    [] v.kind = "Float" -> <<"Array index must be an integer">>
    [] v.kind \in {"Int", "Bool"} /\ (v.n < 0 \/ v.n >= size) -> <<"Array index out of bounds">>
    [] v.kind \in {"Int", "Bool"} /\ 0 <= v.n /\ v.n < size -> <<>>

EvalIndex(base, v) ==
  LET elements == heap[base.n].vals
  IN  IF IndexProblem(v, Len(elements)) = <<>> THEN Ok(elements[v.n + 1])
      ELSE [val |-> NullV, msgs |-> IndexProblem(v, Len(elements))]

(* What stops a literal or call at operand i, before it is evaluated.      *)
OperandProblem(expr, i) ==
  CASE expr.op = "struct" /\ expr.name \notin DOMAIN program.structs -> "Unknown struct type"
    [] expr.op = "struct" /\ expr.name \in DOMAIN program.structs
         /\ i \in DOMAIN expr.fields /\ Position(expr.name, expr.fields[i]) = 0 -> "Unknown field"
    [] OTHER -> ""

(* The type operand i of the literal is converted to.                      *)
OperandType(expr, i) ==
  CASE expr.op = "array" -> expr.type.of[1]
    [] expr.op = "struct" -> FieldsOf(expr.name)[Position(expr.name, expr.fields[i])].type
    [] OTHER -> NoType

-----------------------------------------------------------------------------
(* How a step ends.  Deliver pops the frame of the function that returns.  *)
Deliver(outcome) ==
  /\ kont' = Below
  /\ ctl' = Returns(outcome.val)
  /\ errors' = errors \o outcome.msgs

(* Evaluate the next operand, keeping v.                                   *)
NextOperand(v) ==
  /\ kont' = [kont EXCEPT ![Len(kont)].at = @ + 1, ![Len(kont)].vals = Append(@, v)]
  /\ ctl' = Eval(Top.node.args[Top.at + 1])

Leave(signal) == kont' = Below /\ ctl' = signal
Abort(msg) == errors' = Append(errors, msg) /\ Leave(Signals("Error", NullV))

Silent == UNCHANGED <<program, out, result>>

AtExpr(ops) == ctl.do = "eval" /\ ctl.node.op \in ops
AtStmt(ops) == ctl.do = "exec" /\ ctl.node.op \in ops
AtValue(ops) == ctl.do = "value" /\ kont # <<>> /\ Top.node.op \in ops
AtSignal(ops) == ctl.do = "signal" /\ kont # <<>> /\ Top.node.op \in ops

Init ==
  /\ program \in Programs
  /\ ctl = Control("start", NoNode, NullV, "None")
  /\ kont = <<>>
  /\ scopes = <<>>
  /\ heap = <<>>
  /\ errors = <<>>
  /\ out = <<>>
  /\ result = Running

(* run(): call the entry function, or report that there is none.           *)
Start ==
  /\ ctl.do = "start"
  /\ IF kEntry \in DOMAIN program.funcs
     THEN kont' = Push(Frame(Call(kEntry, <<>>), 0, 0)) /\ ctl' = Apply /\ errors' = errors
     ELSE ctl' = Returns(NullV) /\ errors' = <<"Missing entry function">> /\ kont' = kont
  /\ Silent /\ UNCHANGED <<scopes, heap>>

(* A slip: only the kind of the result decides whether the run succeeded.  *)
FinishIgnoringErrors ==
  /\ ctl.do = "value" /\ kont = <<>> /\ ~result.done
  /\ result' = IF ctl.val.kind \notin {"Int", "Bool", "Null"} THEN Finished(FALSE, 1)
               ELSE Finished(TRUE, IF ctl.val.kind = "Int" THEN ExitCode(ctl.val.n) ELSE ctl.val.n)
  /\ UNCHANGED <<program, ctl, kont, scopes, heap, errors, out>>

(* run(): the entry function returned.                                     *)
Finish ==
  /\ ctl.do = "value" /\ kont = <<>> /\ ~result.done
  /\ LET bad == ctl.val.kind \notin {"Int", "Bool", "Null"}
     IN  /\ errors' = IF ~HasError /\ bad THEN <<"Entry function must return int/bool/null">>
                      ELSE errors
         /\ result' = IF HasError \/ bad THEN Finished(FALSE, 1)
                      ELSE Finished(TRUE, IF ctl.val.kind = "Int" THEN ExitCode(ctl.val.n)
                                          ELSE ctl.val.n)
  /\ UNCHANGED <<program, ctl, kont, scopes, heap, out>>

-----------------------------------------------------------------------------
(* Expressions that evaluate no operand.                                   *)
EvalLiteral ==
  /\ AtExpr({"lit"})
  /\ LET bad == ctl.node.lit.kind = "Int" /\ ctl.node.lit.n > INT64_MAX
     IN  /\ ctl' = Returns(IF bad THEN NullV ELSE ctl.node.lit)
         /\ errors' = IF bad THEN Append(errors, "Numeric literal out of range or invalid")
                      ELSE errors
  /\ Silent /\ UNCHANGED <<kont, scopes, heap>>

EvalIdentifier ==
  /\ AtExpr({"var"})
  /\ LET slot == Slot(ctl.node.name)
     IN  IF slot = 0
         THEN ctl' = Returns(NullV) /\ errors' = Append(errors, "Unknown identifier")
         ELSE ctl' = Returns(scopes[slot][ctl.node.name].val) /\ errors' = errors
  /\ Silent /\ UNCHANGED <<kont, scopes, heap>>

(* -x on the literal whose magnitude only INT64_MIN has.                   *)
EvalMinLiteral ==
  /\ AtExpr({"neg"}) /\ IsMinLiteral(ctl.node)
  /\ ctl' = Returns(IntV(INT64_MIN))
  /\ Silent /\ UNCHANGED <<kont, scopes, heap, errors>>

(* Every other expression enters its first operand, or has none.           *)
EnterExpression ==
  /\ AtExpr(Expressions \ {"lit", "var"}) /\ ~IsMinLiteral(ctl.node)
  /\ IF OperandProblem(ctl.node, 1) # ""
     THEN /\ ctl' = Returns(NullV) /\ kont' = kont
          /\ errors' = Append(errors, OperandProblem(ctl.node, 1))
     ELSE /\ errors' = errors
          /\ IF ctl.node.args = <<>>
             THEN kont' = Push(Frame(ctl.node, 0, 0)) /\ ctl' = Apply
             ELSE kont' = Push(Frame(ctl.node, 1, 0)) /\ ctl' = Eval(ctl.node.args[1])
  /\ Silent /\ UNCHANGED <<scopes, heap>>

(* evalBinary evaluates both operands before it looks at errors_.          *)
LeftOperand ==
  /\ AtValue(Strict) /\ Top.at = 1
  /\ NextOperand(ctl.val)
  /\ Silent /\ UNCHANGED <<scopes, heap, errors>>

BinaryDone ==
  /\ AtValue(Strict) /\ Top.at = 2
  /\ Deliver(IF HasError THEN Ok(NullV) ELSE EvalBinary(Top.node.op, Top.vals[1], ctl.val))
  /\ Silent /\ UNCHANGED <<scopes, heap>>

(* The left operand decides and skips the right one when it can.           *)
LogicLeft ==
  /\ AtValue(Logic) /\ Top.at = 1
  /\ IF ctl.val.kind = "Bool" /\ (Top.node.op = "and" <=> Truth(ctl.val))
     THEN NextOperand(ctl.val) /\ errors' = errors
     ELSE Deliver(IF ctl.val.kind = "Bool" THEN Ok(ctl.val) ELSE Err(BoolProblem))
  /\ Silent /\ UNCHANGED <<scopes, heap>>

LogicRight ==
  /\ AtValue(Logic) /\ Top.at = 2
  /\ Deliver(IF ctl.val.kind = "Bool" THEN Ok(ctl.val) ELSE Err(BoolProblem))
  /\ Silent /\ UNCHANGED <<scopes, heap>>

UnaryDone ==
  /\ AtValue(Unary)
  /\ Deliver(EvalUnary(Top.node.op, ctl.val))
  /\ Silent /\ UNCHANGED <<scopes, heap>>

FieldDone ==
  /\ AtValue({"field"})
  /\ Deliver(EvalFieldAccess(ctl.val, Top.node.name))
  /\ Silent /\ UNCHANGED <<scopes, heap>>

(* A null base is reported before the index expression is evaluated.       *)
IndexBase ==
  /\ AtValue({"index"}) /\ Top.at = 1
  /\ IF ctl.val.kind = "Array" THEN NextOperand(ctl.val) /\ errors' = errors
     ELSE Deliver(Err("Index access requires an array value"))
  /\ Silent /\ UNCHANGED <<scopes, heap>>

IndexDone ==
  /\ AtValue({"index"}) /\ Top.at = 2
  /\ Deliver(EvalIndex(Top.vals[1], ctl.val))
  /\ Silent /\ UNCHANGED <<scopes, heap>>

(* A slip the runs must catch: errors_ is not checked after an operand.    *)
OperandDoneUnchecked ==
  /\ AtValue({"call", "array", "struct"}) /\ Top.at <= Len(Top.node.args)
  /\ IF Top.at = Len(Top.node.args)
     THEN kont' = [kont EXCEPT ![Len(kont)].vals = Append(@, ctl.val)] /\ ctl' = Apply
     ELSE NextOperand(ctl.val)
  /\ Silent /\ UNCHANGED <<scopes, heap, errors>>

(* An argument, array element or field initialiser: errors_ is checked     *)
(* after each of them.                                                     *)
OperandDone ==
  /\ AtValue({"call", "array", "struct"}) /\ Top.at <= Len(Top.node.args)
  /\ LET v == Convert(ctl.val, OperandType(Top.node, Top.at))
     IN  IF HasError THEN Deliver(Ok(NullV))
         ELSE IF Top.at = Len(Top.node.args)
         THEN /\ kont' = [kont EXCEPT ![Len(kont)].vals = Append(@, v)]
              /\ ctl' = Apply /\ errors' = errors
         ELSE IF OperandProblem(Top.node, Top.at + 1) # ""
         THEN Deliver(Err(OperandProblem(Top.node, Top.at + 1)))
         ELSE NextOperand(v) /\ errors' = errors
  /\ Silent /\ UNCHANGED <<scopes, heap>>

(* The field values of a literal in declaration order, Null if not given.  *)
Initialised(frame) ==
  [i \in DOMAIN FieldsOf(frame.node.name) |->
     LET given == {j \in DOMAIN frame.node.fields : frame.node.fields[j] = FieldsOf(frame.node.name)[i].name}
     IN  IF given = {} THEN NullV ELSE frame.vals[CHOOSE j \in given : \A k \in given : k <= j]]

Allocate ==
  /\ ctl.do = "apply" /\ Top.node.op \in {"array", "struct"}
  /\ IF Top.node.op = "array"
     THEN heap' = Append(heap, Object("", Top.vals)) /\ Deliver(Ok(Value("Array", Len(heap) + 1)))
     ELSE heap' = Append(heap, Object(Top.node.name, Initialised(Top)))
          /\ Deliver(Ok(Value("Struct", Len(heap) + 1)))
  /\ Silent /\ UNCHANGED scopes

-----------------------------------------------------------------------------
(* A slip: a null string is printed.                                       *)
CallPrintOfNull ==
  /\ ctl.do = "apply" /\ Top.node.op = "call" /\ Top.node.name = kPrint
  /\ out' = Append(out, Top.vals[1]) /\ Deliver(Ok(IntV(0)))
  /\ UNCHANGED <<program, scopes, heap, result>>

(* callFunction.                                                           *)
CallPrint ==
  /\ ctl.do = "apply" /\ Top.node.op = "call" /\ Top.node.name = kPrint
  /\ IF Top.vals = <<>> THEN out' = out /\ Deliver(Err("Function expects 1 argument but got 0"))
     ELSE IF Top.vals[1].kind = "Null" THEN out' = out /\ Deliver(Err("Null string access"))
     ELSE out' = Append(out, Top.vals[1]) /\ Deliver(Ok(IntV(0)))
  /\ UNCHANGED <<program, scopes, heap, result>>

Callee(name) == program.funcs[name]
Duplicated(params) == \E i, j \in DOMAIN params : i # j /\ params[i].name = params[j].name

Parameters(params, vals) ==
  [x \in {params[i].name : i \in DOMAIN params} |->
     LET i == CHOOSE i \in DOMAIN params : params[i].name = x
     IN  Binding(Convert(vals[i], params[i].type), params[i].type, FALSE)]

CallProblem(name, vals) ==
  CASE name \notin DOMAIN program.funcs -> "Unknown function"
    [] name \in DOMAIN program.funcs ->
         IF Len(vals) # Len(Callee(name).params) THEN "Function expects other arguments"
         ELSE IF Duplicated(Callee(name).params) THEN "Duplicate declaration"
         ELSE ""

(* A slip: the scopes of the caller are dropped to isolate the callee.     *)
CallFunctionAlone ==
  /\ ctl.do = "apply" /\ Top.node.op = "call" /\ Top.node.name # kPrint
  /\ scopes' = <<Parameters(Callee(Top.node.name).params, Top.vals)>>
  /\ kont' = [kont EXCEPT ![Len(kont)].at = Len(Top.node.args) + 1]
  /\ ctl' = Exec(Callee(Top.node.name).body)
  /\ Silent /\ UNCHANGED <<heap, errors>>

(* Push a scope with the parameters and execute the body in it.            *)
CallFunction ==
  /\ ctl.do = "apply" /\ Top.node.op = "call" /\ Top.node.name # kPrint
  /\ LET problem == CallProblem(Top.node.name, Top.vals)
     IN  IF problem # "" THEN Deliver(Err(problem)) /\ scopes' = scopes
         ELSE /\ scopes' = Pushed(Parameters(Callee(Top.node.name).params, Top.vals))
              /\ kont' = [kont EXCEPT ![Len(kont)].at = Len(Top.node.args) + 1]
              /\ ctl' = Exec(Callee(Top.node.name).body)
              /\ errors' = errors
  /\ Silent /\ UNCHANGED heap

(* The body ended: pop the scope and convert what it returned.             *)
CallReturns ==
  /\ AtSignal({"call"})
  /\ scopes' = Popped
  /\ CASE ctl.sig = "Return" -> Deliver(Ok(Convert(ctl.val, Callee(Top.node.name).ret)))
       [] ctl.sig \in {"None", "Error"} -> Deliver(Ok(NullV))
       [] ctl.sig \in {"Break", "Continue"} -> Deliver(Err("Loop control used outside of loop"))
  /\ Silent /\ UNCHANGED heap

-----------------------------------------------------------------------------
(* executeStatement: a jump, a bare return, or the entry into the rest.    *)
Jumps ==
  /\ AtStmt({"break", "continue", "return"}) /\ ctl.node.args = <<>>
  /\ ctl' = Signals(CASE ctl.node.op = "break" -> "Break" [] ctl.node.op = "continue" -> "Continue"
                      [] ctl.node.op = "return" -> "Return", NullV)
  /\ Silent /\ UNCHANGED <<kont, scopes, heap, errors>>

EnterStatement ==
  /\ AtStmt(Loops \cup {"decl", "if", "return", "expr"}) /\ ctl.node.args # <<>>
  /\ kont' = Push(Frame(ctl.node, 1, 0))
  /\ ctl' = Eval(ctl.node.args[1])
  /\ Silent /\ UNCHANGED <<scopes, heap, errors>>

(* An assignment takes its Binding* before it evaluates anything.          *)
TargetProblem(node) ==
  LET slot == Slot(node.name)
      target == scopes[slot][node.name]
  IN  IF slot = 0 THEN "Unknown identifier"
      ELSE IF target.const THEN "Cannot assign to constant"
      ELSE IF node.op = "setindex" /\ target.val.kind # "Array"
      THEN "Index assignment target must be an array"
      ELSE ""

EnterAssignment ==
  /\ AtStmt({"assign", "setindex"})
  /\ LET problem == TargetProblem(ctl.node)
     IN  IF problem # ""
         THEN /\ ctl' = Signals("Error", NullV) /\ kont' = kont
              /\ errors' = Append(errors, problem)
         ELSE /\ kont' = Push(Frame(ctl.node, 1, Slot(ctl.node.name)))
              /\ ctl' = Eval(ctl.node.args[1]) /\ errors' = errors
  /\ Silent /\ UNCHANGED <<scopes, heap>>

EnterBlock ==
  /\ AtStmt({"block"})
  /\ scopes' = Pushed(<<>>)
  /\ kont' = Push(Frame(ctl.node, 0, 0))
  /\ ctl' = Signals("None", NullV)
  /\ Silent /\ UNCHANGED <<heap, errors>>

(* A statement of the block returned its signal.                           *)
BlockNext ==
  /\ AtSignal({"block"}) /\ ctl.sig = "None" /\ Top.at < Len(Top.node.args)
  /\ kont' = [kont EXCEPT ![Len(kont)].at = @ + 1]
  /\ ctl' = Exec(Top.node.args[Top.at + 1])
  /\ Silent /\ UNCHANGED <<scopes, heap, errors>>

(* A slip: an early return leaves the scope of the block behind.           *)
BlockEndsOnReturn ==
  /\ AtSignal({"block"}) /\ ~(ctl.sig = "None" /\ Top.at < Len(Top.node.args))
  /\ scopes' = IF ctl.sig = "Return" THEN scopes ELSE Popped
  /\ Leave(ctl)
  /\ Silent /\ UNCHANGED <<heap, errors>>

BlockEnds ==
  /\ AtSignal({"block"}) /\ ~(ctl.sig = "None" /\ Top.at < Len(Top.node.args))
  /\ scopes' = Popped
  /\ Leave(ctl)
  /\ Silent /\ UNCHANGED <<heap, errors>>

Declare(name, binding) ==
  [scopes EXCEPT ![Len(scopes)] = [x \in DOMAIN @ \cup {name} |-> IF x = name THEN binding ELSE @[x]]]

DeclarationDone ==
  /\ AtValue({"decl"})
  /\ LET decl == Top.node
     IN  IF HasError THEN Leave(Signals("Error", NullV)) /\ UNCHANGED <<scopes, errors>>
         ELSE IF decl.name \in DOMAIN scopes[Len(scopes)]
         THEN Abort("Duplicate declaration") /\ scopes' = scopes
         ELSE /\ scopes' = Declare(decl.name, Binding(Convert(ctl.val, decl.type), decl.type, decl.const))
              /\ Leave(Signals("None", NullV)) /\ errors' = errors
  /\ Silent /\ UNCHANGED heap

Outcome == Signals(IF HasError THEN "Error" ELSE "None", NullV)

(* The target is written through the Binding* even when errors_ is set.    *)
AssignmentDone ==
  /\ AtValue({"assign"})
  /\ scopes' = [scopes EXCEPT ![Top.slot][Top.node.name].val =
                  Convert(ctl.val, scopes[Top.slot][Top.node.name].type)]
  /\ Leave(Outcome)
  /\ Silent /\ UNCHANGED <<heap, errors>>

(* The index is checked, and the elements of the array are found through   *)
(* the Binding*, before the value is evaluated.                            *)
SetIndexChecked ==
  /\ AtValue({"setindex"}) /\ Top.at = 1
  /\ LET target == scopes[Top.slot][Top.node.name].val
         problem == IndexProblem(ctl.val, Len(heap[target.n].vals))
     IN  IF problem # <<>> THEN Abort(problem[1])
         ELSE /\ kont' = [kont EXCEPT ![Len(kont)].at = 2, ![Len(kont)].vals = <<ctl.val, target>>]
              /\ ctl' = Eval(Top.node.args[2]) /\ errors' = errors
  /\ Silent /\ UNCHANGED <<scopes, heap>>

SetIndexDone ==
  /\ AtValue({"setindex"}) /\ Top.at = 2
  /\ heap' = [heap EXCEPT ![Top.vals[2].n].vals[Top.vals[1].n + 1] = Convert(ctl.val, Top.node.type)]
  /\ Leave(Outcome)
  /\ Silent /\ UNCHANGED <<scopes, errors>>

(* The chosen branch is executed in the scope the if stands in.            *)
IfDecides ==
  /\ AtValue({"if"})
  /\ LET branch == IF Truth(ctl.val) THEN 2 ELSE 3
     IN  IF ctl.val.kind # "Bool" THEN Abort(BoolProblem)
         ELSE /\ errors' = errors
              /\ IF branch <= Len(Top.node.args) THEN Leave(Exec(Top.node.args[branch]))
                 ELSE Leave(Signals("None", NullV))
  /\ Silent /\ UNCHANGED <<scopes, heap>>

LoopDecides ==
  /\ AtValue(Loops)
  /\ IF ctl.val.kind # "Bool" THEN Abort(BoolProblem)
     ELSE /\ errors' = errors
          /\ IF ~Truth(ctl.val) THEN Leave(Signals("None", NullV))
             ELSE kont' = [kont EXCEPT ![Len(kont)].at = 2] /\ ctl' = Exec(Top.node.args[2])
  /\ Silent /\ UNCHANGED <<scopes, heap>>

(* A slip: break is taken for continue.                                    *)
LoopBodyGoesOn ==
  /\ AtSignal(Loops)
  /\ IF ctl.sig \in {"Return", "Error"} THEN Leave(ctl)
     ELSE kont' = [kont EXCEPT ![Len(kont)].at = 1] /\ ctl' = Eval(Top.node.args[1])
  /\ Silent /\ UNCHANGED <<scopes, heap, errors>>

LoopBodyDone ==
  /\ AtSignal(Loops)
  /\ CASE ctl.sig \in {"None", "Continue"} ->
            kont' = [kont EXCEPT ![Len(kont)].at = 1] /\ ctl' = Eval(Top.node.args[1])
       [] ctl.sig = "Break" -> Leave(Signals("None", NullV))
       [] ctl.sig \in {"Return", "Error"} -> Leave(ctl)
  /\ Silent /\ UNCHANGED <<scopes, heap, errors>>

(* return does not look at errors_: the caller does.                       *)
ReturnDone ==
  /\ AtValue({"return"})
  /\ Leave(Signals("Return", ctl.val))
  /\ Silent /\ UNCHANGED <<scopes, heap, errors>>

ExpressionDone ==
  /\ AtValue({"expr"})
  /\ Leave(Outcome)
  /\ Silent /\ UNCHANGED <<scopes, heap, errors>>

Next ==
  \/ Start \/ Finish
  \/ EvalLiteral \/ EvalIdentifier \/ EvalMinLiteral \/ EnterExpression
  \/ LeftOperand \/ BinaryDone \/ LogicLeft \/ LogicRight \/ UnaryDone \/ FieldDone
  \/ IndexBase \/ IndexDone \/ OperandDone \/ Allocate
  \/ CallPrint \/ CallFunction \/ CallReturns
  \/ Jumps \/ EnterStatement \/ EnterAssignment \/ EnterBlock \/ BlockNext \/ BlockEnds
  \/ DeclarationDone \/ AssignmentDone \/ SetIndexChecked \/ SetIndexDone
  \/ IfDecides \/ LoopDecides \/ LoopBodyDone \/ ReturnDone \/ ExpressionDone

Spec == Init /\ [][Next]_vars

(* The interpreter runs in one thread and waits for nothing.               *)
FairSpec == Spec /\ WF_vars(Next)

-----------------------------------------------------------------------------
FrameOK(frame) ==
  /\ frame.node.op \in Expressions \cup Statements
  /\ frame.at \in 0..Len(frame.node.args) + 1
  /\ frame.vals \in Seq(Values)
  /\ frame.slot \in Nat

BindingOK(binding) == binding.val \in Values /\ binding.const \in BOOLEAN

(* The values the interpreter's state may take: above all, every integer   *)
(* it holds is an int64_t, so no operation has wrapped around, and the     *)
(* exit status fits in 32 bits.                                            *)
TypeOK ==
  /\ ctl.do \in {"start", "eval", "exec", "apply", "value", "signal"}
  /\ ctl.do = "eval" => ctl.node.op \in Expressions
  /\ ctl.do = "exec" => ctl.node.op \in Statements
  /\ ctl.val \in Values
  /\ ctl.sig \in {"None", "Return", "Break", "Continue", "Error"}
  /\ \A i \in DOMAIN kont : FrameOK(kont[i])
  /\ \A i \in DOMAIN scopes : \A x \in DOMAIN scopes[i] : x \in STRING /\ BindingOK(scopes[i][x])
  /\ \A i \in DOMAIN heap : heap[i].vals \in Seq(Values)
  /\ Len(errors) \in Nat
  /\ out \in Seq(Values)
  /\ result \in [done : BOOLEAN, success : BOOLEAN, exit : Int]
  /\ result.exit \in -ExitHalf..ExitHalf - 1

(* The scopes on scopes_ are those of the active blocks and calls: every   *)
(* exit from executeBlock and callFunction (a return, break or continue    *)
(* out of nested blocks, an error anywhere) pops exactly what it pushed.   *)
OwnsScope(frame) ==
  \/ frame.node.op = "block"
  \/ frame.node.op = "call" /\ frame.at > Len(frame.node.args)

OwnedUpTo(k) == Cardinality({i \in 1..k : OwnsScope(kont[i])})

ScopesBalanced == Len(scopes) = OwnedUpTo(Len(kont))

(* Once an error has been reported nothing more is printed, although the   *)
(* other operands, calls and statements up to run() are still evaluated.   *)
SilentAfterFault == [][HasError => out' = out]_vars

(* A run that reported an error, however deep in an expression and however *)
(* many values were delivered after it, fails with status 1; a run without *)
(* errors succeeds.                                                        *)
FailureReported ==
  result.done => (result.success <=> ~HasError) /\ (HasError => result.exit = 1)

(* A Binding* that an assignment holds across the evaluation of its value  *)
(* still points to a live binding of its name, which no call made by the   *)
(* value has removed.                                                      *)
HeldBindingsLive ==
  \A k \in DOMAIN kont :
    kont[k].node.op \in {"assign", "setindex"} =>
      /\ kont[k].slot \in DOMAIN scopes
      /\ kont[k].slot <= OwnedUpTo(k)
      /\ kont[k].node.name \in DOMAIN scopes[kont[k].slot]
=============================================================================
