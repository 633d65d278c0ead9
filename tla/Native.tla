------------------------------- MODULE Native -------------------------------
(***************************************************************************)
(* What the native binary of a program does: the meaning of the code that  *)
(* src/codegen/codegen.cpp emits for each node, run to its end.  The code  *)
(* generator resolves names to allocas when it compiles, so an activation  *)
(* has its own scopes; a guard that fails ends the process with status 1.  *)
(* Running threads a machine state m: halt ("" while running, "exit" after *)
(* a failed guard, "undefined" after a read of an alloca never stored to,  *)
(* "long" when the bound Fuel on calls and loop rounds is used up), the    *)
(* value of the last expression, the pending jump, the scopes of the       *)
(* activation, the malloc'ed objects and the lines printed.                *)
(***************************************************************************)
EXTENDS Lang

LOCAL INSTANCE SequencesExt

CONSTANT Fuel

Machine(program) ==
  [program |-> program, halt |-> "", val |-> NullV, jump |-> "", scopes |-> <<>>,
   heap |-> <<>>, out |-> <<>>, fuel |-> Fuel]

Live(m) == m.halt = ""
Halt(m, why) == [m EXCEPT !.halt = why]
Yield(m, val) == [m EXCEPT !.val = val]

(* emitGuard: continue with m if the condition holds, else exit(1).        *)
Guard(valid, m, next) == IF valid THEN next ELSE Halt(m, "exit")

Uninitialised == Value("Uninitialised", 0)

(* The alloca a name stands for, or the function of that name.             *)
Load(m, name) ==
  LET found == {i \in DOMAIN m.scopes : name \in DOMAIN m.scopes[i]}
      val == m.scopes[CHOOSE i \in found : \A j \in found : j <= i][name].val
  IN  IF found = {} THEN Yield(m, Value("Function", 0))
      ELSE IF val = Uninitialised THEN Halt(m, "undefined")
      ELSE Yield(m, val)

Store(m, name, val) ==
  LET slot == CHOOSE i \in DOMAIN m.scopes :
                /\ name \in DOMAIN m.scopes[i]
                /\ \A j \in DOMAIN m.scopes : name \in DOMAIN m.scopes[j] => j <= i
  IN  [m EXCEPT !.scopes[slot][name].val = Convert(val, m.scopes[slot][name].type)]

Define(m, name, type, val) ==
  LET alloca == [type |-> type, val |-> val]
  IN  [m EXCEPT !.scopes[Len(m.scopes)] =
         [x \in DOMAIN @ \cup {name} |-> IF x = name THEN alloca ELSE @[x]]]

Alloc(m, kind, struct, vals) ==
  Yield([m EXCEPT !.heap = Append(@, [struct |-> struct, vals |-> vals])],
        Value(kind, Len(m.heap) + 1))

-----------------------------------------------------------------------------
(* Operators on two loaded values.  Integers go through the overflow       *)
(* intrinsics, which compare with the exact result.                        *)
CheckedInteger(op, m, a, b) ==
  LET exact == CASE op = "add" -> a + b [] op = "sub" -> a - b [] op = "mul" -> a * b
                 [] op = "div" -> IF b = 0 THEN 0 ELSE Quotient(a, b)
  IN  Guard(~(op = "div" /\ b = 0), m, Guard(exact \in Int64, m, Yield(m, IntV(exact))))

EmitArithmetic(op, m, l, r) ==
  IF "Float" \notin {l.kind, r.kind} THEN CheckedInteger(op, m, l.n, r.n)
  ELSE CASE op = "add" -> Yield(m, FloatSum(l, r, 1))
         [] op = "sub" -> Yield(m, FloatSum(l, r, -1))
         [] op = "mul" -> Yield(m, FloatProduct(l, r))
         [] op = "div" -> Guard(r.n # 0, m, Yield(m, FloatQuotient(l, r)))

(* Pointers (null included) are equal as addresses, strings by strcmp,     *)
(* numbers after promotion.                                                *)
Pointers == {"String", "Array", "Null"}

EmitEqual(l, r) == IF {l.kind, r.kind} \subseteq Pointers THEN l = r ELSE SameNumber(l, r)

EmitComparison(op, l, r) ==
  CASE op = "eq" -> EmitEqual(l, r) [] op = "ne" -> ~EmitEqual(l, r)
    [] op = "lt" -> LessThan(l, r) [] op = "le" -> ~LessThan(r, l)
    [] op = "gt" -> LessThan(r, l) [] op = "ge" -> ~LessThan(l, r)

EmitBinary(op, m, l, r) ==
  IF op \in Arithmetic THEN EmitArithmetic(op, m, l, r)
  ELSE Yield(m, BoolV(EmitComparison(op, l, r)))

EmitUnary(op, m) ==
  CASE op = "not" -> Yield(m, BoolV(m.val.n = 0))
    [] op = "neg" /\ m.val.kind = "Float" -> Yield(m, FloatV(-m.val.n, m.val.d))
    [] op = "neg" /\ m.val.kind # "Float" -> CheckedInteger("sub", m, 0, m.val.n)

(* emitFieldAccessExpr: the length of an array, or an extracted field.     *)
EmitField(m, name) ==
  IF m.val.kind = "Struct"
  THEN LET object == m.heap[m.val.n]
           decl == m.program.structs[object.struct]
       IN  Yield(m, object.vals[CHOOSE i \in DOMAIN decl : decl[i].name = name])
  ELSE Guard(m.val.kind # "Null", m, Yield(m, IntV(Len(m.heap[m.val.n].vals))))

InBounds(m, array, index) == 0 <= index.n /\ index.n < Len(m.heap[array.n].vals)

(* The names whose alloca codegen defines in the enclosing scope when it   *)
(* compiles a branch that is not a block, executed or not.                 *)
RECURSIVE Declares(_)
Declares(stmt) ==
  CASE stmt.op = "decl" -> {[name |-> stmt.name, type |-> stmt.type]}
    [] stmt.op \in {"if"} \cup Loops -> UNION {Declares(stmt.args[i]) : i \in 2..Len(stmt.args)}
    [] OTHER -> {}

Reserve(m, stmt) ==
  LET missing == {v \in Declares(stmt) : v.name \notin DOMAIN m.scopes[Len(m.scopes)]}
  IN  FoldLeft(LAMBDA acc, v : Define(acc, v.name, v.type, Uninitialised), m, SetToSeq(missing))

-----------------------------------------------------------------------------
(* Code after a call of exit is not reached, nor code after a jump in the  *)
(* same block: emitBlock stops there.                                      *)
Then(m, Next(_)) == IF Live(m) THEN Next(m) ELSE m
Proceed(m, Next(_)) == IF Live(m) /\ m.jump = "" THEN Next(m) ELSE m

RECURSIVE Run(_, _)

(* Operands from left to right, then what is done with their values.       *)
Operands(m, exprs, Next(_, _)) ==
  LET Step(acc, e) ==
        LET after == Then(acc.m, LAMBDA live : Run(live, e))
        IN  [m |-> after, vals |-> Append(acc.vals, after.val)]
      Finally(done) == Then(done.m, LAMBDA live : Next(live, done.vals))
  IN  Finally(FoldLeft(Step, [m |-> m, vals |-> <<>>], exprs))

RunBinary(m, expr) ==
  Operands(m, expr.args, LAMBDA live, vals : EmitBinary(expr.op, live, vals[1], vals[2]))

RunLogic(m, expr) ==
  Then(Run(m, expr.args[1]),
       LAMBDA left : IF left.val = BoolV(expr.op = "or") THEN left ELSE Run(left, expr.args[2]))

RunUnary(m, expr) ==
  IF IsMinLiteral(expr) THEN Yield(m, IntV(INT64_MIN))
  ELSE Then(Run(m, expr.args[1]), LAMBDA live : EmitUnary(expr.op, live))

(* The base is tested for null before the index is evaluated, the bounds   *)
(* after.                                                                  *)
AtElement(m, index, array, Next(_, _)) ==
  Guard(array.kind # "Null", m,
        Then(Run(m, index), LAMBDA live : Guard(InBounds(live, array, live.val), live,
                                                Next(live, live.val.n + 1))))

RunIndex(m, expr) ==
  Then(Run(m, expr.args[1]),
       LAMBDA base : AtElement(base, expr.args[2], base.val,
                       LAMBDA live, at : Yield(live, live.heap[base.val.n].vals[at])))

RunArray(m, expr) ==
  Operands(m, expr.args,
           LAMBDA live, vals : Alloc(live, "Array", "",
             [i \in DOMAIN vals |-> Convert(vals[i], expr.type.of[1])]))

(* emitStructLiteral goes through the fields of the declaration.           *)
RunStruct(m, expr) ==
  LET decl == m.program.structs[expr.name]
      init == [i \in DOMAIN decl |->
                 expr.args[CHOOSE j \in DOMAIN expr.fields : expr.fields[j] = decl[i].name]]
  IN  Operands(m, init,
               LAMBDA live, vals : Alloc(live, "Struct", expr.name,
                 [i \in DOMAIN vals |-> Convert(vals[i], decl[i].type)]))

(* A call of an emitted function: its parameters are stored in allocas,    *)
(* and falling off the end returns a zero value.                           *)
CallEmitted(m, fn, vals) ==
  LET params == [x \in {fn.params[i].name : i \in DOMAIN fn.params} |->
                   LET i == CHOOSE i \in DOMAIN fn.params : fn.params[i].name = x
                   IN  [type |-> fn.params[i].type, val |-> Convert(vals[i], fn.params[i].type)]]
      Returned(end) == IF end.jump = "return" THEN Convert(end.val, fn.ret) ELSE NullV
  IN  IF m.fuel = 0 THEN Halt(m, "long")
      ELSE Then(Run([m EXCEPT !.scopes = <<params>>, !.fuel = @ - 1], fn.body),
                LAMBDA end : Yield([end EXCEPT !.scopes = m.scopes, !.jump = ""], Returned(end)))

(* definePrintFunction.                                                    *)
CallPrintFunction(m, text) ==
  Guard(text.kind # "Null", m, Yield([m EXCEPT !.out = Append(@, text)], IntV(0)))

RunCall(m, expr) ==
  Operands(m, expr.args,
           LAMBDA live, vals : IF expr.name = kPrint THEN CallPrintFunction(live, vals[1])
                               ELSE CallEmitted(live, m.program.funcs[expr.name], vals))

-----------------------------------------------------------------------------
(* Statements.  The scopes of a block exist in the compiler only.          *)
RunBlock(m, stmt) ==
  LET Step(acc, s) == Proceed(acc, LAMBDA live : Run(live, s))
      end == FoldLeft(Step, [m EXCEPT !.scopes = Append(@, <<>>)], stmt.args)
  IN  [end EXCEPT !.scopes = SubSeq(@, 1, Len(m.scopes))]

RunDeclaration(m, stmt) ==
  Then(Run(m, stmt.args[1]),
       LAMBDA live : Define(live, stmt.name, stmt.type, Convert(live.val, stmt.type)))

RunAssignment(m, stmt) ==
  Then(Run(m, stmt.args[1]), LAMBDA live : Store(live, stmt.name, live.val))

RunSetIndex(m, stmt) ==
  Then(Load(m, stmt.name),
       LAMBDA base : AtElement(base, stmt.args[1], base.val,
         LAMBDA index, at : Then(Run(index, stmt.args[2]),
           LAMBDA live : [live EXCEPT !.heap[base.val.n].vals[at] = Convert(live.val, stmt.type)])))

Branch(stmt, val) == IF val = BoolV(TRUE) THEN 2 ELSE 3

RunIf(m, stmt) ==
  Then(Run(m, stmt.args[1]),
       LAMBDA cond : Reserve(IF Branch(stmt, cond.val) <= Len(stmt.args)
                             THEN Run(cond, stmt.args[Branch(stmt, cond.val)]) ELSE cond, stmt))

(* After the body the loop is run again, unless the body left it.          *)
RunLoop(m, stmt) ==
  LET Again(body) == CASE body.jump = "return" -> body
                       [] body.jump = "break" -> [body EXCEPT !.jump = ""]
                       [] body.jump \in {"", "continue"} -> Run([body EXCEPT !.jump = ""], stmt)
  IN  Then(Run(m, stmt.args[1]),
           LAMBDA cond : IF cond.val = BoolV(FALSE) THEN Reserve(cond, stmt)
                         ELSE IF cond.fuel = 0 THEN Halt(cond, "long")
                         ELSE Then(Run([cond EXCEPT !.fuel = @ - 1], stmt.args[2]), Again))

RunReturn(m, stmt) ==
  Operands(m, stmt.args,
           LAMBDA live, vals : [Yield(live, IF vals = <<>> THEN NullV ELSE vals[1])
                                  EXCEPT !.jump = "return"])

(* emitExpression and emitStatement.                                       *)
Run(m, node) ==
  CASE node.op = "lit" -> Yield(m, node.lit)
    [] node.op = "var" -> Load(m, node.name)
    [] node.op \in Strict -> RunBinary(m, node)
    [] node.op \in Logic -> RunLogic(m, node)
    [] node.op \in Unary -> RunUnary(m, node)
    [] node.op = "field" -> Then(Run(m, node.args[1]), LAMBDA live : EmitField(live, node.name))
    [] node.op = "index" -> RunIndex(m, node)
    [] node.op = "array" -> RunArray(m, node)
    [] node.op = "struct" -> RunStruct(m, node)
    [] node.op = "call" -> RunCall(m, node)
    [] node.op = "block" -> RunBlock(m, node)
    [] node.op = "decl" -> RunDeclaration(m, node)
    [] node.op = "assign" -> RunAssignment(m, node)
    [] node.op = "setindex" -> RunSetIndex(m, node)
    [] node.op = "if" -> RunIf(m, node)
    [] node.op \in Loops -> RunLoop(m, node)
    [] node.op = "return" -> RunReturn(m, node)
    [] node.op \in {"break", "continue"} -> [m EXCEPT !.jump = node.op]
    [] node.op = "expr" -> Run(m, node.args[1])

-----------------------------------------------------------------------------
(* What the user of the binary sees.  Without an entry function there is   *)
(* no binary: the compiler reports an error.                               *)
Seen(halt, exit, lines) == [halt |-> halt, exit |-> exit, out |-> lines]

NativeRun(program) ==
  LET main == Run(Machine(program), Call(kEntry, <<>>))
  IN  IF kEntry \notin DOMAIN program.funcs THEN Seen("exit", 1, <<>>)
      ELSE IF ~Live(main) THEN Seen(main.halt, 1, main.out)
      ELSE Seen("", IF main.val.kind \in {"Int", "Bool"} THEN ExitCode(main.val.n) ELSE 0, main.out)
=============================================================================
