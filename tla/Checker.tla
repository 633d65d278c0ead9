------------------------------- MODULE Checker -------------------------------
(***************************************************************************)
(* The type checker of src/typing/checker.cpp over the AST of Lang.  Typed *)
(* and CheckStatement return the node with the types the C++ checker       *)
(* stores in it; a failed check has type NoType (a nullptr TypePtr) or ok  *)
(* FALSE.  The C++ checker goes on after an error to report more of them;  *)
(* here only whether the program is accepted counts.                       *)
(* An environment: scopes (name to type and const), the program's structs, *)
(* the return type of the current function and the loop depth.             *)
(***************************************************************************)
EXTENDS Lang

LOCAL INSTANCE SequencesExt

isArithmeticOperandKind(kind) == kind \in {"Int", "Float", "Char"}

isNullableType(type) ==
  type.kind \in {"String", "Array", "Sum"} \/ (type.kind = "Product" /\ type.name = "")

arithmeticResultType(l, r) ==
  IF ~(isArithmeticOperandKind(l.kind) /\ isArithmeticOperandKind(r.kind)) THEN NoType
  ELSE IF "Float" \in {l.kind, r.kind} THEN FloatType ELSE IntType

canImplicitlyConvert(from, to) ==
  /\ NoType \notin {from, to}
  /\ \/ from = to
     \/ from.kind = "Bool" /\ to.kind = "Int"
     \/ from.kind = "Char" /\ to.kind \in {"Int", "Float"}
     \/ from.kind = "Int" /\ to.kind = "Float"
     \/ from.kind = "Null" /\ isNullableType(to)
     \/ to.kind = "Sum" /\ \E i \in DOMAIN to.of : to.of[i] = from

-----------------------------------------------------------------------------
(* ScopeStack: the innermost declaration wins; the global scope holds the  *)
(* builtins and the functions.                                             *)
Declared(type, const) == [type |-> type, const |-> const]

Lookup(scopes, name) ==
  LET found == {i \in DOMAIN scopes : name \in DOMAIN scopes[i]}
  IN  IF found = {} THEN Declared(NoType, FALSE)
      ELSE scopes[CHOOSE i \in found : \A j \in found : j <= i][name]

InScope(scopes, name, entry) ==
  [scopes EXCEPT ![Len(scopes)] = [x \in DOMAIN @ \cup {name} |-> IF x = name THEN entry ELSE @[x]]]

Env(scopes, structs, ret, depth) ==
  [scopes |-> scopes, structs |-> structs, ret |-> ret, loopDepth |-> depth]

SignatureOf(fn) == FunctionType([i \in DOMAIN fn.params |-> fn.params[i].type], fn.ret)
ParametersOf(type) == SubSeq(type.of, 1, Len(type.of) - 1)
ResultOf(type) == type.of[Len(type.of)]

GlobalScope(funcs) ==
  [f \in DOMAIN funcs \cup {kPrint} |->
     Declared(IF f = kPrint THEN FunctionType(<<StringType>>, IntType) ELSE SignatureOf(funcs[f]), FALSE)]

-----------------------------------------------------------------------------
(* The type of a binary expression, from the types of its operands.        *)
Comparable(l, r) ==
  /\ {l.kind, r.kind} \cap {"Product", "Sum", "Function"} = {}
  /\ \/ arithmeticResultType(l, r) # NoType
     \/ canImplicitlyConvert(l, r) /\ canImplicitlyConvert(r, l)
     \/ l.kind = "Null" /\ isNullableType(r)
     \/ r.kind = "Null" /\ isNullableType(l)

BinaryType(op, l, r) ==
  CASE NoType \in {l, r} -> NoType
    [] NoType \notin {l, r} /\ op \in Arithmetic -> arithmeticResultType(l, r)
    [] NoType \notin {l, r} /\ op \in Logic ->
         IF l.kind = "Bool" /\ r.kind = "Bool" THEN BoolType ELSE NoType
    [] NoType \notin {l, r} /\ op \in Equality -> IF Comparable(l, r) THEN BoolType ELSE NoType
    [] NoType \notin {l, r} /\ op \in Comparison ->
         IF arithmeticResultType(l, r) # NoType THEN BoolType ELSE NoType

UnaryType(op, type) ==
  CASE op = "not" -> IF type.kind = "Bool" THEN BoolType ELSE NoType
    [] op = "neg" -> IF ~isArithmeticOperandKind(type.kind) THEN NoType
                     ELSE IF type.kind = "Float" THEN FloatType ELSE IntType

(* A numeric literal must fit; the lexer gives only non-negative ones.     *)
LiteralType(lit) ==
  IF lit.kind = "Int" /\ lit.n > INT64_MAX THEN NoType ELSE Primitive(lit.kind)

FieldType(structs, base, field) ==
  CASE base.kind = "Array" /\ field = Length -> IntType
    [] base.kind = "Product" /\ base.name \in DOMAIN structs ->
         LET decl == structs[base.name]
             at == {i \in DOMAIN decl : decl[i].name = field}
         IN  IF at = {} THEN NoType ELSE decl[CHOOSE i \in at : TRUE].type
    [] OTHER -> NoType

(* A slip the runs must catch: any numeric index is accepted.              *)
IndexTypeAnyNumber(base, index) ==
  IF base.kind = "Array" /\ index.kind \in {"Int", "Float", "Bool"} THEN base.of[1] ELSE NoType

IndexType(base, index) ==
  IF base.kind = "Array" /\ index.kind \in {"Int", "Char", "Bool"} THEN base.of[1] ELSE NoType

CallType(callee, args) ==
  IF /\ callee.kind = "Function"
     /\ Len(args) = Len(ParametersOf(callee))
     /\ \A i \in DOMAIN args : canImplicitlyConvert(args[i], ParametersOf(callee)[i])
  THEN ResultOf(callee) ELSE NoType

(* checkArrayLiteral: the element type joined from the left.               *)
JoinElement(element, next) ==
  CASE NoType \in {element, next} -> NoType
    [] NoType \notin {element, next} ->
         IF element = next THEN element
         ELSE IF arithmeticResultType(element, next) # NoType THEN arithmeticResultType(element, next)
         ELSE IF canImplicitlyConvert(next, element) THEN element
         ELSE IF canImplicitlyConvert(element, next) THEN next
         ELSE NoType

ArrayType(elements) ==
  IF elements = <<>> THEN NoType
  ELSE LET joined == FoldLeft(JoinElement, Head(elements), Tail(elements))
       IN  IF \A i \in DOMAIN elements : canImplicitlyConvert(elements[i], joined)
           THEN ArrayOf(joined) ELSE NoType

(* checkStructLiteral: every field exactly once, none unknown.             *)
StructType(structs, name, fields, inits) ==
  IF /\ name \in DOMAIN structs
     /\ Len(fields) = Len(structs[name])
     /\ {fields[i] : i \in DOMAIN fields} = {structs[name][i].name : i \in DOMAIN structs[name]}
     /\ \A i \in DOMAIN fields :
          \E j \in DOMAIN structs[name] :
            structs[name][j].name = fields[i] /\ canImplicitlyConvert(inits[i], structs[name][j].type)
  THEN ProductType(structs, name) ELSE NoType

(* checkExpression.                                                        *)
RECURSIVE Typed(_, _)
Typed(expr, env) ==
  LET args == [i \in DOMAIN expr.args |-> Typed(expr.args[i], env)]
      types == [i \in DOMAIN args |-> args[i].type]
      type ==
        CASE expr.op = "lit" -> LiteralType(expr.lit)
          [] expr.op = "var" -> Lookup(env.scopes, expr.name).type
          [] expr.op \in Strict \cup Logic -> BinaryType(expr.op, types[1], types[2])
          [] expr.op \in Unary -> IF IsMinLiteral(expr) THEN IntType ELSE UnaryType(expr.op, types[1])
          [] expr.op = "field" -> FieldType(env.structs, types[1], expr.name)
          [] expr.op = "index" -> IndexType(types[1], types[2])
          [] expr.op = "call" -> CallType(Lookup(env.scopes, expr.name).type, types)
          [] expr.op = "array" -> ArrayType(types)
          [] expr.op = "struct" -> StructType(env.structs, expr.name, expr.fields, types)
  IN  [expr EXCEPT !.args = args, !.type = type]

-----------------------------------------------------------------------------
(* What a statement check yields: whether it passed, the annotated node    *)
(* and the scopes after it.                                                *)
Passed(ok, node, scopes) == [ok |-> ok, node |-> node, scopes |-> scopes]

CheckDeclaration(stmt, env) ==
  LET init == Typed(stmt.args[1], env)
      declared == IF stmt.type = NoType THEN init.type ELSE stmt.type
      ok == /\ canImplicitlyConvert(init.type, declared)
            /\ stmt.name \notin DOMAIN env.scopes[Len(env.scopes)]
  IN  Passed(ok, [stmt EXCEPT !.args = <<init>>, !.type = declared],
             InScope(env.scopes, stmt.name, Declared(declared, stmt.const)))

CheckAssignment(stmt, env) ==
  LET target == Lookup(env.scopes, stmt.name)
      value == Typed(stmt.args[1], env)
  IN  Passed(~target.const /\ canImplicitlyConvert(value.type, target.type),
             [stmt EXCEPT !.args = <<value>>], env.scopes)

CheckIndexAssignment(stmt, env) ==
  LET target == Lookup(env.scopes, stmt.name)
      index == Typed(stmt.args[1], env)
      value == Typed(stmt.args[2], env)
      element == IndexType(target.type, index.type)
  IN  Passed(~target.const /\ canImplicitlyConvert(value.type, element),
             [stmt EXCEPT !.args = <<index, value>>, !.type = element], env.scopes)

CheckReturn(stmt, env) ==
  LET values == [i \in DOMAIN stmt.args |-> Typed(stmt.args[i], env)]
      type == IF values = <<>> THEN NullType ELSE values[1].type
  IN  Passed(canImplicitlyConvert(type, env.ret), [stmt EXCEPT !.args = values], env.scopes)

InLoop(env) == [env EXCEPT !.loopDepth = @ + 1]

(* A branch that is not a block is checked in, and declares into, the      *)
(* scope the statement stands in; a block opens a scope of its own.        *)
RECURSIVE CheckStatement(_, _)
CheckStatement(stmt, env) ==
  LET cond == Typed(stmt.args[1], env)
      Then(inner, before, children) ==
        FoldLeft(LAMBDA acc, s :
                   LET checked == CheckStatement(s, [inner EXCEPT !.scopes = acc.scopes])
                   IN  Passed(acc.ok /\ checked.ok,
                              [acc.node EXCEPT !.args = Append(@, checked.node)], checked.scopes),
                 before, children)
      Guarded(inner) ==
        Then(inner, Passed(cond.type.kind = "Bool", [stmt EXCEPT !.args = <<cond>>], env.scopes),
             Tail(stmt.args))
  IN  CASE stmt.op = "decl" -> CheckDeclaration(stmt, env)
        [] stmt.op = "assign" -> CheckAssignment(stmt, env)
        [] stmt.op = "setindex" -> CheckIndexAssignment(stmt, env)
        [] stmt.op = "if" -> Guarded(env)
        [] stmt.op \in Loops -> Guarded(InLoop(env))
        [] stmt.op = "return" -> CheckReturn(stmt, env)
        [] stmt.op \in {"break", "continue"} -> Passed(env.loopDepth > 0, stmt, env.scopes)
        [] stmt.op = "expr" -> Passed(cond.type # NoType, [stmt EXCEPT !.args = <<cond>>], env.scopes)
        [] stmt.op = "block" ->
             [Then(env, Passed(TRUE, [stmt EXCEPT !.args = <<>>], Append(env.scopes, <<>>)), stmt.args)
                EXCEPT !.scopes = env.scopes]

RECURSIVE AlwaysReturns(_)
AlwaysReturns(stmt) ==
  \/ stmt.op = "return"
  \/ stmt.op = "block" /\ \E i \in DOMAIN stmt.args : AlwaysReturns(stmt.args[i])
  \/ /\ stmt.op = "if" /\ Len(stmt.args) = 3
     /\ AlwaysReturns(stmt.args[2]) /\ AlwaysReturns(stmt.args[3])

(* checkFunction: the parameters have a scope of their own around the body.*)
CheckFunction(program, fn) ==
  LET scope == [x \in {fn.params[i].name : i \in DOMAIN fn.params} |->
                  Declared((CHOOSE p \in {fn.params[i] : i \in DOMAIN fn.params} : p.name = x).type, FALSE)]
      env == Env(<<GlobalScope(program.funcs), scope>>, program.structs, fn.ret, 0)
      body == CheckStatement(fn.body, env)
      distinct == Cardinality(DOMAIN scope) = Len(fn.params)
  IN  Passed(body.ok /\ distinct /\ (fn.ret.kind = "Null" \/ AlwaysReturns(fn.body)),
             [fn EXCEPT !.body = body.node], <<>>)

EntryFits(fn) == fn.params = <<>> /\ fn.ret.kind \in {"Int", "Bool", "Null"}

(* TypeChecker::check, and the program with its types stored in it.        *)
Checked(program) ==
  [program EXCEPT !.funcs = [f \in DOMAIN @ |-> CheckFunction(program, @[f]).node]]

Accepts(program) ==
  /\ kPrint \notin DOMAIN program.funcs
  /\ kEntry \in DOMAIN program.funcs => EntryFits(program.funcs[kEntry])
  /\ \A f \in DOMAIN program.funcs : CheckFunction(program, program.funcs[f]).ok
=============================================================================
