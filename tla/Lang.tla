-------------------------------- MODULE Lang --------------------------------
(***************************************************************************)
(* What the type checker, the interpreter and the code generator share:    *)
(* the AST (src/ast), the checked types (src/typing/types) and the values. *)
(* Every AST node is a record of one shape; the fields its kind does not   *)
(* use keep their blank value.  A source location is left out.             *)
(***************************************************************************)
EXTENDS Numeric, Sequences, FiniteSets

(* typing::Type: a kind, a name for Product, components in "of" (element,  *)
(* members, variants, or parameters followed by the result).  typeEquals   *)
(* is structural, so it is equality of these records.                      *)
Type(kind, name, of) == [kind |-> kind, name |-> name, of |-> of]
Primitive(kind) == Type(kind, "", <<>>)
ArrayOf(element) == Type("Array", "", <<element>>)
FunctionType(params, ret) == Type("Function", "", Append(params, ret))
NoType == Primitive("nullptr")
IntType == Primitive("Int")
BoolType == Primitive("Bool")
FloatType == Primitive("Float")
StringType == Primitive("String")
NullType == Primitive("Null")

(* interp::Value.  n is the integer, the boolean (0 or 1), the identity of *)
(* a string's text, the numerator of a double, or the shared_ptr of an     *)
(* array or struct; d is the denominator of a double.  A double is an      *)
(* exact rational: rounding, infinities and NaN are left out.              *)
Value(kind, n) == [kind |-> kind, n |-> n, d |-> 1]
IntV(n) == Value("Int", n)
BoolV(b) == Value("Bool", IF b THEN 1 ELSE 0)
FloatV(n, d) == [kind |-> "Float", n |-> n, d |-> d]
StringV(text) == Value("String", text)
NullV == Value("Null", 0)

Kinds == {"Int", "Bool", "Float", "String", "Array", "Struct", "Null"}
Literals == [kind : Kinds, n : Int, d : Int]
Values == {v \in Literals : v.kind = "Int" => v.n \in Int64}

(* Arithmetic on doubles; an int64_t operand is a double of denominator 1. *)
FloatSum(l, r, sign) == FloatV(l.n * r.d + sign * r.n * l.d, l.d * r.d)
FloatProduct(l, r) == FloatV(l.n * r.n, l.d * r.d)
FloatQuotient(l, r) ==
  IF r.n > 0 THEN FloatV(l.n * r.d, l.d * r.n) ELSE FloatV(-(l.n * r.d), -(l.d * r.n))
LessThan(l, r) == l.n * r.d < r.n * l.d
SameNumber(l, r) == l.n * r.d = r.n * l.d

-----------------------------------------------------------------------------
(* AST nodes.  type is what the type checker stored in the node: the       *)
(* checkedType of a declaration, the resolvedElementType of an indexed     *)
(* assignment, the resolvedType of an expression.                          *)
Node(op, name, args) ==
  [op |-> op, name |-> name, args |-> args, lit |-> NullV, type |-> NoType,
   const |-> FALSE, fields |-> <<>>]

Arithmetic == {"add", "sub", "mul", "div"}
Comparison == {"lt", "le", "gt", "ge"}
Equality == {"eq", "ne"}
Logic == {"and", "or"}
Strict == Arithmetic \cup Comparison \cup Equality
Unary == {"neg", "not"}
Loops == {"while", "for"}
Expressions == Strict \cup Logic \cup Unary
                 \cup {"lit", "var", "field", "index", "call", "array", "struct"}
Statements == Loops \cup {"block", "decl", "assign", "setindex", "if", "return",
                          "break", "continue", "expr"}

Lit(value) == [Node("lit", "", <<>>) EXCEPT !.lit = value]
Var(name) == Node("var", name, <<>>)
Un(op, operand) == Node(op, "", <<operand>>)
Bin(op, lhs, rhs) == Node(op, "", <<lhs, rhs>>)
Call(callee, args) == Node("call", callee, args)
Field(base, name) == Node("field", name, <<base>>)
Index(base, index) == Node("index", "", <<base, index>>)
ArrayLit(elements) == Node("array", "", elements)
StructLit(name, fields, inits) == [Node("struct", name, inits) EXCEPT !.fields = fields]

Block(statements) == Node("block", "", statements)
Decl(name, init) == Node("decl", name, <<init>>)
TypedDecl(name, type, init) == [Decl(name, init) EXCEPT !.type = type]
ConstDecl(name, init) == [Decl(name, init) EXCEPT !.const = TRUE]
Assign(name, value) == Node("assign", name, <<value>>)
SetIndex(name, index, value) == Node("setindex", name, <<index, value>>)
If(cond, then) == Node("if", "", <<cond, then>>)
IfElse(cond, then, else) == Node("if", "", <<cond, then, else>>)
Loop(op, cond, body) == Node(op, "", <<cond, body>>)
Return(values) == Node("return", "", values)
Jump(op) == Node(op, "", <<>>)
ExprStmt(expr) == Node("expr", "", <<expr>>)

(* numeric::isMinMagnitude on the operand of a negation: -x is INT64_MIN.  *)
IsMinLiteral(expr) ==
  /\ expr.op = "neg" /\ expr.args[1].op = "lit" /\ expr.args[1].lit.kind = "Int"
  /\ IsMinMagnitude(expr.args[1].lit.n)

(* A program: functions by name, struct declarations by name.  A function  *)
(* without a return type returns NullType.                                 *)
Param(name, type) == [name |-> name, type |-> type]
Function(params, ret, body) == [params |-> params, ret |-> ret, body |-> body]
ProductType(structs, name) ==
  Type("Product", name, [i \in DOMAIN structs[name] |-> structs[name][i].type])

kEntry == "main"    (* kEntryFunctionName *)
kPrint == "print"  (* identifiers::kPrint *)
Length == "length"  (* the field of an array that is its length *)

(* A slip the runs must catch: a boolean stays one in an integer slot.     *)
ConvertKeepingBool(value, type) ==
  IF type.kind = "Float" /\ value.kind = "Int" THEN FloatV(value.n, 1) ELSE value

(* convert of the interpreter and convertToType of the code generator, on  *)
(* the conversions the type checker lets through.                          *)
Convert(value, type) ==
  CASE type.kind = "Float" /\ value.kind = "Int" -> FloatV(value.n, 1)
    [] type.kind = "Int" /\ value.kind = "Bool" -> IntV(value.n)
    [] OTHER -> value
=============================================================================
