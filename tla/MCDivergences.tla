---------------------------- MODULE MCDivergences ----------------------------
(* Programs on which the interpreter and the native binary differ, one     *)
(* cause per set.  All of them are accepted by the type checker.           *)
EXTENDS Engines, Checker

Text(n) == Lit(StringV(n))
Num(n) == Lit(IntV(n))
PrintLine(n) == ExprStmt(Call(kPrint, <<Text(n)>>))

Printing(n) == Function(<<>>, IntType, Block(<<PrintLine(n), Return(<<Num(n)>>)>>))
NextIs(bound) ==  (* advances a[0] and compares it with the bound *)
  Function(<<Param("a", ArrayOf(IntType))>>, BoolType,
           Block(<<SetIndex("a", Num(0), Bin("add", Index(Var("a"), Num(0)), Num(1))),
                   Return(<<Bin("lt", Index(Var("a"), Num(0)), Num(bound))>>)>>))

Source(body) ==
  [structs |-> [x \in {"P"} |-> <<Param("x", IntType), Param("y", IntType)>>],
   funcs |-> [f \in {kEntry, "one", "two", "next"} |->
                CASE f = kEntry -> Function(<<>>, IntType, Block(body))
                  [] f = "one" -> Printing(1)
                  [] f = "two" -> Printing(2)
                  [] f = "next" -> NextIs(3)]]

(* The body of a loop is a declaration without a block around it.          *)
LoopDeclaration ==
  Source(<<Decl("a", ArrayLit(<<Num(0)>>)),
           Loop("while", Call("next", <<Var("a")>>), Decl("s", Num(1))),
           Return(<<Index(Var("a"), Num(0))>>)>>)

(* The declaration is skipped and its name is used after the statement.    *)
SkippedDeclaration ==
  Source(<<If(Lit(BoolV(FALSE)), Decl("s", Num(1))), Return(<<Var("s")>>)>>)

(* The fields of a struct are given in another order than declared.        *)
FieldOrder ==
  Source(<<Decl("p", StructLit("P", <<"y", "x">>, <<Call("two", <<>>), Call("one", <<>>)>>)),
           Return(<<Field(Var("p"), "x")>>)>>)

Accepted(source) == {Checked(p) : p \in {q \in {source} : Accepts(q)}}
LoopDeclarationPrograms == Accepted(LoopDeclaration)
SkippedDeclarationPrograms == Accepted(SkippedDeclaration)
FieldOrderPrograms == Accepted(FieldOrder)

RECURSIVE Within(_)
Within(node) == {node} \cup UNION {Within(node.args[k]) : k \in DOMAIN node.args}

AllNodes ==
  {NoNode, Call(kEntry, <<>>)}
    \cup UNION {UNION {Within(p.funcs[f].body) : f \in DOMAIN p.funcs} :
                  p \in LoopDeclarationPrograms \cup SkippedDeclarationPrograms \cup FieldOrderPrograms}
=============================================================================
