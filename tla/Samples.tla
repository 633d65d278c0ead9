------------------------------- MODULE Samples -------------------------------
(* Programs built from a few statements each, in 5-bit integers: every     *)
(* pair of the statements below between a prologue of declarations and a   *)
(* return.  Those the type checker rejects are dropped.                    *)
EXTENDS Checker

N(n) == Lit(IntV(n))
T == Lit(BoolV(TRUE))
F == Lit(BoolV(FALSE))
S(n) == Lit(StringV(n))
Nil == Lit(NullV)
F15 == Lit(FloatV(3, 2))
PrintLine(n) == ExprStmt(Call(kPrint, <<S(n)>>))
Effect == Call("effect", <<>>)
i == Var("i")
f == Var("f")
b == Var("b")
s == Var("s")
a == Var("a")
c == Var("c")

IntArray == ArrayOf(IntType)
Structs == [x \in {"P"} |-> <<Param("x", FloatType), Param("y", IntType)>>]

Helpers ==
  [x \in {"effect", "name", "half", "fact", "fill", "nothing", "find"} |->
     CASE x = "effect" -> Function(<<>>, IntType, Block(<<PrintLine(1), Return(<<N(1)>>)>>))
       [] x = "name" -> Function(<<Param("x", FloatType), Param("y", BoolType)>>, StringType,
            Block(<<IfElse(Var("y"), Return(<<S(3)>>), Return(<<S(4)>>))>>))
       [] x = "half" -> Function(<<Param("x", FloatType)>>, FloatType,
                                 Block(<<Return(<<Bin("div", Var("x"), N(2))>>)>>))
       [] x = "fact" -> Function(<<Param("i", IntType)>>, IntType,
            Block(<<If(Bin("lt", i, N(1)), Block(<<Return(<<N(1)>>)>>)),
                    Return(<<Bin("mul", i, Call("fact", <<Bin("sub", i, N(1))>>))>>)>>))
       [] x = "fill" -> Function(<<Param("a", IntArray), Param("i", IntType)>>, NullType,
            Block(<<SetIndex("a", N(0), i), Assign("i", N(0)), Assign("a", Nil)>>))
       [] x = "nothing" -> Function(<<>>, NullType, Block(<<Return(<<>>)>>))
       [] x = "find" -> Function(<<Param("a", IntArray), Param("x", IntType)>>, IntType,
            Block(<<Decl("i", N(0)),
                    Loop("while", T, Block(<<
                      Loop("for", Bin("lt", i, Field(a, Length)), Block(<<
                        If(Bin("eq", Index(a, i), Var("x")), Block(<<Return(<<i>>)>>)),
                        Assign("i", Bin("add", i, N(1)))>>)),
                      Jump("break")>>)),
                    Return(<<Un("neg", N(1))>>)>>))]

Steps == {
  Assign("i", Bin("mul", i, N(3))),
  Assign("i", Bin("add", i, Effect)),
  Assign("i", Bin("add", Bin("div", N(6), i), Effect)),
  Assign("i", Un("neg", Un("neg", N(Half)))),
  Assign("i", Index(a, i)),
  Assign("i", Call("fact", <<i>>)),
  Assign("i", Call("find", <<a, i>>)),
  Assign("i", Bin("add", Bin("add", Field(a, Length), c), N(12))),
  Assign("i", b),
  Assign("f", Call("half", <<i>>)),
  Assign("f", Bin("div", Bin("add", f, i), f)),
  Assign("s", S(2)),
  Assign("a", Nil),
  Assign("a", ArrayLit(<<b, Call("fact", <<N(2)>>)>>)),
  Assign("b", Bin("or", Bin("eq", s, S(2)), Bin("ne", a, Nil))),
  Assign("b", Bin("and", Un("not", b), Bin("eq", f, F15))),
  SetIndex("a", i, Effect),
  SetIndex("a", b, Bin("sub", Index(a, N(0)), i)),
  ExprStmt(Call(kPrint, <<s>>)),
  ExprStmt(Call(kPrint, <<Call("name", <<Bin("div", i, f), b>>)>>)),
  ExprStmt(Call("fill", <<a, i>>)),
  Assign("b", Bin("lt", Bin("div", f, i), Effect)),
  Block(<<Decl("i", N(5)), Assign("i", Bin("add", i, c)), Assign("b", Bin("gt", i, f))>>),
  Block(<<Decl("p", StructLit("P", <<"y", "x">>, <<Effect, i>>)),
          Assign("f", Bin("mul", Field(Var("p"), "x"), Field(Var("p"), "y")))>>),
  Block(<<TypedDecl("t", FloatType, i), Decl("u", Call("nothing", <<>>)),
          Assign("b", Bin("and", Bin("ge", Var("t"), f), Bin("eq", Var("u"), Nil)))>>),
  Block(<<ConstDecl("d", a), Decl("e", Var("d")), SetIndex("e", N(1), Bin("add", i, i)),
          Assign("b", Bin("eq", Var("d"), Var("e")))>>),
  Loop("while", Bin("lt", i, N(5)), Block(<<
    Assign("i", Bin("add", i, N(2))),
    If(Bin("eq", i, N(3)), Jump("continue")),
    IfElse(Bin("and", b, Bin("gt", i, N(4))), Block(<<Jump("break")>>), PrintLine(2))>>)),
  Loop("for", b, Block(<<Assign("b", F), Assign("i", Bin("sub", i, N(4)))>>)),
  If(Bin("gt", i, N(2)), Block(<<Return(<<Index(a, N(1))>>)>>)),
  IfElse(Bin("le", f, i), Return(<<b>>), Return(<<Bin("sub", i, N(7))>>)) }

(* Statements the checker refuses after the same prologue.                 *)
IllTyped == {
  Assign("i", f), Assign("b", i), Assign("c", N(1)), Assign("s", a), Assign("z", N(1)),
  SetIndex("a", f, N(1)), SetIndex("a", N(0), f), SetIndex("i", N(0), N(1)),
  Assign("b", Bin("add", b, b)), Assign("b", Bin("eq", s, i)), Assign("i", Bin("and", i, b)),
  ExprStmt(Call("fact", <<f>>)), ExprStmt(Call("fact", <<>>)), ExprStmt(Call("i", <<>>)),
  If(i, Block(<<>>)), Loop("while", Nil, Block(<<>>)), Jump("break"), Jump("continue"),
  Decl("i", N(1)), Return(<<s>>), Assign("f", Field(Field(a, "x"), "y")), Assign("i", N(Half)),
  Block(<<Decl("p", StructLit("P", <<"x", "x">>, <<N(1), N(1)>>))>>),
  Block(<<Decl("p", StructLit("P", <<"y">>, <<N(1)>>)), Assign("f", Field(Var("p"), "x"))>>),
  Block(<<Decl("p", StructLit("P", <<"x", "y">>, <<T, F15>>))>>),
  Assign("a", ArrayLit(<<>>)), Assign("a", ArrayLit(<<s, N(1)>>)) }

Prologue(n, array) ==
  <<Decl("i", N(n)), TypedDecl("f", FloatType, i), TypedDecl("s", StringType, Nil),
    TypedDecl("a", IntArray, array), ConstDecl("c", N(2)), Decl("b", T)>>

Main(ret, body) == [x \in {kEntry} |-> Function(<<>>, ret, Block(body))]
With(funcs) == [structs |-> Structs,
                funcs |-> [x \in DOMAIN funcs \cup DOMAIN Helpers |->
                             IF x \in DOMAIN funcs THEN funcs[x] ELSE Helpers[x]]]

Candidates ==
  {With(Main(IntType, Prologue(n, array) \o <<first, second, Return(<<i>>)>>)) :
     n \in {3}, array \in {ArrayLit(<<N(1), N(3)>>)}, first \in Steps, second \in Steps}
  \cup {With(Main(IntType, Prologue(3, Nil) \o <<step, Return(<<i>>)>>)) : step \in Steps}
  \cup {With(Main(IntType, Prologue(0, ArrayLit(<<N(1)>>)) \o <<step, Return(<<Index(a, i)>>)>>)) :
          step \in Steps \cup IllTyped}
  \cup {With(Main(BoolType, <<Return(<<Bin("ge", N(1), Effect)>>)>>)),
        With(Main(NullType, <<PrintLine(1)>>)),
        With(Main(IntType, <<PrintLine(1)>>)),
        With(Main(StringType, <<Return(<<S(1)>>)>>)),
        With(<<>>)}

SamplePrograms == {Checked(p) : p \in {q \in Candidates : Accepts(q)}}

RECURSIVE Within(_)
Within(node) == {node} \cup UNION {Within(node.args[k]) : k \in DOMAIN node.args}

SampleNodes ==
  {Node("", "", <<>>), Call(kEntry, <<>>)}
    \cup UNION {UNION {Within(p.funcs[x].body) : x \in DOMAIN p.funcs} : p \in SamplePrograms}
=============================================================================
