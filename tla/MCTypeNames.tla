----------------------------- MODULE MCTypeNames -----------------------------
(***************************************************************************)
(* Programs over three names: every graph of uses with at most two members *)
(* in the first declaration and one in the others, and programs with       *)
(* repeated names and compound type expressions.                           *)
(***************************************************************************)
EXTENDS TypeNamesProperties

IntType == Primitive("int")
Array(type) == Compound("array", <<type>>, Nobody)
Sum(s) == Compound("sum", s, Nobody)
Product(s) == Compound("product", s, Nobody)
Member(name, type) == [name |-> name, type |-> type]
Decl(kind, name, members) == [kind |-> kind, name |-> name, members |-> members]
Uses1(type) == <<Member("p", type)>>

Leaves == {IntType} \cup {Named(n) : n \in {"A", "B", "C", "U"}}
OneMember == {<<>>} \cup {<<Member("x", t)>> : t \in Leaves}
TwoMembers == OneMember \cup {<<Member("x", t), Member("y", u)>> : t, u \in Leaves}

Graphs3 ==
  {[decls |-> <<Decl("struct", "A", a), Decl(kind, "B", b), Decl("enum", "C", c)>>,
    params |-> Uses1(Named(use))] :
     a \in TwoMembers, b \in OneMember, c \in OneMember, kind \in {"struct", "enum"}, use \in {"A", "U"}}

(* Repeated members of every kind, payloads and compounds.                 *)
Types == {IntType, Named("B"), Named("U"), Array(Named("B")), Sum(<<IntType, Named("B")>>),
          Product(<<Named("B"), Array(Named("A"))>>), Array(Array(Named("U")))}
Payloads == Types \cup {NoPayload}
Repetitions ==
  {[decls |-> <<Decl("struct", "A", <<Member("x", t), Member(n, u)>>),
                Decl("enum", "B", <<Member("x", p), Member(m, q)>>)>> \o extra,
    params |-> <<>>] :
     t \in {IntType, Named("B"), Named("U")}, u \in Types, n \in {"x", "y"},
     p \in {NoPayload, IntType, Named("A")}, q \in Payloads, m \in {"x", "y"},
     extra \in {<<>>, <<Decl("enum", "A", <<>>)>>, <<Decl("struct", "B", <<>>)>>}}
TwoParams ==
  {[decls |-> <<Decl("struct", "A", <<Member("x", t)>>), Decl("enum", "B", <<Member("x", NoPayload)>>)>>,
    params |-> <<Member("p", v), Member("q", w)>>] :
     t \in {IntType, Named("A"), Named("B")}, v, w \in Types \cup {Named("A")}}

(* The type expressions of a program, with their parts.                    *)
RECURSIVE Subterms(_)
Subterms(type) == {type} \cup IF IsCompound(type) THEN UNION {Subterms(t) : t \in RangeOf(type.of)} ELSE {}
TypesIn(p) ==
  {Named(d.name) : d \in RangeOf(p.decls)}
    \cup UNION {UNION {Subterms(m.type) : m \in RangeOf(d.members)} : d \in RangeOf(p.decls)}
    \cup UNION {Subterms(param.type) : param \in RangeOf(p.params)}
MCPrograms ==
  {[decls |-> p.decls, params |-> p.params, types |-> TypesIn(p)] : p \in Graphs3 \cup Repetitions \cup TwoParams}
=============================================================================
