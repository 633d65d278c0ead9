-------------------------- MODULE TypeNamesProperties --------------------------
(***************************************************************************)
(* What a program's type names mean, by its declarations alone, and what   *)
(* the resolver of TypeNames owes to that meaning.                         *)
(***************************************************************************)
EXTENDS TypeNames

RangeOf(s) == {s[i] : i \in DOMAIN s}
IsDeclared(p, name) == \E decl \in RangeOf(p.decls) : decl.name = name
FirstWith(name, s) == CHOOSE i \in DOMAIN s : s[i].name = name /\ \A j \in 1..(i-1) : s[j].name # name
Definition(p, name) == p.decls[FirstWith(name, p.decls)]

(* What a type expression is made of: a name of the members in its         *)
(* declaration, a compound of its parts.                                   *)
MembersOf(p, e) ==
  CASE e.kind = "named" /\ IsDeclared(p, e.name) -> Definition(p, e.name).members
    [] IsCompound(e) -> [i \in DOMAIN e.of |-> [name |-> Nobody, type |-> e.of[i]]]
    [] OTHER -> <<>>
(* A repeated member is left out, whatever its type.                       *)
Kept(p, e) ==
  LET members == MembersOf(p, e)
  IN  {i \in DOMAIN members : e.kind = "named" => \A j \in 1..(i-1) : members[j].name # members[i].name}
Parts(p, e) ==
  LET members == MembersOf(p, e)
  IN  {members[i].type : i \in Kept(p, e)}

(* The type expressions of a program are trees over other ones, and each   *)
(* name that is declared is one.  Only a variant is without a payload.     *)
ASSUME TypesAssumption ==
  \A p \in Programs :
     /\ \A e \in p.types :
          /\ e # Null
          /\ e.kind = "named" => e = Named(e.name)
          /\ IsCompound(e) => e.of \in Seq(p.types \ {NoPayload}) /\ e = Compound(e.kind, e.of, Nobody)
     /\ \A decl \in RangeOf(p.decls) : Named(decl.name) \in p.types
     /\ \A param \in RangeOf(p.params) : param.type # NoPayload

(* What is reached from a type expression, part by part: all that is in   *)
(* every set with it that has the parts of its members.                    *)
Closed(p, S) == \A e \in S : Parts(p, e) \subseteq S
Reached(p, e) == {x \in p.types : \A S \in SUBSET (p.types \ {x}) : e \in S => ~ Closed(p, S)}
Circular(p, e) == \E x \in Parts(p, e) : e \in Reached(p, x)

(* The type expressions that have a type, the least set: those whose parts *)
(* have one.  A name without a declaration has none.                       *)
Known(p, e) == e.kind = "named" => IsDeclared(p, e.name)
Founded(p, S) == \A e \in p.types \ S : Known(p, e) => ~ (Parts(p, e) \subseteq S)
Defined(p) == {e \in p.types : \A S \in SUBSET (p.types \ {e}) : ~ Founded(p, S)}

(* The type it denotes: every part replaced by what it denotes, a variant  *)
(* without a payload by null.                                              *)
Position(K, i) == Cardinality({j \in K : j <= i})
InOrder(K) == [n \in 1..Cardinality(K) |-> CHOOSE i \in K : Position(K, i) = n]
OwnerOf(e) == IF e.kind = "named" THEN e.name ELSE Nobody
KindOf(p, e) ==
  CASE e.kind # "named" -> e.kind
    [] e.kind = "named" /\ Definition(p, e.name).kind = "struct" -> "product"
    [] OTHER -> "sum"
DenotationOf(p, denotes, e) ==
  CASE e = NoPayload -> Primitive("null")
    [] e.kind = "named" \/ IsCompound(e) ->
         Compound(KindOf(p, e),
                  [n \in DOMAIN InOrder(Kept(p, e)) |->
                     denotes[MembersOf(p, e)[InOrder(Kept(p, e))[n]].type]],
                  OwnerOf(e))
    [] OTHER -> e
Denoted(p, type) ==
  LET denotes[e \in Defined(p)] == DenotationOf(p, denotes, e)
  IN  denotes[type]
Meaning(p, e) == IF e \in Defined(p) THEN Denoted(p, e) ELSE Null

Repeats(name, s) == \E i, j \in DOMAIN s : i # j /\ s[i].name = name /\ s[j].name = name
WellFormed ==
  /\ \A decl \in RangeOf(program.decls) :
        /\ Named(decl.name) \in Defined(program) /\ ~Repeats(decl.name, program.decls)
        /\ \A m \in RangeOf(decl.members) : ~Repeats(m.name, decl.members)
  /\ \A param \in RangeOf(program.params) : param.type \in Defined(program)

-----------------------------------------------------------------------------
Roots(p) == {Named(decl.name) : decl \in RangeOf(p.decls)} \cup {param.type : param \in RangeOf(p.params)}

IsTrue(error) ==
  LET message == error[1] name == error[2] where == error[3]
  IN  \/ /\ message = "Unknown type" /\ ~IsDeclared(program, name)
         /\ \E e \in Roots(program) : Named(name) \in Reached(program, e)
      \/ message = "Recursive type definition" /\ IsDeclared(program, name) /\ Circular(program, Named(name))
      \/ message = "Duplicate type name" /\ IsDeclared(program, name) /\ Repeats(name, program.decls)
      \/ /\ message \in {"Duplicate field", "Duplicate variant"} /\ IsDeclared(program, where)
         /\ Definition(program, where).kind = (IF message = "Duplicate field" THEN "struct" ELSE "enum")
         /\ \E m \in RangeOf(Definition(program, where).members) : m.name = name
         /\ Repeats(name, Definition(program, where).members)
      \/ /\ message \in {"Unknown parameter type in function", "Unknown parameter type"}
         /\ \E param \in RangeOf(program.params) : param.name = name /\ param.type \notin Defined(program)

(* A type expression without a type has the cause of it reported.          *)
Caused(e) ==
  \E x \in Reached(program, e) :
     /\ x.kind = "named"
     /\ \E message \in {"Unknown type", "Recursive type definition"} : <<message, x.name, Nobody>> \in errors

(* checker.cpp reportError: whatever order the hash tables have, a report  *)
(* is true of the program (a cycle is reported at a name that is on it, and*)
(* a failed resolution leaves nothing that makes a later use look circular)*)
(* and at the end every name without a type has its cause reported, so a   *)
(* program without errors is well formed and only such a program.          *)
Diagnosed ==
  /\ \A error \in errors : IsTrue(error)
  /\ Done =>
       /\ errors = {} <=> WellFormed
       /\ \A decl \in RangeOf(program.decls) :
            Named(decl.name) \in Defined(program) \/ Caused(Named(decl.name))

(* checker.cpp namedTypes_: a name is remembered only with the type its    *)
(* declaration denotes, at the end exactly the names that have one are, and*)
(* each parameter has the type its expression denotes.  The order of the   *)
(* tables and the failures on the way make no difference.                  *)
Settled ==
  /\ \A name \in Names(namedTypes) :
       Named(name) \in Defined(program) /\ namedTypes[name] = Denoted(program, Named(name))
  /\ Done => /\ \A decl \in RangeOf(program.decls) :
                  Named(decl.name) \in Defined(program) => decl.name \in Names(namedTypes)
             /\ \A i \in DOMAIN program.params : results[i] = Meaning(program, program.params[i].type)

(* checker.cpp resolveNamedType, resolveTypeExpr: the mutual recursion ends*)
(* for every program, circular definitions included.                       *)
Ends == <>Done
=============================================================================
