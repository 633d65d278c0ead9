------------------------------ MODULE TypeNames ------------------------------
(***************************************************************************)
(* checker.cpp: the types a program declares and the type expressions that *)
(* use them.  resolveNamedType and resolveTypeExpr call each other; a call *)
(* that is not over is a frame.  check() resolves every declaration first, *)
(* in the order its two hash tables happen to have, and then, twice, the   *)
(* types of a function's parameters.                                       *)
(***************************************************************************)
EXTENDS Integers, Sequences, FiniteSets

(* A program: decls, the declarations in source order, params, the         *)
(* parameters of a function, and types, the type expressions in it.  A     *)
(* declaration has a kind, a name and members (fields or variants), each   *)
(* with a name and a type expression.                                      *)
CONSTANT Programs

Nobody == ""

ASSUME ProgramsAssumption ==
  \A p \in Programs :
     /\ p.decls \in Seq([kind : {"struct", "enum"}, name : STRING \ {Nobody},
                        members : Seq([name : STRING, type : p.types])])
     /\ p.params \in Seq([name : STRING, type : p.types])

VARIABLES program,
          registered,               \* declarations registered so far
          structDecls, enumDecls,   \* names to declarations
          namedTypes,               \* names to types, once resolved
          resolvingTypes,           \* names being resolved
          frames,                   \* the calls that are not over
          call,                     \* what is asked or answered now
          pass, tried, results,     \* how far check() is, and what it got
          errors                    \* what was reported, of which name, where

tables == <<structDecls, enumDecls>>
progress == <<pass, tried, results>>
resolver == <<namedTypes, resolvingTypes, frames>>
vars == <<program, registered, tables, resolver, call, progress, errors>>

Null == [kind |-> "nullptr"]
Nothing == [x \in {} |-> Null]
Names(table) == DOMAIN table
Put(table, name, value) ==
  [n \in Names(table) \cup {name} |-> IF n = name THEN value ELSE table[n]]
Report(message, name, where) == errors' = errors \cup {<<message, name, where>>}

(* Type expressions, and the types they denote: a compound has parts in    *)
(* `of`, and a declared one the name of its declaration.  An enum's variant*)
(* may be without a payload.                                               *)
Primitive(kind) == [kind |-> kind]
Compound(kind, of, name) == [kind |-> kind, of |-> of, name |-> name]
Named(name) == [kind |-> "named", name |-> name]
NoPayload == [kind |-> "no payload"]
IsCompound(type) == type.kind \in {"array", "sum", "product"}

Idle == [do |-> "idle", type |-> Null]
Resolve(type) == [do |-> "resolve", type |-> type]
Answer(type) == [do |-> "answer", type |-> type]

Init ==
  /\ program \in Programs
  /\ registered = 0
  /\ structDecls = Nothing /\ enumDecls = Nothing
  /\ namedTypes = Nothing /\ resolvingTypes = {} /\ frames = <<>>
  /\ call = Idle
  /\ pass = "structs" /\ tried = {} /\ results = <<>>
  /\ errors = {}

-----------------------------------------------------------------------------
(* registerTypeDecls: the first declaration of a name counts.              *)
RegisterTypeDecl ==
  /\ registered < Len(program.decls)
  /\ LET decl == program.decls[registered + 1]
     IN  IF decl.name \in Names(structDecls) \cup Names(enumDecls)
         THEN Report("Duplicate type name", decl.name, Nobody) /\ UNCHANGED tables
         ELSE /\ \/ /\ decl.kind = "struct"
                    /\ structDecls' = Put(structDecls, decl.name, decl)
                    /\ UNCHANGED enumDecls
                 \/ /\ decl.kind = "enum"
                    /\ enumDecls' = Put(enumDecls, decl.name, decl)
                    /\ UNCHANGED structDecls
              /\ UNCHANGED errors
  /\ registered' = registered + 1
  /\ UNCHANGED <<program, resolver, call, progress>>

(* check(): one table after the other, each in the order it happens to     *)
(* have; then the parameters, for declareGlobalFunction and again for      *)
(* checkFunction.                                                          *)
Ready == registered = Len(program.decls) /\ frames = <<>> /\ call = Idle
Ask(type) == call' = Resolve(type) /\ UNCHANGED <<program, registered, tables, resolver>>

ResolveDecl(during, table) ==
  /\ Ready /\ pass = during
  /\ \E name \in Names(table) \ tried :
        Ask(Named(name)) /\ tried' = tried \cup {name}
  /\ UNCHANGED <<pass, results, errors>>

NextPass(from, to) ==
  /\ Ready /\ pass = from
  /\ pass' = to /\ results' = <<>>
  /\ UNCHANGED <<program, registered, tables, resolver, call, tried, errors>>

EndStructs == Names(structDecls) \subseteq tried /\ NextPass("structs", "enums")
EndEnums == Names(enumDecls) \subseteq tried /\ NextPass("enums", "declare")

InParams == pass \in {"declare", "check"}
AllParams == Len(results) = Len(program.params)
Param == program.params[Len(results) + 1]

ResolveParam ==
  /\ Ready /\ InParams /\ ~AllParams
  /\ Ask(Param.type)
  /\ UNCHANGED <<progress, errors>>

(* The outermost call is over.  declareGlobalFunction gives up at the first*)
(* parameter it does not know; checkFunction goes on with the next one.    *)
Deliver ==
  /\ call.do = "answer" /\ frames = <<>>
  /\ \/ ~InParams /\ UNCHANGED <<progress, errors>>
     \/ /\ InParams /\ call.type # Null
        /\ results' = Append(results, call.type)
        /\ UNCHANGED <<pass, tried, errors>>
     \/ /\ pass = "declare" /\ call.type = Null
        /\ Report("Unknown parameter type in function", Param.name, Nobody)
        /\ pass' = "check" /\ results' = <<>>
        /\ UNCHANGED tried
     \/ /\ pass = "check" /\ call.type = Null
        /\ Report("Unknown parameter type", Param.name, Nobody)
        /\ results' = Append(results, Null)
        /\ UNCHANGED <<pass, tried>>
  /\ call' = Idle
  /\ UNCHANGED <<program, registered, tables, resolver>>

EndDeclare == AllParams /\ NextPass("declare", "check")
-----------------------------------------------------------------------------
(* resolveTypeExprImpl and resolveNamedType are asked for a type.          *)
Asked(kind) == call.do = "resolve" /\ call.type.kind = kind
KeepRest == UNCHANGED <<program, registered, tables, progress>>
Return(type) == call' = Answer(type) /\ UNCHANGED resolver /\ KeepRest

Declared(name) == name \in Names(structDecls) \cup Names(enumDecls)
DeclOf(name) == IF name \in Names(structDecls) THEN structDecls[name] ELSE enumDecls[name]

ResolvePrimitive ==
  /\ call.do = "resolve" /\ call.type.kind \notin {"named", "array", "sum", "product"}
  /\ Return(call.type)
  /\ UNCHANGED errors

ReuseNamedType ==
  /\ Asked("named") /\ call.type.name \in Names(namedTypes)
  /\ Return(namedTypes[call.type.name])
  /\ UNCHANGED errors

RefuseRecursion ==
  /\ Asked("named") /\ call.type.name \in resolvingTypes \ Names(namedTypes)
  /\ Report("Recursive type definition", call.type.name, Nobody)
  /\ Return(Null)

RefuseUnknown ==
  /\ Asked("named") /\ call.type.name \notin resolvingTypes \cup Names(namedTypes)
  /\ ~Declared(call.type.name)
  /\ Report("Unknown type", call.type.name, Nobody)
  /\ Return(Null)

(* A call that has parts to resolve: of the declaration `owner`, or of a   *)
(* compound type expression.                                               *)
Frame(owner, kind, todo) == [owner |-> owner, kind |-> kind, todo |-> todo, seen |-> {}, done |-> <<>>]
Push(frame) == frames' = Append(frames, frame)

EnterDeclaration ==
  /\ Asked("named") /\ call.type.name \notin resolvingTypes \cup Names(namedTypes)
  /\ Declared(call.type.name)
  /\ LET decl == DeclOf(call.type.name)
     IN  Push(Frame(decl.name, IF decl.kind = "struct" THEN "product" ELSE "sum", decl.members))
  /\ resolvingTypes' = resolvingTypes \cup {call.type.name}
  /\ call' = Idle
  /\ UNCHANGED <<namedTypes, errors>> /\ KeepRest

EnterCompound ==
  /\ call.do = "resolve" /\ IsCompound(call.type)
  /\ Push(Frame(Nobody, call.type.kind,
                [i \in DOMAIN call.type.of |-> [name |-> Nobody, type |-> call.type.of[i]]]))
  /\ call' = Idle
  /\ UNCHANGED <<namedTypes, resolvingTypes, errors>> /\ KeepRest

-----------------------------------------------------------------------------
(* The loop over the parts of the innermost frame.                         *)
Top == frames[Len(frames)]
Below == SubSeq(frames, 1, Len(frames) - 1)
Part == Head(Top.todo)
SetTop(frame) == frames' = Append(Below, frame)
InLoop == call = Idle /\ frames # <<>>
MorePart == InLoop /\ Top.todo # <<>>
IsDecl(frame) == frame.owner # Nobody
Repeated == IsDecl(Top) /\ Part.name \in Top.seen
Seen == [Top EXCEPT !.seen = @ \cup {Part.name}]
Taken(frame, type) == [frame EXCEPT !.todo = Tail(@), !.done = Append(@, type)]

SkipDuplicate ==
  /\ MorePart /\ Repeated
  /\ Report(IF Top.kind = "product" THEN "Duplicate field" ELSE "Duplicate variant",
            Part.name, Top.owner)
  /\ SetTop([Top EXCEPT !.todo = Tail(@)])
  /\ UNCHANGED <<namedTypes, resolvingTypes, call>> /\ KeepRest

(* A slip: a variant without a payload takes no place in the sum.          *)
AddEmptyVariantSkipped ==
  /\ MorePart /\ ~Repeated /\ Part.type = NoPayload
  /\ SetTop([Seen EXCEPT !.todo = Tail(@)])
  /\ UNCHANGED <<namedTypes, resolvingTypes, call, errors>> /\ KeepRest

AddEmptyVariant ==
  /\ MorePart /\ ~Repeated /\ Part.type = NoPayload
  /\ SetTop(Taken(Seen, Primitive("null")))
  /\ UNCHANGED <<namedTypes, resolvingTypes, call, errors>> /\ KeepRest

ResolveMember ==
  /\ MorePart /\ ~Repeated /\ Part.type # NoPayload
  /\ SetTop(Seen)
  /\ call' = Resolve(Part.type)
  /\ UNCHANGED <<namedTypes, resolvingTypes, errors>> /\ KeepRest

TakeMember ==
  /\ call.do = "answer" /\ call.type # Null /\ frames # <<>>
  /\ SetTop(Taken(Top, call.type))
  /\ call' = Idle
  /\ UNCHANGED <<namedTypes, resolvingTypes, errors>> /\ KeepRest

(* A slip: the early return leaves the name among those being resolved.    *)
FailFrameStillResolving ==
  /\ call.do = "answer" /\ call.type = Null /\ frames # <<>>
  /\ frames' = Below
  /\ UNCHANGED <<namedTypes, resolvingTypes, call, errors>> /\ KeepRest

(* A slip: the part is tried again instead of giving up.                   *)
FailFrameRetried ==
  /\ call.do = "answer" /\ call.type = Null /\ frames # <<>>
  /\ call' = Resolve(Part.type)
  /\ UNCHANGED <<namedTypes, resolvingTypes, frames, errors>> /\ KeepRest

(* One part has no type: neither has the whole, and it is not remembered.  *)
FailFrame ==
  /\ call.do = "answer" /\ call.type = Null /\ frames # <<>>
  /\ frames' = Below
  /\ resolvingTypes' = resolvingTypes \ {Top.owner}
  /\ UNCHANGED <<namedTypes, call, errors>> /\ KeepRest

FinishFrame ==
  /\ InLoop /\ Top.todo = <<>>
  /\ LET type == Compound(Top.kind, Top.done, Top.owner)
     IN  /\ call' = Answer(type)
         /\ namedTypes' = IF IsDecl(Top) THEN Put(namedTypes, Top.owner, type) ELSE namedTypes
  /\ resolvingTypes' = resolvingTypes \ {Top.owner}
  /\ frames' = Below
  /\ UNCHANGED errors /\ KeepRest

-----------------------------------------------------------------------------
Next ==
  \/ RegisterTypeDecl
  \/ ResolveDecl("structs", structDecls) \/ EndStructs
  \/ ResolveDecl("enums", enumDecls) \/ EndEnums
  \/ ResolveParam \/ Deliver \/ EndDeclare
  \/ ResolvePrimitive \/ ReuseNamedType \/ RefuseRecursion \/ RefuseUnknown
  \/ EnterDeclaration \/ EnterCompound
  \/ SkipDuplicate \/ AddEmptyVariant \/ ResolveMember
  \/ TakeMember \/ FailFrame \/ FinishFrame

Spec == Init /\ [][Next]_vars
FairSpec == Spec /\ WF_vars(Next)

Done == Ready /\ pass = "check" /\ AllParams

=============================================================================
