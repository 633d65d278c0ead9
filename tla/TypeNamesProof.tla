---------------------------- MODULE TypeNamesProof ----------------------------
(***************************************************************************)
(* For every program, whatever its graph of uses.  First the names being   *)
(* resolved: they are those of the declarations whose calls are not over,  *)
(* each once, and none of them has a type yet.  Then what the types are:   *)
(* each call under way is for a type expression of the program, has        *)
(* gathered what the parts behind it denote, and gets what its own denotes *)
(* or the report of why it denotes nothing.                                *)
(***************************************************************************)
EXTENDS TypeNamesProperties, SequenceTheorems, FiniteSetTheorems, WellFoundedInduction, TLAPS

Contents(s) == {s[i] : i \in 1..Len(s)}
IsList(s) == s \in Seq(Contents(s))
Owners(s) == {s[i].owner : i \in 1..Len(s)} \ {Nobody}
DeclaredNames == Names(structDecls) \cup Names(enumDecls)

DeclSet(p) == [kind : {"struct", "enum"}, name : STRING \ {Nobody},
               members : Seq([name : STRING, type : p.types])]

Declarations ==
  /\ program \in Programs /\ registered \in Nat
  /\ \A n \in Names(structDecls) : n # Nobody /\ structDecls[n].name = n
  /\ \A n \in Names(enumDecls) : n # Nobody /\ enumDecls[n].name = n

Calls ==
  /\ IsList(frames)
  /\ \A i \in 1..Len(frames) : "owner" \in DOMAIN frames[i]

(* resolvingTypes_ holds a name exactly while a call for it is under way.  *)
ResolvingIsActive == resolvingTypes = Owners(frames)

(* No declaration is entered while it is being resolved.                   *)
EnteredOnce ==
  \A i, j \in 1..Len(frames) :
     IsDecl(frames[i]) /\ frames[i].owner = frames[j].owner => i = j

(* What is being resolved is declared and has no type yet.                 *)
NotYetTyped == resolvingTypes \subseteq DeclaredNames \ Names(namedTypes)

Inv == Declarations /\ Calls /\ ResolvingIsActive /\ EnteredOnce /\ NotYetTyped

-----------------------------------------------------------------------------
(* What pushing a frame does to the sequence of calls.                     *)
LEMMA Pushing ==
  ASSUME NEW s, IsList(s), NEW e
  PROVE  /\ IsList(Append(s, e)) /\ Len(s) \in Nat
         /\ Len(Append(s, e)) = Len(s) + 1
         /\ \A i \in 1..Len(s) : Append(s, e)[i] = s[i]
         /\ Append(s, e)[Len(s) + 1] = e
<1> DEFINE S == Contents(s) \cup {e}
<1>1. s \in Seq(S) BY SMT DEF IsList, Contents
<1>2. /\ Append(s, e) \in Seq(S) /\ Len(s) \in Nat
      /\ Len(Append(s, e)) = Len(s) + 1
      /\ \A i \in 1..Len(s) : Append(s, e)[i] = s[i]
      /\ Append(s, e)[Len(s) + 1] = e
  BY <1>1, AppendProperties, LenProperties
<1>3. IsList(Append(s, e)) BY <1>2, SMT DEF IsList, Contents
<1> QED BY <1>2, <1>3

(* The first n entries of a sequence.                                      *)
LEMMA Taking ==
  ASSUME NEW S, NEW s, NEW n \in Nat, \A i \in 1..n : s[i] \in S
  PROVE  /\ SubSeq(s, 1, n) \in Seq(S) /\ Len(SubSeq(s, 1, n)) = n
         /\ \A i \in 1..n : SubSeq(s, 1, n)[i] = s[i]
<1>1. SubSeq(s, 1, n) \in Seq(S) BY SubSeqProperties, SMT
<1>2. Len(SubSeq(s, 1, n)) = n BY SubSeqProperties, SMT
<1>3. \A i \in 1..n : SubSeq(s, 1, n)[i] = s[i] BY SubSeqProperties, SMT
<1> QED BY <1>1, <1>2, <1>3

(* What popping a frame does to it.                                        *)
LEMMA Popping ==
  ASSUME NEW s, IsList(s), s # <<>>
  PROVE  /\ Len(s) \in Nat \ {0}
         /\ IsList(SubSeq(s, 1, Len(s) - 1))
         /\ Len(SubSeq(s, 1, Len(s) - 1)) = Len(s) - 1
         /\ \A i \in 1..(Len(s) - 1) : SubSeq(s, 1, Len(s) - 1)[i] = s[i]
<1>1. s \in Seq(Contents(s)) BY DEF IsList
<1>2. Len(s) \in Nat \ {0} BY <1>1, EmptySeq, LenProperties
<1> DEFINE n == Len(s) - 1
           t == SubSeq(s, 1, n)
<1>3. n \in Nat BY <1>2
<1>4. \A i \in 1..n : s[i] \in Contents(s) BY <1>2 DEF Contents
<1> HIDE DEF n
<1>5. Len(t) = n /\ \A i \in 1..n : t[i] = s[i] BY <1>3, <1>4, Taking, Zenon
<1> HIDE DEF t
<1>6. \A i \in 1..n : s[i] \in Contents(t) BY <1>3, <1>5 DEF Contents
<1>7. t \in Seq(Contents(t)) BY <1>3, <1>6, Taking, Zenon DEF t
<1> QED BY <1>2, <1>5, <1>7, Zenon DEF IsList, n, t

(* The innermost frame is rewritten: nothing changes but its progress.     *)
LEMMA Rewriting ==
  ASSUME Calls, frames # <<>>, NEW f, "owner" \in DOMAIN f, f.owner = Top.owner, SetTop(f)
  PROVE  /\ Calls'
         /\ Len(frames') = Len(frames) /\ Len(frames) \in Nat
         /\ \A i \in 1..Len(frames) : frames'[i].owner = frames[i].owner
<1>1. /\ Len(frames) \in Nat \ {0} /\ IsList(Below) /\ Len(Below) = Len(frames) - 1
      /\ \A i \in 1..(Len(frames) - 1) : Below[i] = frames[i]
  BY Popping DEF Calls, Below
<1>2. frames' = Append(Below, f) BY DEF SetTop
<1>3. /\ IsList(frames') /\ Len(frames') = Len(frames)
      /\ \A i \in 1..(Len(frames) - 1) : frames'[i] = frames[i]
      /\ frames'[Len(frames)] = f
  <2>1. /\ IsList(Append(Below, f)) /\ Len(Append(Below, f)) = Len(Below) + 1
        /\ \A i \in 1..Len(Below) : Append(Below, f)[i] = Below[i]
        /\ Append(Below, f)[Len(Below) + 1] = f
    BY <1>1, Pushing
  <2> QED BY <1>1, <1>2, <2>1
<1>4. \A i \in 1..Len(frames) : frames'[i].owner = frames[i].owner
  BY <1>1, <1>3 DEF Top
<1>5. \A i \in 1..Len(frames') : "owner" \in DOMAIN frames'[i]
  BY <1>1, <1>3 DEF Calls
<1> QED BY <1>1, <1>3, <1>4, <1>5 DEF Calls

(* Owners and distinctness only depend on the owners of the frames.        *)
LEMMA SameOwners ==
  ASSUME Inv, Calls', Len(frames') = Len(frames),
         \A i \in 1..Len(frames) : frames'[i].owner = frames[i].owner,
         UNCHANGED <<program, registered, tables, namedTypes, resolvingTypes>>
  PROVE  Inv'
<1>1. ResolvingIsActive' BY DEF Inv, ResolvingIsActive, Owners
<1>2. EnteredOnce' BY DEF Inv, EnteredOnce, IsDecl
<1>3. Declarations' /\ NotYetTyped' BY DEF Inv, Declarations, NotYetTyped, DeclaredNames, Names, tables
<1> QED BY <1>1, <1>2, <1>3 DEF Inv

(* The innermost call returns: its name is no longer being resolved.       *)
LEMMA Returning ==
  ASSUME Inv, frames # <<>>, frames' = Below,
         resolvingTypes' = resolvingTypes \ {Top.owner},
         DOMAIN namedTypes' \subseteq DOMAIN namedTypes \cup {Top.owner},
         UNCHANGED <<program, registered, tables>>
  PROVE  Inv'
<1>1. /\ Len(frames) \in Nat \ {0} /\ IsList(Below) /\ Len(Below) = Len(frames) - 1
      /\ \A i \in 1..(Len(frames) - 1) : Below[i] = frames[i]
  BY Popping DEF Inv, Calls, Below
<1>2. Calls' BY <1>1 DEF Calls, Inv
<1>3. EnteredOnce' BY <1>1 DEF Inv, EnteredOnce, IsDecl
<1>4. ResolvingIsActive'
  <2>1. \A i \in 1..(Len(frames) - 1) : IsDecl(Top) => frames[i].owner # Top.owner
    BY <1>1 DEF Inv, EnteredOnce, Top
  <2>2. Owners(frames) = Owners(Below) \cup ({Top.owner} \ {Nobody})
    BY <1>1 DEF Owners, Top
  <2>3. Top.owner \notin Owners(Below)
    BY <1>1, <2>1 DEF Owners, IsDecl
  <2>4. resolvingTypes' = Owners(Below) BY <2>2, <2>3 DEF Inv, ResolvingIsActive, Owners
  <2> QED BY <2>4 DEF ResolvingIsActive, Owners
<1>5. Declarations' BY DEF Inv, Declarations, Names, tables
<1>6. NotYetTyped' BY DEF Inv, NotYetTyped, DeclaredNames, Names, tables
<1> QED BY <1>2, <1>3, <1>4, <1>5, <1>6 DEF Inv

-----------------------------------------------------------------------------
(* At the start no call is under way.                                      *)
LEMMA Initially == Init => Inv
<1> SUFFICES ASSUME Init PROVE Inv OBVIOUS
<1>1. Len(frames) = 0 /\ IsList(frames) BY DEF Init, IsList, Contents
<1> QED BY <1>1 DEF Init, Inv, Declarations, Calls, ResolvingIsActive, Owners, EnteredOnce,
                    NotYetTyped, DeclaredNames, Names, Nothing

(* A declaration that is registered has a name, and is filed under it.     *)
LEMMA Registering == Inv /\ RegisterTypeDecl => Inv'
<1> SUFFICES ASSUME Inv, RegisterTypeDecl PROVE Inv' OBVIOUS
<1> DEFINE d == program.decls[registered + 1]
<1>0. /\ registered < Len(program.decls) /\ registered' = registered + 1
      /\ UNCHANGED program
  BY Zenon DEF RegisterTypeDecl
<1>1. d.name # Nobody
  <2>0. /\ registered \in Nat /\ program.decls \in Seq(DeclSet(program)) /\ Len(program.decls) \in Nat
    BY ProgramsAssumption, LenProperties DEF Inv, Declarations, DeclSet
  <2>1. registered + 1 \in 1..Len(program.decls) BY <1>0, <2>0
  <2>2. d \in DeclSet(program) BY <2>0, <2>1, ElementOfSeq
  <2> QED BY <2>2 DEF DeclSet
<1> HIDE DEF d
<1>2. \/ UNCHANGED tables
      \/ structDecls' = Put(structDecls, d.name, d) /\ UNCHANGED enumDecls
      \/ enumDecls' = Put(enumDecls, d.name, d) /\ UNCHANGED structDecls
  BY Zenon DEF RegisterTypeDecl, d
<1>3. Declarations'
  <2>1. program' \in Programs /\ registered' \in Nat
    BY <1>0 DEF Inv, Declarations
  <2> QED BY <2>1, <1>1, <1>2 DEF Inv, Declarations, Names, Put, tables
<1>4. DeclaredNames \subseteq DeclaredNames'
  BY <1>2 DEF DeclaredNames, Names, Put, tables
<1>5. UNCHANGED <<namedTypes, resolvingTypes, frames>>
  BY DEF RegisterTypeDecl, resolver
<1>6. Calls' /\ ResolvingIsActive' /\ EnteredOnce'
  BY <1>5 DEF Inv, Calls, ResolvingIsActive, Owners, EnteredOnce, IsDecl
<1>7. NotYetTyped' BY <1>4, <1>5 DEF Inv, NotYetTyped, Names
<1> QED BY <1>3, <1>6, <1>7 DEF Inv

(* The steps of check(), and the answers that enter nothing.               *)
LEMMA SameCalls ==
  ASSUME Inv, UNCHANGED <<program, registered, tables, resolver>>
  PROVE  Inv'
<1>1. Calls' BY DEF Inv, Calls, resolver
<1> QED BY <1>1, SameOwners DEF resolver

(* The name entered was not under way, is declared, and has no type.       *)
LEMMA Entering == Inv /\ EnterDeclaration => Inv'
<1> SUFFICES ASSUME Inv, EnterDeclaration PROVE Inv' OBVIOUS
<1> DEFINE n == call.type.name
           e == frames'[Len(frames) + 1]
<1>1. /\ n \notin resolvingTypes \cup Names(namedTypes) /\ n \in DeclaredNames
      /\ resolvingTypes' = resolvingTypes \cup {n}
      /\ UNCHANGED <<program, registered, tables, namedTypes>>
  BY DEF EnterDeclaration, Declared, DeclaredNames, KeepRest
<1>2. PICK f : frames' = Append(frames, f) /\ "owner" \in DOMAIN f /\ f.owner = DeclOf(n).name
  BY DEF EnterDeclaration, Push, Frame
<1>3. DeclOf(n).name = n /\ n # Nobody
  BY <1>1 DEF Inv, Declarations, DeclOf, DeclaredNames
<1> HIDE DEF n
<1>4. /\ IsList(frames') /\ Len(frames) \in Nat /\ Len(frames') = Len(frames) + 1
      /\ \A i \in 1..Len(frames) : frames'[i] = frames[i]
      /\ frames'[Len(frames) + 1] = f
  BY <1>2, Pushing DEF Inv, Calls
<1>5. Calls' BY <1>2, <1>4 DEF Inv, Calls
<1>6. ResolvingIsActive'
  <2>1. Owners(frames') = Owners(frames) \cup {n} BY <1>2, <1>3, <1>4 DEF Owners
  <2> QED BY <1>1, <2>1 DEF Inv, ResolvingIsActive
<1>7. EnteredOnce'
  <2>1. \A i \in 1..Len(frames) : frames[i].owner # n
    BY <1>1, <1>3 DEF Inv, ResolvingIsActive, Owners
  <2>2. \A i \in 1..Len(frames') : i \in 1..Len(frames) \/ i = Len(frames) + 1 BY <1>4
  <2> QED BY <1>2, <1>3, <1>4, <2>1, <2>2 DEF Inv, EnteredOnce, IsDecl
<1>8. Declarations' BY <1>1 DEF Inv, Declarations, Names, tables
<1>9. NotYetTyped' BY <1>1 DEF Inv, NotYetTyped, DeclaredNames, Names, tables
<1> QED BY <1>5, <1>6, <1>7, <1>8, <1>9 DEF Inv

(* The call for a compound type has no owner.                              *)
LEMMA EnteringCompound == Inv /\ EnterCompound => Inv'
<1> SUFFICES ASSUME Inv, EnterCompound PROVE Inv' OBVIOUS
<1>1. UNCHANGED <<program, registered, tables, namedTypes, resolvingTypes>>
  BY DEF EnterCompound, KeepRest
<1>2. PICK f : frames' = Append(frames, f) /\ "owner" \in DOMAIN f /\ f.owner = Nobody
  BY DEF EnterCompound, Push, Frame
<1>4. /\ IsList(frames') /\ Len(frames) \in Nat /\ Len(frames') = Len(frames) + 1
      /\ \A i \in 1..Len(frames) : frames'[i] = frames[i]
      /\ frames'[Len(frames) + 1] = f
  BY <1>2, Pushing DEF Inv, Calls
<1>5. Calls' BY <1>2, <1>4 DEF Inv, Calls
<1>6. ResolvingIsActive'
  <2>1. Owners(frames') = Owners(frames) BY <1>2, <1>4 DEF Owners
  <2> QED BY <1>1, <2>1 DEF Inv, ResolvingIsActive
<1>7. EnteredOnce'
  <2>2. \A i \in 1..Len(frames') : i \in 1..Len(frames) \/ i = Len(frames) + 1 BY <1>4
  <2> QED BY <1>2, <1>4, <2>2 DEF Inv, EnteredOnce, IsDecl
<1>8. Declarations' /\ NotYetTyped'
  BY <1>1 DEF Inv, Declarations, NotYetTyped, DeclaredNames, Names, tables
<1> QED BY <1>5, <1>6, <1>7, <1>8 DEF Inv

(* The loop over the parts only rewrites the progress of a frame.          *)
LEMMA Looping ==
  Inv /\ (SkipDuplicate \/ AddEmptyVariant \/ ResolveMember \/ TakeMember) => Inv'
<1> SUFFICES ASSUME Inv, SkipDuplicate \/ AddEmptyVariant \/ ResolveMember \/ TakeMember
             PROVE  Inv'
  OBVIOUS
<1>1. /\ frames # <<>>
      /\ UNCHANGED <<program, registered, tables, namedTypes, resolvingTypes>>
  BY DEF SkipDuplicate, AddEmptyVariant, ResolveMember, TakeMember, MorePart, InLoop, KeepRest
<1>2. "owner" \in DOMAIN Top
  BY <1>1, Popping DEF Inv, Calls, Top
<1>3. PICK f : SetTop(f) /\ "owner" \in DOMAIN f /\ f.owner = Top.owner
  <2> HIDE DEF Inv
  <2> DEFINE t == Top
  <2>1. \A x : LET f == [t EXCEPT !.todo = x] IN "owner" \in DOMAIN f /\ f.owner = t.owner
    BY <1>2
  <2>2. \A x : LET f == [t EXCEPT !.seen = x] IN "owner" \in DOMAIN f /\ f.owner = t.owner
    BY <1>2
  <2>3. \A x, y : LET f == [t EXCEPT !.todo = x, !.done = y]
                  IN "owner" \in DOMAIN f /\ f.owner = t.owner
    BY <1>2
  <2>4. /\ "owner" \in DOMAIN Taken(Seen, Primitive("null"))
        /\ Taken(Seen, Primitive("null")).owner = t.owner
    <3>1. "owner" \in DOMAIN Seen /\ Seen.owner = t.owner BY <1>2 DEF Seen
    <3> HIDE DEF t
    <3>2. ASSUME NEW g, NEW p, "owner" \in DOMAIN g
          PROVE  "owner" \in DOMAIN Taken(g, p) /\ Taken(g, p).owner = g.owner
      BY <3>2 DEF Taken
    <3> QED BY <3>1, <3>2, Zenon
  <2>5. CASE SkipDuplicate BY <2>1, <2>5 DEF SkipDuplicate
  <2>6. CASE AddEmptyVariant BY <2>4, <2>6, Zenon DEF AddEmptyVariant
  <2>7. CASE ResolveMember BY <2>2, <2>7 DEF ResolveMember, Seen
  <2>8. CASE TakeMember BY <2>3, <2>8 DEF TakeMember, Taken
  <2> QED BY <2>5, <2>6, <2>7, <2>8
<1>4. /\ Calls' /\ Len(frames') = Len(frames)
      /\ \A i \in 1..Len(frames) : frames'[i].owner = frames[i].owner
  BY <1>1, <1>3, Rewriting DEF Inv
<1> QED BY <1>1, <1>4, SameOwners

(* A call returns, with a type or without.                                 *)
LEMMA Over == Inv /\ (FailFrame \/ FinishFrame) => Inv'
<1> SUFFICES ASSUME Inv, FailFrame \/ FinishFrame PROVE Inv' OBVIOUS
<1>1. /\ frames # <<>> /\ frames' = Below /\ resolvingTypes' = resolvingTypes \ {Top.owner}
      /\ UNCHANGED <<program, registered, tables>>
  BY DEF FailFrame, FinishFrame, InLoop, KeepRest
<1>2. DOMAIN namedTypes' \subseteq DOMAIN namedTypes \cup {Top.owner}
  BY DEF FailFrame, FinishFrame, Put, Names
<1> QED BY <1>1, <1>2, Returning

-----------------------------------------------------------------------------
(* Every step keeps the invariant.                                         *)
LEMMA Stepwise == Inv /\ [Next]_vars => Inv'
<1> SUFFICES ASSUME Inv, [Next]_vars PROVE Inv' OBVIOUS
<1>1. CASE RegisterTypeDecl BY <1>1, Registering
<1>2. CASE EnterDeclaration BY <1>2, Entering
<1>3. CASE EnterCompound BY <1>3, EnteringCompound
<1>4. CASE SkipDuplicate \/ AddEmptyVariant \/ ResolveMember \/ TakeMember BY <1>4, Looping
<1>5. CASE FailFrame \/ FinishFrame BY <1>5, Over
<1>6. CASE ResolveDecl("structs", structDecls) \/ ResolveDecl("enums", enumDecls) \/ ResolveParam \/ Deliver
  <2>1. UNCHANGED <<program, registered, tables, resolver>>
    BY <1>6, Zenon DEF ResolveDecl, ResolveParam, Deliver, Ask
  <2> QED BY <2>1, SameCalls
<1>7. CASE EndStructs \/ EndEnums \/ EndDeclare
  <2>1. UNCHANGED <<program, registered, tables, resolver>>
    BY <1>7, Zenon DEF EndStructs, EndEnums, EndDeclare, NextPass
  <2> QED BY <2>1, SameCalls
<1>8. CASE ResolvePrimitive \/ ReuseNamedType \/ RefuseRecursion \/ RefuseUnknown
  <2>1. UNCHANGED <<program, registered, tables, resolver>>
    BY <1>8, Zenon DEF ResolvePrimitive, ReuseNamedType, RefuseRecursion, RefuseUnknown, Return, KeepRest
  <2> QED BY <2>1, SameCalls
<1>9. CASE UNCHANGED vars
  <2>1. UNCHANGED <<program, registered, tables, resolver>> BY <1>9 DEF vars
  <2> QED BY <2>1, SameCalls
<1> QED BY <1>1, <1>2, <1>3, <1>4, <1>5, <1>6, <1>7, <1>8, <1>9 DEF Next

(* checker.cpp resolvingTypes_: a name is in it exactly while a call for   *)
(* its declaration is under way, whichever members fail, and no call for   *)
(* it is entered twice.                                                    *)
THEOREM ResolvingHolds == Spec => [](ResolvingIsActive /\ EnteredOnce)
<1>1. Spec => []Inv BY Initially, Stepwise, PTL DEF Spec
<1>2. Inv => ResolvingIsActive /\ EnteredOnce BY DEF Inv
<1> QED BY <1>1, <1>2, PTL

(* checker.cpp namedTypes_: the type a name has is never replaced.         *)
NeverRetyped ==
  [][\A n \in DOMAIN namedTypes : n \in DOMAIN namedTypes' /\ namedTypes'[n] = namedTypes[n]]_vars
THEOREM NeverRetypedHolds == Spec => NeverRetyped
<1> DEFINE Stays ==
      \A n \in DOMAIN namedTypes : n \in DOMAIN namedTypes' /\ namedTypes'[n] = namedTypes[n]
<1>1. Inv /\ [Next]_vars => Stays
  <2> SUFFICES ASSUME Inv, [Next]_vars PROVE Stays OBVIOUS
  <2>1. CASE FinishFrame
    <3>1. \/ UNCHANGED namedTypes
          \/ /\ IsDecl(Top)
             /\ namedTypes' = Put(namedTypes, Top.owner, Compound(Top.kind, Top.done, Top.owner))
      BY <2>1, Zenon DEF FinishFrame
    <3>2. IsDecl(Top) => Top.owner \notin DOMAIN namedTypes
      <4>1. Len(frames) \in 1..Len(frames)
        BY <2>1, Popping DEF Inv, Calls, FinishFrame, InLoop
      <4> QED BY <4>1 DEF Inv, ResolvingIsActive, Owners, NotYetTyped, Names, Top, IsDecl
    <3> QED BY <3>1, <3>2 DEF Put, Names
  <2>2. CASE UNCHANGED namedTypes BY <2>2
  <2> QED BY <2>1, <2>2 DEF Next, vars, resolver, RegisterTypeDecl, ResolveDecl, ResolveParam, Deliver,
       EndStructs, EndEnums, EndDeclare, NextPass, Ask, ResolvePrimitive, ReuseNamedType, RefuseRecursion,
       RefuseUnknown, Return, EnterDeclaration, EnterCompound, SkipDuplicate, AddEmptyVariant,
       ResolveMember, TakeMember, FailFrame
<1>2. Spec => []Inv BY Initially, Stepwise, PTL DEF Spec
<1> QED BY <1>1, <1>2, PTL DEF Spec, NeverRetyped

(* checker.cpp resolveNamedType: a recursive definition is reported only   *)
(* of a declared name that has no type and whose call is under way: the use*)
(* that met it is among what that declaration is made of.                  *)
RecursionIsMet ==
  [][\A n : LET e == <<"Recursive type definition", n, Nobody>>
            IN  e \in errors' \ errors =>
                  n \in (DeclaredNames \cap Owners(frames)) \ DOMAIN namedTypes]_vars
THEOREM RecursionIsMetHolds == Spec => RecursionIsMet
<1> DEFINE Recursive(n) == <<"Recursive type definition", n, Nobody>>
           Met == \A n : Recursive(n) \in errors' \ errors =>
                           n \in (DeclaredNames \cap Owners(frames)) \ DOMAIN namedTypes
<1>1. Inv /\ [Next]_vars => Met
  <2> SUFFICES ASSUME Inv, [Next]_vars, NEW n, Recursive(n) \in errors' \ errors
               PROVE  n \in (DeclaredNames \cap Owners(frames)) \ DOMAIN namedTypes
    OBVIOUS
  <2>1. CASE RefuseRecursion
    <3>1. n = call.type.name BY <2>1 DEF RefuseRecursion, Report
    <3> QED BY <2>1, <3>1 DEF RefuseRecursion, Inv, ResolvingIsActive, NotYetTyped, Names
  <2>2. CASE errors' \subseteq errors \cup {e \in errors' : e[1] # "Recursive type definition"}
    BY <2>2
  <2>3. ASSUME NEW m, NEW name, NEW where, m # "Recursive type definition", Report(m, name, where)
        PROVE  errors' \subseteq errors \cup {e \in errors' : e[1] # "Recursive type definition"}
    BY <2>3 DEF Report
  <2>4. CASE RegisterTypeDecl BY <2>2, <2>3, <2>4 DEF RegisterTypeDecl
  <2>5. CASE Deliver BY <2>2, <2>3, <2>5 DEF Deliver
  <2>6. CASE RefuseUnknown BY <2>2, <2>3, <2>6 DEF RefuseUnknown
  <2>7. CASE SkipDuplicate
    <3>1. PICK m \in {"Duplicate field", "Duplicate variant"} : Report(m, Part.name, Top.owner)
      BY <2>7, Zenon DEF SkipDuplicate
    <3> QED BY <2>2, <2>3, <3>1
  <2>8. CASE UNCHANGED errors BY <2>8
  <2> QED BY <2>1, <2>4, <2>5, <2>6, <2>7, <2>8
       DEF Next, vars, resolver, ResolveDecl, ResolveParam, EndStructs, EndEnums, EndDeclare, NextPass, Ask,
       ResolvePrimitive, ReuseNamedType, EnterDeclaration, EnterCompound, AddEmptyVariant,
       ResolveMember, TakeMember, FailFrame, FinishFrame
<1>2. Spec => []Inv BY Initially, Stepwise, PTL DEF Spec
<1> QED BY <1>1, <1>2, PTL DEF Spec, RecursionIsMet

-----------------------------------------------------------------------------
(* A name has a first place among those of a sequence, if it has one.      *)
LEMMA FirstExists ==
  ASSUME NEW s, NEW n \in Nat, DOMAIN s = 1..n, NEW name, \E i \in 1..n : s[i].name = name
  PROVE  /\ FirstWith(name, s) \in 1..n /\ s[FirstWith(name, s)].name = name
         /\ \A j \in 1..(FirstWith(name, s) - 1) : s[j].name # name
<1> DEFINE S == {i \in 1..n : s[i].name = name}
           R == {r \in Nat \X Nat : r[1] < r[2]}
           First(i) == s[i].name = name /\ \A j \in 1..(i-1) : s[j].name # name
<1>1. IsWellFoundedOn(R, Nat)
  BY NatLessThanWellFounded DEF OpToRel
<1>2. S \in SUBSET Nat /\ S # {}
  OBVIOUS
<1>3. PICK k \in S : \A j \in S : ~(<<j, k>> \in R)
  <2> HIDE DEF R, S
  <2> QED BY <1>1, <1>2, WFMin
<1>4. k \in 1..n /\ First(k)
  <2>1. k \in 1..n /\ s[k].name = name BY <1>3
  <2>2. ASSUME NEW j \in 1..(k-1), s[j].name = name PROVE FALSE
    <3>1. j \in Nat /\ k \in Nat /\ j < k /\ j \in 1..n BY <2>1
    <3> QED BY <1>3, <2>2, <3>1
  <2> QED BY <2>1, <2>2
<1>5. FirstWith(name, s) = CHOOSE i \in 1..n : First(i) BY DEF FirstWith
<1> HIDE DEF First
<1>6. FirstWith(name, s) \in 1..n /\ First(FirstWith(name, s)) BY <1>4, <1>5, Zenon
<1> QED BY <1>6 DEF First

(* The first place is the only one without the name before it.             *)
LEMMA FirstIs ==
  ASSUME NEW s, NEW n \in Nat, DOMAIN s = 1..n, NEW k \in 1..n, \A j \in 1..(k-1) : s[j].name # s[k].name
  PROVE  FirstWith(s[k].name, s) = k
<1> DEFINE f == FirstWith(s[k].name, s)
<1>1. f \in 1..n /\ s[f].name = s[k].name /\ \A j \in 1..(f-1) : s[j].name # s[k].name
  BY FirstExists
<1> HIDE DEF f
<1>2. ~(f < k) /\ ~(k < f)
  <2>1. f < k => f \in 1..(k-1) BY <1>1
  <2>2. k < f => k \in 1..(f-1) BY <1>1
  <2> QED BY <1>1, <2>1, <2>2
<1> QED BY <1>1, <1>2 DEF f

MemberSet(p) == [name : STRING \cup {Nobody}, type : p.types]

(* The declaration that counts is one of the program, under its name.      *)
LEMMA DefinitionType ==
  ASSUME NEW p \in Programs, NEW name, IsDeclared(p, name)
  PROVE  /\ Definition(p, name) \in DeclSet(p) /\ Definition(p, name).name = name
         /\ Definition(p, name) \in RangeOf(p.decls)
         /\ name \in STRING \ {Nobody} /\ Named(name) \in p.types
<1>1. p.decls \in Seq(DeclSet(p)) BY ProgramsAssumption DEF DeclSet
<1>2. DOMAIN p.decls = 1..Len(p.decls) /\ Len(p.decls) \in Nat
      /\ \A i \in 1..Len(p.decls) : p.decls[i] \in DeclSet(p)
  BY <1>1, LenProperties, ElementOfSeq
<1>3. \E i \in 1..Len(p.decls) : p.decls[i].name = name BY <1>2 DEF IsDeclared, RangeOf
<1>4. /\ FirstWith(name, p.decls) \in 1..Len(p.decls)
      /\ p.decls[FirstWith(name, p.decls)].name = name
  BY <1>2, <1>3, FirstExists
<1>5. Definition(p, name) \in DeclSet(p) /\ Definition(p, name).name = name
      /\ Definition(p, name) \in RangeOf(p.decls)
  BY <1>2, <1>4 DEF Definition, RangeOf
<1>6. name \in STRING \ {Nobody} BY <1>5 DEF DeclSet
<1>7. Named(name) \in p.types BY <1>5, TypesAssumption
<1> QED BY <1>5, <1>6, <1>7

(* The members of a type expression are type expressions of the program.   *)
LEMMA MembersType ==
  ASSUME NEW p \in Programs, NEW e \in p.types
  PROVE  /\ MembersOf(p, e) \in Seq(MemberSet(p))
         /\ Len(MembersOf(p, e)) \in Nat /\ DOMAIN MembersOf(p, e) = 1..Len(MembersOf(p, e))
         /\ \A i \in 1..Len(MembersOf(p, e)) : MembersOf(p, e)[i].type \in p.types
<1>1. MembersOf(p, e) \in Seq(MemberSet(p))
  <2>1. CASE e.kind = "named" /\ IsDeclared(p, e.name)
    <3>1. Definition(p, e.name) \in DeclSet(p) BY <2>1, DefinitionType
    <3>2. Definition(p, e.name).members \in Seq(MemberSet(p))
      <4>1. [name : STRING, type : p.types] \subseteq MemberSet(p) BY DEF MemberSet
      <4>2. Definition(p, e.name).members \in Seq([name : STRING, type : p.types]) BY <3>1 DEF DeclSet
      <4> QED BY <4>1, <4>2, SeqMonotonic
    <3>3. MembersOf(p, e) = Definition(p, e.name).members BY <2>1 DEF MembersOf, IsCompound
    <3> QED BY <3>2, <3>3
  <2>2. CASE IsCompound(e) /\ e.kind # "named"
    <3>1. e.of \in Seq(p.types)
      <4>1. e.of \in Seq(p.types \ {NoPayload}) BY <2>2, TypesAssumption
      <4>2. p.types \ {NoPayload} \subseteq p.types OBVIOUS
      <4> QED BY <4>1, <4>2, SeqMonotonic
    <3>2. MembersOf(p, e) = [i \in DOMAIN e.of |-> [name |-> Nobody, type |-> e.of[i]]]
      BY <2>2 DEF MembersOf
    <3>3. Len(e.of) \in Nat /\ DOMAIN e.of = 1..Len(e.of) /\ \A i \in 1..Len(e.of) : e.of[i] \in p.types
      BY <3>1, LenProperties, ElementOfSeq
    <3>4. \A x \in p.types : [name |-> Nobody, type |-> x] \in MemberSet(p)
      BY DEF MemberSet
    <3> QED BY <3>2, <3>3, <3>4
  <2>3. CASE ~IsCompound(e) /\ ~(e.kind = "named" /\ IsDeclared(p, e.name))
    <3>1. MembersOf(p, e) = <<>> BY <2>3 DEF MembersOf
    <3> QED BY <3>1
  <2> QED BY <2>1, <2>2, <2>3 DEF IsCompound
<1>2. \A i \in 1..Len(MembersOf(p, e)) : MembersOf(p, e)[i] \in MemberSet(p)
  BY <1>1, ElementOfSeq
<1> QED BY <1>1, <1>2, LenProperties DEF MemberSet

(* So are its parts, and those kept are among the members.                 *)
LEMMA PartsType ==
  ASSUME NEW p \in Programs, NEW e \in p.types
  PROVE  /\ Parts(p, e) \subseteq p.types
         /\ Kept(p, e) \subseteq 1..Len(MembersOf(p, e))
         /\ \A i \in Kept(p, e) : MembersOf(p, e)[i].type \in Parts(p, e)
BY MembersType DEF Parts, Kept

-----------------------------------------------------------------------------
(* What is reached: the type expression itself, the parts of what is, and  *)
(* what is reached from there.                                             *)
LEMMA ReachedLeast ==
  ASSUME NEW p, NEW e, NEW S \in SUBSET p.types, e \in S, Closed(p, S)
  PROVE  Reached(p, e) \subseteq S
<1> SUFFICES ASSUME NEW x \in Reached(p, e), x \notin S PROVE FALSE OBVIOUS
<1>1. S \in SUBSET (p.types \ {x}) OBVIOUS
<1> QED BY <1>1 DEF Reached

(* A type expression reaches itself,                                       *)
LEMMA ReachedSelf ==
  ASSUME NEW p, NEW e \in p.types
  PROVE  e \in Reached(p, e)
BY DEF Reached

(* and the parts of whatever it reaches,                                   *)
LEMMA ReachedParts ==
  ASSUME NEW p \in Programs, NEW e, NEW x \in Reached(p, e), NEW y \in Parts(p, x)
  PROVE  y \in Reached(p, e)
<1>1. x \in p.types /\ y \in p.types BY PartsType DEF Reached
<1>2. ASSUME NEW S \in SUBSET (p.types \ {y}), e \in S, Closed(p, S) PROVE FALSE
  <2>1. x \in S
    <3>1. S \in SUBSET p.types OBVIOUS
    <3> QED BY <1>2, <3>1, ReachedLeast
  <2> QED BY <1>2, <2>1 DEF Closed
<1> QED BY <1>1, <1>2 DEF Reached

(* so what it reaches has all of its own parts,                            *)
LEMMA ReachedClosed ==
  ASSUME NEW p \in Programs, NEW e
  PROVE  Reached(p, e) \in SUBSET p.types /\ Closed(p, Reached(p, e))
<1>1. Closed(p, Reached(p, e)) BY ReachedParts DEF Closed
<1> QED BY <1>1 DEF Reached

(* and it reaches what they reach.                                         *)
LEMMA ReachedTransitive ==
  ASSUME NEW p \in Programs, NEW e, NEW x \in Reached(p, e), NEW y \in Reached(p, x)
  PROVE  y \in Reached(p, e)
BY ReachedClosed, ReachedLeast

(* What a part reaches, the whole reaches.                                 *)
LEMMA ReachedOfPart ==
  ASSUME NEW p \in Programs, NEW e \in p.types, NEW x \in Parts(p, e), NEW y \in Reached(p, x)
  PROVE  y \in Reached(p, e)
BY ReachedSelf, ReachedParts, ReachedTransitive

(* What is reached is the type expression or reached from one of its parts.*)
LEMMA ReachedFrom ==
  ASSUME NEW p \in Programs, NEW e \in p.types, NEW y \in Reached(p, e)
  PROVE  y = e \/ \E x \in Parts(p, e) : y \in Reached(p, x)
<1> DEFINE S == {e} \cup {z \in p.types : \E x \in Parts(p, e) : z \in Reached(p, x)}
<1>1. S \in SUBSET p.types /\ e \in S OBVIOUS
<1>2. Closed(p, S)
  <2> SUFFICES ASSUME NEW z \in S, NEW y1 \in Parts(p, z) PROVE y1 \in S BY DEF Closed
  <2>1. CASE z = e
    <3>1. y1 \in p.types /\ y1 \in Reached(p, y1) BY <2>1, PartsType, ReachedSelf
    <3> QED BY <2>1, <3>1
  <2>2. CASE z # e
    <3>1. PICK x \in Parts(p, e) : z \in Reached(p, x) BY <2>2
    <3>2. y1 \in Reached(p, x) BY <3>1, ReachedParts
    <3>3. y1 \in p.types BY <3>2 DEF Reached
    <3> QED BY <3>2, <3>3
  <2> QED BY <2>1, <2>2
<1> HIDE DEF S
<1>3. y \in S BY <1>1, <1>2, ReachedLeast
<1> QED BY <1>3 DEF S

-----------------------------------------------------------------------------
(* What has a type: exactly what is known and has only parts with a type,  *)
(* and nothing that a set with that property does without.                 *)
LEMMA DefinedLeast ==
  ASSUME NEW p, NEW S \in SUBSET p.types, Founded(p, S)
  PROVE  Defined(p) \subseteq S
<1> SUFFICES ASSUME NEW x \in Defined(p), x \notin S PROVE FALSE OBVIOUS
<1>1. S \in SUBSET (p.types \ {x}) OBVIOUS
<1> QED BY <1>1 DEF Defined

(* The whole has a type if the parts have,                                 *)
LEMMA DefinedWhole ==
  ASSUME NEW p, NEW e \in p.types, Known(p, e), Parts(p, e) \subseteq Defined(p)
  PROVE  e \in Defined(p)
<1> SUFFICES ASSUME NEW S \in SUBSET (p.types \ {e}), Founded(p, S) PROVE FALSE BY DEF Defined
<1>1. Defined(p) \subseteq S
  <2>1. S \in SUBSET p.types OBVIOUS
  <2> QED BY <2>1, DefinedLeast
<1> QED BY <1>1 DEF Founded

(* and only then;                                                          *)
LEMMA DefinedParts ==
  ASSUME NEW p, NEW e \in Defined(p)
  PROVE  e \in p.types /\ Known(p, e) /\ Parts(p, e) \subseteq Defined(p)
<1> DEFINE S == {x \in Defined(p) : Known(p, x) /\ Parts(p, x) \subseteq Defined(p)}
<1>1. S \in SUBSET p.types BY DEF Defined
<1>2. Founded(p, S)
  <2> SUFFICES ASSUME NEW x \in p.types \ S, Known(p, x), Parts(p, x) \subseteq S PROVE FALSE
    BY DEF Founded
  <2>1. x \in Defined(p) BY DefinedWhole
  <2> QED BY <2>1
<1> HIDE DEF S
<1>3. e \in S BY <1>1, <1>2, DefinedLeast
<1> QED BY <1>1, <1>3 DEF S

(* so has all that it reaches.                                             *)
LEMMA DefinedReached ==
  ASSUME NEW p, NEW e \in Defined(p)
  PROVE  Reached(p, e) \subseteq Defined(p)
<1>1. Defined(p) \in SUBSET p.types BY DEF Defined
<1>2. Closed(p, Defined(p)) BY DefinedParts DEF Closed
<1> QED BY <1>1, <1>2, ReachedLeast

(* A cycle of uses leaves everything on it without a type.                 *)
LEMMA DefinedAcyclic ==
  ASSUME NEW p \in Programs, NEW e \in Defined(p)
  PROVE  ~Circular(p, e)
<1> DEFINE S == {x \in Defined(p) : ~Circular(p, x)}
<1>1. S \in SUBSET p.types BY DEF Defined
<1>2. Founded(p, S)
  <2> SUFFICES ASSUME NEW x \in p.types, x \notin S, Known(p, x), Parts(p, x) \subseteq S PROVE FALSE
    BY DEF Founded
  <2>1. x \in Defined(p) BY DefinedWhole
  <2>2. PICK y \in Parts(p, x) : x \in Reached(p, y) BY <2>1 DEF Circular
  <2>3. y \in S /\ y \in p.types BY <1>1
  <2>4. y = x \/ \E z \in Parts(p, y) : x \in Reached(p, z) BY <2>2, <2>3, ReachedFrom
  <2>5. x # y BY <2>3
  <2>6. PICK z \in Parts(p, y) : x \in Reached(p, z) BY <2>4, <2>5
  <2>7. y \in Reached(p, z) BY <2>6, ReachedParts
  <2>8. Circular(p, y) BY <2>7 DEF Circular
  <2> QED BY <2>3, <2>8
<1> HIDE DEF S
<1>3. e \in S BY <1>1, <1>2, DefinedLeast
<1> QED BY <1>3 DEF S

-----------------------------------------------------------------------------
(* The places of the members that are kept, in order: Position counts them *)
(* up to a place, and InOrder is its inverse.                              *)
LEMMA Counting ==
  ASSUME NEW L \in Nat, NEW K \in SUBSET (1..L)
  PROVE  /\ Cardinality(K) \in Nat
         /\ \A i \in Nat : Position(K, i) \in 0..Cardinality(K)
         /\ Position(K, 0) = 0 /\ Position(K, L) = Cardinality(K)
         /\ \A i \in Nat : Position(K, i + 1) = IF i + 1 \in K THEN Position(K, i) + 1 ELSE Position(K, i)
         /\ \A i, j \in Nat : i < j /\ j \in K => Position(K, i) < Position(K, j)
<1> DEFINE Upto(i) == {j \in K : j <= i}
<1>0. \A j \in K : j \in Nat /\ 1 <= j /\ j <= L OBVIOUS
<1>1. IsFiniteSet(K)
  <2>1. IsFiniteSet(1..L) BY FS_Interval, SMT
  <2> QED BY <2>1, FS_Subset
<1>2. Cardinality(K) \in Nat BY <1>1, FS_CardinalityType
<1>3. \A i \in Nat : Position(K, i) = Cardinality(Upto(i)) BY DEF Position
<1>4. \A i \in Nat : Upto(i) \in SUBSET K OBVIOUS
<1>5. ASSUME NEW i, NEW j, i \in Nat, j \in Nat, i <= j PROVE Upto(i) \in SUBSET Upto(j) 
  <2> SUFFICES ASSUME NEW k, k \in K, k <= i PROVE k <= j OBVIOUS
  <2> QED BY <1>0, <1>5
<1>6. ASSUME NEW i, i \in Nat PROVE i + 1 \in K => Upto(i + 1) = Upto(i) \cup {i + 1}
  <2> SUFFICES ASSUME i + 1 \in K, NEW k, k \in K PROVE k <= i + 1 <=> k <= i \/ k = i + 1
    BY <1>6
  <2> QED BY <1>0, <1>6
<1>7. ASSUME NEW i, i \in Nat PROVE i + 1 \notin K => Upto(i + 1) = Upto(i)
  <2> SUFFICES ASSUME i + 1 \notin K, NEW k, k \in K PROVE k <= i + 1 <=> k <= i OBVIOUS
  <2>1. k \in Nat /\ k # i + 1 BY <1>0
  <2> QED BY <1>7, <2>1
<1>8. ASSUME NEW i, i \in Nat PROVE i + 1 \notin Upto(i) BY <1>8
<1>9. Upto(0) = {} /\ Upto(L) = K
  <2>1. \A k \in K : ~(k <= 0) /\ k <= L BY <1>0
  <2> QED BY <2>1
<1>10. ASSUME NEW i, NEW j, i \in Nat, j \in K, i < j PROVE Upto(i) \cup {j} \in SUBSET Upto(j) /\ j \notin Upto(i)
  <2>1. j \in Nat /\ j <= j /\ ~(j <= i) BY <1>0, <1>10
  <2>2. \A k \in K : k <= i => k <= j BY <1>0, <1>10, <2>1
  <2> QED BY <1>10, <2>1, <2>2
<1> HIDE DEF Upto
<1>11. \A i \in Nat : IsFiniteSet(Upto(i)) /\ Cardinality(Upto(i)) \in Nat /\ Cardinality(Upto(i)) <= Cardinality(K)
  BY <1>1, <1>4, FS_Subset, FS_CardinalityType
<1>12. \A i \in Nat : Position(K, i) \in 0..Cardinality(K) BY <1>2, <1>3, <1>11
<1>13. Position(K, 0) = 0 /\ Position(K, L) = Cardinality(K) BY <1>3, <1>9, FS_EmptySet
<1>14. ASSUME NEW i \in Nat
       PROVE  Position(K, i + 1) = IF i + 1 \in K THEN Position(K, i) + 1 ELSE Position(K, i)
  <2>1. i + 1 \in Nat OBVIOUS
  <2>2. CASE i + 1 \in K
    <3>1. Cardinality(Upto(i) \cup {i + 1}) = Cardinality(Upto(i)) + 1
      BY <1>8, <1>11, FS_AddElement
    <3>2. Upto(i + 1) = Upto(i) \cup {i + 1} BY <1>6, <2>2
    <3> QED BY <1>3, <2>1, <2>2, <3>1, <3>2
  <2>3. CASE i + 1 \notin K BY <1>3, <1>7, <2>1, <2>3
  <2> QED BY <2>2, <2>3
<1>15. ASSUME NEW i \in Nat, NEW j \in Nat, i < j, j \in K PROVE Position(K, i) < Position(K, j)
  <2>1. Upto(i) \cup {j} \in SUBSET Upto(j) /\ j \notin Upto(i) BY <1>10, <1>15
  <2>2. Cardinality(Upto(i) \cup {j}) = Cardinality(Upto(i)) + 1 BY <1>11, <2>1, FS_AddElement
  <2>3. Cardinality(Upto(i) \cup {j}) <= Cardinality(Upto(j)) BY <1>11, <2>1, FS_Subset
  <2>4. Cardinality(Upto(i)) \in Nat /\ Cardinality(Upto(j)) \in Nat BY <1>11
  <2>5. Cardinality(Upto(i)) < Cardinality(Upto(j)) BY <2>2, <2>3, <2>4
  <2> QED BY <1>3, <2>5
<1> QED BY <1>2, <1>12, <1>13, <1>14, <1>15

(* The n-th entry is the one with n entries up to it.                      *)
LEMMA Ordering ==
  ASSUME NEW L \in Nat, NEW K \in SUBSET (1..L)
  PROVE  /\ DOMAIN InOrder(K) = 1..Cardinality(K)
         /\ \A n \in 1..Cardinality(K) : InOrder(K)[n] \in K
         /\ \A i \in K : Position(K, i) \in 1..Cardinality(K) /\ InOrder(K)[Position(K, i)] = i
<1> DEFINE C == Cardinality(K)
           f == [i \in K |-> Position(K, i)]
<1>1. IsFiniteSet(K)
  <2>1. IsFiniteSet(1..L) BY FS_Interval, SMT
  <2> QED BY <2>1, FS_Subset
<1>2. C \in Nat /\ (\A i \in Nat : Position(K, i) \in 0..C) /\ Position(K, 0) = 0
  BY Counting
<1>3. \A i, j \in Nat : i < j /\ j \in K => Position(K, i) < Position(K, j) BY Counting
<1>4. ASSUME NEW i \in K PROVE Position(K, i) \in 1..C
  <2>1. i \in Nat /\ 0 \in Nat /\ 0 < i OBVIOUS
  <2>2. Position(K, 0) < Position(K, i) /\ Position(K, i) \in 0..C BY <1>2, <1>3, <2>1
  <2> HIDE DEF C
  <2> QED BY <1>2, <2>2
<1>5. ASSUME NEW i \in K, NEW j \in K, Position(K, i) = Position(K, j) PROVE i = j
  <2>1. i \in Nat /\ j \in Nat OBVIOUS
  <2>2. Position(K, i) \in Nat BY <1>2, <1>4
  <2>3. ~(i < j) /\ ~(j < i) BY <1>3, <1>5, <2>1, <2>2
  <2> QED BY <2>1, <2>3
<1>6. f \in Injection(K, 1..C) BY <1>4, <1>5 DEF Injection, IsInjective
<1>7. IsFiniteSet(1..C) /\ Cardinality(1..C) = C
  <2> HIDE DEF C
  <2>1. IsFiniteSet(1..C) /\ Cardinality(1..C) = IF 1 > C THEN 0 ELSE C - 1 + 1 BY <1>2, FS_Interval, SMT
  <2> QED BY <1>2, <2>1
<1>8. f \in Surjection(K, 1..C)
  <2> HIDE DEF f
  <2> QED BY <1>6, <1>7, FS_Injection
<1>9. ASSUME NEW n \in 1..C PROVE InOrder(K)[n] \in K /\ Position(K, InOrder(K)[n]) = n
  <2>1. \E i \in K : Position(K, i) = n BY <1>8 DEF Surjection
  <2>2. InOrder(K)[n] = CHOOSE i \in K : Position(K, i) = n BY DEF InOrder
  <2> QED BY <2>1, <2>2, Zenon
<1>10. ASSUME NEW i \in K PROVE InOrder(K)[Position(K, i)] = i
  <2>1. Position(K, i) \in 1..C BY <1>4
  <2> HIDE DEF C
  <2> QED BY <1>5, <1>9, <2>1
<1> QED BY <1>4, <1>9, <1>10 DEF InOrder

-----------------------------------------------------------------------------
(* A solution of the recursion of Denoted on a set of type expressions     *)
(* that has the parts of its members.                                      *)
Solves(p, g, D) == D \subseteq Defined(p) /\ Closed(p, D) /\ g = [e \in D |-> DenotationOf(p, g, e)]

(* What a type expression denotes depends on its parts alone.              *)
LEMMA DenotationLocal ==
  ASSUME NEW p \in Programs, NEW e \in p.types, NEW g, NEW h, \A x \in Parts(p, e) : g[x] = h[x]
  PROVE  DenotationOf(p, g, e) = DenotationOf(p, h, e)
<1> DEFINE K == Kept(p, e)
           L == Len(MembersOf(p, e))
           part(n) == MembersOf(p, e)[InOrder(K)[n]].type
<1>1. L \in Nat /\ K \in SUBSET (1..L) BY MembersType, PartsType
<1>2. \A n \in DOMAIN InOrder(K) : InOrder(K)[n] \in K
  <2> HIDE DEF K, L
  <2> QED BY <1>1, Ordering
<1>3. \A n \in DOMAIN InOrder(K) : part(n) \in Parts(p, e) BY <1>2, PartsType
<1> HIDE DEF part
<1>4. [n \in DOMAIN InOrder(K) |-> g[part(n)]] = [n \in DOMAIN InOrder(K) |-> h[part(n)]]
  BY <1>3
<1> QED BY <1>4, Zenon DEF DenotationOf, part

(* Two solutions agree wherever there is a type.                           *)
LEMMA SolutionsAgree ==
  ASSUME NEW p \in Programs, NEW e \in Defined(p),
         NEW D, NEW g, Solves(p, g, D), e \in D, NEW E, NEW h, Solves(p, h, E), e \in E
  PROVE  g[e] = h[e]
<1> DEFINE S == {x \in p.types : x \in D /\ x \in E => g[x] = h[x]}
<1>1. Founded(p, S)
  <2> SUFFICES ASSUME NEW x \in p.types, x \notin S, Parts(p, x) \subseteq S PROVE FALSE BY DEF Founded
  <2>1. x \in D /\ x \in E /\ g[x] # h[x] OBVIOUS
  <2>2. Parts(p, x) \subseteq D /\ Parts(p, x) \subseteq E BY <2>1 DEF Solves, Closed
  <2>3. \A y \in Parts(p, x) : g[y] = h[y] BY <2>2
  <2>4. DenotationOf(p, g, x) = DenotationOf(p, h, x) BY <2>3, DenotationLocal
  <2>5. g[x] = DenotationOf(p, g, x) /\ h[x] = DenotationOf(p, h, x) BY <2>1 DEF Solves
  <2> QED BY <2>1, <2>4, <2>5
<1> HIDE DEF S
<1>2. e \in S
  <2>1. S \in SUBSET p.types BY DEF S
  <2> QED BY <1>1, <2>1, DefinedLeast
<1> QED BY <1>2 DEF S

(* There is a solution, for all that has a type.                           *)
LEMMA SolutionExists ==
  ASSUME NEW p \in Programs
  PROVE  \E g : Solves(p, g, Defined(p))
<1> DEFINE At(x, v) == \E D : \E g : Solves(p, g, D) /\ x \in D /\ g[x] = v
           S == {x \in Defined(p) : \E D : \E g : Solves(p, g, D) /\ x \in D}
           G == [x \in S |-> CHOOSE v : At(x, v)]
<1>1. S \in SUBSET p.types /\ S \subseteq Defined(p) BY DEF Defined
<1>2. ASSUME NEW D, NEW g, Solves(p, g, D), NEW x \in D
      PROVE  x \in S /\ G[x] = g[x]
  <2>1. x \in Defined(p) BY <1>2 DEF Solves
  <2>2. x \in S BY <1>2, <2>1
  <2>3. At(x, g[x]) BY <1>2
  <2>4. At(x, G[x])
    <3> HIDE DEF At
    <3> QED BY <2>2, <2>3, Zenon
  <2>5. PICK E, h : Solves(p, h, E) /\ x \in E /\ h[x] = G[x] BY <2>4
  <2> HIDE DEF G
  <2>6. h[x] = g[x] BY <1>2, <2>1, <2>5, SolutionsAgree
  <2> QED BY <2>2, <2>5, <2>6
<1> HIDE DEF At, G
<1>3. Closed(p, S)
  <2> SUFFICES ASSUME NEW x \in S, NEW y \in Parts(p, x) PROVE y \in S BY DEF Closed
  <2>1. PICK D, g : Solves(p, g, D) /\ x \in D OBVIOUS
  <2>2. y \in D BY <2>1 DEF Solves, Closed
  <2> QED BY <1>2, <2>1, <2>2
<1>4. ASSUME NEW x \in S PROVE G[x] = DenotationOf(p, G, x)
  <2>1. PICK D, g : Solves(p, g, D) /\ x \in D OBVIOUS
  <2>2. \A y \in Parts(p, x) : G[y] = g[y] BY <1>2, <2>1 DEF Solves, Closed
  <2>3. DenotationOf(p, G, x) = DenotationOf(p, g, x) BY <1>1, <2>2, DenotationLocal
  <2>4. g[x] = DenotationOf(p, g, x) BY <2>1 DEF Solves
  <2>5. G[x] = g[x] BY <1>2, <2>1
  <2> QED BY <2>3, <2>4, <2>5
<1>5. Founded(p, S)
  <2> SUFFICES ASSUME NEW e \in p.types, e \notin S, Known(p, e), Parts(p, e) \subseteq S PROVE FALSE
    BY DEF Founded
  <2> HIDE DEF S
  <2>1. e \in Defined(p) BY <1>1, DefinedWhole
  <2> DEFINE D == S \cup {e}
             h == [x \in D |-> IF x = e THEN DenotationOf(p, G, e) ELSE G[x]]
  <2>2. Closed(p, D) BY <1>3 DEF Closed
  <2>3. ASSUME NEW x \in D PROVE h[x] = DenotationOf(p, h, x)
    <3>1. Parts(p, x) \subseteq S BY <1>3 DEF Closed
    <3>2. \A y \in Parts(p, x) : h[y] = G[y] BY <3>1
    <3>3. x \in p.types BY <1>1
    <3>4. h[x] = DenotationOf(p, G, x) BY <1>4
    <3> HIDE DEF h, D
    <3>5. DenotationOf(p, h, x) = DenotationOf(p, G, x) BY <3>2, <3>3, DenotationLocal
    <3> QED BY <3>4, <3>5
  <2>4. h = [x \in D |-> h[x]] OBVIOUS
  <2> HIDE DEF h
  <2>5. h = [x \in D |-> DenotationOf(p, h, x)] BY <2>3, <2>4
  <2>6. Solves(p, h, D) BY <1>1, <2>1, <2>2, <2>5 DEF Solves
  <2>7. e \in D OBVIOUS
  <2> HIDE DEF D
  <2>8. e \in S BY <1>2, <2>6, <2>7
  <2> QED BY <2>8
<1> HIDE DEF S
<1>6. S = Defined(p) BY <1>1, <1>5, DefinedLeast
<1>7. G = [x \in S |-> G[x]] BY DEF G
<1>8. G = [x \in S |-> DenotationOf(p, G, x)] BY <1>4, <1>7
<1>9. Solves(p, G, S) BY <1>1, <1>3, <1>8 DEF Solves
<1> QED BY <1>6, <1>9

(* So every type expression with a type denotes what its parts denote,     *)
(* and never what stands for no type.                                      *)
LEMMA Denoting ==
  ASSUME NEW p \in Programs, NEW e \in Defined(p)
  PROVE  Denoted(p, e) = DenotationOf(p, [x \in Defined(p) |-> Denoted(p, x)], e) /\ Denoted(p, e) # Null
<1> DEFINE Is(g) == g = [x \in Defined(p) |-> DenotationOf(p, g, x)]
           G == CHOOSE g : Is(g)
<1>1. \A x : Denoted(p, x) = G[x] BY DEF Denoted
<1>2. \E g : Is(g)
  <2>1. PICK g : Solves(p, g, Defined(p)) BY SolutionExists
  <2> QED BY <2>1 DEF Solves
<1> HIDE DEF Is
<1>3. Is(G) BY <1>2, Zenon
<1> HIDE DEF G
<1>4. G[e] = DenotationOf(p, G, e) /\ G = [x \in Defined(p) |-> G[x]] BY <1>3 DEF Is
<1>6. [x \in Defined(p) |-> Denoted(p, x)] = [x \in Defined(p) |-> G[x]] BY <1>1
<1>5. \A g : DenotationOf(p, g, e) # Null
  <2>1. e # Null BY TypesAssumption DEF Defined
  <2>2. Primitive("null") # Null BY DEF Primitive, Null
  <2>3. \A k, of, name : Compound(k, of, name) # Null BY DEF Compound, Null
  <2> QED BY <2>1, <2>2, <2>3, Zenon DEF DenotationOf
<1> QED BY <1>1, <1>4, <1>5, <1>6

-----------------------------------------------------------------------------
(* The call for a type expression, when the first k of its members are     *)
(* behind it: the next one may be under way already.                       *)
Rest(s, k) == SubSeq(s, k + 1, Len(s))
NamesUpTo(s, k) == {s[j].name : j \in 1..k}
Gathered(p, e, k) ==
  [n \in 1..Position(Kept(p, e), k) |-> Denoted(p, MembersOf(p, e)[InOrder(Kept(p, e))[n]].type)]
FrameWith(owner, kind, todo, seen, done) ==
  [owner |-> owner, kind |-> kind, todo |-> todo, seen |-> seen, done |-> done]
FrameAt(p, e, k, waiting) ==
  FrameWith(OwnerOf(e), KindOf(p, e), Rest(MembersOf(p, e), k),
            NamesUpTo(MembersOf(p, e), IF waiting THEN k + 1 ELSE k), Gathered(p, e, k))

(* What a rewritten frame is.                                              *)
LEMMA FrameFields ==
  ASSUME NEW o, NEW k, NEW t, NEW s, NEW d, NEW f, f = FrameWith(o, k, t, s, d)
  PROVE  f.owner = o /\ f.kind = k /\ f.todo = t /\ f.seen = s /\ f.done = d
BY DEF FrameWith

(* With other members before it,                                           *)
LEMMA FrameMoved ==
  ASSUME NEW o, NEW k, NEW t, NEW s, NEW d, NEW f, f = FrameWith(o, k, t, s, d), NEW x
  PROVE  [f EXCEPT !.todo = x] = FrameWith(o, k, x, s, d)
BY DEF FrameWith

(* with another name seen,                                                 *)
LEMMA FrameSaw ==
  ASSUME NEW o, NEW k, NEW t, NEW s, NEW d, NEW f, f = FrameWith(o, k, t, s, d), NEW x
  PROVE  [f EXCEPT !.seen = x] = FrameWith(o, k, t, x, d)
BY DEF FrameWith

(* and with a type taken.                                                  *)
LEMMA FrameTook ==
  ASSUME NEW o, NEW k, NEW t, NEW s, NEW d, NEW f, f = FrameWith(o, k, t, s, d), NEW type
  PROVE  Taken(f, type) = FrameWith(o, k, Tail(t), s, Append(d, type))
<1>1. f.todo = t /\ f.done = d BY DEF FrameWith
<1> DEFINE x == Tail(t)
           y == Append(d, type)
           g == [f EXCEPT !.todo = x, !.done = y]
           F == {"owner", "kind", "todo", "seen", "done"}
<1> HIDE DEF x, y
<1>2. g = [i \in F |-> g[i]] BY DEF FrameWith
<1>3. g.owner = o /\ g.kind = k /\ g.todo = x /\ g.seen = s /\ g.done = y BY DEF FrameWith
<1>4. Taken(f, type) = g BY <1>1, Zenon DEF Taken, x, y
<1> HIDE DEF g
<1>5. FrameWith(o, k, x, s, y) = [i \in F |-> g[i]] BY <1>3 DEF FrameWith
<1> QED BY <1>2, <1>4, <1>5 DEF x, y

(* What is left of the members after k of them.                            *)
LEMMA RestIs ==
  ASSUME NEW S, NEW s \in Seq(S), NEW k \in 0..Len(s)
  PROVE  /\ Rest(s, 0) = s /\ (k = Len(s) => Rest(s, k) = <<>>)
         /\ k < Len(s) => /\ k + 1 \in 1..Len(s) /\ Rest(s, k) # <<>>
                          /\ Head(Rest(s, k)) = s[k + 1] /\ Tail(Rest(s, k)) = Rest(s, k + 1)
<1>1. Len(s) \in Nat BY LenProperties
<1>2. Rest(s, 0) = s
  <2>1. 0 + 1 = 1 OBVIOUS
  <2> QED BY <2>1, SubSeqFull DEF Rest
<1>3. ASSUME k = Len(s) PROVE Rest(s, k) = <<>>
  <2>1. k + 1 \in Int /\ Len(s) \in Int /\ Len(s) < k + 1 BY <1>1, <1>3
  <2> QED BY <2>1, SubSeqEmpty DEF Rest
<1>4. ASSUME k < Len(s)
      PROVE  /\ k + 1 \in 1..Len(s) /\ Rest(s, k) # <<>>
             /\ Head(Rest(s, k)) = s[k + 1] /\ Tail(Rest(s, k)) = Rest(s, k + 1)
  <2>1. k + 1 \in 1..Len(s) /\ Len(s) \in (k + 1)..Len(s) /\ k + 1 <= Len(s) BY <1>1, <1>4
  <2>2. Head(Rest(s, k)) = s[k + 1] /\ Tail(Rest(s, k)) = Rest(s, k + 1)
    BY <2>1, HeadTailOfSubSeq DEF Rest
  <2>3. \A i \in (k + 1)..Len(s) : s[i] \in S
    <3>1. \A i \in (k + 1)..Len(s) : i \in 1..Len(s) BY <1>1, <2>1
    <3> QED BY <3>1, ElementOfSeq
  <2>4. Len(Rest(s, k)) = Len(s) - (k + 1) + 1
    BY <1>1, <2>1, <2>3, SubSeqProperties DEF Rest
  <2>5. Len(Rest(s, k)) # 0 BY <1>1, <2>1, <2>4
  <2>6. Rest(s, k) # <<>> BY <2>5, EmptySeq
  <2> QED BY <2>1, <2>2, <2>6
<1> QED BY <1>2, <1>3, <1>4

(* How the members that are kept are counted.                              *)
LEMMA KeptCounting ==
  ASSUME NEW p \in Programs, NEW e \in p.types
  PROVE  LET K == Kept(p, e)
             L == Len(MembersOf(p, e))
         IN  /\ L \in Nat /\ K \in SUBSET (1..L)
             /\ DOMAIN InOrder(K) = 1..Cardinality(K) /\ Cardinality(K) \in Nat
             /\ Position(K, 0) = 0 /\ Position(K, L) = Cardinality(K)
             /\ \A k \in 0..L : Position(K, k) \in Nat
             /\ \A k \in 0..(L - 1) : Position(K, k + 1) = IF k + 1 \in K THEN Position(K, k) + 1 ELSE Position(K, k)
             /\ \A n \in 1..Cardinality(K) : InOrder(K)[n] \in K
             /\ \A i \in K : InOrder(K)[Position(K, i)] = i
<1> DEFINE K == Kept(p, e)
           L == Len(MembersOf(p, e))
<1>1. L \in Nat /\ K \in SUBSET (1..L) BY MembersType, PartsType
<1> HIDE DEF K, L
<1>2. /\ Cardinality(K) \in Nat /\ Position(K, 0) = 0 /\ Position(K, L) = Cardinality(K)
      /\ \A i \in Nat : Position(K, i) \in 0..Cardinality(K)
      /\ \A i \in Nat : Position(K, i + 1) = IF i + 1 \in K THEN Position(K, i) + 1 ELSE Position(K, i)
  BY <1>1, Counting, ZenonT(40)
<1>3. \A k \in 0..L : k \in Nat BY <1>1
<1>4. \A k \in 0..(L - 1) : k \in Nat BY <1>1
<1>5. \A k \in 0..L : Position(K, k) \in Nat BY <1>2, <1>3
<1>6. /\ DOMAIN InOrder(K) = 1..Cardinality(K)
      /\ \A n \in 1..Cardinality(K) : InOrder(K)[n] \in K
      /\ \A i \in K : InOrder(K)[Position(K, i)] = i
  BY <1>1, Ordering
<1> QED BY <1>1, <1>2, <1>4, <1>5, <1>6, Zenon DEF K, L

(* How the call begins,                                                    *)
LEMMA FrameStarts ==
  ASSUME NEW p \in Programs, NEW e \in p.types
  PROVE  FrameAt(p, e, 0, FALSE) = Frame(OwnerOf(e), KindOf(p, e), MembersOf(p, e))
<1>1. Rest(MembersOf(p, e), 0) = MembersOf(p, e) BY MembersType, RestIs
<1>2. NamesUpTo(MembersOf(p, e), 0) = {} BY DEF NamesUpTo
<1>3. Position(Kept(p, e), 0) = 0 BY KeptCounting
<1>4. Gathered(p, e, 0) = <<>>
  <2>1. 1..0 = {} OBVIOUS
  <2> QED BY <1>3, <2>1 DEF Gathered
<1> QED BY <1>1, <1>2, <1>4 DEF FrameAt, FrameWith, Frame

(* what is next,                                                           *)
LEMMA FrameNext ==
  ASSUME NEW p \in Programs, NEW e \in p.types, NEW k \in 0..Len(MembersOf(p, e)), NEW waiting \in BOOLEAN
  PROVE  LET f == FrameAt(p, e, k, waiting)
         IN  /\ f.todo = <<>> <=> k = Len(MembersOf(p, e))
             /\ k < Len(MembersOf(p, e)) => /\ k + 1 \in 1..Len(MembersOf(p, e))
                                            /\ Head(f.todo) = MembersOf(p, e)[k + 1]
<1>1. Len(MembersOf(p, e)) \in Nat BY MembersType
<1>2. k = Len(MembersOf(p, e)) \/ k < Len(MembersOf(p, e)) BY <1>1
<1>3. FrameAt(p, e, k, waiting).todo = Rest(MembersOf(p, e), k) BY FrameFields DEF FrameAt
<1> QED BY <1>1, <1>2, <1>3, MembersType, RestIs

(* how a repeated member is left out,                                      *)
LEMMA FrameSkips ==
  ASSUME NEW p \in Programs, NEW e \in p.types, NEW k \in 0..(Len(MembersOf(p, e)) - 1), k + 1 \notin Kept(p, e)
  PROVE  /\ e.kind = "named"
         /\ \E j \in 1..k : MembersOf(p, e)[j].name = MembersOf(p, e)[k + 1].name
         /\ LET f == FrameAt(p, e, k, FALSE)
            IN  [f EXCEPT !.todo = Tail(@)] = FrameAt(p, e, k + 1, FALSE)
<1> DEFINE ms == MembersOf(p, e)
<1>0. Len(ms) \in Nat /\ DOMAIN ms = 1..Len(ms) BY MembersType
<1>1. k \in Nat /\ k \in 0..Len(ms) /\ k < Len(ms) /\ k + 1 \in 1..Len(ms) /\ (k + 1) - 1 = k
  BY <1>0
<1>2. e.kind = "named" /\ \E j \in 1..k : ms[j].name = ms[k + 1].name BY <1>0, <1>1 DEF Kept
<1>3. Tail(Rest(ms, k)) = Rest(ms, k + 1) BY <1>1, MembersType, RestIs
<1>4. NamesUpTo(ms, k) = NamesUpTo(ms, k + 1)
  <2>1. 1..(k + 1) = 1..k \cup {k + 1} BY <1>1
  <2> HIDE DEF ms
  <2> QED BY <1>2, <2>1 DEF NamesUpTo
<1>5. Gathered(p, e, k) = Gathered(p, e, k + 1) BY KeptCounting DEF Gathered
<1>6. LET f == FrameAt(p, e, k, FALSE)
      IN  [f EXCEPT !.todo = Tail(@)] = FrameAt(p, e, k + 1, FALSE)
  <2> DEFINE f == FrameAt(p, e, k, FALSE)
  <2>1. f = FrameWith(OwnerOf(e), KindOf(p, e), Rest(ms, k), NamesUpTo(ms, k), Gathered(p, e, k))
    BY DEF FrameAt
  <2> HIDE DEF f, ms
  <2>2. f.todo = Rest(ms, k) BY <2>1, FrameFields
  <2> DEFINE x == Tail(f.todo)
  <2>5. x = Tail(Rest(ms, k)) BY <2>2
  <2> HIDE DEF x
  <2>6. [f EXCEPT !.todo = x] = FrameWith(OwnerOf(e), KindOf(p, e), x, NamesUpTo(ms, k), Gathered(p, e, k))
    BY <2>1, FrameMoved
  <2>3. [f EXCEPT !.todo = Tail(f.todo)]
          = FrameWith(OwnerOf(e), KindOf(p, e), Tail(Rest(ms, k)), NamesUpTo(ms, k), Gathered(p, e, k))
    BY <2>5, <2>6, Zenon DEF x
  <2>4. FrameAt(p, e, k + 1, FALSE)
          = FrameWith(OwnerOf(e), KindOf(p, e), Rest(ms, k + 1), NamesUpTo(ms, k + 1), Gathered(p, e, k + 1))
    BY DEF FrameAt, ms
  <2> QED BY <1>3, <1>4, <1>5, <2>3, <2>4, Zenon DEF f
<1> QED BY <1>2, <1>6

(* how a member is asked for,                                              *)
LEMMA FrameAsks ==
  ASSUME NEW p \in Programs, NEW e \in p.types, NEW k \in 0..(Len(MembersOf(p, e)) - 1), k + 1 \in Kept(p, e)
  PROVE  LET f == FrameAt(p, e, k, FALSE)
         IN  [f EXCEPT !.seen = @ \cup {MembersOf(p, e)[k + 1].name}] = FrameAt(p, e, k, TRUE)
<1> DEFINE ms == MembersOf(p, e)
<1>0. Len(ms) \in Nat BY MembersType
<1>1. 1..(k + 1) = 1..k \cup {k + 1} BY <1>0
<1> HIDE DEF ms
<1>2. NamesUpTo(ms, k) \cup {ms[k + 1].name} = NamesUpTo(ms, k + 1) BY <1>1 DEF NamesUpTo
<1> DEFINE f == FrameAt(p, e, k, FALSE)
<1>3. f = FrameWith(OwnerOf(e), KindOf(p, e), Rest(ms, k), NamesUpTo(ms, k), Gathered(p, e, k))
  BY DEF FrameAt, ms
<1> HIDE DEF f
<1>4. f.seen = NamesUpTo(ms, k) BY <1>3, FrameFields
<1> DEFINE x == f.seen \cup {ms[k + 1].name}
<1>7. x = NamesUpTo(ms, k + 1) BY <1>2, <1>4
<1> HIDE DEF x
<1>8. [f EXCEPT !.seen = x] = FrameWith(OwnerOf(e), KindOf(p, e), Rest(ms, k), x, Gathered(p, e, k))
  BY <1>3, FrameSaw
<1>5. [f EXCEPT !.seen = f.seen \cup {ms[k + 1].name}]
        = FrameWith(OwnerOf(e), KindOf(p, e), Rest(ms, k), NamesUpTo(ms, k + 1), Gathered(p, e, k))
  BY <1>7, <1>8, Zenon DEF x
<1>6. FrameAt(p, e, k, TRUE)
        = FrameWith(OwnerOf(e), KindOf(p, e), Rest(ms, k), NamesUpTo(ms, k + 1), Gathered(p, e, k))
  BY DEF FrameAt, ms
<1> QED BY <1>5, <1>6, Zenon DEF f, ms

(* how its type is taken,                                                  *)
LEMMA FrameTakes ==
  ASSUME NEW p \in Programs, NEW e \in p.types, NEW k \in 0..(Len(MembersOf(p, e)) - 1), k + 1 \in Kept(p, e)
  PROVE  Taken(FrameAt(p, e, k, TRUE), Denoted(p, MembersOf(p, e)[k + 1].type)) = FrameAt(p, e, k + 1, FALSE)
<1> DEFINE ms == MembersOf(p, e)
           K == Kept(p, e)
           d == Denoted(p, ms[k + 1].type)
           m == Position(K, k)
<1>0. Len(ms) \in Nat /\ k \in 0..Len(ms) /\ k < Len(ms) BY MembersType
<1>1. Tail(Rest(ms, k)) = Rest(ms, k + 1) BY <1>0, MembersType, RestIs
<1>2. m \in Nat /\ Position(K, k + 1) = m + 1 /\ InOrder(K)[m + 1] = k + 1
  <2>1. Position(K, k + 1) = m + 1 BY KeptCounting
  <2>2. InOrder(K)[Position(K, k + 1)] = k + 1 BY KeptCounting
  <2> QED BY <1>0, <2>1, <2>2, KeptCounting
<1>3. Append(Gathered(p, e, k), d) = Gathered(p, e, k + 1)
  <2> DEFINE F(n) == Denoted(p, ms[InOrder(K)[n]].type)
             g == [n \in 1..m |-> F(n)]
             h == [n \in 1..(m + 1) |-> F(n)]
  <2>1. Gathered(p, e, k) = g /\ Gathered(p, e, k + 1) = h BY <1>2 DEF Gathered
  <2>2. F(m + 1) = d BY <1>2
  <2> HIDE DEF d, m, F
  <2>3. g \in Seq(Contents(g)) /\ Len(g) = m
    <3>1. Len(g) = m BY <1>2
    <3> QED BY <1>2, <3>1 DEF Contents
  <2>4. Append(g, d) = h
    <3> DEFINE S == Contents(g) \cup {d}
    <3> HIDE DEF g
    <3>1. g \in Seq(S)
      <4>1. Contents(g) \subseteq S OBVIOUS
      <4> HIDE DEF S
      <4> QED BY <2>3, <4>1, SeqMonotonic
    <3>d. d \in S OBVIOUS
    <3> HIDE DEF S
    <3>2. /\ Append(g, d) \in Seq(S) /\ Len(Append(g, d)) = m + 1
          /\ \A i \in 1..m : Append(g, d)[i] = g[i]
          /\ Append(g, d)[m + 1] = d
      BY <1>2, <2>3, <3>1, <3>d, AppendProperties
    <3>3. \A i \in 1..(m + 1) : Append(g, d)[i] = F(i)
      <4>1. \A i \in 1..m : g[i] = F(i) BY DEF g
      <4>2. \A i \in 1..(m + 1) : i \in 1..m \/ i = m + 1 BY <1>2
      <4> QED BY <2>2, <3>2, <4>1, <4>2
    <3>4. Append(g, d) = [i \in 1..(m + 1) |-> Append(g, d)[i]] BY <1>2, <3>2, LenProperties
    <3> QED BY <3>3, <3>4
  <2> QED BY <2>1, <2>4
<1> HIDE DEF d, K, m
<1> DEFINE f == FrameAt(p, e, k, TRUE)
           owner == OwnerOf(e)
           kind == KindOf(p, e)
           seen == NamesUpTo(ms, k + 1)
<1>4. f = FrameWith(owner, kind, Rest(ms, k), seen, Gathered(p, e, k)) BY DEF FrameAt
<1>5. FrameAt(p, e, k + 1, FALSE) = FrameWith(owner, kind, Rest(ms, k + 1), seen, Gathered(p, e, k + 1))
  BY DEF FrameAt
<1> HIDE DEF f, ms, owner, kind, seen
<1>6. Taken(f, d) = FrameWith(owner, kind, Tail(Rest(ms, k)), seen, Append(Gathered(p, e, k), d))
  BY <1>4, FrameTook
<1> QED BY <1>1, <1>3, <1>5, <1>6, Zenon DEF f, ms, d

(* and what it returns at the end.                                         *)
LEMMA FrameEnds ==
  ASSUME NEW p \in Programs, NEW e \in p.types, Known(p, e), e.kind = "named" \/ IsCompound(e),
         \A i \in Kept(p, e) : MembersOf(p, e)[i].type \in Defined(p)
  PROVE  LET f == FrameAt(p, e, Len(MembersOf(p, e)), FALSE)
         IN  e \in Defined(p) /\ Compound(f.kind, f.done, f.owner) = Denoted(p, e)
<1> DEFINE K == Kept(p, e)
           ms == MembersOf(p, e)
           D == [x \in Defined(p) |-> Denoted(p, x)]
           f == FrameAt(p, e, Len(ms), FALSE)
<1>1. e \in Defined(p)
  <2>1. Parts(p, e) \subseteq Defined(p) BY DEF Parts
  <2> QED BY <2>1, DefinedWhole
<1>2. e # NoPayload
  <2>1. NoPayload.kind = "no payload" BY DEF NoPayload
  <2>2. e.kind # "no payload" BY DEF IsCompound
  <2> QED BY <2>1, <2>2
<1>3. Denoted(p, e) = Compound(KindOf(p, e), [n \in DOMAIN InOrder(K) |-> D[ms[InOrder(K)[n]].type]], OwnerOf(e))
  BY <1>1, <1>2, Denoting, Zenon DEF DenotationOf
<1>4. Position(K, Len(ms)) = Cardinality(K) /\ DOMAIN InOrder(K) = 1..Cardinality(K)
      /\ \A n \in 1..Cardinality(K) : InOrder(K)[n] \in K
  BY KeptCounting
<1>5. \A n \in 1..Cardinality(K) : ms[InOrder(K)[n]].type \in Defined(p) BY <1>4
<1>6. Gathered(p, e, Len(ms)) = [n \in 1..Cardinality(K) |-> Denoted(p, ms[InOrder(K)[n]].type)]
  BY <1>4, Zenon DEF Gathered
<1> HIDE DEF K, ms
<1>7. Gathered(p, e, Len(ms)) = [n \in DOMAIN InOrder(K) |-> D[ms[InOrder(K)[n]].type]]
  BY <1>4, <1>5, <1>6
<1>8. f.kind = KindOf(p, e) /\ f.done = Gathered(p, e, Len(ms)) /\ f.owner = OwnerOf(e)
  BY FrameFields DEF FrameAt
<1> QED BY <1>1, <1>3, <1>7, <1>8 DEF ms

-----------------------------------------------------------------------------
(* The calls under way: what each is for is what the one before it waits   *)
(* for, the first of them what check() asked for.                          *)
Awaited(fs, root, i) == IF i = 0 THEN root ELSE Head(fs[i].todo).type
Waits(fs, c, i) == i < Len(fs) \/ c # Idle
Depth(fs, c) == IF c = Idle THEN Len(fs) - 1 ELSE Len(fs)

Resolving(p, errs, f, e, waiting) ==
  /\ e \in p.types /\ Known(p, e) /\ (e.kind = "named" \/ IsCompound(e))
  /\ \E k \in 0..Len(MembersOf(p, e)) :
       /\ f = FrameAt(p, e, k, waiting)
       /\ waiting => k + 1 \in Kept(p, e)
       /\ \A i \in Kept(p, e) : i <= k => MembersOf(p, e)[i].type \in Defined(p)
       /\ errs = {} => 1..k \subseteq Kept(p, e)

Frames(p, errs, fs, c, root) ==
  \A i \in 1..Len(fs) :
     /\ Waits(fs, c, i) => Resolving(p, errs, fs[i], Awaited(fs, root, i - 1), TRUE)
     /\ ~Waits(fs, c, i) => Resolving(p, errs, fs[i], Awaited(fs, root, i - 1), FALSE)
Chain(p, fs, c, root) ==
  \A i \in 0..Depth(fs, c) : \A j \in i..Depth(fs, c) : Awaited(fs, root, j) \in Reached(p, Awaited(fs, root, i))
Stack(p, errs, fs, c, root) == IsList(fs) /\ Frames(p, errs, fs, c, root) /\ Chain(p, fs, c, root)

(* A report does not harm a call under way.                                *)
LEMMA ResolvingGrows ==
  ASSUME NEW p, NEW errs, NEW more, errs \subseteq more, NEW f, NEW e, NEW waiting \in BOOLEAN,
         Resolving(p, errs, f, e, waiting)
  PROVE  Resolving(p, more, f, e, waiting)
<1>1. more = {} => errs = {} OBVIOUS
<1>2. PICK k \in 0..Len(MembersOf(p, e)) :
       /\ f = FrameAt(p, e, k, waiting)
       /\ waiting => k + 1 \in Kept(p, e)
       /\ \A i \in Kept(p, e) : i <= k => MembersOf(p, e)[i].type \in Defined(p)
       /\ errs = {} => 1..k \subseteq Kept(p, e)
  BY Zenon DEF Resolving
<1>3. e \in p.types /\ Known(p, e) /\ (e.kind = "named" \/ IsCompound(e)) BY Zenon DEF Resolving
<1> QED BY <1>1, <1>2, <1>3, Zenon DEF Resolving

(* What a waiting call waits for is a part of what it is for.              *)
LEMMA WaitsForPart ==
  ASSUME NEW p \in Programs, NEW errs, NEW f, NEW e, Resolving(p, errs, f, e, TRUE)
  PROVE  Head(f.todo).type \in Parts(p, e)
<1>1. e \in p.types BY DEF Resolving
<1>2. PICK k \in 0..Len(MembersOf(p, e)) : f = FrameAt(p, e, k, TRUE) /\ k + 1 \in Kept(p, e)
  BY DEF Resolving
<1>3. Len(MembersOf(p, e)) \in Nat BY <1>1, MembersType
<1>4. k < Len(MembersOf(p, e))
  <2>1. k + 1 \in 1..Len(MembersOf(p, e)) BY <1>1, <1>2, PartsType
  <2> QED BY <1>3, <2>1
<1>5. Head(f.todo) = MembersOf(p, e)[k + 1]
  <2> DEFINE g == FrameAt(p, e, k, TRUE)
  <2>1. Head(g.todo) = MembersOf(p, e)[k + 1] BY <1>1, <1>4, FrameNext
  <2> QED BY <1>2, <2>1
<1> QED BY <1>1, <1>2, <1>5, PartsType

(* Where nothing is under way, check() asks for what it needs.             *)
LEMMA StackBegins ==
  ASSUME NEW p, NEW errs, NEW c, c # Idle, NEW root \in p.types
  PROVE  Stack(p, errs, <<>>, c, root)
<1>1. Len(<<>>) = 0 /\ IsList(<<>>) BY DEF IsList, Contents
<1>2. Frames(p, errs, <<>>, c, root) BY <1>1 DEF Frames
<1>3. Chain(p, <<>>, c, root)
  <2> SUFFICES ASSUME NEW i \in 0..Depth(<<>>, c), NEW j \in i..Depth(<<>>, c)
               PROVE  Awaited(<<>>, root, j) \in Reached(p, Awaited(<<>>, root, i))
    BY DEF Chain
  <2>1. i = 0 /\ j = 0 BY <1>1 DEF Depth
  <2> QED BY <2>1, ReachedSelf DEF Awaited
<1> QED BY <1>1, <1>2, <1>3 DEF Stack

(* A question becomes an answer, or more is reported.                      *)
LEMMA StackGrows ==
  ASSUME NEW p, NEW errs, NEW more, errs \subseteq more, NEW fs, NEW c, NEW d, c = Idle <=> d = Idle, NEW root,
         Stack(p, errs, fs, c, root)
  PROVE  Stack(p, more, fs, d, root)
<1>1. Depth(fs, c) = Depth(fs, d) /\ \A i : Waits(fs, c, i) <=> Waits(fs, d, i) BY DEF Depth, Waits
<1>2. Frames(p, more, fs, d, root)
  <2> SUFFICES ASSUME NEW i \in 1..Len(fs)
               PROVE  /\ Waits(fs, c, i) => Resolving(p, more, fs[i], Awaited(fs, root, i - 1), TRUE)
                      /\ ~Waits(fs, c, i) => Resolving(p, more, fs[i], Awaited(fs, root, i - 1), FALSE)
    BY <1>1 DEF Frames
  <2> QED BY ResolvingGrows DEF Stack, Frames
<1>3. Chain(p, fs, d, root) BY <1>1 DEF Stack, Chain
<1> QED BY <1>2, <1>3 DEF Stack

(* Each call under way is for a type expression of the program that the    *)
(* one before it reaches.                                                  *)
LEMMA StackTypes ==
  ASSUME NEW p, NEW errs, NEW fs, NEW c, NEW root, Stack(p, errs, fs, c, root)
  PROVE  /\ Len(fs) \in Nat
         /\ \A i \in 0..Depth(fs, c) : Awaited(fs, root, i) \in p.types
         /\ \A i \in 0..Depth(fs, c) : Awaited(fs, root, Depth(fs, c)) \in Reached(p, Awaited(fs, root, i))
<1>1. Len(fs) \in Nat BY LenProperties DEF Stack, IsList
<1>2. Depth(fs, c) \in Int BY <1>1 DEF Depth
<1>3. \A i \in 0..Depth(fs, c) : i \in i..Depth(fs, c) /\ Depth(fs, c) \in i..Depth(fs, c) BY <1>2
<1>4. \A i \in 0..Depth(fs, c) : /\ Awaited(fs, root, i) \in Reached(p, Awaited(fs, root, i))
                                 /\ Awaited(fs, root, Depth(fs, c)) \in Reached(p, Awaited(fs, root, i))
  BY <1>3, Zenon DEF Stack, Chain
<1> QED BY <1>1, <1>4 DEF Reached

(* A call is entered.                                                      *)
LEMMA StackPush ==
  ASSUME NEW p \in Programs, NEW errs, NEW fs, NEW c, c # Idle, NEW root, Stack(p, errs, fs, c, root),
         NEW f, Resolving(p, errs, f, Awaited(fs, root, Len(fs)), FALSE)
  PROVE  Stack(p, errs, Append(fs, f), Idle, root)
<1> DEFINE gs == Append(fs, f)
           n == Len(fs)
<1>1. /\ IsList(gs) /\ n \in Nat /\ Len(gs) = n + 1
      /\ \A i \in 1..n : gs[i] = fs[i]
      /\ gs[n + 1] = f
  BY Pushing DEF Stack
<1> HIDE DEF gs, n
<1>2. \A i \in 0..n : Awaited(gs, root, i) = Awaited(fs, root, i)
  <2>1. \A i \in 0..n : i = 0 \/ i \in 1..n BY <1>1
  <2> QED BY <1>1, <2>1 DEF Awaited
<1>3. Depth(gs, Idle) = n /\ Depth(fs, c) = n BY <1>1 DEF Depth, n
<1>4. Chain(p, gs, Idle, root)
  <2> SUFFICES ASSUME NEW i \in 0..n, NEW j \in i..n
               PROVE  Awaited(gs, root, j) \in Reached(p, Awaited(gs, root, i))
    BY <1>3 DEF Chain
  <2>1. j \in 0..n BY <1>1
  <2>2. Awaited(fs, root, j) \in Reached(p, Awaited(fs, root, i)) BY <1>3 DEF Stack, Chain
  <2> QED BY <1>2, <2>1, <2>2
<1>5. Frames(p, errs, gs, Idle, root)
  <2> SUFFICES ASSUME NEW i \in 1..(n + 1)
               PROVE  /\ Waits(gs, Idle, i) => Resolving(p, errs, gs[i], Awaited(gs, root, i - 1), TRUE)
                      /\ ~Waits(gs, Idle, i) => Resolving(p, errs, gs[i], Awaited(gs, root, i - 1), FALSE)
    BY <1>1 DEF Frames
  <2>1. CASE i = n + 1
    <3>1. ~Waits(gs, Idle, i) BY <1>1, <2>1 DEF Waits
    <3>2. i - 1 = n /\ n \in 0..n BY <1>1, <2>1
    <3> QED BY <1>1, <1>2, <2>1, <3>1, <3>2 DEF n
  <2>2. CASE i # n + 1
    <3>1. i \in 1..n /\ i - 1 \in 0..n BY <1>1, <2>2
    <3>2. Waits(gs, Idle, i) /\ Waits(fs, c, i) BY <1>1, <3>1 DEF Waits
    <3>3. Resolving(p, errs, fs[i], Awaited(fs, root, i - 1), TRUE) BY <3>1, <3>2 DEF Stack, Frames, n
    <3> QED BY <1>1, <1>2, <3>1, <3>2, <3>3
  <2> QED BY <2>1, <2>2
<1> QED BY <1>1, <1>4, <1>5 DEF Stack, gs

(* What is below the innermost call does not change, whatever becomes of it*)
(* - here it is replaced,                                                  *)
LEMMA StackReplaced ==
  ASSUME NEW p \in Programs, NEW errs, NEW fs, NEW c, NEW root,
         Stack(p, errs, fs, c, root), fs # <<>>, NEW f
  PROVE  LET n == Len(fs)
             gs == Append(SubSeq(fs, 1, n - 1), f)
         IN  /\ IsList(gs) /\ n \in Nat \ {0} /\ Len(gs) = n /\ gs[n] = f
             /\ \A i \in 0..(n - 1) : Awaited(gs, root, i) = Awaited(fs, root, i)
             /\ \A i \in 1..(n - 1) : Resolving(p, errs, gs[i], Awaited(gs, root, i - 1), TRUE)
             /\ \A i \in 0..(n - 1) : \A j \in i..(n - 1) :
                   Awaited(gs, root, j) \in Reached(p, Awaited(gs, root, i))
<1> DEFINE n == Len(fs)
           bs == SubSeq(fs, 1, n - 1)
           gs == Append(bs, f)
<1>1. n \in Nat \ {0} /\ IsList(bs) /\ Len(bs) = n - 1 /\ \A i \in 1..(n - 1) : bs[i] = fs[i]
  BY Popping DEF Stack
<1> HIDE DEF bs, n
<1>2. /\ IsList(gs) /\ Len(gs) = Len(bs) + 1 /\ gs[Len(bs) + 1] = f
      /\ \A i \in 1..Len(bs) : gs[i] = bs[i]
  BY <1>1, Pushing
<1>3. IsList(gs) /\ Len(gs) = n /\ gs[n] = f /\ \A i \in 1..(n - 1) : gs[i] = fs[i]
  BY <1>1, <1>2
<1> HIDE DEF gs
<1>4. \A i \in 0..(n - 1) : Awaited(gs, root, i) = Awaited(fs, root, i)
  <2>1. \A i \in 0..(n - 1) : i = 0 \/ i \in 1..(n - 1) BY <1>1
  <2> QED BY <1>3, <2>1 DEF Awaited
<1>5. ASSUME NEW i \in 1..(n - 1) PROVE Resolving(p, errs, gs[i], Awaited(gs, root, i - 1), TRUE)
  <2>1. i \in 1..n /\ i < n /\ i - 1 \in 0..(n - 1) BY <1>1
  <2>2. Waits(fs, c, i) BY <2>1 DEF Waits, n
  <2>3. Resolving(p, errs, fs[i], Awaited(fs, root, i - 1), TRUE) BY <2>1, <2>2 DEF Stack, Frames, n
  <2> QED BY <1>3, <1>4, <2>1, <2>3
<1>6. ASSUME NEW i \in 0..(n - 1), NEW j \in i..(n - 1)
      PROVE  Awaited(gs, root, j) \in Reached(p, Awaited(gs, root, i))
  <2>1. Depth(fs, c) \in {n - 1, n} BY DEF Depth, n
  <2>2. i \in 0..Depth(fs, c) /\ j \in i..Depth(fs, c) /\ j \in 0..(n - 1) BY <1>1, <2>1
  <2>3. Awaited(fs, root, j) \in Reached(p, Awaited(fs, root, i)) BY <2>2 DEF Stack, Chain
  <2> QED BY <1>4, <2>2, <2>3
<1> QED BY <1>1, <1>3, <1>4, <1>5, <1>6, Zenon DEF gs, bs, n

(* by one that is further on and waits for nothing,                        *)
LEMMA StackMoves ==
  ASSUME NEW p \in Programs, NEW errs, NEW more, errs \subseteq more, NEW fs, NEW c, NEW root,
         Stack(p, errs, fs, c, root), fs # <<>>,
         NEW f, Resolving(p, more, f, Awaited(fs, root, Len(fs) - 1), FALSE)
  PROVE  Stack(p, more, Append(SubSeq(fs, 1, Len(fs) - 1), f), Idle, root)
<1> DEFINE n == Len(fs)
           gs == Append(SubSeq(fs, 1, n - 1), f)
<1>0. Stack(p, more, fs, c, root) BY StackGrows
<1>1. /\ IsList(gs) /\ n \in Nat \ {0} /\ Len(gs) = n /\ gs[n] = f
      /\ \A i \in 0..(n - 1) : Awaited(gs, root, i) = Awaited(fs, root, i)
      /\ \A i \in 1..(n - 1) : Resolving(p, more, gs[i], Awaited(gs, root, i - 1), TRUE)
      /\ \A i \in 0..(n - 1) : \A j \in i..(n - 1) :
            Awaited(gs, root, j) \in Reached(p, Awaited(gs, root, i))
  BY <1>0, StackReplaced, Zenon
<1>2. Resolving(p, more, f, Awaited(fs, root, n - 1), FALSE) OBVIOUS
<1> HIDE DEF gs, n
<1>3. Chain(p, gs, Idle, root) BY <1>1, Zenon DEF Chain, Depth
<1>4. Frames(p, more, gs, Idle, root)
  <2> SUFFICES ASSUME NEW i \in 1..n
               PROVE  /\ Waits(gs, Idle, i) => Resolving(p, more, gs[i], Awaited(gs, root, i - 1), TRUE)
                      /\ ~Waits(gs, Idle, i) => Resolving(p, more, gs[i], Awaited(gs, root, i - 1), FALSE)
    BY <1>1 DEF Frames
  <2>1. CASE i = n
    <3>1. ~Waits(gs, Idle, i) /\ n - 1 \in 0..(n - 1) BY <1>1, <2>1 DEF Waits
    <3> QED BY <1>1, <1>2, <2>1, <3>1
  <2>2. CASE i # n
    <3>1. i \in 1..(n - 1) /\ i < n BY <1>1, <2>2
    <3> QED BY <1>1, <3>1 DEF Waits
  <2> QED BY <2>1, <2>2
<1> QED BY <1>1, <1>3, <1>4 DEF Stack, gs, n

(* by one that now waits for its next member,                              *)
LEMMA StackAsks ==
  ASSUME NEW p \in Programs, NEW errs, NEW fs, NEW c, NEW d, d # Idle, NEW root,
         Stack(p, errs, fs, c, root), fs # <<>>,
         NEW f, Resolving(p, errs, f, Awaited(fs, root, Len(fs) - 1), TRUE)
  PROVE  Stack(p, errs, Append(SubSeq(fs, 1, Len(fs) - 1), f), d, root)
<1> DEFINE n == Len(fs)
           gs == Append(SubSeq(fs, 1, n - 1), f)
<1>1. /\ IsList(gs) /\ n \in Nat \ {0} /\ Len(gs) = n /\ gs[n] = f
      /\ \A i \in 0..(n - 1) : Awaited(gs, root, i) = Awaited(fs, root, i)
      /\ \A i \in 1..(n - 1) : Resolving(p, errs, gs[i], Awaited(gs, root, i - 1), TRUE)
      /\ \A i \in 0..(n - 1) : \A j \in i..(n - 1) :
            Awaited(gs, root, j) \in Reached(p, Awaited(gs, root, i))
  BY StackReplaced, Zenon
<1>2. Resolving(p, errs, f, Awaited(fs, root, n - 1), TRUE) OBVIOUS
<1> HIDE DEF gs, n
<1>3. Resolving(p, errs, gs[n], Awaited(gs, root, n - 1), TRUE)
  <2>1. n - 1 \in 0..(n - 1) BY <1>1
  <2> QED BY <1>1, <1>2, <2>1
<1>4. Awaited(gs, root, n) \in Parts(p, Awaited(gs, root, n - 1))
  BY <1>1, <1>3, WaitsForPart DEF Awaited
<1>5. Awaited(gs, root, n - 1) \in p.types BY <1>3 DEF Resolving
<1>6. Chain(p, gs, d, root)
  <2> SUFFICES ASSUME NEW i \in 0..n, NEW j \in i..n
               PROVE  Awaited(gs, root, j) \in Reached(p, Awaited(gs, root, i))
    BY <1>1 DEF Chain, Depth
  <2>1. CASE j # n
    <3>1. i \in 0..(n - 1) /\ j \in i..(n - 1) BY <1>1, <2>1
    <3> QED BY <1>1, <3>1
  <2>2. CASE j = n /\ i = n
    <3>1. Awaited(gs, root, n) \in p.types BY <1>4, <1>5, PartsType
    <3> QED BY <2>2, <3>1, ReachedSelf
  <2>3. CASE j = n /\ i # n
    <3>1. i \in 0..(n - 1) /\ n - 1 \in i..(n - 1) BY <1>1, <2>3
    <3>2. Awaited(gs, root, n - 1) \in Reached(p, Awaited(gs, root, i)) BY <1>1, <3>1
    <3> QED BY <1>4, <2>3, <3>2, ReachedParts
  <2> QED BY <2>1, <2>2, <2>3
<1>7. Frames(p, errs, gs, d, root)
  <2> SUFFICES ASSUME NEW i \in 1..n PROVE Resolving(p, errs, gs[i], Awaited(gs, root, i - 1), TRUE)
    BY <1>1 DEF Frames, Waits
  <2>1. i = n \/ i \in 1..(n - 1) BY <1>1
  <2> QED BY <1>1, <1>3, <2>1
<1> QED BY <1>1, <1>6, <1>7 DEF Stack, gs, n

(* and here it is over.                                                    *)
LEMMA StackPops ==
  ASSUME NEW p \in Programs, NEW errs, NEW fs, NEW c, NEW d, d # Idle, NEW root,
         Stack(p, errs, fs, c, root), fs # <<>>
  PROVE  LET bs == SubSeq(fs, 1, Len(fs) - 1)
         IN  /\ Stack(p, errs, bs, d, root) /\ Len(bs) = Len(fs) - 1
             /\ Awaited(bs, root, Len(bs)) = Awaited(fs, root, Len(fs) - 1)
<1> DEFINE n == Len(fs)
           bs == SubSeq(fs, 1, n - 1)
<1>1. n \in Nat \ {0} /\ IsList(bs) /\ Len(bs) = n - 1 /\ \A i \in 1..(n - 1) : bs[i] = fs[i]
  BY Popping DEF Stack
<1> HIDE DEF bs, n
<1>2. \A i \in 0..(n - 1) : Awaited(bs, root, i) = Awaited(fs, root, i)
  <2>1. \A i \in 0..(n - 1) : i = 0 \/ i \in 1..(n - 1) BY <1>1
  <2> QED BY <1>1, <2>1 DEF Awaited
<1>3. Chain(p, bs, d, root)
  <2> SUFFICES ASSUME NEW i \in 0..(n - 1), NEW j \in i..(n - 1)
               PROVE  Awaited(bs, root, j) \in Reached(p, Awaited(bs, root, i))
    BY <1>1 DEF Chain, Depth
  <2>1. Depth(fs, c) \in {n - 1, n} BY DEF Depth, n
  <2>2. i \in 0..Depth(fs, c) /\ j \in i..Depth(fs, c) /\ j \in 0..(n - 1) BY <1>1, <2>1
  <2>3. Awaited(fs, root, j) \in Reached(p, Awaited(fs, root, i)) BY <2>2 DEF Stack, Chain
  <2> QED BY <1>2, <2>2, <2>3
<1>4. Frames(p, errs, bs, d, root)
  <2> SUFFICES ASSUME NEW i \in 1..(n - 1) PROVE Resolving(p, errs, bs[i], Awaited(bs, root, i - 1), TRUE)
    BY <1>1 DEF Frames, Waits
  <2>1. i \in 1..n /\ i < n /\ i - 1 \in 0..(n - 1) BY <1>1
  <2>2. Waits(fs, c, i) BY <2>1 DEF Waits, n
  <2>3. Resolving(p, errs, fs[i], Awaited(fs, root, i - 1), TRUE) BY <2>1, <2>2 DEF Stack, Frames, n
  <2> QED BY <1>1, <1>2, <2>1, <2>3
<1>5. Awaited(bs, root, Len(bs)) = Awaited(fs, root, n - 1)
  <2>1. n - 1 \in 0..(n - 1) BY <1>1
  <2> QED BY <1>1, <1>2, <2>1
<1> QED BY <1>1, <1>3, <1>4, <1>5 DEF Stack, bs, n

-----------------------------------------------------------------------------
(* The invariant.  Blamed: what Caused says, of a program and its errors.  *)
Blamed(p, errs, e) ==
  \E x \in Reached(p, e) :
     /\ x.kind = "named"
     /\ \E message \in {"Unknown type", "Recursive type definition"} : <<message, x.name, Nobody>> \in errs

Busy == call # Idle \/ frames # <<>>

(* The tables hold the first declaration of each name registered so far.   *)
Filed ==
  /\ registered \in 0..Len(program.decls)
  /\ \A n \in Names(structDecls) : structDecls[n] = Definition(program, n) /\ structDecls[n].kind = "struct"
  /\ \A n \in Names(enumDecls) : enumDecls[n] = Definition(program, n) /\ enumDecls[n].kind = "enum"
  /\ DeclaredNames = NamesUpTo(program.decls, registered)
  /\ errors = {} => \A i, j \in 1..registered : program.decls[i].name = program.decls[j].name => i = j

(* How far check() is.                                                     *)
Phased ==
  /\ pass \in {"structs", "enums", "declare", "check"}
  /\ Busy \/ tried # {} \/ pass # "structs" => registered = Len(program.decls)
  /\ pass # "structs" => Names(structDecls) \subseteq tried
  /\ InParams => Names(enumDecls) \subseteq tried
  /\ tried \subseteq DeclaredNames

(* A name is remembered with what it denotes, and without errors none of   *)
(* its members was left out.                                               *)
Remembered ==
  \A n \in Names(namedTypes) :
     /\ Named(n) \in Defined(program) /\ namedTypes[n] = Denoted(program, Named(n))
     /\ errors = {} => DOMAIN MembersOf(program, Named(n)) \subseteq Kept(program, Named(n))

Collected ==
  /\ IsList(results)
  /\ ~InParams => results = <<>>
  /\ Len(results) <= Len(program.params)
  /\ \A i \in 1..Len(results) :
        results[i] = Meaning(program, program.params[i].type) /\ (errors = {} => results[i] # Null)

Truthful == \A error \in errors : IsTrue(error)

(* What check() asked for, and what is asked or answered now of the        *)
(* expression e: a type it denotes, or none and its cause is reported.     *)
Asks(root) ==
  IF InParams THEN ~AllParams /\ root = Param.type ELSE \E name \in tried : root = Named(name)
Current(p, errs, named, c, e) ==
  \/ c = Idle
  \/ c = Resolve(e) /\ e # NoPayload
  \/ c = Answer(Null) /\ Blamed(p, errs, e)
  \/ /\ e \in Defined(p) /\ c = Answer(Denoted(p, e))
     /\ e.kind = "named" => e.name \in named
Under(root) ==
  /\ \A n \in tried : n \in Names(namedTypes) \/ Blamed(program, errors, Named(n)) \/ (Busy /\ ~InParams /\ root = Named(n))
  /\ Busy => /\ root \in Roots(program) /\ Asks(root)
             /\ Stack(program, errors, frames, call, root)
             /\ Current(program, errors, Names(namedTypes), call, Awaited(frames, root, Len(frames)))

Sound == Filed /\ Phased /\ Remembered /\ Collected /\ Truthful /\ \E root : Under(root)

(* More is reported: the blame stays.                                      *)
LEMMA BlamedGrows ==
  ASSUME NEW p, NEW errs, NEW more, errs \subseteq more, NEW e, Blamed(p, errs, e)
  PROVE  Blamed(p, more, e)
BY Zenon DEF Blamed

(* What is wrong with a part is wrong with the whole.                      *)
LEMMA BlamedOfPart ==
  ASSUME NEW p \in Programs, NEW errs, NEW e \in p.types, NEW x \in Parts(p, e), Blamed(p, errs, x)
  PROVE  Blamed(p, errs, e)
BY ReachedOfPart, Zenon DEF Blamed

(* A name that is reported is to blame for itself.                         *)
LEMMA BlamedNow ==
  ASSUME NEW p, NEW errs, NEW e \in p.types, e.kind = "named",
         NEW message \in {"Unknown type", "Recursive type definition"}, <<message, e.name, Nobody>> \in errs
  PROVE  Blamed(p, errs, e)
BY ReachedSelf, Zenon DEF Blamed

(* A type expression whose lack of a type is explained has none.           *)
LEMMA BlamedUndefined ==
  ASSUME program \in Programs, Truthful, NEW e, Blamed(program, errors, e)
  PROVE  e \notin Defined(program)
<1> SUFFICES ASSUME e \in Defined(program) PROVE FALSE OBVIOUS
<1>1. PICK x \in Reached(program, e), message \in {"Unknown type", "Recursive type definition"} :
         x.kind = "named" /\ <<message, x.name, Nobody>> \in errors
  BY Zenon DEF Blamed
<1>2. x \in Defined(program) BY DefinedReached
<1>3. x = Named(x.name) /\ IsDeclared(program, x.name)
  BY <1>1, <1>2, DefinedParts, TypesAssumption DEF Known
<1>4. ~Circular(program, x) BY <1>2, DefinedAcyclic
<1>5. IsTrue(<<message, x.name, Nobody>>) BY <1>1 DEF Truthful
<1> QED BY <1>3, <1>4, <1>5 DEF IsTrue

(* What check() asks for is in the program, and not an empty payload.      *)
LEMMA RootType ==
  ASSUME NEW p \in Programs, NEW root \in Roots(p)
  PROVE  root \in p.types /\ root # NoPayload
<1>1. CASE \E decl \in RangeOf(p.decls) : root = Named(decl.name)
  <2>1. PICK decl \in RangeOf(p.decls) : root = Named(decl.name) BY <1>1
  <2>2. root \in p.types BY <2>1, TypesAssumption
  <2>3. root.kind = "named" /\ NoPayload.kind = "no payload" BY <2>1 DEF Named, NoPayload
  <2> QED BY <2>2, <2>3
<1>2. CASE \E param \in RangeOf(p.params) : root = param.type
  <2>1. PICK i \in DOMAIN p.params : root = p.params[i].type /\ p.params[i] \in RangeOf(p.params)
    BY <1>2 DEF RangeOf
  <2>2. p.params \in Seq([name : STRING, type : p.types]) BY ProgramsAssumption
  <2>3. p.params[i] \in [name : STRING, type : p.types] BY <2>2, LenProperties, ElementOfSeq
  <2>4. p.params[i].type # NoPayload BY <2>1, TypesAssumption
  <2>5. p.params[i].type \in p.types BY <2>3
  <2> QED BY <2>1, <2>4, <2>5
<1> QED BY <1>1, <1>2 DEF Roots

-----------------------------------------------------------------------------
(* The part of the invariant about check() only depends on what check()    *)
(* changes, and more errors do not harm it.                                *)
LEMMA FiledStays ==
  ASSUME Filed, UNCHANGED <<program, registered, tables>>, errors \subseteq errors'
  PROVE  Filed'
<1>1. UNCHANGED <<program, registered, structDecls, enumDecls>> BY DEF tables
<1>2. errors' = {} => errors = {} OBVIOUS
<1> QED BY <1>1, <1>2 DEF Filed, DeclaredNames, Names

(* Nor the types of the parameters,                                        *)
LEMMA CollectedStays ==
  ASSUME Collected, UNCHANGED <<program, pass, results>>, errors \subseteq errors'
  PROVE  Collected'
<1>1. errors' = {} => errors = {} OBVIOUS
<1> QED BY <1>1 DEF Collected, InParams

(* nor the names remembered.                                               *)
LEMMA RememberedStays ==
  ASSUME Remembered, UNCHANGED <<program, namedTypes>>, errors \subseteq errors'
  PROVE  Remembered'
<1>1. errors' = {} => errors = {} OBVIOUS
<1> QED BY <1>1 DEF Remembered, Names

(* A true report.                                                          *)
LEMMA TruthfulGrows ==
  ASSUME Truthful, UNCHANGED program, NEW message, NEW name, NEW where, Report(message, name, where),
         IsTrue(<<message, name, where>>)
  PROVE  Truthful' /\ errors \subseteq errors' /\ <<message, name, where>> \in errors' /\ errors' # {}
<1>1. \A error : IsTrue(error) <=> IsTrue(error)' BY DEF IsTrue
<1>2. errors' = errors \cup {<<message, name, where>>} BY DEF Report
<1>3. \A error \in errors' : IsTrue(error) BY <1>2, Zenon DEF Truthful
<1>4. Truthful' BY <1>1, <1>3, Zenon DEF Truthful
<1> QED BY <1>2, <1>4

(* No report is as true as before.                                         *)
LEMMA TruthfulStays ==
  ASSUME Truthful, UNCHANGED <<program, errors>>
  PROVE  Truthful'
<1>1. \A error : IsTrue(error) <=> IsTrue(error)' BY DEF IsTrue
<1> QED BY <1>1 DEF Truthful

(* A step of a call under way keeps what is said of check().               *)
LEMMA Within ==
  ASSUME Inv, Sound, KeepRest, Busy, Busy', errors \subseteq errors', Truthful', Remembered',
         Names(namedTypes) \subseteq Names(namedTypes'),
         \A root : Under(root) =>
            /\ Stack(program, errors', frames', call', root)
            /\ Current(program, errors', Names(namedTypes'), call', Awaited(frames', root, Len(frames')))
  PROVE  Sound'
<1>1. UNCHANGED <<program, registered, structDecls, enumDecls, tables, pass, tried, results>>
  BY DEF KeepRest, tables, progress
<1>2. Filed' /\ Collected' BY <1>1, FiledStays, CollectedStays DEF Sound
<1>3. Phased' BY <1>1 DEF Sound, Phased, InParams, DeclaredNames, Names
<1>4. PICK root : Under(root) BY DEF Sound
<1>5. Under(root)'
  <2>1. \A n \in tried' : n \in Names(namedTypes)' \/ Blamed(program, errors, Named(n))' \/ (Busy' /\ ~InParams' /\ root = Named(n))
    <3> SUFFICES ASSUME NEW n \in tried
                 PROVE  \/ n \in Names(namedTypes') \/ Blamed(program, errors', Named(n))
                        \/ (Busy /\ ~InParams /\ root = Named(n))
      BY <1>1 DEF InParams, Names
    <3>1. n \in Names(namedTypes) \/ Blamed(program, errors, Named(n)) \/ (Busy /\ ~InParams /\ root = Named(n))
      BY <1>4 DEF Under
    <3> QED BY <3>1, BlamedGrows
  <2>2. root \in Roots(program') BY <1>1, <1>4 DEF Under
  <2>3. Asks(root)' BY <1>1, <1>4 DEF Under, Asks, InParams, AllParams, Param
  <2>4. /\ Stack(program', errors', frames', call', root)
        /\ Current(program', errors', Names(namedTypes'), call', Awaited(frames', root, Len(frames')))
    BY <1>1, <1>4
  <2> QED BY <2>1, <2>2, <2>3, <2>4 DEF Under, Names
<1> QED BY <1>2, <1>3, <1>5 DEF Sound

(* What is asked for, by whom.                                             *)
LEMMA Asking ==
  ASSUME Inv, Sound, call.do = "resolve", NEW root, Under(root)
  PROVE  /\ Busy /\ call # Idle /\ program \in Programs /\ Truthful /\ registered = Len(program.decls)
         /\ call.type # NoPayload
         /\ call.type = Awaited(frames, root, Len(frames)) /\ call.type \in program.types
         /\ root \in Roots(program) /\ call.type \in Reached(program, root)
         /\ Stack(program, errors, frames, call, root)
<1>1. call # Idle /\ \A x : call # Answer(x) BY DEF Idle, Answer
<1>2. Busy /\ program \in Programs /\ Truthful /\ registered = Len(program.decls)
  BY <1>1 DEF Busy, Inv, Declarations, Sound, Phased
<1>3. call = Resolve(Awaited(frames, root, Len(frames))) /\ Awaited(frames, root, Len(frames)) # NoPayload
      /\ root \in Roots(program) /\ Stack(program, errors, frames, call, root)
  BY <1>1, <1>2, Zenon DEF Under, Current
<1>4. call.type = Awaited(frames, root, Len(frames))
  <2> DEFINE e == Awaited(frames, root, Len(frames))
  <2> HIDE DEF e
  <2>1. call = Resolve(e) BY <1>3 DEF e
  <2> QED BY <2>1 DEF Resolve, e
<1>5. Len(frames) \in Nat /\ Depth(frames, call) = Len(frames) BY <1>1, <1>3, StackTypes DEF Depth
<1>6. 0 \in 0..Len(frames) /\ Len(frames) \in 0..Len(frames) BY <1>5
<1>7. /\ Awaited(frames, root, Len(frames)) \in program.types
      /\ Awaited(frames, root, Len(frames)) \in Reached(program, Awaited(frames, root, 0))
  BY <1>3, <1>5, <1>6, StackTypes
<1>8. Awaited(frames, root, 0) = root BY DEF Awaited
<1> QED BY <1>1, <1>2, <1>3, <1>4, <1>7, <1>8

-----------------------------------------------------------------------------
(* What a call under way with nothing to resolve denotes.                  *)
LEMMA LeafDefined ==
  ASSUME NEW p \in Programs, NEW e \in p.types, e.kind \notin {"named", "array", "sum", "product"}
  PROVE  /\ e \in Defined(p)
         /\ e = NoPayload => Denoted(p, e) = Primitive("null")
         /\ e # NoPayload => Denoted(p, e) = e
<1>1. Known(p, e) /\ ~IsCompound(e) /\ e.kind # "named" BY DEF Known, IsCompound
<1>2. MembersOf(p, e) = <<>> BY <1>1 DEF MembersOf
<1>3. Parts(p, e) = {} BY <1>2 DEF Parts, Kept
<1>4. e \in Defined(p) BY <1>1, <1>3, DefinedWhole
<1>5. Denoted(p, e) = DenotationOf(p, [x \in Defined(p) |-> Denoted(p, x)], e) BY <1>4, Denoting
<1> QED BY <1>1, <1>4, <1>5, Zenon DEF DenotationOf

(* An answer to what is asked.                                             *)
LEMMA Answering ==
  ASSUME Inv, Sound, call.do = "resolve", NEW type, Return(type), errors \subseteq errors', Truthful',
         \/ type = Null /\ Blamed(program, errors', call.type)
         \/ /\ call.type \in Defined(program) /\ type = Denoted(program, call.type)
            /\ call.type.kind = "named" => call.type.name \in Names(namedTypes)
  PROVE  Sound'
<1>1. call' = Answer(type) /\ KeepRest /\ UNCHANGED <<program, namedTypes, resolvingTypes, frames>>
  BY DEF Return, resolver, KeepRest
<1>2. call' # Idle BY <1>1 DEF Answer, Idle
<1>3. Remembered' BY <1>1, RememberedStays DEF Sound
<1>4. PICK root0 : Under(root0) BY DEF Sound
<1>5. Busy /\ Busy' BY <1>2, <1>4, Asking DEF Busy
<1>6. ASSUME NEW root, Under(root)
      PROVE  /\ Stack(program, errors', frames', call', root)
             /\ Current(program, errors', Names(namedTypes'), call', Awaited(frames', root, Len(frames')))
  <2>1. /\ call # Idle /\ call.type = Awaited(frames, root, Len(frames))
        /\ Stack(program, errors, frames, call, root)
    BY <1>6, Asking
  <2>2. Stack(program, errors', frames', call', root)
    <3>1. Stack(program, errors', frames, call', root) BY <1>2, <2>1, StackGrows
    <3> QED BY <1>1, <3>1
  <2>3. Current(program, errors', Names(namedTypes), call', call.type)
    BY <1>1, Zenon DEF Current
  <2> QED BY <1>1, <2>1, <2>2, <2>3
<1>7. Names(namedTypes) \subseteq Names(namedTypes') BY <1>1
<1> QED BY <1>1, <1>3, <1>5, <1>6, <1>7, Within

(* A primitive type denotes itself,                                        *)
LEMMA SoundPrimitive == Inv /\ Sound /\ ResolvePrimitive => Sound'
<1> SUFFICES ASSUME Inv, Sound, ResolvePrimitive PROVE Sound' OBVIOUS
<1>1. PICK root : Under(root) BY DEF Sound
<1>2. call.do = "resolve" /\ call.type.kind \notin {"named", "array", "sum", "product"}
      /\ Return(call.type) /\ UNCHANGED <<program, errors>>
  BY DEF ResolvePrimitive, Return, KeepRest
<1>3. program \in Programs /\ Truthful /\ call.type \in program.types /\ call.type # NoPayload
  BY <1>1, <1>2, Asking
<1>4. call.type \in Defined(program) /\ call.type = Denoted(program, call.type) BY <1>2, <1>3, LeafDefined
<1>5. Truthful' BY <1>2, <1>3, TruthfulStays
<1>6. errors \subseteq errors' /\ call.type.kind # "named" BY <1>2
<1> QED BY <1>2, <1>4, <1>5, <1>6, Answering

(* a name that is remembered what its declaration denotes,                 *)
LEMMA SoundReuse == Inv /\ Sound /\ ReuseNamedType => Sound'
<1> SUFFICES ASSUME Inv, Sound, ReuseNamedType PROVE Sound' OBVIOUS
<1> DEFINE e == call.type
<1>1. PICK root : Under(root) BY DEF Sound
<1>2. call.do = "resolve" /\ e.kind = "named" /\ e.name \in Names(namedTypes)
      /\ Return(namedTypes[e.name]) /\ UNCHANGED <<program, errors>>
  BY DEF ReuseNamedType, Return, KeepRest, Asked
<1>3. program \in Programs /\ Truthful /\ e \in program.types BY <1>1, <1>2, Asking
<1>4. e = Named(e.name) BY <1>2, <1>3, TypesAssumption
<1>5. e \in Defined(program) /\ namedTypes[e.name] = Denoted(program, e)
  <2>1. Named(e.name) \in Defined(program) /\ namedTypes[e.name] = Denoted(program, Named(e.name))
    BY <1>2 DEF Sound, Remembered
  <2> HIDE DEF e
  <2> QED BY <1>4, <2>1
<1>6. Truthful' BY <1>2, <1>3, TruthfulStays
<1>7. errors \subseteq errors' BY <1>2
<1> QED BY <1>2, <1>5, <1>6, <1>7, Answering

(* and a name without a declaration nothing.                               *)
LEMMA SoundUnknown == Inv /\ Sound /\ RefuseUnknown => Sound'
<1> SUFFICES ASSUME Inv, Sound, RefuseUnknown PROVE Sound' OBVIOUS
<1> DEFINE e == call.type
<1>1. PICK root : Under(root) BY DEF Sound
<1>2. call.do = "resolve" /\ e.kind = "named" /\ ~Declared(e.name)
      /\ Report("Unknown type", e.name, Nobody) /\ Return(Null) /\ UNCHANGED program
  BY DEF RefuseUnknown, Return, KeepRest, Asked
<1>3. program \in Programs /\ Truthful /\ e \in program.types /\ registered = Len(program.decls)
      /\ root \in Roots(program) /\ e \in Reached(program, root)
  BY <1>1, <1>2, Asking
<1>4. e = Named(e.name) BY <1>2, <1>3, TypesAssumption
<1>5. ~IsDeclared(program, e.name)
  <2>1. DOMAIN program.decls = 1..Len(program.decls) BY <1>3, ProgramsAssumption, LenProperties
  <2>2. e.name \notin NamesUpTo(program.decls, Len(program.decls))
    BY <1>2, <1>3 DEF Declared, Sound, Filed, DeclaredNames
  <2> QED BY <2>1, <2>2 DEF IsDeclared, RangeOf, NamesUpTo
<1> HIDE DEF e
<1>6. IsTrue(<<"Unknown type", e.name, Nobody>>)
  <2>1. \E r \in Roots(program) : Named(e.name) \in Reached(program, r) BY <1>3, <1>4
  <2> QED BY <1>5, <2>1 DEF IsTrue
<1>7. Truthful' /\ errors \subseteq errors' /\ <<"Unknown type", e.name, Nobody>> \in errors'
  BY <1>2, <1>3, <1>6, TruthfulGrows
<1>8. Blamed(program, errors', e) BY <1>2, <1>3, <1>7, BlamedNow
<1> QED BY <1>2, <1>7, <1>8, Answering DEF e

(* The name is that of a call under way, so its declaration reaches itself.*)
LEMMA SoundRecursion == Inv /\ Sound /\ RefuseRecursion => Sound'
<1> SUFFICES ASSUME Inv, Sound, RefuseRecursion PROVE Sound' OBVIOUS
<1> DEFINE e == call.type
<1>1. PICK root : Under(root) BY DEF Sound
<1>2. call.do = "resolve" /\ e.kind = "named" /\ e.name \in resolvingTypes
      /\ Report("Recursive type definition", e.name, Nobody) /\ Return(Null) /\ UNCHANGED program
  BY DEF RefuseRecursion, Return, KeepRest, Asked
<1>3. program \in Programs /\ Truthful /\ e \in program.types /\ call # Idle
      /\ e = Awaited(frames, root, Len(frames)) /\ Stack(program, errors, frames, call, root)
  BY <1>1, <1>2, Asking
<1>4. e = Named(e.name) BY <1>2, <1>3, TypesAssumption
<1> HIDE DEF e
<1>5. PICK i \in 1..Len(frames) : frames[i].owner = e.name /\ e.name # Nobody
  BY <1>2 DEF Inv, ResolvingIsActive, Owners
<1>6. Resolving(program, errors, frames[i], Awaited(frames, root, i - 1), TRUE)
  BY <1>3 DEF Stack, Frames, Waits
<1> DEFINE x == Awaited(frames, root, i - 1)
<1>7. x = e /\ IsDeclared(program, e.name)
  <2>1. x \in program.types /\ Known(program, x) BY <1>6 DEF Resolving
  <2>2. PICK k : frames[i] = FrameAt(program, x, k, TRUE) BY <1>6, Zenon DEF Resolving
  <2>3. frames[i].owner = OwnerOf(x) BY <2>2, FrameFields DEF FrameAt
  <2>4. x.kind = "named" /\ x.name = e.name BY <1>5, <2>3 DEF OwnerOf
  <2>5. x = Named(x.name) BY <1>3, <2>1, <2>4, TypesAssumption
  <2> HIDE DEF x
  <2> QED BY <1>4, <2>1, <2>4, <2>5 DEF Known
<1>8. Circular(program, e)
  <2>1. Len(frames) \in Nat /\ Depth(frames, call) = Len(frames) BY <1>3, StackTypes DEF Depth
  <2>2. i \in 0..Len(frames) BY <2>1
  <2>3. Awaited(frames, root, Len(frames)) \in Reached(program, Awaited(frames, root, i))
    BY <1>3, <2>1, <2>2, StackTypes
  <2>4. Head(frames[i].todo).type \in Parts(program, x) BY <1>3, <1>6, WaitsForPart
  <2>5. Awaited(frames, root, i) = Head(frames[i].todo).type BY DEF Awaited
  <2> HIDE DEF x
  <2> QED BY <1>3, <1>7, <2>3, <2>4, <2>5 DEF Circular
<1>9. IsTrue(<<"Recursive type definition", e.name, Nobody>>) BY <1>4, <1>7, <1>8 DEF IsTrue
<1>10. Truthful' /\ errors \subseteq errors' /\ <<"Recursive type definition", e.name, Nobody>> \in errors'
  BY <1>2, <1>3, <1>9, TruthfulGrows
<1>11. Blamed(program, errors', e) BY <1>2, <1>3, <1>10, BlamedNow
<1> QED BY <1>2, <1>10, <1>11, Answering DEF e

-----------------------------------------------------------------------------
(* A call is entered, with all the members of what it is for before it.    *)
LEMMA SoundEntering ==
  ASSUME Inv, Sound, call.do = "resolve", KeepRest, UNCHANGED <<namedTypes, errors>>, call' = Idle,
         LET e == call.type
         IN  /\ Known(program, e) /\ (e.kind = "named" \/ IsCompound(e))
             /\ Push(Frame(OwnerOf(e), KindOf(program, e), MembersOf(program, e)))
  PROVE  Sound'
<1> DEFINE e == call.type
           f == Frame(OwnerOf(e), KindOf(program, e), MembersOf(program, e))
<1>1. PICK root0 : Under(root0) BY DEF Sound
<1>2. program \in Programs /\ e \in program.types /\ Truthful /\ Busy BY <1>1, Asking
<1>3. UNCHANGED program BY DEF KeepRest
<1>4. Truthful' /\ Remembered' BY <1>2, <1>3, TruthfulStays, RememberedStays DEF Sound
<1>5. frames' = Append(frames, f) BY DEF Push
<1>6. Resolving(program, errors, f, e, FALSE)
  <2>1. f = FrameAt(program, e, 0, FALSE) BY <1>2, FrameStarts
  <2>2. Known(program, e) /\ (e.kind = "named" \/ IsCompound(e)) OBVIOUS
  <2>3. 0 \in 0..Len(MembersOf(program, e)) BY <1>2, MembersType
  <2>4. \A i \in Kept(program, e) : ~(i <= 0) BY <1>2, PartsType
  <2>5. 1..0 = {} OBVIOUS
  <2> HIDE DEF f, e
  <2> QED BY <1>2, <2>1, <2>2, <2>3, <2>4, <2>5 DEF Resolving
<1> HIDE DEF f
<1>7. ASSUME NEW root, Under(root)
      PROVE  /\ Stack(program, errors', frames', call', root)
             /\ Current(program, errors', Names(namedTypes'), call', Awaited(frames', root, Len(frames')))
  <2>1. call # Idle /\ e = Awaited(frames, root, Len(frames)) /\ Stack(program, errors, frames, call, root)
    BY <1>7, Asking
  <2> HIDE DEF e
  <2>2. Resolving(program, errors, f, Awaited(frames, root, Len(frames)), FALSE) BY <1>6, <2>1
  <2>3. Stack(program, errors, Append(frames, f), Idle, root) BY <1>2, <2>1, <2>2, StackPush
  <2> QED BY <1>5, <2>3 DEF Current
<1>8. Busy'
  <2>1. IsList(frames) BY DEF Inv, Calls
  <2>2. Len(frames) \in Nat /\ Len(frames') = Len(frames) + 1 BY <1>5, <2>1, Pushing
  <2>3. Len(frames') # 0 BY <2>2
  <2>4. frames' # <<>> BY <2>3
  <2> QED BY <2>4 DEF Busy
<1> QED BY <1>2, <1>4, <1>7, <1>8, Within

(* The table has the first declaration of the name.                        *)
LEMMA SoundDeclaration == Inv /\ Sound /\ EnterDeclaration => Sound'
<1> SUFFICES ASSUME Inv, Sound, EnterDeclaration PROVE Sound' OBVIOUS
<1> DEFINE e == call.type
           n == call.type.name
           decl == DeclOf(n)
<1>1. PICK root : Under(root) BY DEF Sound
<1>2. /\ call.do = "resolve" /\ e.kind = "named" /\ Declared(n)
      /\ Push(Frame(decl.name, IF decl.kind = "struct" THEN "product" ELSE "sum", decl.members))
      /\ KeepRest /\ UNCHANGED <<namedTypes, errors>> /\ call' = Idle
  BY DEF EnterDeclaration, Asked
<1>3. program \in Programs /\ e \in program.types /\ registered = Len(program.decls)
  BY <1>1, <1>2, Asking
<1>4. decl = Definition(program, n)
  BY <1>2 DEF Sound, Filed, Declared, DeclOf
<1>5. IsDeclared(program, n)
  <2>1. DOMAIN program.decls = 1..Len(program.decls) BY <1>3, ProgramsAssumption, LenProperties
  <2>2. n \in NamesUpTo(program.decls, Len(program.decls))
    BY <1>2, <1>3 DEF Declared, Sound, Filed, DeclaredNames
  <2> QED BY <2>1, <2>2 DEF IsDeclared, RangeOf, NamesUpTo
<1>6. decl.name = n BY <1>3, <1>4, <1>5, DefinitionType
<1>7. OwnerOf(e) = n BY <1>2 DEF OwnerOf
<1>8. MembersOf(program, e) = decl.members BY <1>2, <1>4, <1>5 DEF MembersOf, IsCompound
<1>9. KindOf(program, e) = IF decl.kind = "struct" THEN "product" ELSE "sum"
  BY <1>2, <1>4 DEF KindOf
<1>10. Known(program, e) BY <1>5 DEF Known
<1> HIDE DEF decl
<1>11. Push(Frame(OwnerOf(e), KindOf(program, e), MembersOf(program, e)))
  BY <1>2, <1>6, <1>7, <1>8, <1>9
<1> QED BY <1>2, <1>10, <1>11, SoundEntering

(* The parts of a compound have no names.                                  *)
LEMMA SoundCompound == Inv /\ Sound /\ EnterCompound => Sound'
<1> SUFFICES ASSUME Inv, Sound, EnterCompound PROVE Sound' OBVIOUS
<1> DEFINE e == call.type
<1>2. /\ call.do = "resolve" /\ IsCompound(e)
      /\ Push(Frame(Nobody, e.kind, [i \in DOMAIN e.of |-> [name |-> Nobody, type |-> e.of[i]]]))
      /\ KeepRest /\ UNCHANGED <<namedTypes, errors>> /\ call' = Idle
  BY DEF EnterCompound
<1>3. e.kind # "named" BY <1>2 DEF IsCompound
<1>4. OwnerOf(e) = Nobody /\ KindOf(program, e) = e.kind /\ Known(program, e)
  BY <1>3 DEF OwnerOf, KindOf, Known
<1>5. MembersOf(program, e) = [i \in DOMAIN e.of |-> [name |-> Nobody, type |-> e.of[i]]]
  BY <1>2, <1>3 DEF MembersOf
<1> HIDE DEF e
<1>6. Push(Frame(OwnerOf(e), KindOf(program, e), MembersOf(program, e))) BY <1>2, <1>4, <1>5
<1> QED BY <1>2, <1>4, <1>6, SoundEntering DEF e

-----------------------------------------------------------------------------
(* Where the loop of the innermost call is.                                *)
LEMMA Looked ==
  ASSUME Inv, Sound, InLoop, NEW root, Under(root)
  PROVE  /\ program \in Programs /\ Truthful /\ Busy
         /\ Stack(program, errors, frames, call, root) /\ Len(frames) \in Nat
         /\ Resolving(program, errors, Top, Awaited(frames, root, Len(frames) - 1), FALSE)
<1>1. call = Idle /\ frames # <<>> /\ Busy BY DEF InLoop, Busy
<1>2. Stack(program, errors, frames, call, root) BY <1>1 DEF Under
<1>3. Len(frames) \in Nat \ {0} BY Popping DEF Inv, Calls, InLoop
<1>4. Len(frames) \in 1..Len(frames) /\ ~Waits(frames, call, Len(frames)) BY <1>1, <1>3 DEF Waits
<1>5. Resolving(program, errors, Top, Awaited(frames, root, Len(frames) - 1), FALSE)
  BY <1>2, <1>4 DEF Stack, Frames, Top
<1> QED BY <1>1, <1>2, <1>3, <1>5 DEF Inv, Declarations, Sound

(* What the next member is, and whether it is left out.                    *)
LEMMA Looking ==
  ASSUME program \in Programs, MorePart, NEW e, Resolving(program, errors, Top, e, FALSE)
  PROVE  \E k \in 0..(Len(MembersOf(program, e)) - 1) :
           /\ Top = FrameAt(program, e, k, FALSE) /\ k \in Nat
           /\ \A i \in Kept(program, e) : i <= k => MembersOf(program, e)[i].type \in Defined(program)
           /\ errors = {} => 1..k \subseteq Kept(program, e)
           /\ k + 1 \in 1..Len(MembersOf(program, e))
           /\ Part = MembersOf(program, e)[k + 1]
           /\ Repeated <=> k + 1 \notin Kept(program, e)
<1> DEFINE ms == MembersOf(program, e)
<1>1. e \in program.types /\ Known(program, e) /\ (e.kind = "named" \/ IsCompound(e)) BY Zenon DEF Resolving
<1>2. PICK k \in 0..Len(ms) :
        /\ Top = FrameAt(program, e, k, FALSE)
        /\ \A i \in Kept(program, e) : i <= k => ms[i].type \in Defined(program)
        /\ errors = {} => 1..k \subseteq Kept(program, e)
  BY Zenon DEF Resolving
<1>3. Len(ms) \in Nat /\ DOMAIN ms = 1..Len(ms) BY <1>1, MembersType
<1>4. Top.todo = <<>> <=> k = Len(ms)
  <2> DEFINE f == FrameAt(program, e, k, FALSE)
  <2>1. f.todo = <<>> <=> k = Len(ms) BY <1>1, FrameNext
  <2> QED BY <1>2, <2>1
<1>5. k \in 0..(Len(ms) - 1) /\ k < Len(ms) /\ k \in Nat /\ k + 1 \in 1..Len(ms) /\ (k + 1) - 1 = k
  <2>1. k # Len(ms) BY <1>4 DEF MorePart
  <2>2. k \in 0..Len(ms) /\ Len(ms) \in Nat BY <1>2, <1>3
  <2> DEFINE n == Len(ms)
  <2> HIDE DEF n
  <2>3. k \in 0..n /\ n \in Nat /\ k # n BY <2>1, <2>2 DEF n
  <2>4. k \in 0..(n - 1) /\ k < n /\ k \in Nat /\ k + 1 \in 1..n /\ (k + 1) - 1 = k BY <2>3
  <2> QED BY <2>4 DEF n
<1>6. Part = ms[k + 1]
  <2> DEFINE f == FrameAt(program, e, k, FALSE)
  <2>1. Head(f.todo) = ms[k + 1] BY <1>1, <1>5, FrameNext
  <2> QED BY <1>2, <2>1 DEF Part
<1>7. Top.owner = OwnerOf(e) /\ Top.seen = NamesUpTo(ms, k) BY <1>2, FrameFields DEF FrameAt
<1>8. IsDecl(Top) <=> e.kind = "named"
  <2>1. CASE e.kind = "named"
    <3>1. e.name # Nobody BY <1>1, <2>1, DefinitionType DEF Known
    <3> QED BY <1>7, <2>1, <3>1 DEF IsDecl, OwnerOf
  <2>2. CASE e.kind # "named" BY <1>7, <2>2 DEF IsDecl, OwnerOf
  <2> QED BY <2>1, <2>2
<1>9. Repeated <=> e.kind = "named" /\ \E j \in 1..k : ms[j].name = ms[k + 1].name
  BY <1>6, <1>7, <1>8 DEF Repeated, NamesUpTo
<1>10. Repeated <=> k + 1 \notin Kept(program, e) BY <1>3, <1>5, <1>9 DEF Kept
<1> QED BY <1>2, <1>5, <1>6, <1>10

(* The innermost call goes on to its next member.                          *)
LEMMA SoundMoving ==
  ASSUME Inv, Sound, frames # <<>>, KeepRest, UNCHANGED namedTypes, Truthful', errors \subseteq errors',
         call' = Idle, NEW f, SetTop(f),
         \A root : Under(root) => Resolving(program, errors', f, Awaited(frames, root, Len(frames) - 1), FALSE)
  PROVE  Sound'
<1>1. Busy /\ program \in Programs /\ UNCHANGED program BY DEF Busy, Inv, Declarations, KeepRest
<1>2. Remembered' BY <1>1, RememberedStays DEF Sound
<1>3. frames' = Append(SubSeq(frames, 1, Len(frames) - 1), f) BY DEF SetTop, Below
<1>4. Busy'
  <2> DEFINE bs == SubSeq(frames, 1, Len(frames) - 1)
  <2>1. IsList(bs) BY Popping DEF Inv, Calls
  <2> HIDE DEF bs
  <2>2. Len(bs) \in Nat /\ Len(frames') = Len(bs) + 1 BY <1>3, <2>1, Pushing DEF bs
  <2>3. Len(frames') # 0 BY <2>2
  <2>4. frames' # <<>> BY <2>3
  <2> QED BY <2>4 DEF Busy
<1>5. ASSUME NEW root, Under(root)
      PROVE  /\ Stack(program, errors', frames', call', root)
             /\ Current(program, errors', Names(namedTypes'), call', Awaited(frames', root, Len(frames')))
  <2>1. Stack(program, errors, frames, call, root) BY <1>1, <1>5 DEF Under
  <2>2. Resolving(program, errors', f, Awaited(frames, root, Len(frames) - 1), FALSE) BY <1>5
  <2>3. Stack(program, errors', Append(SubSeq(frames, 1, Len(frames) - 1), f), Idle, root)
    BY <1>1, <2>1, <2>2, StackMoves
  <2> QED BY <1>3, <2>3 DEF Current
<1> QED BY <1>1, <1>2, <1>4, <1>5, Within

(* One member further on: it has a type, or it was left out.               *)
LEMMA ResolvingNext ==
  ASSUME NEW p \in Programs, NEW errs, NEW more, NEW e \in p.types, Known(p, e), e.kind = "named" \/ IsCompound(e),
         NEW k \in 0..(Len(MembersOf(p, e)) - 1), k \in Nat,
         \A i \in Kept(p, e) : i <= k => MembersOf(p, e)[i].type \in Defined(p),
         errs = {} => 1..k \subseteq Kept(p, e), errs \subseteq more,
         k + 1 \in Kept(p, e) => MembersOf(p, e)[k + 1].type \in Defined(p),
         k + 1 \notin Kept(p, e) => more # {}
  PROVE  Resolving(p, more, FrameAt(p, e, k + 1, FALSE), e, FALSE)
<1>1. Len(MembersOf(p, e)) \in Nat BY MembersType
<1>2. k + 1 \in 0..Len(MembersOf(p, e)) BY <1>1
<1>3. ASSUME NEW i \in Kept(p, e), i <= k + 1 PROVE MembersOf(p, e)[i].type \in Defined(p)
  <2>1. i \in 1..Len(MembersOf(p, e)) BY PartsType
  <2>2. i <= k \/ i = k + 1 BY <1>1, <1>3, <2>1
  <2> QED BY <2>2
<1>4. ASSUME more = {} PROVE 1..(k + 1) \subseteq Kept(p, e)
  <2>1. 1..(k + 1) = 1..k \cup {k + 1} OBVIOUS
  <2>2. errs = {} /\ k + 1 \in Kept(p, e) BY <1>4
  <2> QED BY <2>1, <2>2
<1> QED BY <1>2, <1>3, <1>4, Zenon DEF Resolving

(* A repeated member is reported under the name of its declaration.        *)
LEMMA SoundSkip == Inv /\ Sound /\ SkipDuplicate => Sound'
<1> SUFFICES ASSUME Inv, Sound, SkipDuplicate PROVE Sound' OBVIOUS
<1> DEFINE f == [Top EXCEPT !.todo = Tail(@)]
           message == IF Top.kind = "product" THEN "Duplicate field" ELSE "Duplicate variant"
<1>1. /\ MorePart /\ InLoop /\ frames # <<>> /\ call = Idle /\ call' = Idle /\ Repeated
      /\ Report(message, Part.name, Top.owner) /\ SetTop(f)
      /\ KeepRest /\ UNCHANGED <<program, namedTypes>>
  BY DEF SkipDuplicate, MorePart, InLoop, KeepRest
<1> HIDE DEF f, message
<1>2. ASSUME NEW root, Under(root)
      PROVE  /\ IsTrue(<<message, Part.name, Top.owner>>)
             /\ \A more : errors \subseteq more /\ more # {} =>
                   Resolving(program, more, f, Awaited(frames, root, Len(frames) - 1), FALSE)
  <2> DEFINE e == Awaited(frames, root, Len(frames) - 1)
             ms == MembersOf(program, e)
  <2>1. program \in Programs /\ Resolving(program, errors, Top, e, FALSE) BY <1>1, <1>2, Looked
  <2>2. e \in program.types /\ Known(program, e) /\ (e.kind = "named" \/ IsCompound(e))
    BY <2>1, Zenon DEF Resolving
  <2> HIDE DEF e
  <2>3. PICK k \in 0..(Len(ms) - 1) :
           /\ Top = FrameAt(program, e, k, FALSE) /\ k \in Nat
           /\ \A i \in Kept(program, e) : i <= k => ms[i].type \in Defined(program)
           /\ errors = {} => 1..k \subseteq Kept(program, e)
           /\ k + 1 \in 1..Len(ms) /\ Part = ms[k + 1] /\ k + 1 \notin Kept(program, e)
    BY <1>1, <2>1, Looking
  <2>4. /\ e.kind = "named"
        /\ \E j \in 1..k : ms[j].name = ms[k + 1].name
        /\ f = FrameAt(program, e, k + 1, FALSE)
    <3> DEFINE g == FrameAt(program, e, k, FALSE)
    <3>1. /\ e.kind = "named"
          /\ \E j \in 1..k : ms[j].name = ms[k + 1].name
          /\ [g EXCEPT !.todo = Tail(@)] = FrameAt(program, e, k + 1, FALSE)
      BY <2>1, <2>2, <2>3, FrameSkips
    <3> HIDE DEF g
    <3>2. Top = g BY <2>3 DEF g
    <3> QED BY <3>1, <3>2 DEF f
  <2>5. \A more : errors \subseteq more /\ more # {} => Resolving(program, more, f, e, FALSE)
    BY <2>1, <2>2, <2>3, <2>4, ResolvingNext
  <2>6. IsTrue(<<message, Part.name, Top.owner>>)
    <3> DEFINE where == e.name
               decl == Definition(program, where)
    <3>1. IsDeclared(program, where) BY <2>2, <2>4 DEF Known
    <3>2. decl \in DeclSet(program) BY <2>1, <3>1, DefinitionType
    <3>3. decl.kind \in {"struct", "enum"} BY <3>2 DEF DeclSet
    <3>4. Top.kind = KindOf(program, e) /\ Top.owner = where
      <4>1. OwnerOf(e) = where BY <2>4 DEF OwnerOf
      <4> QED BY <2>3, <4>1, FrameFields DEF FrameAt
    <3>5. decl.kind = (IF message = "Duplicate field" THEN "struct" ELSE "enum")
          /\ message \in {"Duplicate field", "Duplicate variant"}
      BY <2>4, <3>3, <3>4 DEF KindOf, message
    <3>6. ms = decl.members BY <2>4, <3>1 DEF MembersOf, IsCompound
    <3>7. DOMAIN ms = 1..Len(ms) /\ Len(ms) \in Nat BY <2>1, <2>2, MembersType
    <3> HIDE DEF ms, decl
    <3>8. \E m \in RangeOf(decl.members) : m.name = Part.name BY <2>3, <3>6, <3>7 DEF RangeOf
    <3>9. Repeats(Part.name, decl.members)
      <4>1. PICK j \in 1..k : ms[j].name = ms[k + 1].name BY <2>4
      <4>2. j \in 1..Len(ms) /\ j # k + 1 BY <2>3, <3>7
      <4> QED BY <2>3, <3>6, <3>7, <4>1, <4>2 DEF Repeats
    <3> DEFINE err == <<message, Part.name, where>>
    <3>10. err[1] = message /\ err[2] = Part.name /\ err[3] = where OBVIOUS
    <3> HIDE DEF err, where
    <3>11. IsTrue(err) BY <3>1, <3>5, <3>8, <3>9, <3>10 DEF IsTrue, decl
    <3> QED BY <3>4, <3>11 DEF err, where
  <2> QED BY <2>5, <2>6 DEF e
<1>3. PICK root0 : Under(root0) BY DEF Sound
<1>4. Truthful' /\ errors \subseteq errors' /\ errors' # {} BY <1>1, <1>2, <1>3, TruthfulGrows DEF Sound
<1>5. \A root : Under(root) => Resolving(program, errors', f, Awaited(frames, root, Len(frames) - 1), FALSE)
  BY <1>2, <1>4
<1> QED BY <1>1, <1>4, <1>5, SoundMoving

(* A variant without a payload takes its place in the sum.                 *)
LEMMA SoundEmptyVariant == Inv /\ Sound /\ AddEmptyVariant => Sound'
<1> SUFFICES ASSUME Inv, Sound, AddEmptyVariant PROVE Sound' OBVIOUS
<1> DEFINE f == Taken(Seen, Primitive("null"))
<1>1. /\ MorePart /\ InLoop /\ frames # <<>> /\ call' = Idle /\ ~Repeated /\ Part.type = NoPayload
      /\ SetTop(f) /\ KeepRest /\ UNCHANGED <<program, namedTypes, errors>>
  BY DEF AddEmptyVariant, MorePart, InLoop, KeepRest
<1> HIDE DEF f
<1>2. ASSUME NEW root, Under(root)
      PROVE  Resolving(program, errors, f, Awaited(frames, root, Len(frames) - 1), FALSE)
  <2> DEFINE e == Awaited(frames, root, Len(frames) - 1)
             ms == MembersOf(program, e)
  <2>1. program \in Programs /\ Resolving(program, errors, Top, e, FALSE) BY <1>1, <1>2, Looked
  <2>2. e \in program.types /\ Known(program, e) /\ (e.kind = "named" \/ IsCompound(e))
    BY <2>1, Zenon DEF Resolving
  <2> HIDE DEF e
  <2>3. PICK k \in 0..(Len(ms) - 1) :
           /\ Top = FrameAt(program, e, k, FALSE) /\ k \in Nat
           /\ \A i \in Kept(program, e) : i <= k => ms[i].type \in Defined(program)
           /\ errors = {} => 1..k \subseteq Kept(program, e)
           /\ k + 1 \in 1..Len(ms) /\ Part = ms[k + 1] /\ k + 1 \in Kept(program, e)
    BY <1>1, <2>1, Looking
  <2>4. Seen = FrameAt(program, e, k, TRUE)
    <3> DEFINE g == FrameAt(program, e, k, FALSE)
    <3>1. [g EXCEPT !.seen = @ \cup {ms[k + 1].name}] = FrameAt(program, e, k, TRUE)
      BY <2>1, <2>2, <2>3, FrameAsks
    <3> HIDE DEF g
    <3>2. Top = g BY <2>3 DEF g
    <3> QED BY <2>3, <3>1, <3>2 DEF Seen
  <2>5. NoPayload \in Defined(program) /\ Denoted(program, NoPayload) = Primitive("null")
    <3>1. NoPayload \in program.types
      <4>1. ms[k + 1].type \in program.types BY <2>1, <2>2, <2>3, MembersType
      <4> QED BY <1>1, <2>3, <4>1
    <3>2. NoPayload.kind \notin {"named", "array", "sum", "product"} BY DEF NoPayload
    <3> QED BY <2>1, <3>1, <3>2, LeafDefined
  <2>6. ms[k + 1].type = NoPayload BY <1>1, <2>3
  <2>7. f = FrameAt(program, e, k + 1, FALSE)
    <3>1. Taken(FrameAt(program, e, k, TRUE), Denoted(program, ms[k + 1].type)) = FrameAt(program, e, k + 1, FALSE)
      BY <2>1, <2>2, <2>3, FrameTakes
    <3> QED BY <2>4, <2>5, <2>6, <3>1, Zenon DEF f
  <2>8. ms[k + 1].type \in Defined(program) BY <2>5, <2>6
  <2>9. Resolving(program, errors, f, e, FALSE) BY <2>1, <2>2, <2>3, <2>7, <2>8, ResolvingNext
  <2> QED BY <2>9 DEF e
<1>3. Truthful' BY <1>1, TruthfulStays DEF Sound
<1> QED BY <1>1, <1>2, <1>3, SoundMoving

(* A member is asked for, and the call for it is reached from this one.    *)
LEMMA SoundAsking == Inv /\ Sound /\ ResolveMember => Sound'
<1> SUFFICES ASSUME Inv, Sound, ResolveMember PROVE Sound' OBVIOUS
<1>1. /\ MorePart /\ InLoop /\ frames # <<>> /\ ~Repeated /\ Part.type # NoPayload
      /\ call' = Resolve(Part.type) /\ SetTop(Seen) /\ KeepRest /\ UNCHANGED <<program, namedTypes, errors>>
  BY DEF ResolveMember, MorePart, InLoop, KeepRest
<1>2. call' # Idle BY <1>1 DEF Resolve, Idle
<1>3. Busy /\ Busy' BY <1>1, <1>2 DEF Busy
<1>4. frames' = Append(SubSeq(frames, 1, Len(frames) - 1), Seen) BY <1>1 DEF SetTop, Below
<1>5. ASSUME NEW root, Under(root)
      PROVE  /\ Stack(program, errors', frames', call', root)
             /\ Current(program, errors', Names(namedTypes'), call', Awaited(frames', root, Len(frames')))
  <2> DEFINE e == Awaited(frames, root, Len(frames) - 1)
             ms == MembersOf(program, e)
  <2>1. /\ program \in Programs /\ Resolving(program, errors, Top, e, FALSE)
        /\ Stack(program, errors, frames, call, root) /\ Len(frames) \in Nat
    BY <1>1, <1>5, Looked
  <2>2. e \in program.types /\ Known(program, e) /\ (e.kind = "named" \/ IsCompound(e))
    BY <2>1, Zenon DEF Resolving
  <2> HIDE DEF e
  <2>3. PICK k \in 0..(Len(ms) - 1) :
           /\ Top = FrameAt(program, e, k, FALSE) /\ k \in Nat
           /\ \A i \in Kept(program, e) : i <= k => ms[i].type \in Defined(program)
           /\ errors = {} => 1..k \subseteq Kept(program, e)
           /\ k + 1 \in 1..Len(ms) /\ Part = ms[k + 1] /\ k + 1 \in Kept(program, e)
    BY <1>1, <2>1, Looking
  <2>4. Seen = FrameAt(program, e, k, TRUE)
    <3> DEFINE g == FrameAt(program, e, k, FALSE)
    <3>1. [g EXCEPT !.seen = @ \cup {ms[k + 1].name}] = FrameAt(program, e, k, TRUE)
      BY <2>1, <2>2, <2>3, FrameAsks
    <3> HIDE DEF g
    <3>2. Top = g BY <2>3 DEF g
    <3> QED BY <2>3, <3>1, <3>2 DEF Seen
  <2>5. k \in 0..Len(ms) /\ k < Len(ms)
    <3>1. Len(ms) \in Nat BY <2>1, <2>2, MembersType
    <3> HIDE DEF ms
    <3> QED BY <2>3, <3>1
  <2>6. Resolving(program, errors, Seen, e, TRUE) BY <2>2, <2>3, <2>4, <2>5, Zenon DEF Resolving
  <2>7. Stack(program, errors, frames', call', root)
    <3>1. Resolving(program, errors, Seen, Awaited(frames, root, Len(frames) - 1), TRUE) BY <2>6 DEF e
    <3>2. Stack(program, errors, Append(SubSeq(frames, 1, Len(frames) - 1), Seen), call', root)
      BY <1>1, <1>2, <2>1, <3>1, StackAsks
    <3> QED BY <1>4, <3>2
  <2>8. Awaited(frames', root, Len(frames')) = Part.type
    <3>1. /\ Len(frames') = Len(frames) /\ Len(frames) \in Nat \ {0} /\ frames'[Len(frames)] = Seen
      <4> DEFINE n == Len(frames)
                 bs == SubSeq(frames, 1, n - 1)
      <4>1. n \in Nat \ {0} /\ IsList(bs) /\ Len(bs) = n - 1 BY <1>1, Popping DEF Inv, Calls
      <4>2. frames' = Append(bs, Seen) BY <1>4
      <4> HIDE DEF bs, n
      <4>3. Len(frames') = Len(bs) + 1 /\ frames'[Len(bs) + 1] = Seen BY <4>1, <4>2, Pushing
      <4>4. Len(frames') = n /\ frames'[n] = Seen BY <4>1, <4>3
      <4> QED BY <4>1, <4>4 DEF n
    <3>2. Head(Seen.todo) = Part
      <4> DEFINE h == FrameAt(program, e, k, TRUE)
      <4>1. Head(h.todo) = ms[k + 1] BY <2>1, <2>2, <2>5, FrameNext
      <4> QED BY <2>3, <2>4, <4>1
    <3> QED BY <3>1, <3>2 DEF Awaited
  <2>9. Current(program, errors', Names(namedTypes'), call', Part.type) BY <1>1 DEF Current
  <2> QED BY <1>1, <2>7, <2>8, <2>9
<1>6. Truthful' /\ Remembered' BY <1>1, TruthfulStays, RememberedStays DEF Sound
<1> QED BY <1>1, <1>3, <1>5, <1>6, Within

-----------------------------------------------------------------------------
(* A call that has its answer: what it waited for, and where it is.        *)
LEMMA Answered ==
  ASSUME Inv, Sound, call.do = "answer", frames # <<>>, NEW root, Under(root)
  PROVE  LET e == Awaited(frames, root, Len(frames) - 1)
             x == Awaited(frames, root, Len(frames))
         IN  /\ program \in Programs /\ Truthful /\ Stack(program, errors, frames, call, root)
             /\ Resolving(program, errors, Top, e, TRUE) /\ x = Head(Top.todo).type
             /\ x \in Parts(program, e)
             /\ call.type = Null => Blamed(program, errors, x)
             /\ call.type # Null => x \in Defined(program) /\ call.type = Denoted(program, x)
<1> DEFINE e == Awaited(frames, root, Len(frames) - 1)
           x == Awaited(frames, root, Len(frames))
<1>1. call # Idle /\ \A t : call # Resolve(t) BY DEF Idle, Resolve
<1>2. program \in Programs /\ Truthful /\ Busy BY <1>1 DEF Inv, Declarations, Sound, Busy
<1>3. Stack(program, errors, frames, call, root) /\ Current(program, errors, Names(namedTypes), call, x)
  BY <1>2 DEF Under
<1>4. Len(frames) \in Nat \ {0} BY Popping DEF Inv, Calls
<1>5. Len(frames) \in 1..Len(frames) BY <1>4
<1>6. Resolving(program, errors, Top, e, TRUE) BY <1>1, <1>3, <1>5 DEF Stack, Frames, Waits, Top
<1>7. x = Head(Top.todo).type BY <1>4 DEF Awaited, Top
<1> HIDE DEF e, x
<1>8. x \in Parts(program, e) BY <1>2, <1>6, <1>7, WaitsForPart
<1>9. \/ call = Answer(Null) /\ Blamed(program, errors, x)
      \/ x \in Defined(program) /\ call = Answer(Denoted(program, x))
  BY <1>1, <1>3, Zenon DEF Current
<1>10. \A t : call = Answer(t) => call.type = t BY DEF Answer
<1>11. x \in Defined(program) => Denoted(program, x) # Null BY <1>2, Denoting
<1>12. /\ call.type = Null => Blamed(program, errors, x)
       /\ call.type # Null => x \in Defined(program) /\ call.type = Denoted(program, x)
  BY <1>9, <1>10, <1>11, Zenon
<1> QED BY <1>2, <1>3, <1>6, <1>7, <1>8, <1>12, Zenon DEF e, x

(* Its type takes its place among those gathered.                          *)
LEMMA SoundTaking == Inv /\ Sound /\ TakeMember => Sound'
<1> SUFFICES ASSUME Inv, Sound, TakeMember PROVE Sound' OBVIOUS
<1> DEFINE f == Taken(Top, call.type)
<1>1. /\ call.do = "answer" /\ call.type # Null /\ frames # <<>> /\ call' = Idle
      /\ SetTop(f) /\ KeepRest /\ UNCHANGED <<program, namedTypes, errors>>
  BY DEF TakeMember, KeepRest
<1> HIDE DEF f
<1>2. ASSUME NEW root, Under(root)
      PROVE  Resolving(program, errors, f, Awaited(frames, root, Len(frames) - 1), FALSE)
  <2> DEFINE e == Awaited(frames, root, Len(frames) - 1)
             x == Awaited(frames, root, Len(frames))
             ms == MembersOf(program, e)
  <2>1. /\ program \in Programs /\ Resolving(program, errors, Top, e, TRUE) /\ x = Head(Top.todo).type
        /\ x \in Defined(program) /\ call.type = Denoted(program, x)
    BY <1>1, <1>2, Answered
  <2> HIDE DEF e, x
  <2>2. e \in program.types /\ Known(program, e) /\ (e.kind = "named" \/ IsCompound(e))
    BY <2>1, Zenon DEF Resolving
  <2>3. PICK k \in 0..Len(ms) :
           /\ Top = FrameAt(program, e, k, TRUE) /\ k + 1 \in Kept(program, e)
           /\ \A i \in Kept(program, e) : i <= k => ms[i].type \in Defined(program)
           /\ errors = {} => 1..k \subseteq Kept(program, e)
    BY <2>1, Zenon DEF Resolving
  <2>4. k \in 0..(Len(ms) - 1) /\ k \in Nat /\ k < Len(ms) /\ k \in 0..Len(ms)
    <3>1. Len(ms) \in Nat /\ k + 1 \in 1..Len(ms) BY <2>1, <2>2, <2>3, MembersType, PartsType
    <3> DEFINE n == Len(ms)
    <3> HIDE DEF n
    <3>2. n \in Nat /\ k + 1 \in 1..n /\ k \in 0..n BY <2>3, <3>1 DEF n
    <3>3. k \in 0..(n - 1) /\ k \in Nat /\ k < n /\ k \in 0..n BY <3>2
    <3> QED BY <3>3 DEF n
  <2>5. x = ms[k + 1].type
    <3> DEFINE h == FrameAt(program, e, k, TRUE)
    <3>1. Head(h.todo) = ms[k + 1] BY <2>1, <2>2, <2>4, FrameNext
    <3> QED BY <2>1, <2>3, <3>1
  <2>6. f = FrameAt(program, e, k + 1, FALSE)
    <3>1. Taken(FrameAt(program, e, k, TRUE), Denoted(program, ms[k + 1].type)) = FrameAt(program, e, k + 1, FALSE)
      BY <2>1, <2>2, <2>3, <2>4, FrameTakes
    <3> QED BY <2>1, <2>3, <2>5, <3>1, Zenon DEF f
  <2>7. ms[k + 1].type \in Defined(program) BY <2>1, <2>5
  <2>8. Resolving(program, errors, f, e, FALSE) BY <2>1, <2>2, <2>3, <2>4, <2>6, <2>7, ResolvingNext
  <2> QED BY <2>8 DEF e
<1>3. Truthful' BY <1>1, TruthfulStays DEF Sound
<1> QED BY <1>1, <1>2, <1>3, SoundMoving

(* A call is over: the one before it, or check(), has the answer.          *)
LEMMA SoundReturning ==
  ASSUME Inv, Sound, Busy, frames # <<>>, KeepRest, UNCHANGED errors, frames' = Below, call' # Idle,
         Remembered', Names(namedTypes) \subseteq Names(namedTypes'),
         \A root : Under(root) =>
            Current(program, errors, Names(namedTypes'), call', Awaited(frames, root, Len(frames) - 1))
  PROVE  Sound'
<1>1. program \in Programs /\ UNCHANGED program BY DEF Inv, Declarations, KeepRest
<1>2. Truthful' BY <1>1, TruthfulStays DEF Sound
<1>3. Busy' BY DEF Busy
<1>4. ASSUME NEW root, Under(root)
      PROVE  /\ Stack(program, errors', frames', call', root)
             /\ Current(program, errors', Names(namedTypes'), call', Awaited(frames', root, Len(frames')))
  <2> DEFINE bs == SubSeq(frames, 1, Len(frames) - 1)
  <2>1. Stack(program, errors, frames, call, root) BY <1>4 DEF Under
  <2>2. /\ Stack(program, errors, bs, call', root)
        /\ Awaited(bs, root, Len(bs)) = Awaited(frames, root, Len(frames) - 1)
    BY <1>1, <2>1, StackPops
  <2>3. frames' = bs BY DEF Below
  <2> HIDE DEF bs
  <2>4. Current(program, errors, Names(namedTypes'), call', Awaited(frames, root, Len(frames) - 1)) BY <1>4
  <2> QED BY <2>2, <2>3, <2>4
<1> QED BY <1>2, <1>3, <1>4, Within

(* A part without a type leaves the whole without one, for the same cause. *)
LEMMA SoundFailing == Inv /\ Sound /\ FailFrame => Sound'
<1> SUFFICES ASSUME Inv, Sound, FailFrame PROVE Sound' OBVIOUS
<1>1. /\ call.do = "answer" /\ call.type = Null /\ frames # <<>> /\ frames' = Below
      /\ KeepRest /\ UNCHANGED <<program, namedTypes, call, errors>>
  BY DEF FailFrame, KeepRest
<1>2. Busy /\ call' # Idle BY <1>1 DEF Busy, Idle
<1>3. ASSUME NEW root, Under(root)
      PROVE  Current(program, errors, Names(namedTypes'), call', Awaited(frames, root, Len(frames) - 1))
  <2> DEFINE e == Awaited(frames, root, Len(frames) - 1)
             x == Awaited(frames, root, Len(frames))
  <2>1. /\ program \in Programs /\ Resolving(program, errors, Top, e, TRUE) /\ x \in Parts(program, e)
        /\ Blamed(program, errors, x)
    BY <1>1, <1>3, Answered
  <2>2. call = Answer(Null)
    <3>1. Busy BY <1>2
    <3>2. Current(program, errors, Names(namedTypes), call, x) BY <1>3, <3>1 DEF Under
    <3>3. call # Idle /\ \A t : call # Resolve(t) BY <1>1 DEF Idle, Resolve
    <3>4. \A t : call = Answer(t) => t = Null BY <1>1 DEF Answer
    <3> HIDE DEF x
    <3> QED BY <3>2, <3>3, <3>4, Zenon DEF Current
  <2> HIDE DEF e, x
  <2>3. e \in program.types BY <2>1, Zenon DEF Resolving
  <2>4. Blamed(program, errors, e) BY <2>1, <2>3, BlamedOfPart
  <2>5. Current(program, errors, Names(namedTypes'), call', e) BY <1>1, <2>2, <2>4, Zenon DEF Current
  <2> QED BY <2>5 DEF e
<1>4. Remembered' BY <1>1, RememberedStays DEF Sound
<1> QED BY <1>1, <1>2, <1>3, <1>4, SoundReturning

(* All parts are there: the whole is what the expression denotes.          *)
LEMMA SoundFinishing == Inv /\ Sound /\ FinishFrame => Sound'
<1> SUFFICES ASSUME Inv, Sound, FinishFrame PROVE Sound' OBVIOUS
<1> DEFINE type == Compound(Top.kind, Top.done, Top.owner)
<1>1. /\ InLoop /\ frames # <<>> /\ Top.todo = <<>> /\ frames' = Below /\ call' = Answer(type)
      /\ namedTypes' = IF IsDecl(Top) THEN Put(namedTypes, Top.owner, type) ELSE namedTypes
      /\ KeepRest /\ UNCHANGED <<program, errors>>
  BY DEF FinishFrame, InLoop, KeepRest
<1> HIDE DEF type
<1>2. Busy /\ call' # Idle BY <1>1 DEF Busy, Answer, Idle
<1>3. ASSUME NEW root, Under(root)
      PROVE  LET e == Awaited(frames, root, Len(frames) - 1)
             IN  /\ e \in Defined(program) /\ type = Denoted(program, e)
                 /\ IsDecl(Top) <=> e.kind = "named"
                 /\ e.kind = "named" => e = Named(Top.owner) /\ e.name = Top.owner
                 /\ errors = {} => DOMAIN MembersOf(program, e) \subseteq Kept(program, e)
  <2> DEFINE e == Awaited(frames, root, Len(frames) - 1)
             ms == MembersOf(program, e)
  <2>1. program \in Programs /\ Resolving(program, errors, Top, e, FALSE) BY <1>1, <1>3, Looked
  <2> HIDE DEF e
  <2>2. e \in program.types /\ Known(program, e) /\ (e.kind = "named" \/ IsCompound(e))
    BY <2>1, Zenon DEF Resolving
  <2>3. PICK k \in 0..Len(ms) :
           /\ Top = FrameAt(program, e, k, FALSE)
           /\ \A i \in Kept(program, e) : i <= k => ms[i].type \in Defined(program)
           /\ errors = {} => 1..k \subseteq Kept(program, e)
    BY <2>1, Zenon DEF Resolving
  <2>4. k = Len(ms)
    <3> DEFINE h == FrameAt(program, e, k, FALSE)
    <3>1. h.todo = <<>> <=> k = Len(ms) BY <2>1, <2>2, <2>3, FrameNext
    <3> QED BY <1>1, <2>3, <3>1
  <2>5. Len(ms) \in Nat /\ DOMAIN ms = 1..Len(ms) /\ Kept(program, e) \subseteq 1..Len(ms)
    BY <2>1, <2>2, MembersType, PartsType
  <2>6. \A i \in Kept(program, e) : ms[i].type \in Defined(program)
    <3> HIDE DEF ms
    <3>1. \A i \in 1..Len(ms) : i <= Len(ms) BY <2>5
    <3> QED BY <2>3, <2>4, <2>5, <3>1
  <2>7. e \in Defined(program) /\ type = Denoted(program, e)
    <3> DEFINE h == FrameAt(program, e, Len(ms), FALSE)
    <3>1. e \in Defined(program) /\ Compound(h.kind, h.done, h.owner) = Denoted(program, e)
      BY <2>1, <2>2, <2>6, FrameEnds
    <3>2. Top = h BY <2>3, <2>4
    <3> HIDE DEF h
    <3> QED BY <3>1, <3>2 DEF type
  <2>8. Top.owner = OwnerOf(e) BY <2>3, FrameFields DEF FrameAt
  <2>9. e.kind = "named" => e.name = Top.owner /\ e = Named(Top.owner) /\ IsDecl(Top)
    <3>1. e.kind = "named" => e.name = Top.owner BY <2>8 DEF OwnerOf
    <3>2. e.kind = "named" => e = Named(e.name) BY <2>1, <2>2, TypesAssumption
    <3>3. e.kind = "named" => e.name # Nobody BY <2>1, <2>2, DefinitionType DEF Known
    <3> QED BY <3>1, <3>2, <3>3, Zenon DEF IsDecl
  <2>10. e.kind # "named" => ~IsDecl(Top) BY <2>8 DEF OwnerOf, IsDecl
  <2>11. errors = {} => DOMAIN ms \subseteq Kept(program, e) BY <2>3, <2>4, <2>5
  <2> QED BY <2>7, <2>9, <2>10, <2>11, Zenon DEF e
<1>4. /\ Names(namedTypes) \subseteq Names(namedTypes')
      /\ IsDecl(Top) => Top.owner \in Names(namedTypes')
      /\ IsDecl(Top) => \A n \in Names(namedTypes') : n # Top.owner => n \in Names(namedTypes) /\ namedTypes'[n] = namedTypes[n]
      /\ IsDecl(Top) => namedTypes'[Top.owner] = type
  BY <1>1 DEF Put, Names
<1>5. Remembered'
  <2>1. CASE ~IsDecl(Top) BY <1>1, <2>1, RememberedStays DEF Sound
  <2>2. CASE IsDecl(Top)
    <3>1. PICK root : Under(root) BY DEF Sound
    <3> DEFINE e == Awaited(frames, root, Len(frames) - 1)
    <3>2. /\ e \in Defined(program) /\ type = Denoted(program, e) /\ e = Named(Top.owner)
          /\ errors = {} => DOMAIN MembersOf(program, e) \subseteq Kept(program, e)
      BY <1>3, <2>2, <3>1
    <3> HIDE DEF e
    <3>3. ASSUME NEW n \in Names(namedTypes')
          PROVE  /\ Named(n) \in Defined(program) /\ namedTypes'[n] = Denoted(program, Named(n))
                 /\ errors = {} => DOMAIN MembersOf(program, Named(n)) \subseteq Kept(program, Named(n))
      <4>1. CASE n = Top.owner BY <1>4, <2>2, <3>2, <4>1
      <4>2. CASE n # Top.owner BY <1>4, <2>2, <4>2 DEF Sound, Remembered
      <4> QED BY <4>1, <4>2
    <3> QED BY <1>1, <3>3, Zenon DEF Remembered, Names
  <2> QED BY <2>1, <2>2
<1>6. ASSUME NEW root, Under(root)
      PROVE  Current(program, errors, Names(namedTypes'), call', Awaited(frames, root, Len(frames) - 1))
  <2> DEFINE e == Awaited(frames, root, Len(frames) - 1)
  <2>1. /\ e \in Defined(program) /\ type = Denoted(program, e)
        /\ e.kind = "named" => e.name \in Names(namedTypes')
    BY <1>3, <1>4, <1>6
  <2> HIDE DEF e
  <2>2. Current(program, errors, Names(namedTypes'), call', e) BY <1>1, <2>1, Zenon DEF Current
  <2> QED BY <2>2 DEF e
<1> QED BY <1>1, <1>2, <1>4, <1>5, <1>6, SoundReturning

-----------------------------------------------------------------------------
(* Nothing is under way: everything tried has its type, or is explained.   *)
LEMMA Resting ==
  ASSUME Sound, ~Busy
  PROVE  \A n \in tried : n \in Names(namedTypes) \/ Blamed(program, errors, Named(n))
BY DEF Sound, Under

(* The sequence without entries.                                           *)
LEMMA EmptyList == IsList(<<>>) /\ Len(<<>>) = 0
BY DEF IsList, Contents

(* At the start nothing is filed, tried, remembered or reported.           *)
LEMMA SoundInitially == Init => Sound
<1> SUFFICES ASSUME Init PROVE Sound OBVIOUS
<1>1. Filed
  <2>1. Len(program.decls) \in Nat BY ProgramsAssumption, LenProperties DEF Init
  <2>2. registered \in 0..Len(program.decls) BY <2>1 DEF Init
  <2>3. NamesUpTo(program.decls, 0) = {} BY DEF NamesUpTo
  <2> QED BY <2>2, <2>3 DEF Init, Filed, DeclaredNames, Names, Nothing
<1>2. Phased BY DEF Init, Phased, Busy, InParams
<1>3. Remembered BY DEF Init, Remembered, Names, Nothing
<1>4. Collected
  <2>1. Len(results) = 0 /\ IsList(results) BY EmptyList DEF Init
  <2>2. Len(program.params) \in Nat BY ProgramsAssumption, LenProperties DEF Init
  <2> QED BY <2>1, <2>2 DEF Init, Collected
<1>5. Truthful BY DEF Init, Truthful
<1>6. Under(Null) BY DEF Init, Under, Busy
<1> QED BY <1>1, <1>2, <1>3, <1>4, <1>5, <1>6 DEF Sound

(* The first declaration of a name is the one registered.                  *)
LEMMA SoundRegistering == Inv /\ Sound /\ RegisterTypeDecl => Sound'
<1> SUFFICES ASSUME Inv, Sound, RegisterTypeDecl PROVE Sound' OBVIOUS
<1> DEFINE r == registered
           ds == program.decls
           d == ds[r + 1]
<1>1. /\ r < Len(ds) /\ registered' = r + 1
      /\ UNCHANGED <<program, namedTypes, frames, call, pass, tried, results>>
  BY DEF RegisterTypeDecl, resolver, progress
<1>2. program \in Programs /\ ds \in Seq(DeclSet(program)) /\ Len(ds) \in Nat /\ DOMAIN ds = 1..Len(ds)
  BY ProgramsAssumption, LenProperties DEF Inv, Declarations, DeclSet
<1>3. r \in 0..Len(ds) /\ r \in Nat /\ r + 1 \in 1..Len(ds) /\ r + 1 \in 0..Len(ds) /\ r # Len(ds)
  BY <1>1, <1>2 DEF Sound, Filed
<1>4. 1..(r + 1) = 1..r \cup {r + 1} /\ 1..r \subseteq 1..Len(ds) /\ r + 1 \notin 1..r /\ (r + 1) - 1 = r BY <1>2, <1>3
<1>5. d.kind \in {"struct", "enum"}
  <2>1. d \in DeclSet(program) BY <1>2, <1>3, ElementOfSeq
  <2> QED BY <2>1 DEF DeclSet
<1>6. ~Busy /\ ~InParams /\ tried = {} /\ pass = "structs"
  BY <1>3 DEF Sound, Phased, InParams
<1>7. DeclaredNames = NamesUpTo(ds, r) BY DEF Sound, Filed
<1>8. NamesUpTo(ds, r + 1) = NamesUpTo(ds, r) \cup {d.name} BY <1>4 DEF NamesUpTo
<1>9. Filed' /\ Truthful' /\ errors \subseteq errors'
  <2>1. CASE d.name \in DeclaredNames
    <3>1. UNCHANGED <<structDecls, enumDecls>> /\ Report("Duplicate type name", d.name, Nobody)
      BY <2>1 DEF RegisterTypeDecl, tables, DeclaredNames
    <3>2. PICK j \in 1..r : ds[j].name = d.name BY <1>7, <2>1 DEF NamesUpTo
    <3>3. IsDeclared(program, d.name) BY <1>2, <1>3 DEF IsDeclared, RangeOf
    <3>4. Repeats(d.name, ds) BY <1>2, <1>3, <1>4, <3>2 DEF Repeats
    <3>5. IsTrue(<<"Duplicate type name", d.name, Nobody>>) BY <3>3, <3>4 DEF IsTrue
    <3>6. Truthful' /\ errors \subseteq errors' /\ errors' # {}
      BY <1>1, <3>1, <3>5, TruthfulGrows DEF Sound
    <3>7. DeclaredNames' = NamesUpTo(ds, r + 1) BY <1>7, <1>8, <2>1, <3>1 DEF DeclaredNames, Names
    <3> HIDE DEF d
    <3>8. Filed' BY <1>1, <1>3, <3>1, <3>6, <3>7 DEF Sound, Filed, Names
    <3> QED BY <3>6, <3>8
  <2>2. CASE d.name \notin DeclaredNames
    <3>1. /\ UNCHANGED errors
          /\ \/ d.kind = "struct" /\ structDecls' = Put(structDecls, d.name, d) /\ UNCHANGED enumDecls
             \/ d.kind = "enum" /\ enumDecls' = Put(enumDecls, d.name, d) /\ UNCHANGED structDecls
      BY <2>2, Zenon DEF RegisterTypeDecl, DeclaredNames
    <3>2. \A j \in 1..r : ds[j].name # d.name BY <1>7, <2>2 DEF NamesUpTo
    <3>3. Definition(program, d.name) = d
      <4>1. FirstWith(d.name, ds) = r + 1 BY <1>2, <1>3, <1>4, <3>2, FirstIs
      <4> QED BY <4>1 DEF Definition
    <3>4. DeclaredNames' = NamesUpTo(ds, r + 1)
      <4>1. DeclaredNames' = DeclaredNames \cup {d.name}
        <5> HIDE DEF d
        <5> QED BY <3>1 DEF DeclaredNames, Put, Names
      <4> QED BY <1>7, <1>8, <4>1
    <3> HIDE DEF d
    <3>5. \A n \in Names(structDecls') :
             structDecls'[n] = Definition(program, n) /\ structDecls'[n].kind = "struct"
      BY <3>1, <3>3 DEF Sound, Filed, Put, Names
    <3>6. \A n \in Names(enumDecls') :
             enumDecls'[n] = Definition(program, n) /\ enumDecls'[n].kind = "enum"
      BY <3>1, <3>3 DEF Sound, Filed, Put, Names
    <3>7. ASSUME errors' = {}, NEW i \in 1..(r + 1), NEW j \in 1..(r + 1), ds[i].name = ds[j].name
          PROVE  i = j
      <4>1. CASE i \in 1..r /\ j \in 1..r BY <3>1, <3>7, <4>1 DEF Sound, Filed
      <4>2. CASE i = r + 1 /\ j \in 1..r BY <3>2, <3>7, <4>2 DEF d
      <4>3. CASE j = r + 1 /\ i \in 1..r BY <3>2, <3>7, <4>3 DEF d
      <4>4. CASE i = r + 1 /\ j = r + 1 BY <4>4
      <4> QED BY <1>4, <4>1, <4>2, <4>3, <4>4
    <3>8. Filed' BY <1>1, <1>3, <3>4, <3>5, <3>6, <3>7 DEF Filed, Names
    <3>9. Truthful' BY <1>1, <3>1, TruthfulStays DEF Sound
    <3> QED BY <3>1, <3>8, <3>9
  <2> QED BY <2>1, <2>2
<1>10. Remembered' /\ Collected' BY <1>1, <1>9, RememberedStays, CollectedStays DEF Sound
<1>11. ~Busy' /\ tried' = {} /\ pass' = "structs" BY <1>1, <1>6 DEF Busy
<1>12. Phased' BY <1>11 DEF Phased, InParams
<1>13. Under(Null)' BY <1>11 DEF Under
<1> QED BY <1>9, <1>10, <1>12, <1>13 DEF Sound

(* check() asks for something of its own.                                  *)
LEMMA SoundAsked ==
  ASSUME Inv, Sound, ~Busy, NEW root, call' = Resolve(root), root \in Roots(program),
         UNCHANGED <<program, registered, tables, resolver, pass, results, errors>>,
         registered = Len(program.decls), Asks(root)',
         tried \subseteq tried', tried' \subseteq DeclaredNames,
         \A n \in tried' \ tried : ~InParams /\ root = Named(n)
  PROVE  Sound'
<1>1. /\ UNCHANGED <<structDecls, enumDecls, namedTypes, frames>> /\ frames' = <<>>
      /\ call' # Idle /\ Busy' /\ program \in Programs
  BY DEF tables, resolver, Resolve, Idle, Busy, Inv, Declarations
<1>2. Filed' /\ Remembered' /\ Collected' /\ Truthful'
  BY <1>1, FiledStays, RememberedStays, CollectedStays, TruthfulStays DEF Sound
<1>3. Phased' BY <1>1 DEF Sound, Phased, InParams, DeclaredNames, Names
<1>4. \A n \in tried' : n \in Names(namedTypes) \/ Blamed(program, errors, Named(n)) \/ (~InParams /\ root = Named(n))
  BY Resting
<1>5. Stack(program, errors, frames', call', root)
  <2>1. root \in program.types BY <1>1, RootType
  <2> QED BY <1>1, <2>1, StackBegins
<1>6. Current(program, errors, Names(namedTypes), call', Awaited(frames', root, Len(frames')))
  <2>1. Awaited(<<>>, root, Len(<<>>)) = root BY DEF Awaited
  <2>2. root # NoPayload BY <1>1, RootType
  <2>3. Current(program, errors, Names(namedTypes), call', root) BY <2>2 DEF Current
  <2> QED BY <1>1, <2>1, <2>3
<1>7. UNCHANGED InParams BY DEF InParams
<1>8. Under(root)' BY <1>1, <1>4, <1>5, <1>6, <1>7 DEF Under, Names
<1> QED BY <1>2, <1>3, <1>8 DEF Sound

(* A declaration of one of the tables,                                     *)
LEMMA SoundDecl ==
  ASSUME Inv, Sound, NEW during, NEW table, ResolveDecl(during, table), during \in {"structs", "enums"},
         Names(table) \subseteq DeclaredNames
  PROVE  Sound'
<1>1. PICK n \in Names(table) \ tried : Ask(Named(n)) /\ tried' = tried \cup {n}
  BY Zenon DEF ResolveDecl
<1>2. /\ call = Idle /\ frames = <<>> /\ registered = Len(program.decls) /\ pass = during
      /\ UNCHANGED <<pass, results, errors>>
  BY DEF ResolveDecl, Ready
<1>3. call' = Resolve(Named(n)) /\ UNCHANGED <<program, registered, tables, resolver>> BY <1>1 DEF Ask
<1>4. ~Busy /\ ~InParams /\ ~InParams' BY <1>2 DEF Busy, InParams
<1>5. n \in DeclaredNames BY <1>1
<1>6. Named(n) \in Roots(program)
  <2>1. program \in Programs BY DEF Inv, Declarations
  <2>2. DOMAIN program.decls = 1..Len(program.decls) BY <2>1, ProgramsAssumption, LenProperties
  <2>3. PICK j \in 1..Len(program.decls) : program.decls[j].name = n
    BY <1>2, <1>5 DEF Sound, Filed, NamesUpTo
  <2> QED BY <2>2, <2>3 DEF Roots, RangeOf
<1>7. Asks(Named(n))'
  <2>1. n \in tried' BY <1>1
  <2> QED BY <1>4, <2>1 DEF Asks
<1>8. /\ tried \subseteq tried' /\ tried' \subseteq DeclaredNames
      /\ \A m \in tried' \ tried : ~InParams /\ Named(n) = Named(m)
  BY <1>1, <1>4, <1>5 DEF Sound, Phased
<1>9. UNCHANGED <<program, registered, tables, resolver, pass, results, errors>> BY <1>2, <1>3
<1> QED BY <1>2, <1>3, <1>4, <1>6, <1>7, <1>8, <1>9, SoundAsked

(* or the type of the next parameter.                                      *)
LEMMA SoundParam == Inv /\ Sound /\ ResolveParam => Sound'
<1> SUFFICES ASSUME Inv, Sound, ResolveParam PROVE Sound' OBVIOUS
<1>1. /\ call = Idle /\ frames = <<>> /\ registered = Len(program.decls) /\ InParams /\ ~AllParams
      /\ call' = Resolve(Param.type)
      /\ UNCHANGED <<program, registered, tables, resolver, pass, tried, results, errors>>
  BY DEF ResolveParam, Ready, Ask, progress
<1>2. ~Busy BY <1>1 DEF Busy
<1>3. PICK root : root = Param.type OBVIOUS
<1>4. Asks(root)' BY <1>1, <1>3 DEF Asks, InParams, AllParams, Param
<1>5. root \in Roots(program)
  <2>1. DOMAIN program.params = 1..Len(program.params) /\ Len(program.params) \in Nat
    BY ProgramsAssumption, LenProperties DEF Inv, Declarations
  <2>2. Len(results) \in Nat /\ Len(results) <= Len(program.params) /\ Len(results) # Len(program.params)
    BY <1>1, LenProperties DEF Sound, Collected, IsList, AllParams
  <2>3. Len(results) + 1 \in 1..Len(program.params) BY <2>1, <2>2
  <2>4. Param \in RangeOf(program.params) BY <2>1, <2>3 DEF Param, RangeOf
  <2> QED BY <1>3, <2>4 DEF Roots
<1>6. /\ tried \subseteq tried' /\ tried' \subseteq DeclaredNames
      /\ \A n \in tried' \ tried : ~InParams /\ root = Named(n)
  BY <1>1 DEF Sound, Phased
<1> QED BY <1>1, <1>2, <1>4, <1>5, <1>3, <1>6, SoundAsked

(* One pass is over.                                                       *)
LEMMA SoundPass ==
  ASSUME Inv, Sound, NEW from, NEW to, NextPass(from, to), to \in {"enums", "declare", "check"},
         Names(structDecls) \subseteq tried, to # "enums" => Names(enumDecls) \subseteq tried
  PROVE  Sound'
<1>1. /\ call = Idle /\ frames = <<>> /\ registered = Len(program.decls) /\ pass' = to /\ results' = <<>>
      /\ UNCHANGED <<program, registered, structDecls, enumDecls, tables, namedTypes, frames, call, tried, errors>>
  BY DEF NextPass, Ready, tables, resolver
<1>2. ~Busy /\ ~Busy' BY <1>1 DEF Busy
<1>3. Filed' /\ Remembered' /\ Truthful' BY <1>1, FiledStays, RememberedStays, TruthfulStays DEF Sound
<1>4. Phased'
  <2>1. tried \subseteq DeclaredNames BY DEF Sound, Phased
  <2> QED BY <1>1, <2>1 DEF Phased, InParams, DeclaredNames, Names
<1>5. Collected'
  <2>1. Len(results') = 0 /\ IsList(results') BY <1>1, EmptyList
  <2>2. Len(program.params) \in Nat BY ProgramsAssumption, LenProperties DEF Inv, Declarations
  <2> QED BY <1>1, <2>1, <2>2 DEF Collected
<1>6. Under(Null)' BY <1>1, <1>2, Resting DEF Under, Names
<1> QED BY <1>3, <1>4, <1>5, <1>6 DEF Sound

(* check() has its answer.                                                 *)
LEMMA Delivered ==
  ASSUME Inv, Sound, call.do = "answer", frames = <<>>, NEW root, Under(root)
  PROVE  /\ program \in Programs /\ Busy /\ Truthful /\ Asks(root)
         /\ root \in Roots(program)
         /\ call.type = Null => Blamed(program, errors, root) /\ root \notin Defined(program)
         /\ call.type # Null => /\ root \in Defined(program) /\ call.type = Denoted(program, root)
                                /\ root.kind = "named" => root.name \in Names(namedTypes)
<1>1. call # Idle /\ \A t : call # Resolve(t) BY DEF Idle, Resolve
<1>2. program \in Programs /\ Truthful /\ Busy BY <1>1 DEF Inv, Declarations, Sound, Busy
<1>3. Awaited(frames, root, Len(frames)) = root BY DEF Awaited
<1>4. Current(program, errors, Names(namedTypes), call, root) /\ root \in Roots(program) /\ Asks(root)
  BY <1>2, <1>3 DEF Under
<1>5. \/ call = Answer(Null) /\ Blamed(program, errors, root)
      \/ /\ root \in Defined(program) /\ call = Answer(Denoted(program, root))
         /\ root.kind = "named" => root.name \in Names(namedTypes)
  BY <1>1, <1>4, Zenon DEF Current
<1>6. \A t : call = Answer(t) => call.type = t BY DEF Answer
<1>7. root \in Defined(program) => Denoted(program, root) # Null BY <1>2, Denoting
<1>8. Blamed(program, errors, root) => root \notin Defined(program) BY <1>2, BlamedUndefined
<1> QED BY <1>2, <1>4, <1>5, <1>6, <1>7, <1>8, Zenon

(* It keeps the type of a parameter, or reports that there is none.        *)
LEMMA SoundDeliver == Inv /\ Sound /\ Deliver => Sound'
<1> SUFFICES ASSUME Inv, Sound, Deliver PROVE Sound' OBVIOUS
<1>1. /\ call.do = "answer" /\ frames = <<>> /\ call' = Idle
      /\ UNCHANGED <<program, registered, structDecls, enumDecls, tables, namedTypes, frames, tried>>
  BY DEF Deliver, tables, resolver, progress
<1>2. PICK root : Under(root) BY DEF Sound
<1>3. /\ program \in Programs /\ Busy /\ Truthful /\ Asks(root)
      /\ call.type = Null => Blamed(program, errors, root) /\ root \notin Defined(program)
      /\ call.type # Null => /\ root \in Defined(program) /\ call.type = Denoted(program, root)
                             /\ root.kind = "named" => root.name \in Names(namedTypes)
  BY <1>1, <1>2, Delivered
<1>4. ~Busy' BY <1>1 DEF Busy
<1>5. \A n \in tried : n \in Names(namedTypes) \/ Blamed(program, errors, Named(n))
  <2>1. ASSUME NEW n, root = Named(n) PROVE n \in Names(namedTypes) \/ Blamed(program, errors, Named(n))
    <3>1. root.kind = "named" /\ root.name = n BY <2>1 DEF Named
    <3> QED BY <1>3, <2>1, <3>1
  <2> QED BY <1>2, <2>1 DEF Under
<1> DEFINE n == Len(results)
           m == Len(program.params)
<1>6. /\ IsList(results) /\ n \in Nat /\ m \in Nat /\ DOMAIN program.params = 1..m /\ n <= m
  BY <1>3, ProgramsAssumption, LenProperties DEF Sound, Collected, IsList
<1>7. InParams => root = Param.type /\ n + 1 <= m /\ n + 1 \in 1..m
  <2>1. InParams => root = Param.type /\ n # m BY <1>3 DEF Asks, AllParams
  <2> HIDE DEF n, m
  <2> QED BY <1>6, <2>1
<1>8. InParams => Param \in RangeOf(program.params) /\ Param = program.params[n + 1]
  BY <1>6, <1>7 DEF Param, RangeOf
<1>9. ASSUME errors \subseteq errors', Truthful', pass' \in {pass, "check"}, pass' # pass => InParams, Collected'
      PROVE  Sound'
  <2>1. InParams' <=> InParams BY <1>9 DEF InParams
  <2>2. Filed' /\ Remembered' BY <1>1, <1>9, FiledStays, RememberedStays DEF Sound
  <2>3. Phased' BY <1>1, <1>3, <1>9, <2>1 DEF Sound, Phased, InParams, DeclaredNames, Names
  <2>4. \A x \in tried : x \in Names(namedTypes) \/ Blamed(program, errors', Named(x)) BY <1>5, <1>9, BlamedGrows
  <2>5. Under(Null)' BY <1>1, <1>4, <2>4 DEF Under, Names
  <2> QED BY <1>9, <2>2, <2>3, <2>5 DEF Sound
<1>10. ASSUME NEW type, results' = Append(results, type), InParams, UNCHANGED pass, errors \subseteq errors',
              type = Meaning(program, root), errors' = {} => type # Null
       PROVE  Collected'
  <2>1. /\ IsList(results') /\ Len(results') = n + 1
        /\ \A i \in 1..n : results'[i] = results[i]
        /\ results'[n + 1] = type
    BY <1>6, <1>10, Pushing
  <2>2. \A i \in 1..n : /\ results[i] = Meaning(program, program.params[i].type)
                        /\ errors = {} => results[i] # Null
    BY DEF Sound, Collected
  <2>3. InParams' BY <1>10 DEF InParams
  <2>4. root = program.params[n + 1].type /\ n + 1 <= m BY <1>7, <1>8, <1>10
  <2>5. errors' = {} => errors = {} BY <1>10
  <2> HIDE DEF n
  <2>6. \A i \in 1..(n + 1) : i \in 1..n \/ i = n + 1 BY <1>6
  <2>7. \A i \in 1..Len(results') : /\ results'[i] = Meaning(program, program.params[i].type)
                                    /\ errors' = {} => results'[i] # Null
    BY <1>10, <2>1, <2>2, <2>4, <2>5, <2>6
  <2>8. Len(results') <= m BY <2>1, <2>4
  <2> QED BY <1>1, <2>1, <2>3, <2>7, <2>8 DEF Collected
<1>11. CASE ~InParams /\ UNCHANGED <<progress, errors>>
  <2>1. UNCHANGED <<pass, results, errors>> BY <1>11 DEF progress
  <2>2. Collected' /\ Truthful' BY <1>1, <2>1, CollectedStays, TruthfulStays DEF Sound
  <2> QED BY <1>9, <2>1, <2>2
<1>12. CASE InParams /\ call.type # Null /\ results' = Append(results, call.type) /\ UNCHANGED <<pass, tried, errors>>
  <2>1. Truthful' BY <1>1, <1>12, TruthfulStays DEF Sound
  <2>2. call.type = Meaning(program, root) BY <1>3, <1>12 DEF Meaning
  <2>3. Collected' BY <1>10, <1>12, <2>2
  <2> QED BY <1>9, <1>12, <2>1, <2>3
<1>13. CASE /\ pass = "declare" /\ call.type = Null
            /\ Report("Unknown parameter type in function", Param.name, Nobody)
            /\ pass' = "check" /\ results' = <<>>
  <2>1. InParams BY <1>13 DEF InParams
  <2>2. IsTrue(<<"Unknown parameter type in function", Param.name, Nobody>>)
    <3>1. \E param \in RangeOf(program.params) : param.name = Param.name /\ param.type \notin Defined(program)
      BY <1>3, <1>7, <1>8, <1>13, <2>1
    <3> QED BY <3>1 DEF IsTrue
  <2>3. Truthful' /\ errors \subseteq errors' BY <1>1, <1>3, <1>13, <2>2, TruthfulGrows
  <2>4. Collected'
    <3>1. Len(results') = 0 /\ IsList(results') BY <1>13, EmptyList
    <3>2. InParams' BY <1>13 DEF InParams
    <3>3. Len(results') <= Len(program'.params) BY <1>1, <1>6, <3>1
    <3>4. 1..Len(results') = {} BY <3>1
    <3> HIDE DEF n, m
    <3> QED BY <3>1, <3>2, <3>3, <3>4, Zenon DEF Collected
  <2> QED BY <1>9, <1>13, <2>1, <2>3, <2>4
<1>14. CASE /\ pass = "check" /\ call.type = Null
            /\ Report("Unknown parameter type", Param.name, Nobody)
            /\ results' = Append(results, Null) /\ UNCHANGED <<pass, tried>>
  <2>1. InParams BY <1>14 DEF InParams
  <2>2. IsTrue(<<"Unknown parameter type", Param.name, Nobody>>)
    <3>1. \E param \in RangeOf(program.params) : param.name = Param.name /\ param.type \notin Defined(program)
      BY <1>3, <1>7, <1>8, <1>14, <2>1
    <3> QED BY <3>1 DEF IsTrue
  <2>3. Truthful' /\ errors \subseteq errors' /\ errors' # {} BY <1>1, <1>3, <1>14, <2>2, TruthfulGrows
  <2>4. Null = Meaning(program, root) BY <1>3, <1>14 DEF Meaning
  <2>5. Collected' BY <1>10, <1>14, <2>1, <2>3, <2>4
  <2> QED BY <1>9, <1>14, <2>1, <2>3, <2>5
<1> QED BY <1>11, <1>12, <1>13, <1>14, Zenon DEF Deliver

(* Every step keeps the invariant.                                         *)
LEMMA SoundStepwise == Inv /\ Sound /\ [Next]_vars => Sound'
<1> SUFFICES ASSUME Inv, Sound, [Next]_vars PROVE Sound' OBVIOUS
<1>1. CASE RegisterTypeDecl BY <1>1, SoundRegistering
<1>2. CASE ResolveDecl("structs", structDecls)
  <2>1. Names(structDecls) \subseteq DeclaredNames BY DEF DeclaredNames
  <2> QED BY <1>2, <2>1, SoundDecl
<1>3. CASE ResolveDecl("enums", enumDecls)
  <2>1. Names(enumDecls) \subseteq DeclaredNames BY DEF DeclaredNames
  <2> QED BY <1>3, <2>1, SoundDecl
<1>4. CASE EndStructs BY <1>4, SoundPass DEF EndStructs
<1>5. CASE EndEnums
  <2>1. Names(structDecls) \subseteq tried BY <1>5 DEF EndEnums, NextPass, Sound, Phased
  <2> QED BY <1>5, <2>1, SoundPass DEF EndEnums
<1>6. CASE EndDeclare
  <2>1. Names(structDecls) \subseteq tried /\ Names(enumDecls) \subseteq tried
    BY <1>6 DEF EndDeclare, NextPass, Sound, Phased, InParams
  <2> QED BY <1>6, <2>1, SoundPass DEF EndDeclare
<1>7. CASE ResolveParam BY <1>7, SoundParam
<1>8. CASE Deliver BY <1>8, SoundDeliver
<1>9. CASE ResolvePrimitive BY <1>9, SoundPrimitive
<1>10. CASE ReuseNamedType BY <1>10, SoundReuse
<1>11. CASE RefuseRecursion BY <1>11, SoundRecursion
<1>12. CASE RefuseUnknown BY <1>12, SoundUnknown
<1>13. CASE EnterDeclaration BY <1>13, SoundDeclaration
<1>14. CASE EnterCompound BY <1>14, SoundCompound
<1>15. CASE SkipDuplicate BY <1>15, SoundSkip
<1>16. CASE AddEmptyVariant BY <1>16, SoundEmptyVariant
<1>17. CASE ResolveMember BY <1>17, SoundAsking
<1>18. CASE TakeMember BY <1>18, SoundTaking
<1>19. CASE FailFrame BY <1>19, SoundFailing
<1>20. CASE FinishFrame BY <1>20, SoundFinishing
<1>21. CASE UNCHANGED vars
  <2>1. UNCHANGED <<program, registered, structDecls, enumDecls, tables, namedTypes, frames, call, pass, tried,
                    results, errors>>
    BY <1>21 DEF vars, tables, resolver, progress
  <2>2. Filed' /\ Remembered' /\ Collected' /\ Truthful'
    BY <2>1, FiledStays, RememberedStays, CollectedStays, TruthfulStays DEF Sound
  <2>3. Phased' BY <2>1 DEF Sound, Phased, Busy, InParams, DeclaredNames, Names
  <2>4. \A root : Under(root) => Under(root)'
    BY <2>1 DEF Under, Busy, InParams, Asks, AllParams, Param, Names
  <2> QED BY <2>2, <2>3, <2>4 DEF Sound
<1> QED BY <1>1, <1>2, <1>3, <1>4, <1>5, <1>6, <1>7, <1>8, <1>9, <1>10, <1>11, <1>12, <1>13, <1>14, <1>15,
           <1>16, <1>17, <1>18, <1>19, <1>20, <1>21, Zenon DEF Next

-----------------------------------------------------------------------------
(* When check() is done, every declared name has been tried.               *)
LEMMA AllTried ==
  ASSUME Inv, Sound, Done
  PROVE  /\ program \in Programs
         /\ DOMAIN program.decls = 1..Len(program.decls) /\ Len(program.decls) \in Nat
         /\ DOMAIN program.params = 1..Len(program.params) /\ Len(program.params) \in Nat
         /\ registered = Len(program.decls) /\ Len(results) = Len(program.params)
         /\ \A decl \in RangeOf(program.decls) :
              /\ IsDeclared(program, decl.name)
              /\ \/ decl.name \in Names(namedTypes) /\ Named(decl.name) \in Defined(program)
                 \/ /\ Blamed(program, errors, Named(decl.name)) /\ errors # {}
                    /\ Named(decl.name) \notin Defined(program)
<1>1. program \in Programs BY DEF Inv, Declarations
<1>2. /\ DOMAIN program.decls = 1..Len(program.decls) /\ Len(program.decls) \in Nat
      /\ DOMAIN program.params = 1..Len(program.params) /\ Len(program.params) \in Nat
  BY <1>1, ProgramsAssumption, LenProperties
<1>3. registered = Len(program.decls) /\ ~Busy /\ pass = "check" /\ Len(results) = Len(program.params)
  BY DEF Done, Ready, Busy, AllParams
<1>4. DeclaredNames \subseteq tried BY <1>3 DEF Sound, Phased, InParams, DeclaredNames
<1>5. ASSUME NEW decl \in RangeOf(program.decls)
      PROVE  /\ IsDeclared(program, decl.name)
             /\ \/ decl.name \in Names(namedTypes) /\ Named(decl.name) \in Defined(program)
                \/ /\ Blamed(program, errors, Named(decl.name)) /\ errors # {}
                   /\ Named(decl.name) \notin Defined(program)
  <2>1. PICK i \in 1..Len(program.decls) : decl = program.decls[i] BY <1>2 DEF RangeOf
  <2>2. decl.name \in tried BY <1>3, <1>4, <2>1 DEF Sound, Filed, NamesUpTo
  <2>3. IsDeclared(program, decl.name) BY DEF IsDeclared
  <2>4. CASE decl.name \in Names(namedTypes) BY <2>3, <2>4 DEF Sound, Remembered
  <2>5. CASE Blamed(program, errors, Named(decl.name))
    <3>1. Named(decl.name) \notin Defined(program) BY <1>1, <2>5, BlamedUndefined DEF Sound
    <3>2. errors # {} BY <2>5 DEF Blamed
    <3> QED BY <2>3, <2>5, <3>1, <3>2
  <2> QED BY <1>3, <2>2, <2>4, <2>5, Resting
<1> QED BY <1>1, <1>2, <1>3, <1>5

(* The invariant gives what is owed to the names,                          *)
LEMMA SettledFollows == Inv /\ Sound => Settled
<1> SUFFICES ASSUME Inv, Sound PROVE Settled OBVIOUS
<1>1. \A name \in Names(namedTypes) :
         Named(name) \in Defined(program) /\ namedTypes[name] = Denoted(program, Named(name))
  BY DEF Sound, Remembered
<1>2. ASSUME Done
      PROVE  /\ \A decl \in RangeOf(program.decls) :
                   Named(decl.name) \in Defined(program) => decl.name \in Names(namedTypes)
             /\ \A i \in DOMAIN program.params : results[i] = Meaning(program, program.params[i].type)
  <2>1. \A decl \in RangeOf(program.decls) :
           Named(decl.name) \in Defined(program) => decl.name \in Names(namedTypes)
    BY <1>2, AllTried
  <2>2. Len(results) = Len(program.params) /\ DOMAIN program.params = 1..Len(program.params) BY <1>2, AllTried
  <2>3. \A i \in DOMAIN program.params : results[i] = Meaning(program, program.params[i].type)
    BY <2>2 DEF Sound, Collected
  <2> QED BY <2>1, <2>3
<1> QED BY <1>1, <1>2 DEF Settled

(* No report: everything was resolved, and nothing was left out.           *)
LEMMA NoReport ==
  ASSUME Inv, Sound, Done, errors = {}
  PROVE  WellFormed
<1>1. /\ program \in Programs
      /\ DOMAIN program.decls = 1..Len(program.decls) /\ Len(program.decls) \in Nat
      /\ DOMAIN program.params = 1..Len(program.params) /\ registered = Len(program.decls)
      /\ Len(results) = Len(program.params)
  BY AllTried
<1>2. ASSUME NEW decl \in RangeOf(program.decls)
      PROVE  /\ Named(decl.name) \in Defined(program) /\ ~Repeats(decl.name, program.decls)
             /\ \A m \in RangeOf(decl.members) : ~Repeats(m.name, decl.members)
  <2>1. /\ decl.name \in Names(namedTypes) /\ Named(decl.name) \in Defined(program)
        /\ IsDeclared(program, decl.name)
    BY AllTried
  <2>2. \A i, j \in 1..Len(program.decls) : program.decls[i].name = program.decls[j].name => i = j
    BY <1>1 DEF Sound, Filed
  <2>3. ~Repeats(decl.name, program.decls) BY <1>1, <2>2 DEF Repeats
  <2>4. PICK k \in 1..Len(program.decls) : decl = program.decls[k] BY <1>1 DEF RangeOf
  <2>5. Definition(program, decl.name) = decl
    <3>1. FirstWith(program.decls[k].name, program.decls) = k
      <4>1. \A j \in 1..(k - 1) : program.decls[j].name # program.decls[k].name
        <5>1. \A j \in 1..(k - 1) : j \in 1..Len(program.decls) /\ j # k BY <1>1
        <5> QED BY <2>2, <5>1
      <4> QED BY <1>1, <4>1, FirstIs
    <3> QED BY <2>4, <3>1 DEF Definition
  <2> DEFINE e == Named(decl.name)
             ms == decl.members
  <2>6. e.kind = "named" /\ e.name = decl.name BY DEF Named
  <2>7. MembersOf(program, e) = ms BY <2>1, <2>5, <2>6 DEF MembersOf, IsCompound
  <2>8. e \in program.types BY <2>1 DEF Defined
  <2>9. DOMAIN ms = 1..Len(ms) /\ Len(ms) \in Nat BY <1>1, <2>7, <2>8, MembersType
  <2>10. DOMAIN ms \subseteq Kept(program, e) BY <2>1, <2>7 DEF Sound, Remembered
  <2>11. \A j \in DOMAIN ms : \A i \in 1..(j - 1) : ms[i].name # ms[j].name
    BY <2>6, <2>7, <2>10 DEF Kept
  <2>12. \A m \in RangeOf(ms) : ~Repeats(m.name, ms)
    <3> HIDE DEF ms
    <3> SUFFICES ASSUME NEW i \in DOMAIN ms, NEW j \in DOMAIN ms, i # j, ms[i].name = ms[j].name PROVE FALSE
      BY DEF Repeats
    <3>1. i \in 1..(j - 1) \/ j \in 1..(i - 1) BY <2>9
    <3> QED BY <2>11, <3>1
  <2> QED BY <2>1, <2>3, <2>12
<1>3. ASSUME NEW param \in RangeOf(program.params) PROVE param.type \in Defined(program)
  <2>1. PICK i \in 1..Len(program.params) : param = program.params[i] BY <1>1 DEF RangeOf
  <2>2. results[i] = Meaning(program, program.params[i].type) /\ results[i] # Null
    BY <1>1, <2>1 DEF Sound, Collected
  <2> QED BY <2>1, <2>2 DEF Meaning
<1> QED BY <1>2, <1>3 DEF WellFormed

(* A well formed program leaves nothing to report.                         *)
LEMMA NothingToReport ==
  ASSUME program \in Programs, Truthful, WellFormed
  PROVE  errors = {}
<1> SUFFICES ASSUME NEW error \in errors PROVE FALSE OBVIOUS
<1>1. IsTrue(error) BY DEF Truthful
<1> DEFINE name == error[2]
           where == error[3]
<1>2. ASSUME NEW n, IsDeclared(program, n) PROVE Named(n) \in Defined(program) /\ ~Repeats(n, program.decls)
  BY <1>2 DEF WellFormed, IsDeclared
<1>3. CASE ~IsDeclared(program, name) /\ \E e \in Roots(program) : Named(name) \in Reached(program, e)
  <2>1. PICK e \in Roots(program) : Named(name) \in Reached(program, e) BY <1>3
  <2>2. e \in Defined(program) BY DEF Roots, WellFormed
  <2>3. Named(name) \in Defined(program) BY <2>1, <2>2, DefinedReached
  <2>4. IsDeclared(program, Named(name).name)
    <3>1. Named(name).kind = "named" BY DEF Named
    <3> QED BY <2>3, <3>1, DefinedParts DEF Known
  <2>5. Named(name).name = name BY DEF Named
  <2> QED BY <1>3, <2>4, <2>5
<1>4. CASE IsDeclared(program, name) /\ Circular(program, Named(name))
  BY <1>2, <1>4, DefinedAcyclic
<1>5. CASE IsDeclared(program, name) /\ Repeats(name, program.decls)
  BY <1>2, <1>5
<1>6. CASE /\ IsDeclared(program, where)
           /\ \E m \in RangeOf(Definition(program, where).members) : m.name = name
           /\ Repeats(name, Definition(program, where).members)
  <2>1. Definition(program, where) \in RangeOf(program.decls) BY <1>6, DefinitionType
  <2> QED BY <1>6, <2>1 DEF WellFormed
<1>7. CASE \E param \in RangeOf(program.params) : param.name = name /\ param.type \notin Defined(program)
  BY <1>7 DEF WellFormed
<1> HIDE DEF name, where
<1>8. \/ ~IsDeclared(program, name) /\ \E e \in Roots(program) : Named(name) \in Reached(program, e)
      \/ IsDeclared(program, name) /\ Circular(program, Named(name))
      \/ IsDeclared(program, name) /\ Repeats(name, program.decls)
      \/ /\ IsDeclared(program, where)
         /\ \E m \in RangeOf(Definition(program, where).members) : m.name = name
         /\ Repeats(name, Definition(program, where).members)
      \/ \E param \in RangeOf(program.params) : param.name = name /\ param.type \notin Defined(program)
  BY <1>1, Zenon DEF IsTrue, name, where
<1> QED BY <1>3, <1>4, <1>5, <1>6, <1>7, <1>8, Zenon

(* and what is owed to the reports.                                        *)
LEMMA DiagnosedFollows == Inv /\ Sound => Diagnosed
<1> SUFFICES ASSUME Inv, Sound PROVE Diagnosed OBVIOUS
<1>1. \A error \in errors : IsTrue(error) BY DEF Sound, Truthful
<1>2. ASSUME Done
      PROVE  /\ errors = {} <=> WellFormed
             /\ \A decl \in RangeOf(program.decls) :
                  Named(decl.name) \in Defined(program) \/ Caused(Named(decl.name))
  <2>1. errors = {} => WellFormed BY <1>2, NoReport
  <2>2. WellFormed => errors = {} BY NothingToReport DEF Inv, Declarations, Sound
  <2>3. \A e : Blamed(program, errors, e) => Caused(e) BY Zenon DEF Blamed, Caused
  <2>4. \A decl \in RangeOf(program.decls) :
           Named(decl.name) \in Defined(program) \/ Caused(Named(decl.name))
    BY <1>2, <2>3, AllTried
  <2> QED BY <2>1, <2>2, <2>4
<1> QED BY <1>1, <1>2, Zenon DEF Diagnosed

(* checker.cpp namedTypes_: whatever the order of the hash tables and      *)
(* whatever fails on the way, a name is only remembered with the type its  *)
(* declaration denotes, and at the end exactly the names that have one are,*)
(* and each parameter has the type its expression denotes.                 *)
THEOREM SettledHolds == Spec => []Settled
<1>1. Init => Inv /\ Sound BY Initially, SoundInitially
<1>2. (Inv /\ Sound) /\ [Next]_vars => (Inv /\ Sound)' BY Stepwise, SoundStepwise
<1>3. Inv /\ Sound => Settled BY SettledFollows
<1> QED BY <1>1, <1>2, <1>3, PTL DEF Spec

(* checker.cpp reportError: every report is true of the program, a program *)
(* is accepted exactly if it is well formed, and a name without a type has *)
(* the cause of it reported.                                               *)
THEOREM DiagnosedHolds == Spec => []Diagnosed
<1>1. Init => Inv /\ Sound BY Initially, SoundInitially
<1>2. (Inv /\ Sound) /\ [Next]_vars => (Inv /\ Sound)' BY Stepwise, SoundStepwise
<1>3. Inv /\ Sound => Diagnosed BY DiagnosedFollows
<1> QED BY <1>1, <1>2, <1>3, PTL DEF Spec
=============================================================================
