------------------------------- MODULE Engines -------------------------------
(***************************************************************************)
(* The interpreter on the programs the type checker accepts, and what the  *)
(* checker promises about them; the native binary of the same program runs *)
(* beside it, as in tests/run_runtime_tests.py.                            *)
(***************************************************************************)
EXTENDS Interp, Native

(* lookupBinding searches the scopes of every active call, but in a        *)
(* program the type checker accepted it always ends in a scope of the      *)
(* innermost call: names are resolved lexically.                           *)
CurrentCall ==
  CHOOSE k \in 0..Len(kont) :
    /\ k > 0 => kont[k].node.op = "call" /\ OwnsScope(kont[k])
    /\ \A j \in k + 1..Len(kont) : ~(kont[j].node.op = "call" /\ OwnsScope(kont[j]))

LooksUp ==
  \/ AtExpr({"var"})
  \/ AtStmt({"assign", "setindex"})

LexicalLookup == LooksUp => Slot(ctl.node.name) >= OwnedUpTo(CurrentCall)

(* The only faults a type-checked program has at run time are the ones     *)
(* GRAMMAR.md names (and null values): it never reaches a dynamic type     *)
(* error, an unknown name, a duplicate declaration or a stray jump.        *)
RuntimeFaults ==
  {"Integer overflow", "Division by zero", "Array index out of bounds", "Null string access",
   "Index access requires an array value", "Index assignment target must be an array",
   "Field access requires a struct value", "Missing entry function"}

OnlyRuntimeFaults == HasError => errors[1] \in RuntimeFaults

(* Implicit conversions are done wherever a value is stored: a binding,    *)
(* array element or field holds a value of its static type, or null where  *)
(* the type has a null.  An Int slot never holds a Bool nor a Float slot   *)
(* an Int, which would change the arithmetic done on it later.             *)
HoldsType(val, type) ==
  CASE type.kind \in {"Int", "Bool", "Float"} -> val.kind = type.kind
    [] type.kind = "Product" -> val.kind = "Struct" /\ heap[val.n].struct = type.name
    [] type.kind = "Null" -> val = NullV
    [] type.kind = "String" -> val.kind \in {"String", "Null"}
    [] type.kind = "Array" ->
         \/ val = NullV
         \/ /\ val.kind = "Array"
            /\ \A i \in DOMAIN heap[val.n].vals :
                 heap[val.n].vals[i].kind \in {"Null", type.of[1].kind}

StoredTypes ==
  ~HasError =>
    /\ \A i \in DOMAIN scopes : \A x \in DOMAIN scopes[i] :
         HoldsType(scopes[i][x].val, scopes[i][x].type)
    /\ \A i \in DOMAIN heap : heap[i].struct # "" =>
         \A f \in DOMAIN heap[i].vals : HoldsType(heap[i].vals[f], FieldsOf(heap[i].struct)[f].type)

(* tests/run_runtime_tests.py expects one stdout and one exit status of    *)
(* both engines for each program.  After a fault the binary exits at once, *)
(* while the interpreter goes on evaluating operands, arguments and        *)
(* assignments until the error reaches run(): none of that may be seen.    *)
AgreesWithNative ==
  result.done =>
    LET native == NativeRun(program)
    IN  /\ native.halt \in {"", "exit"}
        /\ native.exit = result.exit
        /\ native.out = out
        /\ result.success <=> native.halt = ""

(* A run ends, on programs whose loops end: the interpreter never gets     *)
(* stuck with an ExecSignal or a value nobody takes, nor goes round a loop *)
(* that break, return or an error should have left.                        *)
Ends == <>result.done
=============================================================================
