--------------------------- MODULE ImportSemantics ---------------------------
(***************************************************************************)
(* What merging a program's imports promises, whatever order the files are *)
(* visited in (src/pipeline/compiler.cpp, mergeImports).  The declarations *)
(* of a module reach the merged program once, after those of every module  *)
(* it imports unless the two import each other, and the merge succeeds     *)
(* exactly when every module that is reached can be found and parsed.      *)
(***************************************************************************)
EXTENDS Naturals, Sequences, FiniteSets

CONSTANTS
  Modules,    (* the keys of the files imports may resolve to               *)
  Root,       (* the module the compiler was started on                    *)
  Std,        (* the built-in standard module, never read from a file      *)
  Missing,    (* an import that resolves to nothing                        *)
  Inputs      (* the import graphs considered                              *)

VARIABLES
  input,      (* [imports, broken, named]: the graph of this compilation   *)
  emitted,    (* the modules whose declarations are in the program, in order *)
  outcome     (* "running", "merged" or "failed"                           *)

absVars == <<input, emitted, outcome>>

Imports(m) == {input.imports[m][i] : i \in DOMAIN input.imports[m]}

(* A module's text is only looked at when it parses, so nothing is reached *)
(* through a broken one.                                                   *)
Closed(S) == \A m \in S \ input.broken : Imports(m) \cap Modules \subseteq S
Reached(start) == {m \in Modules : \A S \in SUBSET Modules : start \subseteq S /\ Closed(S) => m \in S}

Program == Reached({Root})

Faulty ==
  \/ Program \cap input.broken # {}
  \/ \E m \in Program \ input.broken : Missing \in Imports(m)

Emissions(m) == Cardinality({i \in DOMAIN emitted : emitted[i] = m})

(* The root of an unnamed compilation has no key to be recognised by: a    *)
(* cycle of imports that leads back to its text merges it a second time.   *)
Allowance(m) == IF m = Root /\ ~input.named THEN 2 ELSE 1

AbsInit ==
  /\ input \in Inputs
  /\ emitted = <<>>
  /\ outcome = "running"

(* The modules m imports come first, unless they depend on m in turn.      *)
Ready(m) ==
  /\ outcome = "running"
  /\ Emissions(m) < Allowance(m)
  /\ \A t \in Imports(m) \cap Modules : Emissions(t) > 0 \/ m \in Reached({t})

Emit(m) ==
  /\ Ready(m)
  /\ m \in Program \ input.broken
  /\ m = Root => Emissions(m) + 1 < Allowance(m)
  /\ emitted' = Append(emitted, m)
  /\ UNCHANGED <<input, outcome>>

(* The root's own declarations complete the program.                       *)
Conclude ==
  /\ Ready(Root)
  /\ ~Faulty
  /\ \A n \in Program \ {Root} : Emissions(n) > 0
  /\ emitted' = Append(emitted, Root)
  /\ outcome' = "merged"
  /\ UNCHANGED input

(* Nothing that was emitted is handed on.                                  *)
Refuse ==
  /\ outcome = "running"
  /\ Faulty
  /\ outcome' = "failed"
  /\ emitted' = <<>>
  /\ UNCHANGED input

AbsNext == (\E m \in Modules : Emit(m)) \/ Conclude \/ Refuse

AbsSpec == AbsInit /\ [][AbsNext]_absVars
=============================================================================
