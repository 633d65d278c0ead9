------------------------------- MODULE Imports -------------------------------
(***************************************************************************)
(* The import merger of src/pipeline/compiler.cpp: prepareProgram parses   *)
(* the root and calls mergeImports, which walks the import declarations of *)
(* a program depth first, parses each file the first time its key is seen, *)
(* merges it recursively, and splices its declarations before those of the *)
(* importer.  The C++ call stack is the variable stack: one frame per      *)
(* active mergeImports, with the loop position and the local "merged".     *)
(* A module's own declarations move as one block, written as the module.   *)
(* The file system (or the ModuleResolver) does not change during a run.   *)
(***************************************************************************)
EXTENDS Naturals, Sequences, FiniteSets

CONSTANTS
  Modules,    (* pathKey values of the files imports may resolve to        *)
  Root,       (* the module the compiler was started on                    *)
  Std,        (* identifiers::kStdModule                                   *)
  Missing,    (* an import for which resolveModule returns nullopt         *)
  Inputs      (* the import graphs considered                              *)

Targets == Modules \cup {Std, Missing}

(* imports[m]: the import declarations of m in source order; broken: the   *)
(* files parser::parseString refuses; named: options.sourceName is neither *)
(* empty nor "<memory>".                                                   *)
Graph == [imports : [Modules -> Seq(Targets)], broken : SUBSET Modules, named : BOOLEAN]

ASSUME ImportsAssumption ==
  /\ Root \in Modules
  /\ Std \notin Modules
  /\ Missing \notin Modules \cup {Std}
  /\ Inputs \subseteq Graph

VARIABLES
  input,      (* the graph of this compilation, fixed by Init              *)
  status,     (* "parse" the root, "merge", "merged" or "failed"           *)
  visited,    (* ImportSet visited                                         *)
  stack,      (* active mergeImports calls, the innermost last             *)
  program,    (* program.topLevel of the root after the merge              *)
  diagnostic  (* the diagnostic appended on failure, or NoDiagnostic       *)

vars == <<input, status, visited, stack, program, diagnostic>>

Frame(m) == [mod |-> m, pos |-> 1, merged |-> <<>>]
Top == stack[Len(stack)]
Pop == SubSeq(stack, 1, Len(stack) - 1)

(* A diagnostic names the module that is to blame and nothing else: its    *)
(* sourceName is empty, so appendDiagnostic prints neither file nor line.  *)
Diagnostic(stage, target) == [stage |-> stage, target |-> target]
NoDiagnostic == Diagnostic("none", Root)

-----------------------------------------------------------------------------
Init ==
  /\ input \in Inputs
  /\ status = "parse"
  /\ visited = {}
  /\ stack = <<>>
  /\ program = <<>>
  /\ diagnostic = NoDiagnostic

(* A slip the runs must catch: visited is not seeded with the root.        *)
ParseRootUnseeded ==
  /\ status = "parse"
  /\ Root \notin input.broken
  /\ status' = "merge"
  /\ stack' = <<Frame(Root)>>
  /\ UNCHANGED <<input, visited, program, diagnostic>>

(* prepareProgram: parse the root, seed visited with its key when it has   *)
(* one, and call mergeImports on it.                                       *)
ParseRoot ==
  /\ status = "parse"
  /\ Root \notin input.broken
  /\ status' = "merge"
  /\ visited' = IF input.named THEN {Root} ELSE {}
  /\ stack' = <<Frame(Root)>>
  /\ UNCHANGED <<input, program, diagnostic>>

RootUnparsable ==
  /\ status = "parse"
  /\ Root \in input.broken
  /\ status' = "failed"
  /\ diagnostic' = Diagnostic("Parse", Root)
  /\ UNCHANGED <<input, visited, stack, program>>

(* The loop stands at an import declaration, which names target.           *)
AtImport(target) ==
  /\ status = "merge"
  /\ Top.pos <= Len(input.imports[Top.mod])
  /\ target = input.imports[Top.mod][Top.pos]

Advanced == [stack EXCEPT ![Len(stack)].pos = @ + 1]

(* isStdModuleImport: continue.                                            *)
SkipStd ==
  /\ AtImport(Std)
  /\ stack' = Advanced
  /\ UNCHANGED <<input, status, visited, program, diagnostic>>

(* A slip: the active calls go on after the failure.                       *)
ImportNotFoundGoesOn ==
  /\ AtImport(Missing)
  /\ status' = "failed"
  /\ diagnostic' = Diagnostic("ImportResolution", Missing)
  /\ stack' = Pop
  /\ UNCHANGED <<input, visited, program>>

(* resolveModule found nothing: every active call returns false.           *)
ImportNotFound ==
  /\ AtImport(Missing)
  /\ status' = "failed"
  /\ diagnostic' = Diagnostic("ImportResolution", Missing)
  /\ stack' = <<>>
  /\ UNCHANGED <<input, visited, program>>

(* A slip: the loop does not advance past a visited import.                *)
SkipVisitedAgain(m) ==
  /\ AtImport(m)
  /\ m \in visited
  /\ UNCHANGED vars

(* visited.insert(visitedKey).second is false: continue.                   *)
SkipVisited(m) ==
  /\ AtImport(m)
  /\ m \in visited
  /\ stack' = Advanced
  /\ UNCHANGED <<input, status, visited, program, diagnostic>>

(* The key is inserted before the file is parsed.                          *)
ImportUnparsable(m) ==
  /\ AtImport(m)
  /\ m \notin visited
  /\ m \in input.broken
  /\ visited' = visited \cup {m}
  /\ status' = "failed"
  /\ diagnostic' = Diagnostic("Parse", m)
  /\ stack' = <<>>
  /\ UNCHANGED <<input, program>>

(* A slip: the key is inserted only when the import has been merged.       *)
EnterImportUnmarked(m) ==
  /\ AtImport(m)
  /\ m \notin visited
  /\ m \notin input.broken
  /\ Len(stack) < 5
  /\ stack' = Append(Advanced, Frame(m))
  /\ UNCHANGED <<input, status, visited, program, diagnostic>>

(* A slip: parseResult.success is not tested, and what the parser could    *)
(* build of the file is merged.                                            *)
EnterImportUnchecked(m) ==
  /\ AtImport(m)
  /\ m \notin visited
  /\ visited' = visited \cup {m}
  /\ stack' = Append(Advanced, Frame(m))
  /\ UNCHANGED <<input, status, program, diagnostic>>

(* The recursive call.  The importer resumes after this declaration.       *)
EnterImport(m) ==
  /\ AtImport(m)
  /\ m \notin visited
  /\ m \notin input.broken
  /\ visited' = visited \cup {m}
  /\ stack' = Append(Advanced, Frame(m))
  /\ UNCHANGED <<input, status, program, diagnostic>>

(* A slip: the program's own declarations come before its imports.         *)
MergedOwnFirst(frame) == <<frame.mod>> \o frame.merged

(* What program.topLevel becomes when the loop over the imports is over:   *)
(* the spliced imports, then the program's own declarations.               *)
Merged(frame) == Append(frame.merged, frame.mod)

Returned == [Pop EXCEPT ![Len(stack) - 1].merged = @ \o Merged(Top)]

AtEnd ==
  /\ status = "merge"
  /\ Top.pos > Len(input.imports[Top.mod])

(* The recursive call returns true; the caller moves the merged nodes of   *)
(* the imported program into its own "merged".                             *)
ReturnToImporter ==
  /\ AtEnd
  /\ Len(stack) > 1
  /\ stack' = Returned
  /\ UNCHANGED <<input, status, visited, program, diagnostic>>

MergeDone ==
  /\ AtEnd
  /\ Len(stack) = 1
  /\ program' = Merged(Top)
  /\ status' = "merged"
  /\ stack' = <<>>
  /\ UNCHANGED <<input, visited, diagnostic>>

Next ==
  \/ ParseRoot
  \/ RootUnparsable
  \/ SkipStd
  \/ ImportNotFound
  \/ \E m \in Modules : SkipVisited(m) \/ ImportUnparsable(m) \/ EnterImport(m)
  \/ ReturnToImporter
  \/ MergeDone

Spec == Init /\ [][Next]_vars

(* mergeImports runs in one thread and never waits: the caller's thread    *)
(* takes its next step as long as there is one.                            *)
FairSpec == Spec /\ WF_vars(Next)

-----------------------------------------------------------------------------
Frames == [mod : Modules, pos : Nat \ {0}, merged : Seq(Modules)]
Diagnostics ==
  [stage : {"none", "Parse", "ImportResolution"}, target : Modules \cup {Missing}]

(* The values the merger's state may take.                                 *)
TypeOK ==
  /\ input \in Graph
  /\ status \in {"parse", "merge", "merged", "failed"}
  /\ visited \in SUBSET Modules
  /\ stack \in Seq(Frames)
  /\ program \in Seq(Modules)
  /\ diagnostic \in Diagnostics
  /\ status = "merge" <=> stack # <<>>

(* No module's declarations are in the merged program twice, whatever the  *)
(* import graph (diamonds, repeated imports, cycles): a second copy would  *)
(* make the type checker report a duplicate of every function in it.  The  *)
(* root of an unnamed compilation is the one exception: it has no key.     *)
Recognised(m) == m # Root \/ input.named

Distinct(s) == \A a, b \in DOMAIN s : (s[a] = s[b] /\ Recognised(s[a])) => a = b

MergedOnce == Distinct(program)

(* A cycle of imports cannot make mergeImports recurse on a file that is   *)
(* still being merged further up the C++ stack.                            *)
NoReentry ==
  \A i, j \in DOMAIN stack :
    (stack[i].mod = stack[j].mod /\ Recognised(stack[i].mod)) => i = j

(* A failed merge hands no program on, and its diagnostic is about the     *)
(* root, which does not parse, or about a module that is really missing or *)
(* unparsable and that a file imports which was read and parsed.  It is    *)
(* the first failure met: every other file that was read parsed.           *)
Parsed == (visited \cup {Root}) \ input.broken

FailureIsReal ==
  status = "failed" =>
    /\ program = <<>>
    /\ visited \cap input.broken \subseteq {diagnostic.target}
    /\ \/ diagnostic.target = Root /\ Root \in input.broken
       \/ /\ diagnostic.target = Missing \/ diagnostic.target \in input.broken
          /\ \E m \in Parsed : \E i \in DOMAIN input.imports[m] :
               input.imports[m][i] = diagnostic.target

(* The merge ends on every graph, cyclic ones included.                    *)
Terminates == <>(status \in {"merged", "failed"})

(* The merger implements ImportSemantics: what it has emitted so far is    *)
(* what the active frames have merged, the outermost first.                *)
Gathered(frames) ==
  LET gather[n \in 0..Len(frames)] ==
        IF n = 0 THEN <<>> ELSE gather[n - 1] \o frames[n].merged
  IN  gather
Emitted == program \o Gathered(stack)[Len(stack)]

Abstract ==
  INSTANCE ImportSemantics WITH
    emitted <- Emitted,
    outcome <- IF status \in {"merged", "failed"} THEN status ELSE "running"

Implements == Abstract!AbsSpec
=============================================================================
