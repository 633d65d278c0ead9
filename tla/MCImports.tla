------------------------------ MODULE MCImports ------------------------------
(* Every import graph of three modules with at most two imports each, with *)
(* any of the imported files unparsable, or the root, compiled from a      *)
(* named file and from memory.                                             *)
EXTENDS Imports

CONSTANTS r, a, b, std, missing

MCModules == {r, a, b}

(* Up to two imports per module; the standard module is imported first.    *)
MCImportLists ==
  {<<>>, <<std, missing>>}
    \cup {<<t>> : t \in MCModules \cup {missing}}
    \cup {<<s, t>> : s \in MCModules \cup {std}, t \in MCModules}
    \cup {<<s, missing>> : s \in MCModules}

MCInputs ==
  [imports : [MCModules -> MCImportLists],
   broken : {{r}} \cup SUBSET {a, b},
   named : BOOLEAN]
=============================================================================
