---------------------------- MODULE MCEntryPoints ----------------------------
(***************************************************************************)
(* Every command line of up to four arguments; up to two faults for every  *)
(* entry; every text of up to three characters for the worker.             *)
(***************************************************************************)
EXTENDS EntryPoints

MCDashed == {"-h", "--help", "-o", "--emit-ir", "-x"}
World(entry, line, faults, text, exit) ==
  [entry |-> entry, args |-> line, faults |-> faults, text |-> text, exit |-> exit]
UpToTwo(faults) == {{f, g} : f, g \in faults} \cup {{}}

Words == (MCDashed \ {"--help"}) \cup {"a.dh", "b"}
Lines == BoundedSeq(Words, 4) \cup {<<"a.dh", "--help">>}
CommandLines == {World(entry, line, {}, <<97>>, 0) : entry \in {"compile", "interpret"}, line \in Lines}

InPrograms == {"parse", "import", "types"}
Good == {<<"a.dh">>, <<"-o", "b", "a.dh">>, <<"a.dh", "--emit-ir">>}
Compilations ==
  {World("compile", line, faults, <<97>>, 0) :
     line \in Good, faults \in UpToTwo(InPrograms \cup {"open", "codegen", "temp", "disk", "no clang", "clang"})}
Interpretations ==
  {World("interpret", <<"a.dh">>, faults, text, exit) :
     faults \in UpToTwo(InPrograms \cup {"open", "runtime"}), text \in {<<>>, <<97>>}, exit \in {0, 1, 256, -1}}

(* Quote, backslash, line feed, the last control character, a digit, the   *)
(* letter u, an Arabic letter.                                             *)
Texts == BoundedSeq({34, 92, 10, 31, 48, 117, 1583}, 3)
Requests ==
  {World(entry, <<>>, faults, <<34, 92, 10>>, 0) : entry \in {"parse", "run"},
     faults \in UpToTwo(InPrograms \cup {"runtime", "source buffer", "trap", "result buffer", "foreign"})}
  \cup {World("run", <<>>, faults, text, exit) : faults \in {{}, {"runtime"}}, text \in Texts, exit \in {0, -1}}
  \cup {World("parse", <<>>, faults, text, 0) : faults \in {{}, {"types"}}, text \in Texts}

MCWorlds == CommandLines \cup Compilations \cup Interpretations \cup Requests
=============================================================================
