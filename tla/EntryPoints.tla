----------------------------- MODULE EntryPoints -----------------------------
(***************************************************************************)
(* The ways into the pipeline and out of it again: main with the code      *)
(* generator (entry "compile") and without ("interpret"), and the worker's *)
(* invokeSource, which calls dhad_parse_ast ("parse") or dhad_run ("run"). *)
(* compileFile, compileString, runFile and runString are the common part.  *)
(*                                                                         *)
(* What the stages find is fixed at the start: the arguments, the faults   *)
(* that would befall a stage that is reached, what the program prints and  *)
(* returns.  A text is a sequence of code points.                          *)
(***************************************************************************)
EXTENDS Integers, Sequences, FiniteSets, FiniteSetsExt, SequencesExt

CONSTANTS Worlds,   \* [entry, args, faults, text, exit]
          Dashed    \* the arguments that begin with a dash

ASSUME EntryAssumption ==
  /\ {"-h", "--help", "-o", "--emit-ir"} \subseteq Dashed
  /\ Worlds \subseteq [entry : {"compile", "interpret", "parse", "run"}, args : Seq(STRING),
                      faults : SUBSET STRING, text : Seq(Nat), exit : Int]

VARIABLES world,
          args, opts,          \* arguments not yet parsed; Options and sawInput
          stage,
          result,              \* CompileResult or RunResult
          temp, executable,    \* the IR file and the executable, if there are
          clangOK,
          heap,                \* the buffers of invokeSource in the wasm heap
          shown                \* stdout, stderr, exit status; or the reply

vars == <<world, args, opts, stage, result, temp, executable, clangOK, heap, shown>>

NoFile == "none"
Nothing == <<>>
Line(text) == Append(text, 10)
Message(from, text) == [from |-> from, text |-> text]
Failed == [success |-> FALSE, exitCode |-> 1, diagnostics |-> <<>>, ast |-> Nothing, ir |-> FALSE, stdout |-> Nothing]

IsDriver == world.entry \in {"compile", "interpret"}
Compiles == world.entry \in {"compile", "parse"}
Fault(name) == name \in world.faults

Init ==
  /\ world \in Worlds
  /\ args = world.args
  /\ opts = [inputPath |-> NoFile, outputPath |-> "a.out", emitIROnly |-> FALSE, sawInput |-> FALSE]
  /\ stage = IF IsDriver THEN "args" ELSE "source"
  /\ result = Failed
  /\ temp = NoFile /\ executable = NoFile /\ clangOK = FALSE
  /\ heap = {}
  /\ shown = [out |-> <<>>, err |-> <<>>, status |-> 0, reply |-> Failed, ok |-> FALSE]

Files == <<temp, executable, clangOK>>
At(name) == stage = name
To(name) == stage' = name /\ UNCHANGED world
Exit(status, out, err) ==
  shown' = [shown EXCEPT !.status = status % 256, !.out = @ \o out, !.err = @ \o err] /\ To("exited")
Says == <<Message("driver", Nothing)>>
Tells(err) == shown' = [shown EXCEPT !.err = @ \o err]

-----------------------------------------------------------------------------
(* main: parseArgs, an argument at a step.                                 *)
InArgs == At("args") /\ UNCHANGED <<result, Files, heap>>
More(first) == InArgs /\ args # <<>> /\ Head(args) \in first
Drop(n) == args' = SubSeq(args, n + 1, Len(args))
GoOn == To("args") /\ UNCHANGED shown
UsageError == Exit(1, <<>>, Says) /\ UNCHANGED <<args, opts>>

ArgHelp == More({"-h", "--help"}) /\ Exit(0, <<>>, Says) /\ UNCHANGED <<args, opts>>

ArgOutput ==
  /\ More({"-o"})
  /\ \/ Len(args) = 1 /\ UsageError
     \/ /\ Len(args) > 1
        /\ opts' = [opts EXCEPT !.outputPath = args[2]]
        /\ Drop(2) /\ GoOn

ArgEmitIR ==
  /\ More({"--emit-ir"})
  /\ \/ world.entry = "interpret" /\ UsageError
     \/ /\ world.entry = "compile"
        /\ opts' = [opts EXCEPT !.emitIROnly = TRUE]
        /\ Drop(1) /\ GoOn

ArgUnknown == More(Dashed \ {"-h", "--help", "-o", "--emit-ir"}) /\ UsageError

ArgInput ==
  /\ InArgs /\ args # <<>> /\ Head(args) \notin Dashed
  /\ \/ opts.sawInput /\ UsageError
     \/ /\ ~opts.sawInput
        /\ opts' = [opts EXCEPT !.inputPath = Head(args), !.sawInput = TRUE]
        /\ Drop(1) /\ GoOn

ArgsDone ==
  /\ InArgs /\ args = <<>>
  /\ \/ ~opts.sawInput /\ UsageError
     \/ opts.sawInput /\ To("open") /\ UNCHANGED <<args, opts, shown>>

-----------------------------------------------------------------------------
(* The pipeline.  A stage that fails appends diagnostics and returns.      *)
Stages == {"open", "parse", "imports", "check", "dump", "generate", "interpret"}
InPipeline(name) ==
  At(name) /\ UNCHANGED <<args, opts, Files, heap, shown>>
Diagnostics(name, n) == [i \in 1..n |-> [stage |-> name, text |-> world.text]]
Diagnose(name, n) ==
  result' = [result EXCEPT !.diagnostics = @ \o Diagnostics(name, n)] /\ To("returned")

Stage(name, fault, next) ==
  /\ InPipeline(name)
  /\ \/ Fault(fault) /\ Diagnose(fault, 1)
     \/ ~Fault(fault) /\ To(next) /\ UNCHANGED result

OpenInput == Stage("open", "open", "parse")
ParseSource == Stage("parse", "parse", "imports")
MergeImports == Stage("imports", "import", "check")

(* Every error of the type checker becomes a diagnostic.                   *)
CheckTypes ==
  /\ InPipeline("check")
  /\ \/ Fault("types") /\ \E n \in 1..2 : Diagnose("types", n)
     \/ ~Fault("types") /\ To(IF Compiles THEN "dump" ELSE "interpret") /\ UNCHANGED result

(* compileString, for includeAstDump and then includeIR.                   *)
DumpAst ==
  /\ InPipeline("dump")
  /\ result' = IF world.entry = "parse" THEN [result EXCEPT !.ast = world.text] ELSE result
  /\ To("generate")

Generate ==
  /\ InPipeline("generate")
  /\ \/ world.entry = "compile" /\ Fault("codegen") /\ Diagnose("codegen", 1)
     \/ /\ world.entry = "parse" \/ ~Fault("codegen")
        /\ result' = [result EXCEPT !.ir = world.entry = "compile", !.success = TRUE]
        /\ To("returned")

(* A slip: a failed run returns before its output is taken over.           *)
InterpretDropsOutput ==
  /\ InPipeline("interpret")
  /\ \/ Fault("runtime") /\ Diagnose("runtime", 1)
     \/ /\ ~Fault("runtime")
        /\ result' = [result EXCEPT !.stdout = world.text, !.exitCode = world.exit, !.success = TRUE]
        /\ To("returned")

(* runString: the interpreter stops at its first error, whose exit code is *)
(* 1; what was printed up to then stays.                                   *)
Interpret ==
  /\ InPipeline("interpret")
  /\ LET ran == [result EXCEPT !.stdout = world.text]
     IN  \/ /\ Fault("runtime")
            /\ result' = [ran EXCEPT !.diagnostics = @ \o Diagnostics("runtime", 1)]
         \/ /\ ~Fault("runtime")
            /\ result' = [ran EXCEPT !.exitCode = world.exit, !.success = TRUE]
  /\ To("returned")

stderrBuffer == FlattenSeq([i \in DOMAIN result.diagnostics |-> Line(result.diagnostics[i].text)])
Buffer(from, text) == IF text = Nothing THEN <<>> ELSE <<Message(from, text)>>

-----------------------------------------------------------------------------
(* main after the pipeline.                                                *)
InMain(entry, name) ==
  world.entry = entry /\ At(name) /\ UNCHANGED <<args, opts, result, heap>>

ReturnRun ==
  /\ InMain("interpret", "returned")
  /\ Exit(IF result.success THEN result.exitCode ELSE 1,
          Buffer("program", result.stdout), Buffer("pipeline", stderrBuffer))
  /\ UNCHANGED Files

ReturnCompiled ==
  /\ InMain("compile", "returned")
  /\ \/ ~result.success /\ Exit(1, <<>>, Buffer("pipeline", stderrBuffer))
     \/ result.success /\ opts.emitIROnly /\ Exit(0, <<Message("ir", Nothing)>>, <<>>)
     \/ result.success /\ ~opts.emitIROnly /\ To("temp") /\ UNCHANGED shown
  /\ UNCHANGED Files

(* writeIRToTemp: a file that cannot be created is reported; LLVM's stream *)
(* ends the process when a write has failed.                               *)
CreateTemp ==
  /\ InMain("compile", "temp")
  /\ \/ Fault("temp") /\ Exit(1, <<>>, Says) /\ UNCHANGED Files
     \/ ~Fault("temp") /\ temp' = "begun" /\ To("write") /\ UNCHANGED <<executable, clangOK, shown>>

WriteIR ==
  /\ InMain("compile", "write") /\ ~Fault("disk")
  /\ temp' = "written" /\ To("clang")
  /\ UNCHANGED <<executable, clangOK, shown>>

WriteFails ==
  /\ InMain("compile", "write") /\ Fault("disk")
  /\ stage' = "killed" /\ shown' = [shown EXCEPT !.status = 1, !.err = Append(@, Message("llvm", Nothing))]
  /\ UNCHANGED <<world, Files>>

(* invokeClang: not found, not successful, or an executable.               *)
InvokeClang ==
  /\ InMain("compile", "clang")
  /\ \/ (Fault("no clang") \/ Fault("clang")) /\ Tells(Says)
        /\ clangOK' = FALSE /\ UNCHANGED executable
     \/ /\ ~Fault("no clang") /\ ~Fault("clang")
        /\ executable' = IF temp = "written" THEN opts.outputPath ELSE executable
        /\ clangOK' = TRUE /\ UNCHANGED shown
  /\ To("remove")
  /\ UNCHANGED temp

(* A slip: the file is only removed after a success.                       *)
RemoveTempOnSuccess ==
  /\ InMain("compile", "remove")
  /\ temp' = IF clangOK THEN NoFile ELSE temp
  /\ IF clangOK THEN Exit(0, Says, <<>>) ELSE Exit(1, <<>>, <<>>)
  /\ UNCHANGED <<executable, clangOK>>

(* A slip: clangOK is not looked at.                                       *)
RemoveTempAlwaysOK ==
  /\ InMain("compile", "remove")
  /\ temp' = NoFile
  /\ Exit(0, Says, <<>>)
  /\ UNCHANGED <<executable, clangOK>>

RemoveTemp ==
  /\ InMain("compile", "remove")
  /\ temp' = NoFile
  /\ \/ clangOK /\ Exit(0, Says, <<>>)
     \/ ~clangOK /\ Exit(1, <<>>, <<>>)
  /\ UNCHANGED <<executable, clangOK>>

(* The user interrupts the process; clang goes with it.                    *)
Interrupt ==
  /\ IsDriver /\ ~At("exited") /\ ~At("killed")
  /\ stage' = "killed" /\ shown' = [shown EXCEPT !.status = 130]
  /\ UNCHANGED <<world, args, opts, result, Files, heap>>

-----------------------------------------------------------------------------
(* invokeSource in the worker.                                             *)
InWorker(name) == At(name) /\ UNCHANGED <<args, opts, Files>>
Throw(error) == shown' = [shown EXCEPT !.err = <<Message(error, Nothing)>>] /\ To("free result")

AllocateSource ==
  /\ InWorker("source")
  /\ \/ Fault("source buffer") /\ Throw("worker") /\ UNCHANGED heap
     \/ ~Fault("source buffer") /\ heap' = {"source"} /\ To("parse") /\ UNCHANGED shown
  /\ UNCHANGED result

(* The module traps: resultPtr was never assigned.                         *)
Trap ==
  /\ ~IsDriver /\ Fault("trap") /\ stage \in Stages \cup {"returned"}
  /\ Throw("trap")
  /\ UNCHANGED <<args, opts, Files, result, heap>>

(* jsonString: what a character becomes between the quotes.                *)
Quote == 34
Backslash == 92
HexDigit(n) == IF n < 10 THEN 48 + n ELSE 87 + n
Escaped(c) ==
  CASE c \in {Quote, Backslash} -> <<Backslash, c>>
    [] c < 32 -> <<Backslash, 117, 48, 48, HexDigit(c \div 16), HexDigit(c % 16)>>
    [] OTHER -> <<c>>
jsonString(text) == FlattenSeq([i \in DOMAIN text |-> Escaped(text[i])]) \o <<Quote>>

(* envelope and allocCString.                                              *)
Envelope ==
  /\ ~IsDriver /\ InWorker("returned") /\ ~Fault("trap")
  /\ \/ Fault("result buffer") /\ Throw("worker") /\ UNCHANGED heap
     \/ /\ ~Fault("result buffer")
        /\ heap' = heap \cup {"result"}
        /\ To("reply") /\ UNCHANGED shown
  /\ UNCHANGED result

(* JSON.parse of a string up to its closing quote, which must be the last  *)
(* character: the code points, or Malformed.  Of JSON's escapes, those that*)
(* jsonString writes.                                                      *)
Malformed == <<-1>>
Nibble(c) == CASE c \in 48..57 -> c - 48 [] c \in 97..102 -> c - 87 [] OTHER -> -1
Code(json, i) ==          \* the four hexadecimal digits from i on
  4096 * Nibble(json[i]) + 256 * Nibble(json[i+1]) + 16 * Nibble(json[i+2]) + Nibble(json[i+3])
Unit(json, i) ==          \* the character at i and how long it is, or nothing
  CASE json[i] = Quote \/ json[i] < 32 -> <<>>
    [] json[i] >= 32 /\ json[i] \notin {Quote, Backslash} -> <<json[i], 1>>
    [] json[i] = Backslash /\ i + 1 < Len(json) /\ json[i+1] \in {Quote, Backslash} -> <<json[i+1], 2>>
    [] /\ json[i] = Backslash /\ i + 5 < Len(json) /\ json[i+1] = 117
       /\ \A k \in i+2..i+5 : Nibble(json[k]) >= 0 -> <<Code(json, i+2), 6>>
    [] OTHER -> <<>>
Decoded(json) ==
  LET from[i \in 1..Len(json)] ==
        IF i = Len(json) THEN (IF json[i] = Quote THEN <<>> ELSE Malformed)
        ELSE IF Unit(json, i) = <<>> \/ i + Unit(json, i)[2] > Len(json) THEN Malformed
        ELSE LET rest == from[i + Unit(json, i)[2]]
             IN  IF rest = Malformed THEN Malformed ELSE <<Unit(json, i)[1]>> \o rest
  IN  from[1]

(* The envelope is parsed and its fields are checked; the module may be one*)
(* of another version, whose answer is no envelope.                        *)
ParseReply ==
  /\ InWorker("reply") /\ "result" \in heap
  /\ LET stdout == Decoded(jsonString(result.stdout))
         stderr == Decoded(jsonString(stderrBuffer))
         ast == Decoded(jsonString(result.ast))
         exit == IF world.entry = "run" THEN result.exitCode ELSE IF result.success THEN 0 ELSE 1
     IN  IF Fault("foreign") \/ Malformed \in {stdout, stderr, ast} THEN Throw("worker")
         ELSE /\ shown' = [shown EXCEPT !.ok = TRUE, !.status = exit,
                             !.out = Buffer("program", stdout), !.err = Buffer("pipeline", stderr),
                             !.reply = [result EXCEPT !.stdout = stdout, !.ast = ast]]
              /\ To("free result")
  /\ UNCHANGED <<result, heap>>

(* finally, and then the message to the page.                              *)
FreeResult ==
  /\ InWorker("free result")
  /\ heap' = heap \ {"result"} /\ To("free source")
  /\ UNCHANGED <<result, shown>>

FreeSource ==
  /\ InWorker("free source")
  /\ heap' = heap \ {"source"} /\ To("posted")
  /\ UNCHANGED <<result, shown>>

Over == stage \in {"exited", "killed", "posted"} /\ UNCHANGED vars

-----------------------------------------------------------------------------
Next ==
  \/ ArgHelp \/ ArgOutput \/ ArgEmitIR \/ ArgUnknown \/ ArgInput \/ ArgsDone
  \/ OpenInput \/ ParseSource \/ MergeImports \/ CheckTypes \/ DumpAst \/ Generate \/ Interpret
  \/ ReturnRun \/ ReturnCompiled \/ CreateTemp \/ WriteIR \/ WriteFails
  \/ InvokeClang \/ RemoveTemp \/ Interrupt
  \/ AllocateSource \/ Trap \/ Envelope \/ ParseReply \/ FreeResult \/ FreeSource
  \/ Over

Spec == Init /\ [][Next]_vars

-----------------------------------------------------------------------------
(* The command line by itself: an argument is the value of a -o if an odd  *)
(* number of -o stands right before it; the first argument that asks for   *)
(* help or is wrong decides.                                               *)
IsValue(i) == \E n \in 1..(i-1) : /\ n % 2 = 1
                                  /\ \A k \in 1..n : world.args[i-k] = "-o"
                                  /\ i - n = 1 \/ world.args[i-n-1] # "-o"
Option(i) == ~IsValue(i) /\ world.args[i] \in Dashed
Inputs == {i \in DOMAIN world.args : ~IsValue(i) /\ ~Option(i)}
Helps == {i \in DOMAIN world.args : Option(i) /\ world.args[i] \in {"-h", "--help"}}
Wrong ==
  {i \in DOMAIN world.args :
     \/ Option(i) /\ world.args[i] \notin {"-h", "--help", "-o", "--emit-ir"}
     \/ Option(i) /\ world.args[i] = "--emit-ir" /\ world.entry = "interpret"
     \/ Option(i) /\ world.args[i] = "-o" /\ i = Len(world.args)
     \/ i \in Inputs /\ \E j \in Inputs : j < i}
AsksHelp == Helps # {} /\ \A i \in Wrong : Min(Helps) < i
Misused == ~AsksHelp /\ (Wrong # {} \/ Inputs = {})
EmitsIR == \E i \in DOMAIN world.args : Option(i) /\ world.args[i] = "--emit-ir"
Target == LET values == {i \in DOMAIN world.args : IsValue(i)}
          IN  IF values = {} THEN "a.out" ELSE world.args[Max(values)]

(* The faults that stand in the way of what was asked.                     *)
InProgram == world.faults \cap {"parse", "import", "types"}
InWay ==
  InProgram \cup
  CASE world.entry = "compile" ->
         world.faults \cap ({"open", "codegen"} \cup IF EmitsIR THEN {} ELSE {"temp", "disk", "no clang", "clang"})
    [] world.entry = "interpret" -> world.faults \cap {"open", "runtime"}
    [] world.entry = "run" -> world.faults \cap {"runtime"}
    [] OTHER -> {}
InModule == world.faults \cap {"source buffer", "trap", "result buffer", "foreign"}

(* main.cpp, api.cpp, worker.js: what the user is told is true.  Exit      *)
(* status 0 and "Wrote executable" mean that every stage succeeded and the *)
(* executable stands under the name asked for last; every failure comes    *)
(* with a message; a reply says success exactly when the program had no    *)
(* fault, and is no reply at all when the module failed.                   *)
Truthful ==
  /\ At("exited") =>
       /\ shown.status # 0 /\ (world.entry = "compile" \/ Misused) => shown.err # <<>>
       /\ AsksHelp => shown.status = 0 /\ executable = NoFile /\ shown.out = <<>>
       /\ Misused => shown.status = 1 /\ executable = NoFile /\ shown.out = <<>>
       /\ ~AsksHelp /\ ~Misused /\ world.entry = "compile" =>
            /\ shown.status = 0 <=> InWay = {}
            /\ shown.out # <<>> <=> InWay = {}
            /\ executable = IF InWay = {} /\ ~EmitsIR THEN Target ELSE NoFile
       /\ ~AsksHelp /\ ~Misused /\ world.entry = "interpret" =>
            /\ shown.status = IF InWay = {} THEN world.exit % 256 ELSE 1
            /\ shown.err = <<>> <=> InWay = {}
  /\ At("posted") =>
       /\ shown.ok <=> InModule = {}
       /\ shown.ok => /\ shown.reply.success <=> InWay = {}
                      /\ shown.status = IF InWay # {} THEN 1 ELSE IF world.entry = "run" THEN world.exit ELSE 0
       /\ shown.err = <<>> <=> InModule \cup InWay = {}

(* main.cpp:168, worker.js:31: whatever fails, no IR file is left behind   *)
(* when main returns, and no buffer in the wasm heap when the page gets    *)
(* its answer; the file is there, and complete, when clang reads it.       *)
Released ==
  /\ At("exited") => temp = NoFile
  /\ At("clang") => temp = "written"
  /\ At("posted") => heap = {}
  /\ At("reply") => heap = {"source", "result"}

(* "Output emitted before runtime failure is preserved, and program output *)
(* is never parsed as diagnostics" (README.md:118-120): whatever is in the *)
(* text, the output the user sees is what the program printed, and the     *)
(* diagnostics are those of the pipeline.                                  *)
OutputPreserved ==
  LET runs == InWay \subseteq {"runtime"}
      output == IF runs THEN Buffer("program", world.text) ELSE <<>>
      diagnosed == \E n \in 1..2 : shown.err = <<Message("pipeline", FlattenSeq([i \in 1..n |-> Line(world.text)]))>>
  IN  (\/ At("exited") /\ world.entry = "interpret" /\ ~AsksHelp /\ ~Misused
       \/ At("posted") /\ shown.ok) =>
        /\ shown.out = IF world.entry = "parse" THEN <<>> ELSE output
        /\ shown.err # <<>> => diagnosed
        /\ world.entry = "parse" /\ InWay = {} => shown.reply.ast = world.text
=============================================================================
