-------------------------- MODULE EntryPointsProof --------------------------
(***************************************************************************)
(* For every command line, every program, and every set of faults, however *)
(* they are combined: main leaves no IR file behind when it returns, and   *)
(* invokeSource no buffer in the wasm heap when it answers the page; what  *)
(* the user is told is true; the program's output arrives as it was        *)
(* printed, and every text passes the JSON of the worker unchanged.        *)
(*                                                                         *)
(* The argument, for what is held: it is a function of where the entry     *)
(* point stands, and the ways that end early (a usage error, a failed      *)
(* stage, a trap) are only taken from places where nothing else is held.   *)
(* For what is told, Telling adds what is known there: of the command      *)
(* line, that the options are those of the arguments parsed so far, none   *)
(* of which was wrong or asked for help (Consumed); of the pipeline, that  *)
(* the faults of the stages passed did not occur (Unbroken) and that the   *)
(* result names those that did (ResultTrue); of clang and of the worker,   *)
(* the same for what each of them has done.                                *)
(***************************************************************************)
EXTENDS EntryPoints, SequenceTheorems, WellFoundedInduction, TLAPS

Pipeline == Stages \cup {"returned"}
DriverStages == Pipeline \cup {"args", "temp", "write", "clang", "remove", "exited", "killed"}
WorkerStages == (Pipeline \ {"open"}) \cup {"source", "reply", "free result", "free source", "posted"}

(* Where main and invokeSource may stand.                                  *)
Placed == stage \in IF IsDriver THEN DriverStages ELSE WorkerStages

(* The IR file: complete when clang reads it, gone everywhere else.        *)
FileHeld ==
  /\ stage \in {"clang", "remove"} => temp = "written"
  /\ stage \notin {"write", "clang", "remove", "killed"} => temp = NoFile

(* The buffers of the worker: after a throw the second may be missing.     *)
BuffersHeld ==
  ~IsDriver =>
    /\ stage \in {"source", "posted"} => heap = {}
    /\ stage \in Pipeline => heap = {"source"}
    /\ stage = "reply" => heap = {"source", "result"}
    /\ stage = "free result" => heap \subseteq {"source", "result"}
    /\ stage = "free source" => heap \subseteq {"source"}

Holding == Placed /\ FileHeld /\ BuffersHeld

-----------------------------------------------------------------------------
(* At the start nothing is held.                                           *)
LEMMA HoldingInit == Init => Holding
BY DEF Init, Holding, Placed, FileHeld, BuffersHeld, IsDriver, DriverStages, WorkerStages,
       Pipeline, Stages, NoFile

(* Parsing an argument holds nothing, whatever it ends in.                 *)
LEMMA ArgStep ==
  ASSUME Holding,
         ArgHelp \/ ArgOutput \/ ArgEmitIR \/ ArgUnknown \/ ArgInput \/ ArgsDone
  PROVE  Holding'
<1>1. /\ stage = "args" /\ stage' \in {"args", "open", "exited"}
      /\ UNCHANGED <<world, temp, heap>>
  BY DEF ArgHelp, ArgOutput, ArgEmitIR, ArgUnknown, ArgInput, ArgsDone, More, InArgs, At, Files,
         UsageError, Exit, GoOn, To
<1> QED
  BY <1>1 DEF Holding, Placed, FileHeld, BuffersHeld, IsDriver, DriverStages, WorkerStages,
              Pipeline, Stages

(* A stage of the pipeline holds nothing of its own.                       *)
LEMMA PipelineStep ==
  ASSUME Holding,
         OpenInput \/ ParseSource \/ MergeImports \/ CheckTypes \/ DumpAst \/ Generate \/ Interpret
  PROVE  Holding'
<1>1. /\ stage \in Stages /\ stage' \in Pipeline \ {"open"}
      /\ UNCHANGED <<world, temp, heap>>
  BY DEF OpenInput, ParseSource, MergeImports, CheckTypes, DumpAst, Generate, Interpret, Stage,
         InPipeline, Diagnose, At, To, Files, Stages, Pipeline
<1> QED
  BY <1>1 DEF Holding, Placed, FileHeld, BuffersHeld, IsDriver, DriverStages, WorkerStages,
              Pipeline, Stages

(* main after the pipeline: the file is held from its creation to its      *)
(* removal, and no path leaves between them.                               *)
LEMMA MainStep ==
  ASSUME Holding,
         ReturnRun \/ ReturnCompiled \/ CreateTemp \/ WriteIR \/ WriteFails \/ InvokeClang \/ RemoveTemp
  PROVE  Holding'
<1>1. IsDriver /\ stage \in DriverStages /\ UNCHANGED <<world, heap>>
  BY DEF ReturnRun, ReturnCompiled, CreateTemp, WriteIR, WriteFails, InvokeClang, RemoveTemp,
         InMain, IsDriver, Exit, To, Files, Holding, Placed
<1>2. /\ stage' \in DriverStages
      /\ stage' \in {"clang", "remove"} => temp' = "written"
      /\ stage' \notin {"write", "clang", "remove", "killed"} => temp' = NoFile
  <2>1. CASE ReturnRun
    BY <2>1 DEF ReturnRun, InMain, At, Exit, To, Files, Holding, FileHeld, DriverStages
  <2>2. CASE ReturnCompiled
    BY <2>2 DEF ReturnCompiled, InMain, At, Exit, To, Files, Holding, FileHeld, DriverStages
  <2>3. CASE CreateTemp
    BY <2>3 DEF CreateTemp, InMain, At, Exit, To, Files, Holding, FileHeld, DriverStages
  <2>4. CASE WriteIR
    BY <2>4 DEF WriteIR, InMain, At, To, DriverStages
  <2>5. CASE WriteFails
    BY <2>5 DEF WriteFails, DriverStages
  <2>6. CASE InvokeClang
    BY <2>6 DEF InvokeClang, InMain, At, To, Holding, FileHeld, DriverStages
  <2>7. CASE RemoveTemp
    BY <2>7 DEF RemoveTemp, Exit, To, DriverStages
  <2> QED
    BY <2>1, <2>2, <2>3, <2>4, <2>5, <2>6, <2>7
<1> QED
  BY <1>1, <1>2 DEF Holding, Placed, FileHeld, BuffersHeld, IsDriver

(* invokeSource: a trap or a throw goes to the same two frees.             *)
LEMMA WorkerStep ==
  ASSUME Holding, AllocateSource \/ Trap \/ Envelope \/ ParseReply \/ FreeResult \/ FreeSource
  PROVE  Holding'
<1>1. /\ UNCHANGED <<world, temp>>
      /\ stage' \in {"parse", "free result", "reply", "free source", "posted"}
      /\ stage \notin {"write", "clang", "remove", "killed"}
  BY DEF AllocateSource, Trap, Envelope, ParseReply, FreeResult, FreeSource, InWorker, At, Throw,
         To, Files, Stages
<1>2. ~IsDriver
  <2>1. CASE AllocateSource \/ ParseReply \/ FreeResult \/ FreeSource
    <3>1. stage \in {"source", "reply", "free result", "free source"}
      BY <2>1 DEF AllocateSource, ParseReply, FreeResult, FreeSource, InWorker, At
    <3> QED
      BY <3>1 DEF Holding, Placed, DriverStages, Pipeline, Stages
  <2>2. CASE Trap \/ Envelope
    BY <2>2 DEF Trap, Envelope
  <2> QED
    BY <2>1, <2>2
<1>3. /\ stage' \in Pipeline => heap' = {"source"}
      /\ stage' = "posted" => heap' = {}
      /\ stage' = "reply" => heap' = {"source", "result"}
      /\ stage' = "free result" => heap' \subseteq {"source", "result"}
      /\ stage' = "free source" => heap' \subseteq {"source"}
  <2>0. BuffersHeld /\ stage' \in WorkerStages
    BY <1>1 DEF Holding, WorkerStages, Pipeline, Stages
  <2>1. CASE AllocateSource
    BY <1>2, <2>0, <2>1 DEF AllocateSource, InWorker, At, Throw, To, BuffersHeld, Pipeline, Stages
  <2>2. CASE Trap
    BY <1>2, <2>0, <2>2 DEF Trap, Throw, To, BuffersHeld, Pipeline, Stages
  <2>3. CASE Envelope
    BY <1>2, <2>0, <2>3 DEF Envelope, InWorker, At, Throw, To, BuffersHeld, Pipeline, Stages
  <2>4. CASE ParseReply
    <3>1. stage = "reply" /\ stage' = "free result" /\ heap' = heap
      BY <2>4 DEF ParseReply, InWorker, At, Throw, To
    <3> QED
      BY <1>2, <2>0, <3>1 DEF BuffersHeld, Pipeline, Stages
  <2>5. CASE FreeResult
    BY <1>2, <2>0, <2>5 DEF FreeResult, InWorker, At, To, BuffersHeld, Pipeline, Stages
  <2>6. CASE FreeSource
    BY <1>2, <2>0, <2>6 DEF FreeSource, InWorker, At, To, BuffersHeld, Pipeline, Stages
  <2> QED
    BY <2>1, <2>2, <2>3, <2>4, <2>5, <2>6
<1> QED
  BY <1>1, <1>2, <1>3 DEF Holding, Placed, FileHeld, BuffersHeld, IsDriver, WorkerStages, Pipeline,
                          Stages

(* The inductive step.                                                     *)
LEMMA HoldingNext == Holding /\ [Next]_vars => Holding'
<1> SUFFICES ASSUME Holding, [Next]_vars PROVE Holding'
  OBVIOUS
<1>1. CASE ArgHelp \/ ArgOutput \/ ArgEmitIR \/ ArgUnknown \/ ArgInput \/ ArgsDone
  BY <1>1, ArgStep
<1>2. CASE OpenInput \/ ParseSource \/ MergeImports \/ CheckTypes \/ DumpAst \/ Generate \/ Interpret
  BY <1>2, PipelineStep
<1>3. CASE ReturnRun \/ ReturnCompiled \/ CreateTemp \/ WriteIR \/ WriteFails \/ InvokeClang \/ RemoveTemp
  BY <1>3, MainStep
<1>4. CASE Interrupt
  <2>1. IsDriver /\ stage' = "killed" /\ world' = world
    BY <1>4 DEF Interrupt
  <2> QED
    BY <2>1 DEF Holding, Placed, FileHeld, BuffersHeld, IsDriver, DriverStages
<1>5. CASE AllocateSource \/ Trap \/ Envelope \/ ParseReply \/ FreeResult \/ FreeSource
  BY <1>5, WorkerStep
<1>6. CASE Over \/ UNCHANGED vars
  <2>1. UNCHANGED <<world, stage, temp, heap>>
    BY <1>6 DEF Over, vars
  <2> QED
    BY <2>1 DEF Holding, Placed, FileHeld, BuffersHeld, IsDriver
<1> QED
  BY <1>1, <1>2, <1>3, <1>4, <1>5, <1>6 DEF Next

(* main.cpp:168, worker.js:31: whatever the arguments, the program and the *)
(* faults are, no IR file is left when main returns, clang reads a         *)
(* complete one, and every buffer is freed when the page gets its answer.  *)
THEOREM ReleasesAll == Spec => []Released
<1>1. Holding => Released
  BY DEF Holding, Placed, FileHeld, BuffersHeld, Released, At, DriverStages, WorkerStages, Pipeline,
         Stages
<1> QED
  BY <1>1, HoldingInit, HoldingNext, PTL DEF Spec

-----------------------------------------------------------------------------
(* Where a set of numbers begins: the form induction takes below.          *)
LEMMA Least ==
  ASSUME NEW S \in SUBSET Nat, S # {}
  PROVE  \E k \in S : \A j \in S : k <= j
<1> DEFINE R == {r \in Nat \X Nat : r[1] < r[2]}
<1>1. IsWellFoundedOn(R, Nat)
  BY NatLessThanWellFounded DEF OpToRel
<1>2. PICK k \in S : \A j \in S : ~(<<j, k>> \in R)
  <2> HIDE DEF R
  <2> QED
    BY <1>1, WFMin
<1>3. ASSUME NEW j \in S PROVE k <= j
  <2>1. j \in Nat /\ k \in Nat /\ ~(<<j, k>> \in R)
    BY <1>2
  <2> QED
    BY <2>1
<1> QED
  BY <1>3

(* The recursion of FlattenSeq has a solution on every sequence.           *)
Flattens(g, s, n) == g = [i \in 1..n |-> IF i = 1 THEN s[i] ELSE g[i-1] \o s[i]]

(* What is built up to k - 1 is continued by one more.                      *)
LEMMA FlattenExists ==
  ASSUME NEW s, NEW n \in Nat
  PROVE  \E g : Flattens(g, s, n)
<1> DEFINE Bad == {k \in Nat : ~\E g : Flattens(g, s, k)}
<1> SUFFICES ASSUME Bad # {} PROVE FALSE
  OBVIOUS
<1>1. PICK k \in Bad : \A j \in Bad : k <= j
  BY Least
<1>2. k # 0
  <2>1. Flattens([i \in 1..0 |-> <<>>], s, 0)
    BY DEF Flattens
  <2> QED
    BY <1>1, <2>1
<1>3. k - 1 \in Nat /\ k - 1 \notin Bad
  BY <1>1, <1>2
<1>4. PICK g : Flattens(g, s, k - 1)
  BY <1>3
<1> DEFINE h == [i \in 1..k |-> IF i = k THEN (IF k = 1 THEN s[k] ELSE g[k - 1] \o s[k]) ELSE g[i]]
<1>5. \A i \in 1..k - 1 : h[i] = g[i] /\ g[i] = IF i = 1 THEN s[i] ELSE g[i - 1] \o s[i]
  <2>1. \A i \in 1..k - 1 : i \in 1..k /\ i # k
    BY <1>3
  <2>2. \A i \in 1..k - 1 : h[i] = g[i]
    BY <2>1
  <2> HIDE DEF h
  <2>3. \A i \in 1..k - 1 : g[i] = IF i = 1 THEN s[i] ELSE g[i - 1] \o s[i]
    BY <1>4 DEF Flattens
  <2> QED
    BY <2>2, <2>3
<1>6. \A i \in 1..k : h[i] = IF i = 1 THEN s[i] ELSE h[i - 1] \o s[i]
  <2> SUFFICES ASSUME NEW i \in 1..k PROVE h[i] = IF i = 1 THEN s[i] ELSE h[i - 1] \o s[i]
    OBVIOUS
  <2>1. CASE i = k
    BY <1>2, <1>3, <1>5, <2>1
  <2>2. CASE i # k
    <3>1. i \in 1..k - 1 /\ (i # 1 => i - 1 \in 1..k - 1)
      BY <1>3, <2>2
    <3> QED
      BY <1>5, <3>1
  <2> QED
    BY <2>1, <2>2
<1>7. h = [i \in 1..k |-> h[i]]
  OBVIOUS
<1> HIDE DEF h
<1>8. Flattens(h, s, k)
  BY <1>6, <1>7 DEF Flattens
<1> QED
  BY <1>1, <1>8

(* So FlattenSeq is the last of the sequences p that grow by a piece each. *)
Grows(p, s) == p[0] = <<>> /\ \A n \in 1..Len(s) : p[n] = p[n - 1] \o s[n]

(* The pieces that FlattenSeq joins are put one behind the other.           *)
LEMMA FlattenUnfolds ==
  ASSUME NEW S, NEW s \in Seq(Seq(S))
  PROVE  \E p \in [0..Len(s) -> Seq(S)] : Grows(p, s) /\ FlattenSeq(s) = p[Len(s)]
<1>1. CASE Len(s) = 0
  <2>1. s = <<>> /\ FlattenSeq(s) = <<>>
    BY <1>1 DEF FlattenSeq
  <2>2. <<>> \in Seq(S) /\ 1..Len(s) = {} /\ 0..Len(s) = {0}
    BY <1>1
  <2> DEFINE p == [n \in 0..Len(s) |-> <<>>]
  <2>3. p \in [0..Len(s) -> Seq(S)] /\ Grows(p, s) /\ p[Len(s)] = <<>>
    BY <1>1, <2>2 DEF Grows
  <2> QED
    BY <2>1, <2>3
<1>2. CASE Len(s) # 0
  <2>0. Len(s) \in Nat \ {0} /\ \A n \in 1..Len(s) : s[n] \in Seq(S)
    BY <1>2
  <2> DEFINE g == CHOOSE g : Flattens(g, s, Len(s))
  <2>1. Flattens(g, s, Len(s))
    BY <2>0, FlattenExists
  <2>2. FlattenSeq(s) = g[Len(s)]
    BY <1>2 DEF FlattenSeq, Flattens
  <2> HIDE DEF g
  <2>3. \A n \in 1..Len(s) : g[n] = IF n = 1 THEN s[n] ELSE g[n - 1] \o s[n]
    BY <2>1 DEF Flattens
  <2>4. \A n \in 1..Len(s) : g[n] \in Seq(S)
    <3> DEFINE Bad == {n \in Nat : n \in 1..Len(s) /\ g[n] \notin Seq(S)}
    <3> SUFFICES ASSUME Bad # {} PROVE FALSE
      OBVIOUS
    <3>1. PICK k \in Bad : \A j \in Bad : k <= j
      BY Least
    <3>2. k # 1
      BY <2>0, <2>3, <3>1
    <3>3. k \in 1..Len(s) /\ k - 1 \in 1..Len(s) /\ k - 1 \notin Bad
      BY <2>0, <3>1, <3>2
    <3>4. g[k - 1] \in Seq(S) /\ s[k] \in Seq(S) /\ g[k] = g[k - 1] \o s[k]
      <4>1. k - 1 \in Nat /\ g[k - 1] \in Seq(S)
        BY <3>3
      <4>2. s[k] \in Seq(S)
        BY <2>0, <3>3
      <4>3. g[k] = g[k - 1] \o s[k]
        BY <2>3, <3>2, <3>3
      <4> QED
        BY <4>1, <4>2, <4>3
    <3>5. g[k - 1] \o s[k] \in Seq(S)
      BY <3>4
    <3> QED
      BY <3>1, <3>4, <3>5
  <2> DEFINE p == [n \in 0..Len(s) |-> IF n = 0 THEN <<>> ELSE g[n]]
  <2>5. /\ p[0] = <<>>
        /\ \A n \in 1..Len(s) : p[n] = g[n] /\ p[n - 1] = IF n = 1 THEN <<>> ELSE g[n - 1]
    BY <2>0
  <2>6. p \in [0..Len(s) -> Seq(S)]
    <3>1. <<>> \in Seq(S)
      OBVIOUS
    <3>2. \A n \in 0..Len(s) : n = 0 \/ n \in 1..Len(s)
      BY <2>0
    <3> QED
      BY <2>4, <3>1, <3>2
  <2>7. \A n \in 1..Len(s) : p[n] = p[n - 1] \o s[n]
    <3> SUFFICES ASSUME NEW n \in 1..Len(s) PROVE p[n] = p[n - 1] \o s[n]
      OBVIOUS
    <3>1. CASE n = 1
      <4>1. <<>> \o s[n] = s[n]
        BY <2>0, ConcatEmptySeq
      <4> QED
        BY <2>3, <2>5, <3>1, <4>1
    <3>2. CASE n # 1
      BY <2>3, <2>5, <3>2
    <3> QED
      BY <3>1, <3>2
  <2>8. p[Len(s)] = g[Len(s)]
    BY <2>0, <2>5
  <2> HIDE DEF p
  <2> QED
    BY <2>2, <2>5, <2>6, <2>7, <2>8 DEF Grows
<1> QED
  BY <1>1, <1>2

(* A concatenation is its parts, one after the other.                      *)
LEMMA Joined ==
  ASSUME NEW S, NEW a \in Seq(S), NEW b \in Seq(S)
  PROVE  /\ a \o b \in Seq(S) /\ Len(a \o b) = Len(a) + Len(b)
         /\ \A k \in 1..Len(a) : (a \o b)[k] = a[k]
         /\ \A k \in 1..Len(b) : (a \o b)[Len(a) + k] = b[k]
OBVIOUS

(* What has been gathered stays in its place.                              *)
LEMMA GrownStays ==
  ASSUME NEW s \in Seq(Seq(Nat)), NEW p \in [0..Len(s) -> Seq(Nat)], Grows(p, s),
         NEW i \in 0..Len(s), NEW m \in i..Len(s)
  PROVE  Len(p[i]) <= Len(p[m]) /\ \A k \in 1..Len(p[i]) : p[m][k] = p[i][k]
<1> DEFINE Stays(j) == Len(p[i]) <= Len(p[j]) /\ \A k \in 1..Len(p[i]) : p[j][k] = p[i][k]
           Bad == {j \in Nat : j \in i..Len(s) /\ ~Stays(j)}
<1> SUFFICES ASSUME Bad # {} PROVE FALSE
  <2>1. m \in Nat
    OBVIOUS
  <2> QED
    BY <2>1
<1>1. PICK j \in Bad : \A q \in Bad : j <= q
  BY Least
<1>0. Len(s) \in Nat /\ i \in Nat /\ j \in Nat /\ j \in i..Len(s)
  BY <1>1
<1>2. j # i
  <2>1. Len(p[i]) \in Nat
    BY <1>0
  <2>2. Stays(i)
    BY <2>1
  <2> QED
    BY <1>1, <2>2
<1>3. j - 1 \in i..Len(s) /\ j - 1 \in Nat /\ j \in 1..Len(s) /\ j - 1 \in 0..Len(s)
  BY <1>0, <1>2
<1>4. Stays(j - 1)
  <2>1. j - 1 \notin Bad
    BY <1>0, <1>1
  <2> QED
    BY <1>3, <2>1
<1>5. p[j] = p[j - 1] \o s[j] /\ p[j - 1] \in Seq(Nat) /\ s[j] \in Seq(Nat) /\ p[i] \in Seq(Nat)
  <2>1. p[j] = p[j - 1] \o s[j]
    BY <1>3 DEF Grows
  <2>2. p[j - 1] \in Seq(Nat) /\ p[i] \in Seq(Nat)
    BY <1>3
  <2>3. s[j] \in Seq(Nat)
    BY <1>3
  <2> QED
    BY <2>1, <2>2, <2>3
<1>6. Len(p[j]) = Len(p[j - 1]) + Len(s[j]) /\ \A k \in 1..Len(p[j - 1]) : p[j][k] = p[j - 1][k]
  <2>1. \A a, b \in Seq(Nat) : Len(a \o b) = Len(a) + Len(b) /\ \A k \in 1..Len(a) : (a \o b)[k] = a[k]
    BY Joined
  <2>2. \A b \in Seq(Nat) : /\ Len(p[j - 1] \o b) = Len(p[j - 1]) + Len(b)
                          /\ \A k \in 1..Len(p[j - 1]) : (p[j - 1] \o b)[k] = p[j - 1][k]
    BY <1>5, <2>1
  <2>3. /\ Len(p[j - 1] \o s[j]) = Len(p[j - 1]) + Len(s[j])
        /\ \A k \in 1..Len(p[j - 1]) : (p[j - 1] \o s[j])[k] = p[j - 1][k]
    BY <1>5, <2>2
  <2> QED
    BY <1>5, <2>3
<1>7. Len(p[i]) \in Nat /\ Len(p[j - 1]) \in Nat /\ Len(s[j]) \in Nat
  BY <1>5
<1>8. Stays(j)
  <2> DEFINE a == Len(p[i])
             b == Len(p[j - 1])
             c == Len(s[j])
  <2>1. a \in Nat /\ b \in Nat /\ c \in Nat /\ a <= b /\ Len(p[j]) = b + c
    BY <1>4, <1>6, <1>7
  <2>2. (\A k \in 1..a : p[j - 1][k] = p[i][k]) /\ (\A k \in 1..b : p[j][k] = p[j - 1][k])
    BY <1>4, <1>6
  <2>3. 1..a \subseteq 1..b /\ a <= b + c
    <3>1. \A x, y, z \in Nat : x <= y => 1..x \subseteq 1..y /\ x <= y + z
      OBVIOUS
    <3> HIDE DEF a, b, c
    <3> QED
      BY <2>1, <3>1
  <2>4. \A k \in 1..a : p[j][k] = p[i][k]
    BY <2>2, <2>3
  <2> HIDE DEF a, b, c
  <2>5. Len(p[i]) <= Len(p[j])
    BY <2>1, <2>3 DEF a
  <2> QED
    BY <2>4, <2>5 DEF a
<1> QED
  BY <1>1, <1>8

-----------------------------------------------------------------------------
(* JSON.parse.  A character takes one, two or six places, and so the       *)
(* recursion of Decoded has a solution on every text.                      *)
LEMMA UnitLength ==
  ASSUME NEW json, NEW i
  PROVE  Unit(json, i) = <<>> \/ Unit(json, i)[2] \in {1, 2, 6}
BY DEF Unit

Read(json, g, i) ==
  IF i = Len(json) THEN (IF json[i] = Quote THEN <<>> ELSE Malformed)
  ELSE IF Unit(json, i) = <<>> \/ i + Unit(json, i)[2] > Len(json) THEN Malformed
  ELSE LET rest == g[i + Unit(json, i)[2]]
       IN  IF rest = Malformed THEN Malformed ELSE <<Unit(json, i)[1]>> \o rest
Decodes(g, json, m) == g = [i \in m..Len(json) |-> Read(json, g, i)]

(* The solution up to any distance from the closing quote.                  *)
LEMMA DecodeExists ==
  ASSUME NEW json \in Seq(Nat)
  PROVE  \E g : Decodes(g, json, 1)
<1> DEFINE L == Len(json)
           Bad == {k \in Nat : k <= L /\ ~\E g : Decodes(g, json, (L + 1) - k)}
<1>0. L \in Nat
  OBVIOUS
<1> HIDE DEF L
<1> SUFFICES ASSUME Bad # {} PROVE FALSE
  <2>1. L \in Nat /\ L <= L /\ (L + 1) - L = 1
    BY <1>0
  <2> QED
    BY <2>1
<1>1. PICK k \in Bad : \A j \in Bad : k <= j
  BY Least
<1>2. k # 0
  <2>1. (L + 1)..L = {}
    BY <1>0
  <2>2. Decodes([i \in (L + 1)..L |-> <<>>], json, L + 1)
    BY <2>1 DEF Decodes, L
  <2>3. (L + 1) - 0 = L + 1
    BY <1>0
  <2> QED
    BY <1>1, <2>2, <2>3
<1> DEFINE m == (L + 1) - k
<1>3. k - 1 \in Nat /\ k - 1 \notin Bad /\ k \in Nat /\ k <= L /\ m \in 1..L /\ (L + 1) - (k - 1) = m + 1
  <2>1. k \in Nat /\ k <= L /\ k # 0 /\ \A j \in Bad : k <= j
    BY <1>1, <1>2
  <2> HIDE DEF Bad
  <2>2. k - 1 \in Nat /\ k <= L /\ m \in 1..L /\ (L + 1) - (k - 1) = m + 1 /\ ~(k <= k - 1)
    BY <1>0, <2>1
  <2>3. k - 1 \notin Bad
    BY <2>1, <2>2
  <2> QED
    BY <2>1, <2>2, <2>3
<1>4. PICK g : Decodes(g, json, m + 1)
  <2>1. k - 1 \in Nat /\ k - 1 <= L /\ k - 1 \notin Bad
    BY <1>0, <1>3
  <2>2. \E g : Decodes(g, json, (L + 1) - (k - 1))
    BY <2>1
  <2>3. (L + 1) - (k - 1) = m + 1
    BY <1>3
  <2> HIDE DEF m
  <2> QED
    BY <2>2, <2>3
<1>n. ~\E h : Decodes(h, json, m)
  BY <1>1
<1> HIDE DEF m
<1> DEFINE h == [i \in m..L |-> IF i = m THEN Read(json, g, m) ELSE g[i]]
<1>5. \A i \in m + 1..L : h[i] = g[i] /\ g[i] = Read(json, g, i)
  <2>1. \A i \in m + 1..L : i \in m..L /\ i # m
    BY <1>0, <1>3
  <2>2. \A i \in m + 1..L : g[i] = Read(json, g, i)
    BY <1>4 DEF Decodes, L
  <2> QED
    BY <2>1, <2>2
<1>6. ASSUME NEW i \in m..L PROVE Read(json, h, i) = Read(json, g, i)
  <2>1. CASE i = L \/ Unit(json, i) = <<>> \/ i + Unit(json, i)[2] > L
    BY <2>1 DEF Read, L
  <2>2. CASE i # L /\ Unit(json, i) # <<>> /\ ~(i + Unit(json, i)[2] > L)
    <3> DEFINE u == Unit(json, i)[2]
    <3>1. u \in {1, 2, 6}
      BY <2>2, UnitLength
    <3>2. i + u \in m + 1..L
      <4>1. ~(i + u > L) /\ i \in Nat /\ m \in Nat
        BY <1>0, <1>3, <2>2
      <4> HIDE DEF u
      <4> QED
        BY <1>0, <1>3, <3>1, <4>1
    <3>3. h[i + u] = g[i + u]
      BY <1>5, <3>2
    <3> HIDE DEF h
    <3> QED
      BY <2>2, <3>3 DEF Read
  <2> QED
    BY <2>1, <2>2
<1>7. \A i \in m..L : h[i] = Read(json, h, i)
  <2> SUFFICES ASSUME NEW i \in m..L PROVE h[i] = Read(json, h, i)
    OBVIOUS
  <2>1. CASE i = m
    <3>1. h[i] = Read(json, g, m)
      BY <2>1
    <3> QED
      BY <1>6, <2>1, <3>1
  <2>2. CASE i # m
    <3>1. i \in m + 1..L
      BY <1>0, <1>3, <2>2
    <3> QED
      BY <1>5, <1>6, <3>1
  <2> QED
    BY <2>1, <2>2
<1>8. h = [i \in m..L |-> h[i]]
  OBVIOUS
<1> HIDE DEF h
<1>9. h = [i \in m..Len(json) |-> Read(json, h, i)]
  BY <1>7, <1>8 DEF L
<1>10. Decodes(h, json, m)
  BY <1>9 DEF Decodes
<1> QED
  BY <1>n, <1>10

(* So Decoded reads a character, and then what is behind it.                *)
LEMMA DecodeUnfolds ==
  ASSUME NEW json \in Seq(Nat), Len(json) > 0
  PROVE  \E g : /\ Decoded(json) = g[1]
                /\ \A i \in 1..Len(json) : g[i] = Read(json, g, i)
<1> DEFINE g == CHOOSE g : Decodes(g, json, 1)
<1>1. Decoded(json) = g[1]
  BY DEF Decoded, Decodes, Read
<1>2. Decodes(g, json, 1)
  BY DecodeExists
<1> HIDE DEF g
<1>3. \A i \in 1..Len(json) : g[i] = Read(json, g, i)
  BY <1>2 DEF Decodes
<1> QED
  BY <1>1, <1>3

-----------------------------------------------------------------------------
(* What jsonString writes for a character, JSON.parse reads as it, in      *)
(* whatever text it stands, as long as it does not end the text.           *)
LEMMA EscapedType ==
  ASSUME NEW c \in Nat
  PROVE  Escaped(c) \in Seq(Nat) /\ Len(Escaped(c)) \in {1, 2, 6}
<1>1. CASE c \in {Quote, Backslash}
  BY <1>1 DEF Escaped, Quote, Backslash
<1>2. CASE c < 32
  <2>1. c \div 16 \in Nat /\ c % 16 \in Nat /\ HexDigit(c \div 16) \in Nat /\ HexDigit(c % 16) \in Nat
    BY DEF HexDigit
  <2>2. Escaped(c) = <<Backslash, 117, 48, 48, HexDigit(c \div 16), HexDigit(c % 16)>>
    BY <1>2 DEF Escaped, Quote, Backslash
  <2> QED
    BY <2>1, <2>2 DEF Backslash
<1>3. CASE ~(c < 32) /\ c \notin {Quote, Backslash}
  BY <1>3 DEF Escaped, Quote, Backslash
<1> QED
  BY <1>1, <1>2, <1>3

(* A hexadecimal digit is read as what it was written for.                  *)
LEMMA HexRead ==
  ASSUME NEW c \in Nat, c < 32
  PROVE  /\ Nibble(HexDigit(c \div 16)) = c \div 16 /\ Nibble(HexDigit(c % 16)) = c % 16
         /\ 16 * (c \div 16) + (c % 16) = c /\ c \div 16 \in Nat /\ c % 16 \in Nat
<1>1. \A n \in 0..15 : Nibble(HexDigit(n)) = n
  BY DEF Nibble, HexDigit
<1>2. c \div 16 \in 0..15 /\ c % 16 \in 0..15 /\ 16 * (c \div 16) + (c % 16) = c
  OBVIOUS
<1> QED
  BY <1>1, <1>2

(* Every escape that jsonString writes is read as one character.            *)
LEMMA EscapedRead ==
  ASSUME NEW c \in Nat, NEW json \in Seq(Nat), NEW i \in Nat \ {0}, i + Len(Escaped(c)) <= Len(json),
         \A k \in 1..Len(Escaped(c)) : json[(i - 1) + k] = Escaped(c)[k]
  PROVE  Unit(json, i) = <<c, Len(Escaped(c))>>
<1>1. CASE c \in {Quote, Backslash}
  <2>1. Escaped(c) = <<Backslash, c>> /\ Len(Escaped(c)) = 2
    BY <1>1 DEF Escaped, Quote, Backslash
  <2>2. (i - 1) + 1 = i /\ (i - 1) + 2 = i + 1 /\ 1 \in 1..2 /\ 2 \in 1..2
    OBVIOUS
  <2>3. json[i] = Backslash /\ json[i + 1] = c /\ i + 1 < Len(json)
    BY <2>1, <2>2
  <2> QED
    BY <1>1, <2>1, <2>3 DEF Unit, Quote, Backslash
<1>2. CASE c < 32
  <2> DEFINE e == Escaped(c)
  <2>1. e = <<Backslash, 117, 48, 48, HexDigit(c \div 16), HexDigit(c % 16)>> /\ Len(e) = 6
    BY <1>2 DEF Escaped, Quote, Backslash
  <2>2. /\ e[1] = Backslash /\ e[2] = 117 /\ e[3] = 48 /\ e[4] = 48
        /\ e[5] = HexDigit(c \div 16) /\ e[6] = HexDigit(c % 16)
    BY <2>1
  <2>3. /\ (i - 1) + 1 = i /\ (i - 1) + 2 = i + 1 /\ (i - 1) + 3 = i + 2
        /\ (i - 1) + 4 = i + 3 /\ (i - 1) + 5 = i + 4 /\ (i - 1) + 6 = i + 5
        /\ 1 \in 1..6 /\ 2 \in 1..6 /\ 3 \in 1..6 /\ 4 \in 1..6 /\ 5 \in 1..6 /\ 6 \in 1..6
    OBVIOUS
  <2>4. \A k \in 1..6 : json[(i - 1) + k] = e[k]
    BY <2>1
  <2>5. i + 5 < Len(json)
    BY <2>1
  <2> HIDE DEF e
  <2>6. /\ json[i] = Backslash /\ json[i + 1] = 117 /\ json[i + 2] = 48 /\ json[i + 3] = 48
        /\ json[i + 4] = HexDigit(c \div 16) /\ json[i + 5] = HexDigit(c % 16)
    <3>1. json[i] = e[1] /\ json[i + 1] = e[2] /\ json[i + 2] = e[3]
      BY <2>3, <2>4
    <3>2. json[i + 3] = e[4] /\ json[i + 4] = e[5] /\ json[i + 5] = e[6]
      BY <2>3, <2>4
    <3> QED
      BY <2>2, <3>1, <3>2
  <2>7. /\ Nibble(json[i + 2]) = 0 /\ Nibble(json[i + 3]) = 0
        /\ Nibble(json[i + 4]) = c \div 16 /\ Nibble(json[i + 5]) = c % 16
    <3>1. Nibble(48) = 0
      BY DEF Nibble
    <3> QED
      BY <1>2, <2>6, <3>1, HexRead
  <2>8. Code(json, i + 2) = c
    <3>1. (i + 2) + 1 = i + 3 /\ (i + 2) + 2 = i + 4 /\ (i + 2) + 3 = i + 5
      OBVIOUS
    <3>2. Code(json, i + 2) = 4096 * 0 + 256 * 0 + 16 * (c \div 16) + (c % 16)
      BY <2>7, <3>1 DEF Code
    <3> QED
      BY <1>2, <3>2, HexRead
  <2>9. \A k \in i + 2..i + 5 : Nibble(json[k]) >= 0
    <3>1. \A k \in i + 2..i + 5 : k = i + 2 \/ k = i + 3 \/ k = i + 4 \/ k = i + 5
      OBVIOUS
    <3>2. c \div 16 >= 0 /\ c % 16 >= 0
      BY <1>2, HexRead
    <3>3. /\ Nibble(json[i + 2]) >= 0 /\ Nibble(json[i + 3]) >= 0
          /\ Nibble(json[i + 4]) >= 0 /\ Nibble(json[i + 5]) >= 0
      BY <2>7, <3>2
    <3> QED
      BY <3>1, <3>3
  <2>10. Unit(json, i) = <<Code(json, i + 2), 6>>
    <3>1. json[i] = 92 /\ json[i + 1] = 117
      BY <2>6 DEF Backslash
    <3> HIDE DEF Code, Nibble
    <3> QED
      BY <2>5, <2>9, <3>1 DEF Unit, Quote, Backslash
  <2> QED
    BY <2>1, <2>8, <2>10 DEF e
<1>3. CASE ~(c < 32) /\ c \notin {Quote, Backslash}
  <2>1. Escaped(c) = <<c>> /\ Len(Escaped(c)) = 1
    BY <1>3 DEF Escaped, Quote, Backslash
  <2>2. (i - 1) + 1 = i /\ 1 \in 1..1
    OBVIOUS
  <2>3. json[i] = c
    BY <2>1, <2>2
  <2>4. json[i] >= 32 /\ json[i] \notin {34, 92} /\ ~(json[i] < 32) /\ json[i] # 34 /\ json[i] # 92
    BY <1>3, <2>3 DEF Quote, Backslash
  <2>5. Unit(json, i) = <<json[i], 1>>
    BY <2>4 DEF Unit, Quote, Backslash
  <2> QED
    BY <2>1, <2>3, <2>5
<1> QED
  BY <1>1, <1>2, <1>3

(* api.cpp:25-39, worker.js:21: whatever text is put between the quotes,   *)
(* of the output, of a diagnostic or of the AST, the page reads back that  *)
(* text.  By going back from the closing quote, an escape at a time.       *)
THEOREM JsonRoundTrip ==
  ASSUME NEW text \in Seq(Nat)
  PROVE  Decoded(jsonString(text)) = text
<1> DEFINE n == Len(text)
           pieces == [i \in DOMAIN text |-> Escaped(text[i])]
           json == jsonString(text)
<1>1. /\ pieces \in Seq(Seq(Nat)) /\ Len(pieces) = n /\ n \in Nat /\ DOMAIN text = 1..n
      /\ \A i \in 1..n : pieces[i] = Escaped(text[i])
  <2>1. \A i \in 1..n : text[i] \in Nat
    OBVIOUS
  <2>2. \A i \in 1..n : Escaped(text[i]) \in Seq(Nat)
    BY <2>1, EscapedType
  <2>3. DOMAIN text = 1..n /\ n \in Nat
    OBVIOUS
  <2>4. pieces \in [1..n -> Seq(Nat)] /\ \A i \in 1..n : pieces[i] = Escaped(text[i])
    BY <2>2, <2>3
  <2> HIDE DEF pieces, n
  <2>5. pieces \in Seq(Seq(Nat)) /\ Len(pieces) = n
    BY <2>3, <2>4
  <2> QED
    BY <2>3, <2>4, <2>5
<1>2. PICK p \in [0..Len(pieces) -> Seq(Nat)] : Grows(p, pieces) /\ FlattenSeq(pieces) = p[Len(pieces)]
  <2> HIDE DEF pieces
  <2> QED
    BY <1>1, FlattenUnfolds
<1>3. json = p[n] \o <<Quote>>
  BY <1>1, <1>2 DEF jsonString
<1>4. \A i \in 1..n : text[i] \in Nat /\ pieces[i] = Escaped(text[i])
  BY <1>1 DEF n
<1> HIDE DEF n, pieces, json
<1>5. p \in [0..n -> Seq(Nat)] /\ n \in 0..n
  BY <1>1, <1>2
<1>6. /\ json \in Seq(Nat) /\ Len(json) = Len(p[n]) + 1 /\ Len(p[n]) \in Nat /\ json[Len(json)] = Quote
      /\ \A k \in 1..Len(p[n]) : json[k] = p[n][k]
  <2>1. \A a \in Seq(Nat) : /\ a \o <<Quote>> \in Seq(Nat) /\ Len(a \o <<Quote>>) = Len(a) + 1
                            /\ (a \o <<Quote>>)[Len(a) + 1] = Quote
                            /\ \A k \in 1..Len(a) : (a \o <<Quote>>)[k] = a[k]
    BY DEF Quote
  <2>2. p[n] \in Seq(Nat)
    BY <1>5
  <2> QED
    BY <1>3, <2>1, <2>2
<1>7. PICK g : Decoded(json) = g[1] /\ \A i \in 1..Len(json) : g[i] = Read(json, g, i)
  <2>1. json \in Seq(Nat) /\ Len(json) > 0
    BY <1>6
  <2> QED
    BY <2>1, DecodeUnfolds
<1> DEFINE Tail_(i) == [k \in 1..n - i |-> text[i + k]]
           Back(i) == g[Len(p[i]) + 1] = Tail_(i)
           Bad == {k \in Nat : k <= n /\ ~Back(n - k)}
<1>8. Back(n)
  <2>1. g[Len(json)] = <<>>
    <3>1. Len(json) \in 1..Len(json)
      BY <1>6
    <3> QED
      BY <1>6, <1>7, <3>1 DEF Read
  <2>2. n - n = 0 /\ 1..0 = {}
    BY <1>1
  <2>3. Tail_(n) = <<>>
    BY <2>2
  <2> QED
    BY <1>6, <2>1, <2>3
<1>9. ASSUME NEW i \in 1..n, Back(i) PROVE Back(i - 1)
  <2> DEFINE c == text[i]
             e == Escaped(c)
             a == Len(p[i - 1])
             b == Len(p[i])
  <2>1. i - 1 \in 0..n /\ i \in 0..n /\ i \in Nat /\ n \in i..n
    BY <1>1
  <2>2. c \in Nat /\ e \in Seq(Nat) /\ Len(e) \in {1, 2, 6}
    BY <1>4, EscapedType
  <2>3. p[i] = p[i - 1] \o e /\ p[i - 1] \in Seq(Nat) /\ p[i] \in Seq(Nat)
    BY <1>1, <1>2, <1>4, <1>5, <2>1 DEF Grows
  <2> HIDE DEF e, c
  <2>4. a \in Nat /\ b = a + Len(e) /\ \A k \in 1..Len(e) : p[i][a + k] = e[k]
    BY <2>2, <2>3, Joined
  <2>5. b <= Len(p[n]) /\ \A k \in 1..b : p[n][k] = p[i][k]
    <3>1. /\ pieces \in Seq(Seq(Nat)) /\ p \in [0..Len(pieces) -> Seq(Nat)] /\ Grows(p, pieces)
          /\ i \in 0..Len(pieces) /\ n \in i..Len(pieces)
      BY <1>1, <1>2, <2>1
    <3>2. Len(p[i]) <= Len(p[n]) /\ \A k \in 1..Len(p[i]) : p[n][k] = p[i][k]
      BY <3>1, GrownStays
    <3> QED
      BY <3>2 DEF b
  <2> HIDE DEF a, b
  <2>6. /\ a + 1 \in Nat \ {0} /\ (a + 1) - 1 = a /\ (a + 1) + Len(e) = b + 1 /\ b + 1 <= Len(json)
        /\ a + 1 \in 1..Len(json) /\ a + 1 # Len(json)
    <3>1. a \in Nat /\ b = a + Len(e) /\ Len(e) \in {1, 2, 6} /\ b <= Len(p[n])
      BY <2>2, <2>4, <2>5
    <3>2. Len(p[n]) \in Nat /\ Len(json) = Len(p[n]) + 1
      BY <1>6
    <3>3. \A x, y, z, u, l \in Nat : (y = x + z /\ z > 0 /\ y <= u /\ l = u + 1) =>
            /\ x + 1 \in Nat \ {0} /\ (x + 1) - 1 = x /\ (x + 1) + z = y + 1 /\ y + 1 <= l
            /\ x + 1 \in 1..l /\ x + 1 # l
      OBVIOUS
    <3>4. a \in Nat /\ b \in Nat /\ Len(e) \in Nat /\ Len(e) > 0 /\ Len(json) \in Nat
      <4>0. \A x \in {1, 2, 6} : x \in Nat /\ x > 0
        OBVIOUS
      <4>1. Len(e) \in Nat /\ Len(e) > 0
        BY <3>1, <4>0
      <4>2. \A x, y \in Nat : x + y \in Nat /\ x + 1 \in Nat
        OBVIOUS
      <4> QED
        BY <3>1, <3>2, <4>1, <4>2
    <3> QED
      BY <3>1, <3>2, <3>3, <3>4
  <2>7. \A k \in 1..Len(e) : json[((a + 1) - 1) + k] = e[k]
    <3>1. \A k \in 1..Len(e) : a + k \in 1..b /\ a + k \in 1..Len(p[n])
      <4>1. a \in Nat /\ b = a + Len(e) /\ Len(e) \in Nat /\ b <= Len(p[n])
        BY <2>2, <2>4, <2>5
      <4>2. Len(p[n]) \in Nat
        BY <1>6
      <4> QED
        BY <4>1, <4>2
    <3>2. \A k \in 1..Len(e) : json[a + k] = p[n][a + k]
      BY <1>6, <3>1
    <3>3. \A k \in 1..Len(e) : p[n][a + k] = p[i][a + k]
      BY <2>5, <3>1
    <3>4. \A k \in 1..Len(e) : p[i][a + k] = e[k]
      BY <2>4
    <3>5. (a + 1) - 1 = a
      BY <2>6
    <3> QED
      BY <3>2, <3>3, <3>4, <3>5
  <2>8. Unit(json, a + 1) = <<c, Len(e)>>
    BY <1>6, <2>2, <2>6, <2>7, EscapedRead DEF e
  <2>9. g[a + 1] = Read(json, g, a + 1)
    BY <1>7, <2>6
  <2>10. g[b + 1] = Tail_(i)
    BY <1>9 DEF b
  <2>11. Tail_(i) # Malformed
    <3>1. \A k \in 1..n - i : text[i + k] \in Nat
      BY <1>1
    <3>2. \A x \in Nat : x # -1
      OBVIOUS
    <3>3. ASSUME Tail_(i) = Malformed PROVE FALSE
      <4>1. DOMAIN Tail_(i) = 1..n - i /\ 1 \in DOMAIN Malformed /\ Malformed[1] = -1
        BY DEF Malformed
      <4>2. 1 \in 1..n - i /\ Tail_(i)[1] = -1
        BY <3>3, <4>1
      <4>3. Tail_(i)[1] = text[i + 1]
        BY <4>2
      <4> QED
        BY <3>1, <3>2, <4>2, <4>3
    <3> QED
      BY <3>3
  <2>12. g[a + 1] = <<c>> \o Tail_(i)
    <3>1. Unit(json, a + 1) # <<>> /\ Unit(json, a + 1)[1] = c /\ Unit(json, a + 1)[2] = Len(e)
      BY <2>8
    <3>2. ~((a + 1) + Len(e) > Len(json))
      BY <1>6, <2>4, <2>2, <2>6
    <3> HIDE DEF Tail_
    <3> QED
      BY <2>6, <2>9, <2>10, <2>11, <3>1, <3>2 DEF Read
  <2>13. <<c>> \o Tail_(i) = Tail_(i - 1)
    <3>1. n - i \in Nat /\ n - (i - 1) = (n - i) + 1 /\ \A k \in 1..n - i : i + k \in 1..n
      BY <1>1
    <3>0. \A m \in Nat : \A f \in [1..m -> Nat] : f \in Seq(Nat) /\ Len(f) = m
      OBVIOUS
    <3>2. Tail_(i) \in Seq(Nat) /\ Len(Tail_(i)) = n - i
      <4>1. \A k \in 1..n - i : text[i + k] \in Nat
        BY <1>4, <3>1
      <4>2. Tail_(i) \in [1..n - i -> Nat]
        BY <4>1
      <4> HIDE DEF Tail_
      <4> QED
        BY <3>0, <3>1, <4>2
    <3>3. Tail_(i - 1) \in Seq(Nat) /\ Len(Tail_(i - 1)) = (n - i) + 1
      <4>1. \A k \in 1..(n - i) + 1 : (i - 1) + k \in 1..n
        BY <1>1
      <4>2. \A k \in 1..n - (i - 1) : text[(i - 1) + k] \in Nat
        BY <1>4, <3>1, <4>1
      <4>3. Tail_(i - 1) \in [1..n - (i - 1) -> Nat]
        BY <4>2
      <4>4. n - (i - 1) \in Nat
        BY <3>1
      <4> HIDE DEF Tail_
      <4> QED
        BY <3>0, <3>1, <4>3, <4>4
    <3>4. <<c>> \o Tail_(i) \in Seq(Nat) /\ Len(<<c>> \o Tail_(i)) = (n - i) + 1
      <4>1. <<c>> \in Seq(Nat) /\ Len(<<c>>) = 1
        BY <2>2
      <4> HIDE DEF Tail_
      <4>3. \A x, y \in Seq(Nat) : x \o y \in Seq(Nat) /\ Len(x \o y) = Len(x) + Len(y)
        BY Joined
      <4>2. <<c>> \o Tail_(i) \in Seq(Nat) /\ Len(<<c>> \o Tail_(i)) = 1 + Len(Tail_(i))
        BY <3>2, <4>1, <4>3
      <4> QED
        BY <3>1, <3>2, <4>2
    <3>5. ASSUME NEW k \in 1..(n - i) + 1 PROVE (<<c>> \o Tail_(i))[k] = Tail_(i - 1)[k]
      <4>1. Tail_(i - 1)[k] = text[(i - 1) + k]
        BY <3>1
      <4>c. c = text[i]
        BY DEF c
      <4>2. CASE k = 1
        <5>1. (<<c>> \o Tail_(i))[1] = c
          <6> HIDE DEF Tail_
          <6> QED
            BY <2>2, <3>2
        <5>2. (i - 1) + 1 = i
          BY <2>1
        <5> QED
          BY <4>1, <4>2, <4>c, <5>1, <5>2
      <4>3. CASE k # 1
        <5>1. k - 1 \in 1..n - i /\ i + (k - 1) = (i - 1) + k /\ 1 + (k - 1) = k
          BY <3>1, <2>1, <4>3
        <5>2. Tail_(i)[k - 1] = text[(i - 1) + k]
          BY <5>1
        <5>3. (<<c>> \o Tail_(i))[k] = Tail_(i)[k - 1]
          <6> HIDE DEF Tail_
          <6>1. \A s \in Seq(Nat) : \A j \in 1..Len(s) : (<<c>> \o s)[1 + j] = s[j]
            <7>1. <<c>> \in Seq(Nat) /\ Len(<<c>>) = 1
              BY <2>2
            <7> QED
              BY <7>1, Joined
          <6> QED
            BY <3>2, <5>1, <6>1
        <5> QED
          BY <4>1, <5>2, <5>3
      <4> QED
        BY <4>2, <4>3
    <3> HIDE DEF Tail_
    <3> QED
      BY <3>1, <3>3, <3>4, <3>5, SeqEqual
  <2> QED
    BY <2>12, <2>13 DEF a
<1>10. Bad = {}
  <2> SUFFICES ASSUME Bad # {} PROVE FALSE
    OBVIOUS
  <2> HIDE DEF Back
  <2>1. PICK k \in Bad : \A j \in Bad : k <= j
    BY Least
  <2>2. k \in Nat /\ k <= n /\ ~Back(n - k) /\ k # 0
    BY <1>1, <1>8, <2>1
  <2>3. k - 1 \in Nat /\ k - 1 <= n /\ ~(k <= k - 1) /\ n - (k - 1) \in 1..n /\ (n - (k - 1)) - 1 = n - k
    BY <1>1, <2>2
  <2>4. Back(n - (k - 1))
    BY <2>1, <2>3
  <2> QED
    BY <1>9, <2>2, <2>3, <2>4
<1>11. Back(0)
  <2> HIDE DEF Back
  <2>1. n \in Nat /\ n <= n /\ n - n = 0
    BY <1>1
  <2> QED
    BY <1>10, <2>1
<1>12. p[0] = <<>> /\ Len(p[0]) + 1 = 1
  BY <1>2 DEF Grows
<1>13. Tail_(0) = text
  <2>1. n - 0 = n /\ \A k \in 1..n : 0 + k = k
    BY <1>1
  <2>2. Tail_(0) = [k \in 1..n |-> text[k]]
    BY <2>1
  <2>3. text = [k \in 1..n |-> text[k]]
    BY <1>1
  <2> QED
    BY <2>2, <2>3
<1> QED
  BY <1>7, <1>11, <1>12, <1>13 DEF json

-----------------------------------------------------------------------------
(* The diagnostics of a stage that failed, as the user gets them: a text   *)
(* that is not empty.                                                      *)
LEMMA LinesFlat ==
  ASSUME NEW text \in Seq(Nat), NEW n \in {1, 2}
  PROVE  /\ FlattenSeq([i \in 1..n |-> Line(text)]) \in Seq(Nat)
         /\ FlattenSeq([i \in 1..n |-> Line(text)]) # <<>>
<1> DEFINE lines == [i \in 1..n |-> Line(text)]
<1>0. n \in Nat /\ n \in 1..n /\ n \in 0..n /\ n - 1 \in 0..n /\ n # 0
  OBVIOUS
<1>1. Line(text) \in Seq(Nat) /\ Len(Line(text)) = Len(text) + 1 /\ Len(text) \in Nat
  BY DEF Line
<1>2. lines \in [1..n -> Seq(Nat)] /\ lines[n] = Line(text)
  BY <1>0, <1>1
<1> HIDE DEF lines
<1>3. lines \in Seq(Seq(Nat)) /\ Len(lines) = n
  BY <1>0, <1>2
<1>4. PICK p \in [0..Len(lines) -> Seq(Nat)] : Grows(p, lines) /\ FlattenSeq(lines) = p[Len(lines)]
  BY <1>3, FlattenUnfolds
<1>5. /\ p[n] = p[n - 1] \o Line(text) /\ p[n - 1] \in Seq(Nat) /\ p[n] \in Seq(Nat)
      /\ FlattenSeq(lines) = p[n]
  BY <1>0, <1>2, <1>3, <1>4 DEF Grows
<1>6. Len(p[n]) = Len(p[n - 1]) + Len(Line(text)) /\ Len(p[n - 1]) \in Nat
  <2>1. \A x, y \in Seq(Nat) : Len(x \o y) = Len(x) + Len(y) /\ Len(x) \in Nat
    OBVIOUS
  <2> QED
    BY <1>1, <1>5, <2>1
<1>7. p[n] # <<>>
  <2>1. \A x, y \in Nat : x + (y + 1) # 0
    OBVIOUS
  <2>2. Len(p[n]) # 0
    BY <1>1, <1>6, <2>1
  <2>3. Len(<<>>) = 0
    OBVIOUS
  <2> QED
    BY <2>2, <2>3
<1>8. FlattenSeq(lines) \in Seq(Nat) /\ FlattenSeq(lines) # <<>>
  BY <1>5, <1>7
<1> QED
  BY <1>8 DEF lines

(* Without diagnostics nothing is written.                                  *)
LEMMA NothingFlat ==
  ASSUME result.diagnostics = <<>>
  PROVE  stderrBuffer = <<>>
<1> DEFINE lines == [i \in DOMAIN result.diagnostics |-> Line(result.diagnostics[i].text)]
<1>1. lines = <<>>
  OBVIOUS
<1>2. Len(<<>>) = 0
  OBVIOUS
<1> HIDE DEF lines
<1>3. FlattenSeq(lines) = <<>>
  BY <1>1, <1>2 DEF FlattenSeq
<1> QED
  BY <1>3 DEF stderrBuffer, lines

-----------------------------------------------------------------------------
(* The command line, an argument further on: an argument is the value of   *)
(* the -o before it unless that -o is a value itself.                      *)
LEMMA ValueNext ==
  ASSUME NEW i \in Nat \ {0}
  PROVE  IsValue(i + 1) <=> (world.args[i] = "-o" /\ ~IsValue(i))
<1> DEFINE a == world.args
<1> HIDE DEF a
<1>0. \A j : IsValue(j) <=> \E n \in 1..(j-1) : /\ n % 2 = 1
                                                /\ \A k \in 1..n : a[j-k] = "-o"
                                                /\ j - n = 1 \/ a[j-n-1] # "-o"
  BY DEF IsValue, a
<1>1. ASSUME IsValue(i + 1) PROVE a[i] = "-o" /\ ~IsValue(i)
  <2>1. PICK n \in 1..((i+1)-1) : /\ n % 2 = 1
                                  /\ \A k \in 1..n : a[(i+1)-k] = "-o"
                                  /\ (i+1) - n = 1 \/ a[(i+1)-n-1] # "-o"
    BY <1>0, <1>1
  <2>2. n \in Nat /\ 1 <= n /\ n <= i /\ (i+1) - 1 = i /\ 1 \in 1..n /\ (i+1)-n-1 = i-n
    OBVIOUS
  <2>3. a[i] = "-o"
    BY <2>1, <2>2
  <2>4. ASSUME IsValue(i) PROVE FALSE
    <3>1. PICK m \in 1..(i-1) : /\ m % 2 = 1
                                /\ \A k \in 1..m : a[i-k] = "-o"
                                /\ i - m = 1 \/ a[i-m-1] # "-o"
      BY <1>0, <2>4
    <3>2. m \in Nat /\ 1 <= m /\ m <= i - 1
      OBVIOUS
    <3>3. n - 1 # m
      BY <2>1, <2>2, <3>1, <3>2
    <3>4. CASE m < n - 1
      <4>1. m + 2 \in 1..n /\ (i+1) - (m+2) = i-m-1 /\ i - m # 1
        BY <2>2, <3>2, <3>4
      <4> QED
        BY <2>1, <3>1, <4>1
    <3>5. CASE m > n - 1
      <4>1. n \in 1..m /\ (i+1) - n # 1
        BY <2>2, <3>2, <3>5
      <4>2. a[i-n] = "-o"
        BY <3>1, <4>1
      <4> QED
        BY <2>1, <2>2, <4>1, <4>2
    <3> QED
      BY <2>2, <3>2, <3>3, <3>4, <3>5
  <2> QED
    BY <2>3, <2>4
<1>2. ASSUME a[i] = "-o", ~IsValue(i) PROVE IsValue(i + 1)
  <2> DEFINE Ends == {n \in Nat : n \in 1..i /\ (n = i \/ a[i-n] # "-o")}
  <2>1. i \in Ends
    OBVIOUS
  <2>2. PICK n \in Ends : \A j \in Ends : n <= j
    BY <2>1, Least
  <2>3. n \in Nat /\ 1 <= n /\ n <= i /\ (n = i \/ a[i-n] # "-o")
    BY <2>2
  <2>4. ASSUME NEW k \in 1..n - 1 PROVE a[i-k] = "-o"
    <3>1. k \in Nat /\ k \in 1..i /\ k # i /\ ~(n <= k)
      BY <2>3
    <3>2. k \notin Ends
      BY <2>2, <3>1
    <3> QED
      BY <3>1, <3>2
  <2>5. ASSUME NEW k \in 1..n PROVE a[(i+1)-k] = "-o"
    <3>1. CASE k = 1
      <4>1. (i+1)-1 = i
        OBVIOUS
      <4> QED
        BY <1>2, <3>1, <4>1
    <3>2. CASE k # 1
      <4>1. k - 1 \in 1..n - 1 /\ i-(k-1) = (i+1)-k
        BY <2>3, <3>2
      <4>2. a[i-(k-1)] = "-o"
        BY <2>4, <4>1
      <4> QED
        BY <4>1, <4>2
    <3> QED
      BY <3>1, <3>2
  <2>6. n % 2 = 1
    <3>1. ASSUME n % 2 # 1 PROVE FALSE
      <4> DEFINE m == n - 1
      <4>1. m % 2 = 1 /\ m \in 1..(i-1) /\ i-m-1 = i-n /\ (n = i => i - m = 1)
        BY <2>3, <3>1
      <4>2. i - m = 1 \/ a[i-m-1] # "-o"
        BY <2>3, <4>1
      <4>3. \A k \in 1..m : a[i-k] = "-o"
        BY <2>4
      <4> HIDE DEF m
      <4> QED
        BY <1>0, <1>2, <4>1, <4>2, <4>3
    <3> QED
      BY <3>1
  <2>7. n \in 1..((i+1)-1) /\ (i+1)-n-1 = i-n /\ (n = i => (i+1)-n = 1)
    BY <2>3
  <2> QED
    BY <1>0, <2>3, <2>5, <2>6, <2>7
<1> QED
  BY <1>1, <1>2 DEF a

(* Nothing stands before the first argument.                                *)
LEMMA FirstIsNoValue == ~IsValue(1)
BY DEF IsValue

-----------------------------------------------------------------------------
(* What holds of the options when the first k arguments have been parsed,  *)
(* and when all of them have.                                              *)
Options == [inputPath : STRING \cup {NoFile}, outputPath : STRING \cup {"a.out"}, emitIROnly : BOOLEAN, sawInput : BOOLEAN]

Consumed(k) ==
  /\ k \in 0..Len(world.args)
  /\ args = SubSeq(world.args, k + 1, Len(world.args))
  /\ ~IsValue(k + 1)
  /\ \A i \in 1..k : i \notin Wrong /\ i \notin Helps
  /\ opts.emitIROnly <=> \E i \in 1..k : Option(i) /\ world.args[i] = "--emit-ir"
  /\ opts.sawInput <=> \E i \in 1..k : i \in Inputs
  /\ (\A i \in 1..k : ~IsValue(i)) => opts.outputPath = "a.out"
  /\ \A i \in 1..k : IsValue(i) /\ (\A j \in i + 1..k : ~IsValue(j)) => opts.outputPath = world.args[i]

Parsed ==
  /\ Wrong = {} /\ Helps = {} /\ Inputs # {}
  /\ opts.emitIROnly <=> EmitsIR
  /\ opts.outputPath = Target

(* The least and the greatest number of a set.                              *)
LEMMA MinIs ==
  ASSUME NEW S \in SUBSET Nat, NEW k \in S, \A j \in S : k <= j
  PROVE  Min(S) = k
<1>1. Min(S) \in S /\ \A j \in S : Min(S) <= j
  BY DEF Min
<1>2. \A x, y \in Nat : x <= y /\ y <= x => x = y
  OBVIOUS
<1> QED
  BY <1>1, <1>2

(* The greatest number of a set.                                            *)
LEMMA MaxIs ==
  ASSUME NEW S \in SUBSET Nat, NEW k \in S, \A j \in S : k >= j
  PROVE  Max(S) = k
<1>1. Max(S) \in S /\ \A j \in S : Max(S) >= j
  BY DEF Max
<1>2. \A x, y \in Nat : x >= y /\ y >= x => x = y
  OBVIOUS
<1> QED
  BY <1>1, <1>2

(* What is left of a sequence behind its first p elements.                 *)
LEMMA LeftBehind ==
  ASSUME NEW x \in Seq(STRING), NEW p \in Nat, p <= Len(x)
  PROVE  /\ SubSeq(x, p + 1, Len(x)) \in Seq(STRING) /\ Len(SubSeq(x, p + 1, Len(x))) = Len(x) - p
         /\ \A i \in 1..Len(x) - p : SubSeq(x, p + 1, Len(x))[i] = x[p + i]
OBVIOUS

(* The next argument, and what is left behind it.                          *)
LEMMA NextArgument ==
  ASSUME world.args \in Seq(STRING), NEW k, Consumed(k), args # <<>>
  PROVE  /\ k \in Nat /\ k + 1 \in 1..Len(world.args) /\ Head(args) = world.args[k + 1]
         /\ DOMAIN world.args = 1..Len(world.args) /\ Len(world.args) \in Nat
         /\ Len(args) = Len(world.args) - k
         /\ SubSeq(args, 2, Len(args)) = SubSeq(world.args, k + 2, Len(world.args))
         /\ Len(args) > 1 => /\ args[2] = world.args[k + 2] /\ k + 2 \in 1..Len(world.args)
                             /\ SubSeq(args, 3, Len(args)) = SubSeq(world.args, k + 3, Len(world.args))
<1> DEFINE a == world.args
           n == Len(a)
<1>1. a \in Seq(STRING) /\ n \in Nat /\ k \in Nat /\ k <= n /\ args = SubSeq(a, k + 1, n) /\ DOMAIN a = 1..n
  BY DEF Consumed
<1> HIDE DEF a
<1>2. /\ args \in Seq(STRING) /\ Len(args) = n - k /\ \A i \in 1..n - k : args[i] = a[k + i]
  BY <1>1, LeftBehind
<1> HIDE DEF n
<1>3. n - k # 0
  BY <1>2
<1>4. n - k \in Nat /\ 1 \in 1..n - k /\ k + 1 \in 1..n
  BY <1>1, <1>3
<1>5. Head(args) = a[k + 1]
  BY <1>2, <1>4
<1>6. ASSUME NEW d \in {1, 2}, Len(args) >= d PROVE SubSeq(args, d + 1, Len(args)) = SubSeq(a, k + d + 1, n)
  <2> DEFINE s == SubSeq(args, d + 1, Len(args))
             t == SubSeq(a, k + d + 1, n)
  <2>1. d \in Nat /\ d <= n - k /\ k + d <= n /\ Len(args) = n - k
    BY <1>1, <1>2, <1>6
  <2>3. s \in Seq(STRING) /\ Len(s) = (n - k) - d /\ \A i \in 1..(n - k) - d : s[i] = args[d + i]
    BY <1>2, <2>1, LeftBehind
  <2>4. t \in Seq(STRING) /\ Len(t) = n - (k + d) /\ \A i \in 1..n - (k + d) : t[i] = a[(k + d) + i]
    <3>1. k + d \in Nat /\ k + d <= Len(a)
      <4>1. \A x, y \in Nat : x + y \in Nat
        OBVIOUS
      <4> QED
        BY <1>1, <2>1, <4>1 DEF n
    <3>2. \A p \in Nat : p <= Len(a) =>
            /\ SubSeq(a, p + 1, Len(a)) \in Seq(STRING) /\ Len(SubSeq(a, p + 1, Len(a))) = Len(a) - p
            /\ \A i \in 1..Len(a) - p : SubSeq(a, p + 1, Len(a))[i] = a[p + i]
      BY <1>1, LeftBehind
    <3> QED
      BY <3>1, <3>2 DEF n
  <2> HIDE DEF s, t
  <2>5. Len(s) = Len(t)
    BY <1>1, <2>1, <2>3, <2>4
  <2>6. ASSUME NEW i \in 1..Len(s) PROVE s[i] = t[i]
    <3>1. i \in 1..(n - k) - d /\ i \in 1..n - (k + d) /\ d + i \in 1..n - k /\ k + (d + i) = (k + d) + i
      BY <1>1, <2>1, <2>3
    <3> QED
      BY <1>2, <2>3, <2>4, <3>1
  <2>7. s = t
    BY <2>3, <2>4, <2>5, <2>6, SeqEqual
  <2> QED
    BY <2>7 DEF s, t
<1>7. Len(args) >= 1 /\ 1 + 1 = 2 /\ 2 + 1 = 3 /\ k + 1 + 1 = k + 2 /\ k + 2 + 1 = k + 3
  BY <1>1, <1>2, <1>4
<1>8. SubSeq(args, 2, Len(args)) = SubSeq(a, k + 2, n)
  <2>1. SubSeq(args, 1 + 1, Len(args)) = SubSeq(a, k + 1 + 1, n)
    BY <1>6, <1>7
  <2> QED
    BY <1>7, <2>1
<1>9. ASSUME Len(args) > 1
      PROVE  args[2] = a[k + 2] /\ k + 2 \in 1..n /\ SubSeq(args, 3, Len(args)) = SubSeq(a, k + 3, n)
  <2>1. 2 \in 1..n - k /\ k + 2 \in 1..n /\ Len(args) >= 2
    BY <1>1, <1>2, <1>9
  <2>2. SubSeq(args, 2 + 1, Len(args)) = SubSeq(a, k + 2 + 1, n)
    BY <1>6, <2>1
  <2> QED
    BY <1>2, <1>7, <2>1, <2>2
<1> QED
  BY <1>1, <1>2, <1>4, <1>5, <1>8, <1>9 DEF a, n

(* The arguments whose parsing goes on: one more is consumed, or -o with   *)
(* its value.                                                              *)
Typed == world \in Worlds /\ (stage = "args" => opts \in Options)

(* What the assumption says of the world.                                   *)
LEMMA TypedWorld ==
  ASSUME Typed
  PROVE  /\ world.entry \in {"compile", "interpret", "parse", "run"} /\ world.args \in Seq(STRING)
         /\ world.faults \in SUBSET STRING /\ world.text \in Seq(Nat) /\ world.exit \in Int
BY EntryAssumption DEF Typed

(* What is said of the command line does not change.                       *)
LEMMA SameWorld ==
  ASSUME world' = world
  PROVE  /\ \A i : IsValue(i)' <=> IsValue(i)
         /\ \A i : Option(i)' <=> Option(i)
         /\ Inputs' = Inputs /\ Wrong' = Wrong /\ Helps' = Helps
         /\ (EmitsIR' <=> EmitsIR) /\ Target' = Target
<1>1. \A i : IsValue(i)' <=> IsValue(i)
  BY DEF IsValue
<1>2. \A i : Option(i)' <=> Option(i)
  BY <1>1 DEF Option
<1>3. Inputs' = Inputs
  BY <1>1, <1>2 DEF Inputs
<1>4. Wrong' = Wrong
  BY <1>2, <1>3 DEF Wrong
<1>5. Helps' = Helps
  BY <1>2 DEF Helps
<1>6. EmitsIR' <=> EmitsIR
  BY <1>2 DEF EmitsIR
<1>7. Target' = Target
  BY <1>1 DEF Target
<1> QED
  BY <1>1, <1>2, <1>3, <1>4, <1>5, <1>6, <1>7

(* -o takes the next argument, whatever it is.                             *)
LEMMA OutputParsed ==
  ASSUME Typed, stage = "args", NEW k, Consumed(k), ArgOutput, stage' = "args"
  PROVE  Consumed(k + 2)'
<1> DEFINE a == world.args
           n == Len(a)
<1>1. /\ More({"-o"}) /\ Len(args) > 1 /\ opts' = [opts EXCEPT !.outputPath = args[2]]
      /\ args' = SubSeq(args, 2 + 1, Len(args)) /\ world' = world /\ args # <<>> /\ Head(args) = "-o"
  BY DEF ArgOutput, UsageError, Exit, To, Drop, GoOn, More
<1>2. /\ k \in Nat /\ k + 1 \in 1..n /\ a[k + 1] = "-o" /\ k + 2 \in 1..n /\ args[2] = a[k + 2]
      /\ args' = SubSeq(a, k + 3, n) /\ DOMAIN a = 1..n /\ n \in Nat
  <2>1. 2 + 1 = 3
    OBVIOUS
  <2> QED
    BY <1>1, <2>1, TypedWorld, NextArgument
<1>3. ~IsValue(k + 1)
  BY DEF Consumed
<1>4. IsValue(k + 2)
  <2>1. IsValue((k + 1) + 1) <=> (a[k + 1] = "-o" /\ ~IsValue(k + 1))
    <3>1. k + 1 \in Nat \ {0}
      BY <1>2
    <3>2. \A i \in Nat \ {0} : IsValue(i + 1) <=> (a[i] = "-o" /\ ~IsValue(i))
      BY ValueNext
    <3> QED
      BY <3>1, <3>2
  <2>2. (k + 1) + 1 = k + 2
    BY <1>2
  <2> QED
    BY <1>2, <1>3, <2>1, <2>2
<1>5. ~IsValue(k + 3)
  <2>1. IsValue((k + 2) + 1) <=> (a[k + 2] = "-o" /\ ~IsValue(k + 2))
    <3>1. k + 2 \in Nat \ {0}
      BY <1>2
    <3>2. \A i \in Nat \ {0} : IsValue(i + 1) <=> (a[i] = "-o" /\ ~IsValue(i))
      BY ValueNext
    <3> QED
      BY <3>1, <3>2
  <2>2. (k + 2) + 1 = k + 3
    BY <1>2
  <2> QED
    BY <1>4, <2>1, <2>2
<1>6. \A i \in 1..k + 2 : i \in 1..k \/ i = k + 1 \/ i = k + 2
  BY <1>2
<1>7. Option(k + 1) /\ ~Option(k + 2) /\ k + 1 \notin Inputs /\ k + 2 \notin Inputs
  BY <1>2, <1>3, <1>4, EntryAssumption DEF Option, Inputs
<1>8. k + 1 \notin Wrong /\ k + 1 \notin Helps /\ k + 2 \notin Wrong /\ k + 2 \notin Helps
  <2>1. k + 1 # n
    BY <1>2
  <2>2. a[k + 1] = "-o" /\ n = Len(world.args)
    BY <1>2
  <2> QED
    BY <1>7, <2>1, <2>2 DEF Wrong, Helps
<1> DEFINE C == \A i \in 1..k : i \notin Wrong /\ i \notin Helps
<1>9. /\ C
      /\ opts.emitIROnly <=> \E i \in 1..k : Option(i) /\ world.args[i] = "--emit-ir"
      /\ opts.sawInput <=> \E i \in 1..k : i \in Inputs
  BY DEF Consumed
<1>10. /\ opts'.outputPath = a[k + 2] /\ opts'.emitIROnly = opts.emitIROnly /\ opts'.sawInput = opts.sawInput
  BY <1>1, <1>2 DEF Typed, Options
<1>11. 1..k \subseteq 1..k + 2 /\ k + 1 \in 1..k + 2 /\ k + 2 \in 1..k + 2
  BY <1>2
<1> DEFINE W(i) == i \notin Wrong /\ i \notin Helps
<1>12. \A i \in 1..k + 2 : W(i)
  BY <1>6, <1>8, <1>9
<1>13. opts'.emitIROnly <=> \E i \in 1..k + 2 : Option(i) /\ world.args[i] = "--emit-ir"
  <2>1. a[k + 1] # "--emit-ir" /\ ~Option(k + 2)
    BY <1>2, <1>7
  <2> QED
    BY <1>6, <1>9, <1>10, <1>11, <2>1
<1>14. opts'.sawInput <=> \E i \in 1..k + 2 : i \in Inputs
  BY <1>6, <1>7, <1>9, <1>10, <1>11
<1>15. \A i \in 1..k + 2 : IsValue(i) /\ (\A j \in i + 1..k + 2 : ~IsValue(j)) => i = k + 2
  <2>1. \A i \in 1..k + 2 : i # k + 2 => k + 2 \in i + 1..k + 2
    BY <1>2
  <2> QED
    BY <1>4, <2>1
<1>16. k + 2 \in 0..n /\ (k + 2) + 1 = k + 3
  BY <1>2
<1>17. /\ k + 2 \in 0..Len(world.args)
       /\ args' = SubSeq(world.args, (k + 2) + 1, Len(world.args))
       /\ ~IsValue((k + 2) + 1)
  BY <1>2, <1>5, <1>16
<1>18. world' = world
  BY <1>1
<1>19. /\ \A i : IsValue(i)' <=> IsValue(i)
       /\ \A i : Option(i)' <=> Option(i)
       /\ Inputs' = Inputs /\ Wrong' = Wrong /\ Helps' = Helps
  BY <1>18, SameWorld
<1>20. (\A i \in 1..k + 2 : ~IsValue(i)) => opts'.outputPath = "a.out"
  BY <1>4, <1>11
<1>21. \A i \in 1..k + 2 : IsValue(i) /\ (\A j \in i + 1..k + 2 : ~IsValue(j)) => opts'.outputPath = world.args[i]
  BY <1>10, <1>15
<1> QED
  BY <1>12, <1>13, <1>14, <1>17, <1>18, <1>19, <1>20, <1>21 DEF Consumed

(* Any other argument that parsing goes on from.                           *)
LEMMA OneParsed ==
  ASSUME Typed, NEW k, Consumed(k), args # <<>>, Head(args) # "-o", world' = world,
         args' = SubSeq(args, 2, Len(args)),
         k + 1 \notin Wrong, k + 1 \notin Helps,
         opts'.emitIROnly <=> (opts.emitIROnly \/ (Option(k + 1) /\ world.args[k + 1] = "--emit-ir")),
         opts'.sawInput <=> (opts.sawInput \/ k + 1 \in Inputs),
         opts'.outputPath = opts.outputPath
  PROVE  Consumed(k + 1)'
<1> DEFINE a == world.args
           n == Len(a)
<1>1. /\ k \in Nat /\ k + 1 \in 1..n /\ a[k + 1] # "-o" /\ args' = SubSeq(a, k + 2, n)
      /\ DOMAIN a = 1..n /\ n \in Nat
  BY TypedWorld, NextArgument
<1>2. ~IsValue(k + 1)
  BY DEF Consumed
<1>3. ~IsValue(k + 2)
  <2>1. k + 1 \in Nat \ {0} /\ (k + 1) + 1 = k + 2
    BY <1>1
  <2>2. \A i \in Nat \ {0} : IsValue(i + 1) <=> (a[i] = "-o" /\ ~IsValue(i))
    BY ValueNext
  <2>3. IsValue((k + 1) + 1) <=> (a[k + 1] = "-o" /\ ~IsValue(k + 1))
    BY <2>1, <2>2
  <2> QED
    BY <1>1, <2>1, <2>3
<1>4. (\A i \in 1..k + 1 : i \in 1..k \/ i = k + 1) /\ 1..k \subseteq 1..k + 1 /\ k + 1 \in 1..k + 1
  BY <1>1
<1>5. \A i \in 1..k + 1 : i \notin Wrong /\ i \notin Helps
  BY <1>4 DEF Consumed
<1>6. opts'.emitIROnly <=> \E i \in 1..k + 1 : Option(i) /\ world.args[i] = "--emit-ir"
  <2>1. opts.emitIROnly <=> \E i \in 1..k : Option(i) /\ world.args[i] = "--emit-ir"
    BY DEF Consumed
  <2> QED
    BY <1>4, <2>1
<1>7. opts'.sawInput <=> \E i \in 1..k + 1 : i \in Inputs
  <2>1. opts.sawInput <=> \E i \in 1..k : i \in Inputs
    BY DEF Consumed
  <2> QED
    BY <1>4, <2>1
<1>8. (\A i \in 1..k + 1 : ~IsValue(i)) => opts'.outputPath = "a.out"
  BY <1>4 DEF Consumed
<1>9. ASSUME NEW i \in 1..k + 1, IsValue(i), \A j \in i + 1..k + 1 : ~IsValue(j)
      PROVE  opts'.outputPath = world.args[i]
  <2>1. i \in 1..k
    BY <1>2, <1>4, <1>9
  <2>2. i + 1..k \subseteq i + 1..k + 1
    BY <1>1
  <2> QED
    BY <1>9, <2>1, <2>2 DEF Consumed
<1>10. /\ \A i : IsValue(i)' <=> IsValue(i)
       /\ \A i : Option(i)' <=> Option(i)
       /\ Inputs' = Inputs /\ Wrong' = Wrong /\ Helps' = Helps
  BY SameWorld
<1>11. /\ k + 1 \in 0..Len(world.args)
       /\ args' = SubSeq(world.args, (k + 1) + 1, Len(world.args))
       /\ ~IsValue((k + 1) + 1)
  <2>1. k + 1 \in 0..n /\ (k + 1) + 1 = k + 2
    BY <1>1
  <2> QED
    BY <1>1, <1>3, <2>1
<1> QED
  BY <1>5, <1>6, <1>7, <1>8, <1>9, <1>10, <1>11 DEF Consumed

(* Parsing goes on with every argument that is neither help nor wrong.     *)
LEMMA GoesOn ==
  ASSUME Typed, stage = "args", NEW k, Consumed(k), stage' = "args",
         ArgOutput \/ ArgEmitIR \/ ArgInput
  PROVE  (\E j : Consumed(j)') /\ opts' \in Options /\ world' = world
<1>1. CASE ArgOutput
  <2>1. Consumed(k + 2)'
    BY <1>1, OutputParsed
  <2>2. /\ args # <<>> /\ Len(args) > 1 /\ opts' = [opts EXCEPT !.outputPath = args[2]] /\ world' = world
    BY <1>1 DEF ArgOutput, UsageError, Exit, To, GoOn, More
  <2>3. args[2] = world.args[k + 2] /\ k + 2 \in 1..Len(world.args)
    BY <2>2, TypedWorld, NextArgument
  <2>4. args[2] \in STRING
    BY <2>3, TypedWorld
  <2> QED
    BY <2>1, <2>2, <2>4 DEF Typed, Options
<1>2. CASE ArgEmitIR
  <2>1. /\ args # <<>> /\ Head(args) = "--emit-ir" /\ world.entry = "compile" /\ world' = world
        /\ opts' = [opts EXCEPT !.emitIROnly = TRUE] /\ args' = SubSeq(args, 1 + 1, Len(args))
    BY <1>2 DEF ArgEmitIR, UsageError, Exit, To, GoOn, Drop, More
  <2>2. world.args[k + 1] = "--emit-ir" /\ k + 1 \in DOMAIN world.args
    BY <2>1, TypedWorld, NextArgument
  <2>3. Option(k + 1)
    BY <2>2, EntryAssumption DEF Option, Consumed
  <2>4. k + 1 \notin Inputs /\ k + 1 \notin Wrong /\ k + 1 \notin Helps
    BY <2>1, <2>2, <2>3 DEF Inputs, Wrong, Helps
  <2>5. /\ opts'.emitIROnly = TRUE /\ opts'.sawInput = opts.sawInput /\ opts'.outputPath = opts.outputPath
        /\ opts' \in Options
    BY <2>1 DEF Typed, Options
  <2>6. args' = SubSeq(args, 2, Len(args))
    <3>1. 1 + 1 = 2
      OBVIOUS
    <3> QED
      BY <2>1, <3>1
  <2>7. Consumed(k + 1)'
    BY <2>1, <2>2, <2>3, <2>4, <2>5, <2>6, OneParsed
  <2> QED
    BY <2>1, <2>5, <2>7
<1>3. CASE ArgInput
  <2>1. /\ args # <<>> /\ Head(args) \notin Dashed /\ ~opts.sawInput /\ world' = world
        /\ opts' = [opts EXCEPT !.inputPath = Head(args), !.sawInput = TRUE]
        /\ args' = SubSeq(args, 1 + 1, Len(args))
    BY <1>3 DEF ArgInput, UsageError, Exit, To, GoOn, Drop
  <2>2. world.args[k + 1] = Head(args) /\ k + 1 \in DOMAIN world.args /\ Head(args) \in STRING
        /\ k \in Nat /\ DOMAIN world.args = 1..Len(world.args) /\ Len(world.args) \in Nat
    BY <2>1, TypedWorld, NextArgument
  <2>3. ~Option(k + 1) /\ k + 1 \in Inputs
    BY <2>1, <2>2 DEF Option, Consumed, Inputs
  <2>4. k + 1 \notin Helps
    BY <2>3 DEF Helps
  <2>5. k + 1 \notin Wrong
    <3>1. \A j \in Inputs : ~(j < k + 1)
      <4>1. \A j \in 1..k : j \notin Inputs
        BY <2>1 DEF Consumed
      <4>2. \A j \in Inputs : j \in 1..Len(world.args)
        BY <2>2 DEF Inputs
      <4> QED
        BY <2>2, <4>1, <4>2
    <3> QED
      BY <2>3, <3>1 DEF Wrong
  <2>6. /\ opts'.sawInput = TRUE /\ opts'.emitIROnly = opts.emitIROnly /\ opts'.outputPath = opts.outputPath
        /\ opts' \in Options
    BY <2>1, <2>2 DEF Typed, Options
  <2>7. args' = SubSeq(args, 2, Len(args))
    <3>1. 1 + 1 = 2
      OBVIOUS
    <3> QED
      BY <2>1, <3>1
  <2>8. Head(args) # "-o"
    BY <2>1, EntryAssumption
  <2>9. Consumed(k + 1)'
    BY <2>1, <2>3, <2>4, <2>5, <2>6, <2>7, <2>8, OneParsed
  <2> QED
    BY <2>1, <2>6, <2>9
<1> QED
  BY <1>1, <1>2, <1>3

(* At the end of the arguments the options say what the command line does. *)
LEMMA AllParsed ==
  ASSUME Typed, stage = "args", NEW k, Consumed(k), args = <<>>
  PROVE  Wrong = {} /\ Helps = {} /\ (opts.sawInput <=> Inputs # {}) /\ (opts.sawInput => Parsed)
<1> DEFINE n == Len(world.args)
<1>1. k = n /\ n \in Nat /\ DOMAIN world.args = 1..n
  <2>1. world.args \in Seq(STRING) /\ k \in Nat /\ k <= Len(world.args)
    BY TypedWorld DEF Consumed
  <2>2. Len(args) = Len(world.args) - k
    BY <2>1, LeftBehind DEF Consumed
  <2>3. Len(args) = 0
    OBVIOUS
  <2> QED
    BY <2>1, <2>2, <2>3
<1>2. Wrong = {} /\ Helps = {}
  BY <1>1 DEF Consumed, Wrong, Helps
<1>3. opts.sawInput <=> Inputs # {}
  BY <1>1 DEF Consumed, Inputs
<1>4. opts.emitIROnly <=> EmitsIR
  BY <1>1 DEF Consumed, EmitsIR
<1>5. opts.outputPath = Target
  <2> DEFINE values == {i \in DOMAIN world.args : IsValue(i)}
  <2>0. Target = IF values = {} THEN "a.out" ELSE world.args[Max(values)]
    BY DEF Target
  <2>1. CASE values = {}
    <3>1. \A i \in 1..k : ~IsValue(i)
      BY <1>1, <2>1
    <3> QED
      BY <2>0, <2>1, <3>1 DEF Consumed
  <2>2. CASE values # {}
    <3> DEFINE behind == {j \in Nat : j <= n /\ n - j \in values}
    <3>1. behind \in SUBSET Nat /\ behind # {}
      <4>1. PICK i \in values : TRUE
        BY <2>2
      <4>2. i \in 1..n
        BY <1>1
      <4>3. n - i \in Nat /\ n - i <= n /\ n - (n - i) = i
        BY <1>1, <4>2
      <4> HIDE DEF values
      <4> QED
        BY <4>1, <4>3
    <3>2. PICK j \in behind : \A q \in behind : j <= q
      <4> HIDE DEF behind
      <4> QED
        BY <3>1, Least
    <3> DEFINE i == n - j
    <3>3. i \in values /\ j \in Nat /\ j <= n
      BY <3>2
    <3>4. i \in 1..n /\ IsValue(i)
      BY <1>1, <3>3
    <3>5. ASSUME NEW q \in values PROVE i >= q
      <4>1. q \in 1..n
        BY <1>1
      <4>2. n - q \in Nat /\ n - q <= n /\ n - (n - q) = q
        BY <1>1, <4>1
      <4>3. n - q \in behind
        BY <4>2
      <4>4. j <= n - q
        BY <3>2, <4>3
      <4> HIDE DEF values, behind
      <4> QED
        BY <1>1, <3>3, <4>1, <4>4
    <3>6. values \in SUBSET Nat
      BY <1>1
    <3>7. Max(values) = i
      <4> HIDE DEF values, i
      <4> QED
        BY <3>3, <3>5, <3>6, MaxIs
    <3>8. \A q \in i + 1..k : ~IsValue(q)
      <4>1. ASSUME NEW q \in i + 1..k, IsValue(q) PROVE FALSE
        <5>1. q \in 1..n /\ ~(i >= q)
          BY <1>1, <3>4
        <5>2. q \in values
          BY <1>1, <4>1, <5>1
        <5> QED
          BY <3>5, <5>1, <5>2
      <4> QED
        BY <4>1
    <3>9. opts.outputPath = world.args[i]
      <4> HIDE DEF i
      <4> QED
        BY <1>1, <3>4, <3>8 DEF Consumed
    <3> QED
      BY <2>0, <2>2, <3>7, <3>9
  <2> QED
    BY <2>1, <2>2
<1> QED
  BY <1>2, <1>3, <1>4, <1>5 DEF Parsed

-----------------------------------------------------------------------------
(* The faults that end the pipeline, and what it returns with them or      *)
(* without.                                                                *)
Broken ==
  {f \in world.faults : \/ f \in {"parse", "import", "types"}
                        \/ f = "open" /\ IsDriver
                        \/ f = "codegen" /\ world.entry = "compile"
                        \/ f = "runtime" /\ ~Compiles}

Faulty == {"open", "parse", "import", "types", "codegen", "runtime"}
Diagnosis == [stage : Faulty, text : Seq(Nat)]
Results == [success : BOOLEAN, exitCode : Int, diagnostics : Seq(Diagnosis), ast : Seq(Nat), ir : BOOLEAN,
            stdout : Seq(Nat)]

ResultTrue ==
  /\ result \in Results
  /\ result.success <=> Broken = {}
  /\ Broken = {} => result.diagnostics = <<>>
  /\ Broken # {} => \E f \in Faulty : \E n \in {1, 2} : result.diagnostics = Diagnostics(f, n)
  /\ result.stdout = IF ~Compiles /\ Broken \subseteq {"runtime"} THEN world.text ELSE <<>>
  /\ result.exitCode = IF ~Compiles /\ Broken = {} THEN world.exit ELSE 1
  /\ world.entry = "parse" /\ Broken = {} => result.ast = world.text

(* Where the pipeline stands: the faults of the stages behind it did not   *)
(* befall it.                                                              *)
Unbroken ==
  /\ stage \in Stages \ {"open"} /\ IsDriver => ~Fault("open")
  /\ stage \in {"imports", "check", "dump", "generate", "interpret"} => ~Fault("parse")
  /\ stage \in {"check", "dump", "generate", "interpret"} => ~Fault("import")
  /\ stage \in {"dump", "generate", "interpret"} => ~Fault("types")
  /\ stage \in {"dump", "generate"} => Compiles
  /\ stage = "interpret" => ~Compiles
  /\ stage \in Stages \ {"generate"} => result = Failed
  /\ stage = "generate" => result = IF world.entry = "parse" THEN [Failed EXCEPT !.ast = world.text] ELSE Failed

AfterPipeline == {"returned", "temp", "write", "clang", "remove", "reply"}

Untold == [out |-> <<>>, err |-> <<>>, status |-> 0, reply |-> Failed, ok |-> FALSE]

(* What main has done of the IR file and the executable.                   *)
Compiled ==
  /\ stage \in {"temp", "write", "clang", "remove"} =>
       world.entry = "compile" /\ Broken = {} /\ ~opts.emitIROnly
  /\ stage \in {"write", "clang", "remove"} => ~Fault("temp")
  /\ stage \in {"clang", "remove"} => ~Fault("disk")
  /\ stage = "remove" =>
       /\ clangOK <=> ~Fault("no clang") /\ ~Fault("clang")
       /\ executable = IF clangOK THEN opts.outputPath ELSE NoFile
       /\ shown = IF clangOK THEN Untold ELSE [Untold EXCEPT !.err = Says]
  /\ stage \in Pipeline \cup {"args", "source", "temp", "write", "clang"} => executable = NoFile
  /\ stage \in Pipeline \cup {"args", "source", "temp", "write", "clang", "reply"} => shown = Untold

(* The faults of the module that the worker has not met so far.            *)
Invoked ==
  ~IsDriver => /\ stage \in Pipeline \cup {"reply"} => ~Fault("source buffer")
               /\ stage = "reply" => ~Fault("trap") /\ ~Fault("result buffer")

(* What Truthful and OutputPreserved promise when main returns, and when   *)
(* the worker answers.                                                     *)
DriverTruth ==
  /\ shown.status # 0 /\ (world.entry = "compile" \/ Misused) => shown.err # <<>>
  /\ AsksHelp => shown.status = 0 /\ executable = NoFile /\ shown.out = <<>>
  /\ Misused => shown.status = 1 /\ executable = NoFile /\ shown.out = <<>>
  /\ ~AsksHelp /\ ~Misused /\ world.entry = "compile" =>
       /\ shown.status = 0 <=> InWay = {}
       /\ shown.out # <<>> <=> InWay = {}
       /\ executable = IF InWay = {} /\ ~EmitsIR THEN Target ELSE NoFile
  /\ ~AsksHelp /\ ~Misused /\ world.entry = "interpret" =>
       /\ shown.status = IF InWay = {} THEN world.exit % 256 ELSE 1
       /\ shown.err = <<>> <=> InWay = {}

WorkerTruth ==
  /\ shown.ok <=> InModule = {}
  /\ shown.ok => /\ shown.reply.success <=> InWay = {}
                 /\ shown.status = IF InWay # {} THEN 1 ELSE IF world.entry = "run" THEN world.exit ELSE 0
  /\ shown.err = <<>> <=> InModule \cup InWay = {}

OutputTrue ==
  /\ shown.out = IF world.entry = "parse" THEN <<>>
                 ELSE IF InWay \subseteq {"runtime"} THEN Buffer("program", world.text) ELSE <<>>
  /\ shown.err # <<>> =>
       \E n \in 1..2 : shown.err = <<Message("pipeline", FlattenSeq([i \in 1..n |-> Line(world.text)]))>>
  /\ world.entry = "parse" /\ InWay = {} => shown.reply.ast = world.text

Telling ==
  /\ Holding /\ Typed
  /\ stage = "args" => \E k : Consumed(k)
  /\ stage \in DriverStages \ {"args", "exited", "killed"} /\ IsDriver => Parsed
  /\ stage \in {"args", "source"} => result = Failed
  /\ stage \in Stages => Unbroken
  /\ stage \in AfterPipeline => ResultTrue
  /\ Compiled /\ Invoked
  /\ stage = "exited" => /\ DriverTruth
                         /\ world.entry = "interpret" /\ ~AsksHelp /\ ~Misused => OutputTrue
  /\ stage \in {"free result", "free source", "posted"} => WorkerTruth /\ (shown.ok => OutputTrue)

(* Nothing of this changes with the world fixed.                           *)
LEMMA SameClaims ==
  ASSUME world' = world
  PROVE  /\ InWay' = InWay /\ InModule' = InModule /\ Broken' = Broken
         /\ (AsksHelp' <=> AsksHelp) /\ (Misused' <=> Misused)
         /\ (IsDriver' <=> IsDriver) /\ (Compiles' <=> Compiles)
         /\ \A f : Fault(f)' <=> Fault(f)
<1>1. Inputs' = Inputs /\ Wrong' = Wrong /\ Helps' = Helps /\ (EmitsIR' <=> EmitsIR)
  BY SameWorld
<1>2. InProgram' = InProgram
  BY DEF InProgram
<1>3. InWay' = InWay
  BY <1>1, <1>2 DEF InWay
<1>4. (AsksHelp' <=> AsksHelp) /\ (Misused' <=> Misused)
  <2>1. AsksHelp' <=> AsksHelp
    BY <1>1 DEF AsksHelp
  <2> QED
    BY <1>1, <2>1 DEF Misused
<1>5. InModule' = InModule
  BY DEF InModule
<1>6. (IsDriver' <=> IsDriver) /\ (Compiles' <=> Compiles)
  BY DEF IsDriver, Compiles
<1>7. Broken' = Broken
  BY <1>6 DEF Broken
<1>8. \A f : Fault(f)' <=> Fault(f)
  BY DEF Fault
<1> QED
  BY <1>3, <1>4, <1>5, <1>6, <1>7, <1>8

(* What stands in the way, by the way in.                                  *)
LEMMA InWayIs ==
  ASSUME Typed
  PROVE  /\ world.entry # "compile" => InWay = Broken
         /\ world.entry = "compile" =>
              InWay = Broken \cup IF EmitsIR THEN {} ELSE world.faults \cap {"temp", "disk", "no clang", "clang"}
<1>1. CASE world.entry = "compile"
  BY <1>1 DEF InWay, InProgram, Broken, IsDriver, Compiles
<1>2. CASE world.entry = "interpret"
  BY <1>2 DEF InWay, InProgram, Broken, IsDriver, Compiles
<1>3. CASE world.entry = "run"
  BY <1>3 DEF InWay, InProgram, Broken, IsDriver, Compiles
<1>4. CASE world.entry = "parse"
  BY <1>4 DEF InWay, InProgram, Broken, IsDriver, Compiles
<1> QED
  BY <1>1, <1>2, <1>3, <1>4, TypedWorld

-----------------------------------------------------------------------------
(* What is written to a stream.                                            *)
Sources == {"driver", "program", "pipeline", "ir"}
Messages == [from : Sources, text : Seq(Nat)]

(* A buffer is written as one message, or not at all.                       *)
LEMMA MessageLists ==
  /\ Says \in Seq(Messages) /\ Says # <<>> /\ <<>> \in Seq(Messages)
  /\ \A from \in Sources : \A text \in Seq(Nat) :
       /\ Buffer(from, text) \in Seq(Messages)
       /\ Buffer(from, text) = <<>> <=> text = <<>>
       /\ text # <<>> => Buffer(from, text) = <<Message(from, text)>>
       /\ <<Message(from, text)>> \in Seq(Messages)
<1>1. <<>> \in Seq(Nat) /\ \A from \in Sources : \A text \in Seq(Nat) : Message(from, text) \in Messages
  BY DEF Message, Messages
<1>2. \A m \in Messages : <<m>> \in Seq(Messages) /\ <<m>> # <<>>
  OBVIOUS
<1>3. Says \in Seq(Messages) /\ Says # <<>>
  <2>1. Message("driver", Nothing) \in Messages
    <3>1. "driver" \in Sources /\ <<>> \in Seq(Nat)
      BY DEF Sources
    <3> QED
      BY <3>1 DEF Nothing, Message, Messages
  <2> QED
    BY <1>2, <2>1 DEF Says
<1>4. ASSUME NEW from \in Sources, NEW text \in Seq(Nat)
      PROVE  /\ Buffer(from, text) \in Seq(Messages)
             /\ Buffer(from, text) = <<>> <=> text = <<>>
             /\ text # <<>> => Buffer(from, text) = <<Message(from, text)>>
             /\ <<Message(from, text)>> \in Seq(Messages)
  <2>1. <<Message(from, text)>> \in Seq(Messages) /\ <<Message(from, text)>> # <<>>
    BY <1>1, <1>2
  <2>2. <<>> \in Seq(Messages)
    OBVIOUS
  <2> QED
    BY <2>1, <2>2 DEF Buffer, Nothing
<1>5. <<>> \in Seq(Messages)
  OBVIOUS
<1> QED
  BY <1>3, <1>4, <1>5, Zenon

(* Before the only exit nothing has been written.                           *)
LEMMA ExitShows ==
  ASSUME shown = Untold, NEW status \in Int, NEW out \in Seq(Messages), NEW err \in Seq(Messages),
         Exit(status, out, err)
  PROVE  /\ shown'.status = status % 256 /\ shown'.out = out /\ shown'.err = err /\ shown'.reply = Failed
         /\ stage' = "exited" /\ world' = world
<1>1. <<>> \o out = out /\ <<>> \o err = err
  BY ConcatEmptySeq
<1>2. shown' = [Untold EXCEPT !.status = status % 256, !.out = @ \o out, !.err = @ \o err]
  BY DEF Exit
<1>3. /\ shown'.status = status % 256 /\ shown'.out = <<>> \o out /\ shown'.err = <<>> \o err
      /\ shown'.reply = Failed
  BY <1>2 DEF Untold
<1> QED
  BY <1>1, <1>3 DEF Exit, To

(* The diagnostics of the pipeline, on the error stream.                   *)
LEMMA DiagnosticsShown ==
  ASSUME Typed, ResultTrue
  PROVE  /\ stderrBuffer \in Seq(Nat)
         /\ stderrBuffer = <<>> <=> Broken = {}
         /\ Broken # {} => \E n \in 1..2 : stderrBuffer = FlattenSeq([i \in 1..n |-> Line(world.text)])
<1>1. CASE Broken = {}
  <2>1. stderrBuffer = <<>>
    BY <1>1, NothingFlat DEF ResultTrue
  <2>2. <<>> \in Seq(Nat)
    OBVIOUS
  <2> QED
    BY <1>1, <2>1, <2>2
<1>2. CASE Broken # {}
  <2>1. PICK f \in Faulty, n \in {1, 2} : result.diagnostics = Diagnostics(f, n)
    BY <1>2 DEF ResultTrue
  <2>2. [i \in DOMAIN result.diagnostics |-> Line(result.diagnostics[i].text)] = [i \in 1..n |-> Line(world.text)]
    BY <2>1 DEF Diagnostics
  <2>3. stderrBuffer = FlattenSeq([i \in 1..n |-> Line(world.text)])
    BY <2>2 DEF stderrBuffer
  <2>4. n \in 1..2
    OBVIOUS
  <2> QED
    BY <1>2, <2>3, <2>4, LinesFlat, TypedWorld
<1> QED
  BY <1>1, <1>2

-----------------------------------------------------------------------------
(* A command line that main refuses, and one that asks for help.           *)
LEMMA Refused ==
  ASSUME Typed, shown = Untold, executable' = NoFile, Exit(1, <<>>, Says), Misused
  PROVE  DriverTruth' /\ Misused' /\ stage' = "exited"
<1>1. /\ shown'.status = 1 % 256 /\ shown'.out = <<>> /\ shown'.err = Says /\ stage' = "exited" /\ world' = world
  <2>1. 1 \in Int /\ <<>> \in Seq(Messages) /\ Says \in Seq(Messages)
    BY MessageLists
  <2> QED
    BY <2>1, ExitShows
<1>2. 1 % 256 = 1 /\ ~AsksHelp /\ Says # <<>>
  BY MessageLists DEF Misused
<1>3. Misused' /\ ~AsksHelp'
  BY <1>1, <1>2, SameClaims
<1> QED
  BY <1>1, <1>2, <1>3 DEF DriverTruth

(* The same for help: usage and status 0.                                   *)
LEMMA Helped ==
  ASSUME Typed, shown = Untold, executable' = NoFile, Exit(0, <<>>, Says), AsksHelp
  PROVE  DriverTruth' /\ AsksHelp' /\ stage' = "exited"
<1>1. /\ shown'.status = 0 % 256 /\ shown'.out = <<>> /\ stage' = "exited" /\ world' = world
  <2>1. 0 \in Int /\ <<>> \in Seq(Messages) /\ Says \in Seq(Messages)
    BY MessageLists
  <2> QED
    BY <2>1, ExitShows
<1>2. 0 % 256 = 0 /\ ~Misused
  BY DEF Misused
<1>3. ~Misused' /\ AsksHelp'
  BY <1>1, <1>2, SameClaims
<1> QED
  BY <1>1, <1>2, <1>3 DEF DriverTruth

(* The first argument that asks for help or is wrong decides.              *)
LEMMA FirstDecides ==
  ASSUME Typed, NEW k, Consumed(k), args # <<>>
  PROVE  /\ k + 1 \in Helps => AsksHelp
         /\ k + 1 \in Wrong => Misused
<1>1. /\ k \in Nat /\ DOMAIN world.args = 1..Len(world.args) /\ Len(world.args) \in Nat
  BY TypedWorld, NextArgument
<1>2. Helps \in SUBSET Nat /\ Wrong \in SUBSET Nat
  BY <1>1 DEF Helps, Wrong
<1>3. \A i \in Helps \cup Wrong : i >= k + 1
  <2>1. \A i \in Helps \cup Wrong : i \in Nat /\ i >= 1 /\ ~(i \in 1..k)
    BY <1>1 DEF Consumed, Helps, Wrong
  <2> QED
    BY <1>1, <2>1
<1>4. ~(k + 1 \in Helps /\ k + 1 \in Wrong)
  BY DEF Helps, Wrong, Inputs
<1>5. ASSUME k + 1 \in Helps PROVE AsksHelp
  <2>1. \A j \in Helps : k + 1 <= j
    BY <1>1, <1>2, <1>3
  <2>2. Min(Helps) = k + 1
    BY <1>2, <1>5, <2>1, MinIs
  <2>3. \A i \in Wrong : i # k + 1 /\ i >= k + 1 /\ i \in Nat
    BY <1>2, <1>3, <1>4, <1>5
  <2>4. \A i \in Wrong : k + 1 < i
    BY <1>1, <2>3
  <2> QED
    BY <1>5, <2>2, <2>4 DEF AsksHelp
<1>6. ASSUME k + 1 \in Wrong PROVE Misused
  <2>1. ASSUME AsksHelp PROVE FALSE
    <3>1. Min(Helps) < k + 1 /\ Helps # {}
      BY <1>6, <2>1 DEF AsksHelp
    <3>2. PICK h \in Helps : \A j \in Helps : h <= j
      BY <1>2, <3>1, Least
    <3>3. Min(Helps) = h
      BY <1>2, <3>2, MinIs
    <3> QED
      BY <1>1, <1>2, <1>3, <3>1, <3>2, <3>3
  <2> QED
    BY <1>6, <2>1 DEF Misused
<1> QED
  BY <1>5, <1>6

-----------------------------------------------------------------------------
(* What there is to show at the next place, by the kind of place.          *)
LEMMA TellsExited ==
  ASSUME Holding', Typed', stage' = "exited", DriverTruth',
         (world.entry = "interpret" /\ ~AsksHelp /\ ~Misused => OutputTrue)'
  PROVE  Telling'
BY DEF Telling, Compiled, Invoked, Pipeline, Stages, AfterPipeline, DriverStages

(* A process that was killed tells nothing.                                 *)
LEMMA TellsKilled ==
  ASSUME Holding', Typed', stage' = "killed"
  PROVE  Telling'
BY DEF Telling, Compiled, Invoked, Pipeline, Stages, AfterPipeline, DriverStages

(* In the pipeline nothing has been shown so far.                           *)
LEMMA TellsPipeline ==
  ASSUME Holding', Typed', stage' \in Pipeline, (IsDriver => Parsed)',
         stage' # "returned" => Unbroken', stage' = "returned" => ResultTrue',
         executable' = NoFile, shown' = Untold, (~IsDriver => ~Fault("source buffer"))'
  PROVE  Telling'
<1>1. /\ stage' \notin {"args", "exited", "free result", "free source", "posted", "temp", "write", "clang", "remove", "reply", "source"}
      /\ stage' \in Stages \/ stage' = "returned"
      /\ stage' \in Stages => stage' # "returned" /\ stage' \notin AfterPipeline
  BY DEF Pipeline, Stages, AfterPipeline
<1>2. Untold' = Untold /\ NoFile' = NoFile /\ Failed' = Failed
  BY DEF Untold, NoFile, Failed, Nothing
<1>3. Compiled' /\ Invoked'
  BY <1>1, <1>2 DEF Compiled, Invoked
<1>4. stage' \in AfterPipeline => ResultTrue'
  BY <1>1
<1>5. stage' \in Stages => Unbroken'
  BY <1>1
<1>6. (stage \in DriverStages \ {"args", "exited", "killed"} /\ IsDriver => Parsed)'
  OBVIOUS
<1> QED
  BY <1>1, <1>3, <1>4, <1>5, <1>6 DEF Telling

(* On the way to the answer it does not change any more.                    *)
LEMMA TellsAnswer ==
  ASSUME Holding', Typed', stage' \in {"free result", "free source", "posted"}, WorkerTruth',
         (shown.ok => OutputTrue)'
  PROVE  Telling'
<1>1. /\ stage' \notin {"args", "exited", "temp", "write", "clang", "remove", "reply", "source"}
      /\ stage' \notin Pipeline /\ stage' \notin Stages /\ stage' \notin AfterPipeline /\ stage' \notin DriverStages
  BY DEF Pipeline, Stages, AfterPipeline, DriverStages
<1>2. Compiled' /\ Invoked'
  BY <1>1 DEF Compiled, Invoked
<1> QED
  BY <1>1, <1>2 DEF Telling

(* What was parsed and what the pipeline returned stay what they are.      *)
LEMMA SameParsed ==
  ASSUME world' = world, opts' = opts, Parsed
  PROVE  Parsed'
<1>1. Inputs' = Inputs /\ Wrong' = Wrong /\ Helps' = Helps /\ (EmitsIR' <=> EmitsIR) /\ Target' = Target
  BY SameWorld
<1> QED
  BY <1>1 DEF Parsed

(* The result stays true.                                                   *)
LEMMA SameResult ==
  ASSUME world' = world, result' = result, ResultTrue
  PROVE  ResultTrue'
<1>1. Broken' = Broken /\ (Compiles' <=> Compiles)
  BY SameClaims
<1>2. \A f, n : Diagnostics(f, n)' = Diagnostics(f, n)
  BY DEF Diagnostics
<1>3. Results' = Results /\ Faulty' = Faulty
  BY DEF Results, Diagnosis, Faulty
<1> QED
  BY <1>1, <1>2, <1>3 DEF ResultTrue

(* What was shown stays true.                                               *)
LEMMA SameTruth ==
  ASSUME world' = world, shown' = shown
  PROVE  /\ WorkerTruth => WorkerTruth'
         /\ OutputTrue => OutputTrue'
<1>1. InWay' = InWay /\ InModule' = InModule
  BY SameClaims
<1>2. WorkerTruth' <=> WorkerTruth
  BY <1>1 DEF WorkerTruth
<1>3. OutputTrue' <=> OutputTrue
  BY <1>1 DEF OutputTrue
<1> QED
  BY <1>2, <1>3

-----------------------------------------------------------------------------
(* Before anything has happened there is nothing untrue to tell.           *)
LEMMA TellingInit == Init => Telling
<1> SUFFICES ASSUME Init PROVE Telling
  OBVIOUS
<1>1. Holding
  BY HoldingInit
<1>2. Typed
  BY DEF Init, Typed, Options
<1>3. stage \in {"args", "source"} /\ (stage = "args" <=> IsDriver) /\ shown = Untold /\ executable = NoFile
  BY DEF Init, Untold
<1>4. ASSUME stage = "args" PROVE Consumed(0)
  <2> DEFINE a == world.args
  <2>1. a \in Seq(STRING) /\ args = a /\ Len(a) \in Nat
    BY <1>2, TypedWorld DEF Init
  <2>2. SubSeq(a, 0 + 1, Len(a)) = a
    <3>1. \A x \in Seq(STRING) : SubSeq(x, 0 + 1, Len(x)) = x
      OBVIOUS
    <3> QED
      BY <2>1, <3>1
  <2>3. 0 \in 0..Len(world.args) /\ 1..0 = {} /\ 0 + 1 = 1
    BY <2>1
  <2>4. ~opts.emitIROnly /\ ~opts.sawInput /\ opts.outputPath = "a.out"
    BY DEF Init
  <2> QED
    BY <2>1, <2>2, <2>3, <2>4, FirstIsNoValue DEF Consumed
<1>5. /\ stage \notin {"exited", "killed", "free result", "free source", "posted"}
      /\ stage \notin Stages /\ stage \notin Pipeline /\ stage \notin AfterPipeline
      /\ stage \in DriverStages => stage = "args"
  BY <1>3 DEF Stages, Pipeline, AfterPipeline, DriverStages
<1>6. Compiled /\ Invoked /\ result = Failed
  BY <1>3, <1>5 DEF Compiled, Invoked, AfterPipeline, Init
<1> QED
  BY <1>1, <1>2, <1>3, <1>4, <1>5, <1>6 DEF Telling

(* Where the entry point stands while the command line is parsed.          *)
LEMMA AtArgs ==
  ASSUME Telling, stage = "args"
  PROVE  /\ Holding /\ Typed /\ IsDriver /\ shown = Untold /\ executable = NoFile
         /\ \E k : Consumed(k)
<1>1. Holding /\ Typed /\ Compiled /\ \E k : Consumed(k)
  BY DEF Telling
<1>2. IsDriver
  BY <1>1 DEF Holding, Placed, WorkerStages, Pipeline, Stages
<1> QED
  BY <1>1, <1>2 DEF Compiled

(* main.cpp:36-76: the options are those of the arguments parsed.           *)
LEMMA ArgTells ==
  ASSUME Telling, ArgHelp \/ ArgOutput \/ ArgEmitIR \/ ArgUnknown \/ ArgInput \/ ArgsDone
  PROVE  Telling'
<1>1. stage = "args" /\ world' = world /\ executable' = executable /\ stage' \in {"args", "open", "exited"}
  BY DEF ArgHelp, ArgOutput, ArgEmitIR, ArgUnknown, ArgInput, ArgsDone, More, InArgs, At, Files,
         UsageError, Exit, GoOn, To
<1>2. Holding /\ Typed /\ IsDriver /\ shown = Untold /\ executable' = NoFile
  BY <1>1, AtArgs
<1>3. PICK k : Consumed(k)
  BY <1>1, AtArgs
<1>4. Holding'
  BY <1>2, ArgStep
<1>5. CASE stage' = "exited"
  <2>1. Typed'
    BY <1>1, <1>2, <1>5 DEF Typed
  <2>2. /\ k \in Nat
        /\ args # <<>> =>
             /\ k + 1 \in 1..Len(world.args) /\ Head(args) = world.args[k + 1] /\ DOMAIN world.args = 1..Len(world.args)
             /\ Len(world.args) \in Nat /\ Len(args) = Len(world.args) - k
        /\ ~IsValue(k + 1)
    <3>1. k \in Nat /\ ~IsValue(k + 1)
      BY <1>2, <1>3, TypedWorld DEF Consumed
    <3>2. ASSUME args # <<>> 
          PROVE  /\ k + 1 \in 1..Len(world.args) /\ Head(args) = world.args[k + 1]
                 /\ DOMAIN world.args = 1..Len(world.args)
                 /\ Len(world.args) \in Nat /\ Len(args) = Len(world.args) - k
      BY <1>2, <1>3, <3>2, TypedWorld, NextArgument
    <3> QED
      BY <3>1, <3>2
  <2>3. CASE ArgHelp
    <3>1. args # <<>> /\ Head(args) \in {"-h", "--help"} /\ Exit(0, <<>>, Says)
      BY <2>3 DEF ArgHelp, More
    <3>2. k + 1 \in Helps
      BY <2>2, <3>1, EntryAssumption DEF Helps, Option
    <3>3. AsksHelp
      BY <1>2, <1>3, <3>1, <3>2, FirstDecides
    <3>4. DriverTruth' /\ AsksHelp'
      BY <1>2, <3>1, <3>3, Helped
    <3> QED
      BY <1>4, <1>5, <2>1, <3>4, TellsExited
  <2>4. CASE ArgOutput \/ ArgEmitIR \/ ArgUnknown \/ ArgInput \/ ArgsDone
    <3>1. Exit(1, <<>>, Says)
      BY <1>5, <2>4 DEF ArgOutput, ArgEmitIR, ArgUnknown, ArgInput, ArgsDone, GoOn, To, UsageError
    <3>2. Misused
      <4>1. CASE ArgOutput
        <5>1. args # <<>> /\ Head(args) = "-o" /\ Len(args) = 1
          BY <1>5, <4>1 DEF ArgOutput, GoOn, To, More
        <5>2. k + 1 = Len(world.args)
          BY <2>2, <5>1
        <5>3. k + 1 \in Wrong
          BY <2>2, <5>1, <5>2, EntryAssumption DEF Wrong, Option
        <5> QED
          BY <1>2, <1>3, <5>1, <5>3, FirstDecides
      <4>2. CASE ArgEmitIR
        <5>1. args # <<>> /\ Head(args) = "--emit-ir" /\ world.entry = "interpret"
          BY <1>5, <4>2 DEF ArgEmitIR, GoOn, To, More
        <5>2. k + 1 \in Wrong
          BY <2>2, <5>1, EntryAssumption DEF Wrong, Option
        <5> QED
          BY <1>2, <1>3, <5>1, <5>2, FirstDecides
      <4>3. CASE ArgUnknown
        <5>1. args # <<>> /\ Head(args) \in Dashed \ {"-h", "--help", "-o", "--emit-ir"}
          BY <4>3 DEF ArgUnknown, More
        <5>2. k + 1 \in Wrong
          BY <2>2, <5>1 DEF Wrong, Option
        <5> QED
          BY <1>2, <1>3, <5>1, <5>2, FirstDecides
      <4>4. CASE ArgInput
        <5>1. args # <<>> /\ Head(args) \notin Dashed /\ opts.sawInput
          BY <1>5, <4>4 DEF ArgInput, GoOn, To
        <5>2. k + 1 \in Inputs
          BY <2>2, <5>1 DEF Inputs, Option
        <5>3. PICK i \in 1..k : i \in Inputs
          BY <1>3, <5>1 DEF Consumed
        <5>4. i < k + 1
          BY <2>2
        <5>5. k + 1 \in Wrong
          BY <2>2, <5>1, <5>2, <5>3, <5>4 DEF Wrong
        <5> QED
          BY <1>2, <1>3, <5>1, <5>5, FirstDecides
      <4>5. CASE ArgsDone
        <5>1. args = <<>> /\ ~opts.sawInput
          BY <1>5, <4>5 DEF ArgsDone, To
        <5>2. Helps = {} /\ Inputs = {}
          BY <1>1, <1>2, <1>3, <5>1, AllParsed
        <5> QED
          BY <5>2 DEF Misused, AsksHelp
      <4> QED
        BY <2>4, <4>1, <4>2, <4>3, <4>4, <4>5
    <3>3. DriverTruth' /\ Misused'
      BY <1>2, <3>1, <3>2, Refused
    <3> QED
      BY <1>4, <1>5, <2>1, <3>3, TellsExited
  <2> QED
    BY <2>3, <2>4
<1>6. CASE stage' = "args"
  <2>1. ArgOutput \/ ArgEmitIR \/ ArgInput
    BY <1>6 DEF ArgHelp, ArgUnknown, ArgsDone, UsageError, Exit, To
  <2>2. (\E j : Consumed(j)') /\ opts' \in Options
    BY <1>1, <1>2, <1>3, <1>6, <2>1, GoesOn
  <2>3. Typed'
    BY <1>1, <1>2, <2>2 DEF Typed
  <2>4. shown' = shown
    BY <1>6, <2>1 DEF ArgOutput, ArgEmitIR, ArgInput, UsageError, Exit, To, GoOn
  <2>5. /\ stage' \notin Stages /\ stage' \notin AfterPipeline /\ stage' \notin Pipeline
        /\ stage' \notin DriverStages \ {"args", "exited", "killed"} /\ stage' # "source"
    BY <1>6 DEF Stages, Pipeline, AfterPipeline, DriverStages
  <2>6. Untold' = Untold /\ NoFile' = NoFile /\ Failed' = Failed
    BY DEF Untold, NoFile, Failed, Nothing
  <2>7. result' = result /\ result = Failed
    BY <1>1, <2>1 DEF ArgOutput, ArgEmitIR, ArgInput, InArgs, More, Telling
  <2>8. Compiled' /\ Invoked' /\ result' = Failed'
    BY <1>1, <1>2, <1>6, <2>4, <2>5, <2>6, <2>7 DEF Compiled, Invoked
  <2> QED
    BY <1>4, <1>6, <2>2, <2>3, <2>5, <2>8 DEF Telling
<1>7. CASE stage' = "open"
  <2>1. ArgsDone /\ args = <<>> /\ opts.sawInput /\ UNCHANGED <<opts, result, shown>>
    BY <1>7 DEF ArgHelp, ArgOutput, ArgEmitIR, ArgUnknown, ArgInput, ArgsDone, UsageError, Exit, To, GoOn, InArgs
  <2>2. Parsed
    BY <1>1, <1>2, <1>3, <2>1, AllParsed
  <2>3. Parsed' /\ Typed' /\ IsDriver'
    BY <1>1, <1>2, <1>7, <2>1, <2>2, SameParsed, SameClaims DEF Typed
  <2>4. result = Failed
    BY <1>1 DEF Telling
  <2> QED
    BY <1>2, <1>4, <1>7, <2>1, <2>3, <2>4, TellsPipeline DEF Unbroken, Pipeline, Stages
<1> QED
  BY <1>1, <1>5, <1>6, <1>7

-----------------------------------------------------------------------------
(* Where the pipeline stands before a stage of it.                         *)
LEMMA AtStage ==
  ASSUME Telling, stage \in Stages
  PROVE  /\ Holding /\ Typed /\ Unbroken /\ shown = Untold /\ executable = NoFile
         /\ IsDriver => Parsed
         /\ ~IsDriver => ~Fault("source buffer")
<1>1. /\ stage \in Pipeline
      /\ stage \in DriverStages \ {"args", "exited", "killed"}
  BY DEF Pipeline, Stages, DriverStages
<1> QED
  BY <1>1 DEF Telling, Compiled, Invoked

(* A fault of the program, of its file or of the code generator ends the   *)
(* pipeline with its diagnostics.                                          *)
LEMMA Diagnosed ==
  ASSUME Typed, world' = world, NEW f \in Faulty \ {"runtime"}, f \in Broken, NEW n \in {1, 2},
         result = Failed, Diagnose(f, n)
  PROVE  ResultTrue' /\ stage' = "returned"
<1>1. Diagnostics(f, n) \in Seq(Diagnosis) /\ <<>> \in Seq(Diagnosis)
  <2>1. world.text \in Seq(Nat)
    BY TypedWorld
  <2>2. n \in Nat
    OBVIOUS
  <2>3. [stage |-> f, text |-> world.text] \in Diagnosis
    BY <2>1 DEF Diagnosis
  <2> QED
    BY <2>2, <2>3 DEF Diagnostics
<1>2. <<>> \o Diagnostics(f, n) = Diagnostics(f, n)
  BY <1>1, ConcatEmptySeq
<1>3. result' = [Failed EXCEPT !.diagnostics = <<>> \o Diagnostics(f, n)]
  BY DEF Diagnose, Failed
<1>4. result' = [success |-> FALSE, exitCode |-> 1, diagnostics |-> Diagnostics(f, n), ast |-> Nothing,
                 ir |-> FALSE, stdout |-> Nothing]
  BY <1>2, <1>3 DEF Failed
<1>5. Broken' = Broken /\ (Compiles' <=> Compiles) /\ Diagnostics(f, n)' = Diagnostics(f, n)
  BY SameClaims DEF Diagnostics
<1>6. ~(Broken \subseteq {"runtime"}) /\ f \in Faulty
  OBVIOUS
<1>7. Nothing = <<>> /\ Nothing \in Seq(Nat) /\ 1 \in Int
  BY DEF Nothing
<1>8. result' \in Results
  BY <1>1, <1>4, <1>7 DEF Results
<1>9. \E g \in Faulty : \E m \in {1, 2} : result'.diagnostics = Diagnostics(g, m)'
  BY <1>4, <1>5, <1>6
<1>10. Results' = Results /\ Faulty' = Faulty /\ stage' = "returned"
  BY DEF Results, Diagnosis, Faulty, Diagnose, To
<1>11. f \in Broken' /\ world'.entry = world.entry
  BY <1>5
<1> QED
  BY <1>4, <1>5, <1>6, <1>7, <1>8, <1>9, <1>10, <1>11 DEF ResultTrue

(* compiler.cpp: the result says which faults there were.                   *)
LEMMA PipelineTells ==
  ASSUME Telling,
         OpenInput \/ ParseSource \/ MergeImports \/ CheckTypes \/ DumpAst \/ Generate \/ Interpret
  PROVE  Telling'
<1>1. /\ stage \in Stages /\ stage' \in Pipeline
      /\ UNCHANGED <<world, opts, executable, shown>>
  BY DEF OpenInput, ParseSource, MergeImports, CheckTypes, DumpAst, Generate, Interpret, Stage,
         InPipeline, Diagnose, At, To, Files, Stages, Pipeline
<1>2. Holding /\ Typed /\ Unbroken /\ shown = Untold /\ executable = NoFile
  BY <1>1, AtStage
<1>3. Holding'
  BY <1>2, PipelineStep
<1>4. Typed'
  BY <1>1, <1>2 DEF Typed, Pipeline, Stages
<1>5. /\ Broken' = Broken /\ (IsDriver' <=> IsDriver) /\ (Compiles' <=> Compiles) /\ \A f : Fault(f)' <=> Fault(f)
  BY <1>1, SameClaims
<1>6. (IsDriver => Parsed)' /\ (~IsDriver => ~Fault("source buffer"))'
  BY <1>1, <1>5, AtStage, SameParsed
<1>7. (stage' # "returned" /\ Unbroken') \/ (stage' = "returned" /\ ResultTrue')
  <2>1. ASSUME NEW f \in {"open", "parse", "import"}, NEW next \in Stages, Stage(stage, f, next),
               stage # "generate", f = "open" => IsDriver
        PROVE  \/ Fault(f) /\ stage' = "returned" /\ ResultTrue'
               \/ ~Fault(f) /\ stage' = next /\ stage' # "returned" /\ result' = Failed
    <3>1. result = Failed
      BY <1>1, <1>2, <2>1 DEF Unbroken
    <3>2. CASE Fault(f) /\ Diagnose(f, 1)
      <4>1. f \in Broken /\ f \in Faulty \ {"runtime"}
        BY <2>1, <3>2 DEF Broken, Faulty, Fault
      <4> QED
        BY <1>1, <1>2, <3>1, <3>2, <4>1, Diagnosed
    <3>3. CASE ~Fault(f) /\ To(next) /\ UNCHANGED result
      BY <3>1, <3>3 DEF To, Stages
    <3> QED
      BY <2>1, <3>2, <3>3 DEF Stage
  <2>2. CASE OpenInput
    <3>1. stage = "open" /\ Stage(stage, "open", "parse") /\ IsDriver
      BY <1>2, <2>2 DEF OpenInput, Stage, InPipeline, At, Holding, Placed, WorkerStages, Pipeline
    <3>2. "parse" \in Stages
      BY DEF Stages
    <3>3. \/ Fault("open") /\ stage' = "returned" /\ ResultTrue'
          \/ ~Fault("open") /\ stage' = "parse" /\ stage' # "returned" /\ result' = Failed
      BY <2>1, <3>1, <3>2
    <3> QED
      BY <1>5, <3>3 DEF Unbroken, Stages
  <2>3. CASE ParseSource
    <3>1. stage = "parse" /\ Stage(stage, "parse", "imports") /\ "imports" \in Stages
      BY <2>3 DEF ParseSource, Stage, InPipeline, At, Stages
    <3>2. \/ Fault("parse") /\ stage' = "returned" /\ ResultTrue'
          \/ ~Fault("parse") /\ stage' = "imports" /\ stage' # "returned" /\ result' = Failed
      BY <2>1, <3>1
    <3> QED
      BY <1>2, <1>5, <3>1, <3>2 DEF Unbroken, Stages
  <2>4. CASE MergeImports
    <3>1. stage = "imports" /\ Stage(stage, "import", "check") /\ "check" \in Stages
      BY <2>4 DEF MergeImports, Stage, InPipeline, At, Stages
    <3>2. \/ Fault("import") /\ stage' = "returned" /\ ResultTrue'
          \/ ~Fault("import") /\ stage' = "check" /\ stage' # "returned" /\ result' = Failed
      BY <2>1, <3>1
    <3> QED
      BY <1>2, <1>5, <3>1, <3>2 DEF Unbroken, Stages
  <2>5. CASE CheckTypes
    <3>1. stage = "check" /\ result = Failed
      BY <1>2, <2>5 DEF CheckTypes, InPipeline, At, Unbroken, Stages
    <3>2. CASE Fault("types") /\ \E n \in 1..2 : Diagnose("types", n)
      <4>1. "types" \in Broken /\ "types" \in Faulty \ {"runtime"}
        BY <3>2 DEF Broken, Faulty, Fault
      <4>2. PICK n \in 1..2 : Diagnose("types", n)
        BY <3>2
      <4>3. n \in {1, 2}
        OBVIOUS
      <4> QED
        BY <1>1, <1>2, <3>1, <4>1, <4>2, <4>3, Diagnosed
    <3>3. CASE ~Fault("types") /\ To(IF Compiles THEN "dump" ELSE "interpret") /\ UNCHANGED result
      BY <1>2, <1>5, <3>1, <3>3 DEF Unbroken, Stages, To
    <3> QED
      BY <2>5, <3>2, <3>3 DEF CheckTypes
  <2>6. CASE DumpAst
    <3>1. stage = "dump" /\ result = Failed /\ stage' = "generate"
          /\ result' = IF world.entry = "parse" THEN [result EXCEPT !.ast = world.text] ELSE result
      BY <1>2, <2>6 DEF DumpAst, InPipeline, At, Unbroken, Stages, To
    <3>2. Failed' = Failed
      BY DEF Failed, Nothing
    <3> QED
      BY <1>1, <1>2, <1>5, <3>1, <3>2 DEF Unbroken, Stages
  <2>7. CASE Generate
    <3>1. /\ stage = "generate" /\ stage' = "returned"
          /\ result = IF world.entry = "parse" THEN [Failed EXCEPT !.ast = world.text] ELSE Failed
          /\ Compiles /\ ~Fault("parse") /\ ~Fault("import") /\ ~Fault("types") /\ (IsDriver => ~Fault("open"))
      BY <1>1, <1>2, <2>7 DEF Generate, InPipeline, At, Unbroken, Stages, To, Diagnose
    <3>2. CASE world.entry = "compile" /\ Fault("codegen") /\ Diagnose("codegen", 1)
      <4>1. "codegen" \in Broken /\ "codegen" \in Faulty \ {"runtime"} /\ result = Failed
        BY <3>1, <3>2 DEF Broken, Faulty, Fault
      <4> QED
        BY <1>1, <1>2, <3>2, <4>1, Diagnosed
    <3>3. CASE /\ world.entry = "parse" \/ ~Fault("codegen")
               /\ result' = [result EXCEPT !.ir = world.entry = "compile", !.success = TRUE]
      <4>1. Broken = {}
        BY <3>1, <3>3 DEF Broken, Fault, Compiles
      <4>2. <<>> \in Seq(Nat) /\ <<>> \in Seq(Diagnosis) /\ 1 \in Int /\ world.text \in Seq(Nat)
        BY <1>2, TypedWorld
      <4>3. result' = [success |-> TRUE, exitCode |-> 1, diagnostics |-> <<>>,
                       ast |-> IF world.entry = "parse" THEN world.text ELSE <<>>,
                       ir |-> world.entry = "compile", stdout |-> <<>>]
        BY <3>1, <3>3 DEF Failed, Nothing
      <4>4. result' \in Results
        BY <4>2, <4>3 DEF Results
      <4>5. Results' = Results /\ Faulty' = Faulty
        BY DEF Results, Diagnosis, Faulty
      <4> HIDE DEF Results, Faulty
      <4> QED
        BY <1>1, <1>5, <3>1, <4>1, <4>3, <4>4, <4>5 DEF ResultTrue
    <3> QED
      BY <2>7, <3>2, <3>3 DEF Generate
  <2>8. CASE Interpret
    <3>1. /\ stage = "interpret" /\ stage' = "returned" /\ result = Failed
          /\ ~Compiles /\ ~Fault("parse") /\ ~Fault("import") /\ ~Fault("types") /\ (IsDriver => ~Fault("open"))
      BY <1>1, <1>2, <2>8 DEF Interpret, InPipeline, At, Unbroken, Stages, To
    <3>2. <<>> \in Seq(Nat) /\ <<>> \in Seq(Diagnosis) /\ 1 \in Int /\ world.text \in Seq(Nat) /\ world.exit \in Int
      BY <1>2, TypedWorld
    <3>3. Results' = Results /\ Faulty' = Faulty
      BY DEF Results, Diagnosis, Faulty
    <3>4. CASE /\ Fault("runtime")
               /\ result' = [[result EXCEPT !.stdout = world.text] EXCEPT !.diagnostics = @ \o Diagnostics("runtime", 1)]
      <4>1. Broken = {"runtime"}
        BY <3>1, <3>4 DEF Broken, Fault, Compiles
      <4>2. Diagnostics("runtime", 1) \in Seq(Diagnosis)
        <5>1. [stage |-> "runtime", text |-> world.text] \in Diagnosis
          BY <3>2 DEF Diagnosis, Faulty
        <5>2. 1 \in Nat
          OBVIOUS
        <5> QED
          BY <5>1, <5>2 DEF Diagnostics
      <4>3. <<>> \o Diagnostics("runtime", 1) = Diagnostics("runtime", 1)
        BY <4>2, ConcatEmptySeq
      <4>4. result' = [success |-> FALSE, exitCode |-> 1, diagnostics |-> <<>> \o Diagnostics("runtime", 1),
                       ast |-> <<>>, ir |-> FALSE, stdout |-> world.text]
        BY <3>1, <3>4 DEF Failed, Nothing
      <4>5. result' \in Results
        BY <3>2, <4>2, <4>3, <4>4 DEF Results
      <4>6. "runtime" \in Faulty /\ Diagnostics("runtime", 1)' = Diagnostics("runtime", 1)
        BY <1>1 DEF Faulty, Diagnostics
      <4>7. \E g \in Faulty : \E m \in {1, 2} : result'.diagnostics = Diagnostics(g, m)'
        BY <4>3, <4>4, <4>6
      <4> HIDE DEF Results, Faulty
      <4> QED
        BY <1>1, <1>5, <3>1, <3>3, <4>1, <4>4, <4>5, <4>7 DEF ResultTrue
    <3>5. CASE /\ ~Fault("runtime")
               /\ result' = [[result EXCEPT !.stdout = world.text] EXCEPT !.exitCode = world.exit, !.success = TRUE]
      <4>1. Broken = {}
        BY <3>1, <3>5 DEF Broken, Fault, Compiles
      <4>2. result' = [success |-> TRUE, exitCode |-> world.exit, diagnostics |-> <<>>,
                       ast |-> <<>>, ir |-> FALSE, stdout |-> world.text]
        BY <3>1, <3>5 DEF Failed, Nothing
      <4>3. result' \in Results
        BY <3>2, <4>2 DEF Results
      <4>4. world.entry # "parse"
        BY <3>1 DEF Compiles
      <4> HIDE DEF Results, Faulty
      <4> QED
        BY <1>1, <1>5, <3>1, <3>3, <4>1, <4>2, <4>3, <4>4 DEF ResultTrue
    <3> QED
      BY <2>8, <3>4, <3>5 DEF Interpret
  <2> QED
    BY <2>2, <2>3, <2>4, <2>5, <2>6, <2>7, <2>8
<1>8. executable' = NoFile /\ shown' = Untold
  BY <1>1, <1>2
<1> QED
  BY <1>1, <1>3, <1>4, <1>6, <1>7, <1>8, TellsPipeline

-----------------------------------------------------------------------------
(* main with the result of the pipeline: it reports it and returns, or     *)
(* goes on to the executable.                                              *)
LEMMA NeitherHelpNorMisuse ==
  ASSUME Parsed, world' = world
  PROVE  ~AsksHelp /\ ~Misused /\ ~AsksHelp' /\ ~Misused'
<1>1. ~AsksHelp /\ ~Misused
  BY DEF Parsed, AsksHelp, Misused
<1> QED
  BY <1>1, SameClaims

(* Between the pipeline and the exit of main.                               *)
LEMMA TellsMain ==
  ASSUME Telling, Holding', world' = world, opts' = opts, result' = result, IsDriver, Parsed, ResultTrue,
         stage \in {"returned", "temp", "write", "clang"}, stage' \in {"temp", "write", "clang", "remove"},
         Compiled'
  PROVE  Telling'
<1>1. /\ stage' \notin {"args", "exited", "free result", "free source", "posted", "source", "reply"}
      /\ stage' \notin Stages /\ stage' \notin Pipeline
  BY DEF Stages, Pipeline
<1>2. Typed'
  BY <1>1 DEF Telling, Typed
<1>3. ResultTrue' /\ Parsed' /\ IsDriver'
  BY SameResult, SameParsed, SameClaims
<1>4. Invoked'
  BY <1>3 DEF Invoked
<1> QED
  BY <1>1, <1>2, <1>3, <1>4 DEF Telling

(* runFile: exit status, output and diagnostics are those of the result.    *)
LEMMA ReturnRunTells ==
  ASSUME Telling, ReturnRun
  PROVE  Telling'
<1>1. /\ stage = "returned" /\ world.entry = "interpret" /\ IsDriver /\ UNCHANGED <<world, executable>>
      /\ Exit(IF result.success THEN result.exitCode ELSE 1,
              Buffer("program", result.stdout), Buffer("pipeline", stderrBuffer))
  BY DEF ReturnRun, InMain, At, IsDriver, Exit, To, Files
<1>2. /\ Typed /\ Holding /\ Parsed /\ ResultTrue /\ shown = Untold
  BY <1>1 DEF Telling, Compiled, Pipeline, Stages, AfterPipeline, DriverStages
<1>3. Holding'
  BY <1>2, MainStep
<1>4. result.success \in BOOLEAN /\ result.exitCode \in Int /\ result.stdout \in Seq(Nat) /\ 1 \in Int
  BY <1>2 DEF ResultTrue, Results
<1>5. /\ stderrBuffer \in Seq(Nat) /\ (stderrBuffer = <<>> <=> Broken = {})
      /\ Broken # {} => \E n \in 1..2 : stderrBuffer = FlattenSeq([i \in 1..n |-> Line(world.text)])
  BY <1>2, DiagnosticsShown
<1>6. "program" \in Sources /\ "pipeline" \in Sources
  BY DEF Sources
<1>7. /\ Buffer("program", result.stdout) \in Seq(Messages) /\ Buffer("pipeline", stderrBuffer) \in Seq(Messages)
      /\ Buffer("pipeline", stderrBuffer) = <<>> <=> stderrBuffer = <<>>
      /\ stderrBuffer # <<>> => Buffer("pipeline", stderrBuffer) = <<Message("pipeline", stderrBuffer)>>
  BY <1>4, <1>5, <1>6, MessageLists
<1> DEFINE status == IF result.success THEN result.exitCode ELSE 1
<1>8. status \in Int
  BY <1>4
<1>9. /\ shown'.status = status % 256 /\ shown'.out = Buffer("program", result.stdout)
      /\ shown'.err = Buffer("pipeline", stderrBuffer) /\ stage' = "exited"
  <2> HIDE DEF status
  <2>1. Exit(status, Buffer("program", result.stdout), Buffer("pipeline", stderrBuffer))
    BY <1>1 DEF status
  <2> QED
    BY <1>2, <1>7, <1>8, <2>1, ExitShows
<1>10. Typed'
  BY <1>1, <1>2, <1>9 DEF Typed
<1>11. ~AsksHelp' /\ ~Misused'
  BY <1>1, <1>2, NeitherHelpNorMisuse
<1>12. InWay = Broken /\ InWay' = InWay /\ ~Compiles
  BY <1>1, <1>2, InWayIs, SameClaims DEF Compiles
<1>13. status % 256 = IF InWay = {} THEN world.exit % 256 ELSE 1
  <2>1. 1 % 256 = 1
    OBVIOUS
  <2>2. CASE Broken = {}
    BY <1>4, <1>2, <1>12, <2>2 DEF ResultTrue
  <2>3. CASE Broken # {}
    BY <1>4, <1>2, <1>12, <2>1, <2>3 DEF ResultTrue
  <2> QED
    BY <2>2, <2>3
<1>14. DriverTruth'
  <2> HIDE DEF status
  <2> QED
    BY <1>1, <1>5, <1>7, <1>9, <1>11, <1>12, <1>13 DEF DriverTruth
<1>15. OutputTrue'
  <2>1. shown'.out = IF InWay \subseteq {"runtime"} THEN Buffer("program", world.text) ELSE <<>>
    BY <1>2, <1>9, <1>12 DEF ResultTrue, Buffer, Nothing
  <2>2. shown'.err # <<>> =>
          \E n \in 1..2 : shown'.err = <<Message("pipeline", FlattenSeq([i \in 1..n |-> Line(world.text)]))>>
    BY <1>5, <1>7, <1>9
  <2> QED
    BY <1>1, <1>12, <2>1, <2>2 DEF OutputTrue
<1> QED
  BY <1>3, <1>9, <1>10, <1>14, <1>15, TellsExited

(* compileFile: failed, or IR to print, or on to clang.                     *)
LEMMA ReturnCompiledTells ==
  ASSUME Telling, ReturnCompiled
  PROVE  Telling'
<1>1. /\ stage = "returned" /\ world.entry = "compile" /\ IsDriver
      /\ UNCHANGED <<world, opts, result, temp, executable, clangOK>>
  BY DEF ReturnCompiled, InMain, At, IsDriver, Exit, To, Files
<1>2. /\ Typed /\ Holding /\ Parsed /\ ResultTrue /\ shown = Untold /\ executable = NoFile
  BY <1>1 DEF Telling, Compiled, Pipeline, Stages, AfterPipeline, DriverStages
<1>3. Holding'
  BY <1>2, MainStep
<1>4. ~AsksHelp' /\ ~Misused' /\ InWay' = InWay
  BY <1>1, <1>2, NeitherHelpNorMisuse, SameClaims
<1>5. InWay = Broken \cup IF EmitsIR THEN {} ELSE world.faults \cap {"temp", "disk", "no clang", "clang"}
  BY <1>1, <1>2, InWayIs
<1>6. 1 \in Int /\ 0 \in Int /\ 1 % 256 = 1 /\ 0 % 256 = 0 /\ NoFile' = NoFile
  BY DEF NoFile
<1>7. CASE ~result.success /\ Exit(1, <<>>, Buffer("pipeline", stderrBuffer))
  <2>1. Broken # {}
    BY <1>2, <1>7 DEF ResultTrue
  <2>2. stderrBuffer \in Seq(Nat) /\ stderrBuffer # <<>> /\ "pipeline" \in Sources
    BY <1>2, <2>1, DiagnosticsShown DEF Sources
  <2>3. /\ Buffer("pipeline", stderrBuffer) \in Seq(Messages) /\ <<>> \in Seq(Messages)
        /\ Buffer("pipeline", stderrBuffer) # <<>>
    BY <2>2, MessageLists
  <2>4. /\ shown'.status = 1 % 256 /\ shown'.out = <<>> /\ shown'.err = Buffer("pipeline", stderrBuffer)
        /\ stage' = "exited"
    BY <1>2, <1>6, <1>7, <2>3, ExitShows
  <2>5. Typed'
    BY <1>1, <1>2, <2>4 DEF Typed
  <2>6. InWay # {}
    BY <1>5, <2>1
  <2>7. DriverTruth'
    BY <1>1, <1>2, <1>4, <1>6, <2>3, <2>4, <2>6 DEF DriverTruth
  <2> QED
    BY <1>1, <1>3, <2>4, <2>5, <2>7, TellsExited
<1>8. CASE result.success /\ opts.emitIROnly /\ Exit(0, <<Message("ir", Nothing)>>, <<>>)
  <2>1. Broken = {} /\ EmitsIR
    BY <1>2, <1>8 DEF ResultTrue, Parsed
  <2>2. <<Message("ir", Nothing)>> \in Seq(Messages) /\ <<>> \in Seq(Messages)
    <3>1. Nothing \in Seq(Nat) /\ "ir" \in Sources
      BY DEF Nothing, Sources
    <3> QED
      BY <3>1, MessageLists
  <2>3. <<Message("ir", Nothing)>> # <<>>
    OBVIOUS
  <2>4. /\ shown'.status = 0 % 256 /\ shown'.out = <<Message("ir", Nothing)>> /\ stage' = "exited"
    BY <1>2, <1>6, <1>8, <2>2, ExitShows
  <2>5. Typed'
    BY <1>1, <1>2, <2>4 DEF Typed
  <2>6. InWay = {} /\ EmitsIR'
    BY <1>1, <1>5, <2>1, SameWorld
  <2>7. DriverTruth'
    BY <1>1, <1>2, <1>4, <1>6, <2>3, <2>4, <2>6 DEF DriverTruth
  <2> QED
    BY <1>1, <1>3, <2>4, <2>5, <2>7, TellsExited
<1>9. CASE result.success /\ ~opts.emitIROnly /\ To("temp") /\ UNCHANGED shown
  <2>1. Broken = {}
    BY <1>2, <1>9 DEF ResultTrue
  <2>2. stage' = "temp" /\ Broken' = Broken /\ Untold' = Untold
    BY <1>1, <1>9, SameClaims DEF To, Untold, Failed, Nothing
  <2>3. Compiled'
    BY <1>1, <1>2, <1>6, <1>9, <2>1, <2>2 DEF Compiled, Pipeline, Stages
  <2> QED
    BY <1>1, <1>2, <1>3, <2>2, <2>3, TellsMain
<1> QED
  BY <1>7, <1>8, <1>9 DEF ReturnCompiled

-----------------------------------------------------------------------------
(* main on the way to the executable.                                      *)
LEMMA AtMain ==
  ASSUME Telling, stage \in {"temp", "write", "clang", "remove"}
  PROVE  /\ Typed /\ Holding /\ IsDriver /\ Parsed /\ ResultTrue /\ Broken = {} /\ ~EmitsIR
         /\ world.entry = "compile" /\ ~opts.emitIROnly
         /\ InWay = world.faults \cap {"temp", "disk", "no clang", "clang"}
         /\ stage # "remove" => shown = Untold /\ executable = NoFile
<1>1. Typed /\ Holding /\ ResultTrue /\ Compiled
  BY DEF Telling, AfterPipeline
<1>2. world.entry = "compile" /\ Broken = {} /\ ~opts.emitIROnly
  BY <1>1 DEF Compiled
<1>3. IsDriver
  BY <1>2 DEF IsDriver
<1>4. Parsed
  <2>1. stage \in DriverStages \ {"args", "exited", "killed"}
    BY DEF DriverStages
  <2> QED
    BY <1>3, <2>1 DEF Telling
<1>5. ~EmitsIR
  BY <1>2, <1>4 DEF Parsed
<1>6. InWay = world.faults \cap {"temp", "disk", "no clang", "clang"}
  BY <1>1, <1>2, <1>5, InWayIs
<1>7. stage # "remove" => shown = Untold /\ executable = NoFile
  BY <1>1 DEF Compiled
<1> QED
  BY <1>1, <1>2, <1>3, <1>4, <1>5, <1>6, <1>7

(* The IR file and clang.                                                   *)
LEMMA CompilingTells ==
  ASSUME Telling, CreateTemp \/ WriteIR \/ WriteFails \/ InvokeClang
  PROVE  Telling'
<1>1. /\ stage \in {"temp", "write", "clang"} /\ UNCHANGED <<world, opts, result>>
  BY DEF CreateTemp, WriteIR, WriteFails, InvokeClang, InMain, At, Exit, To
<1>2. /\ Typed /\ Holding /\ IsDriver /\ Parsed /\ ResultTrue /\ Broken = {} /\ ~EmitsIR
      /\ world.entry = "compile" /\ ~opts.emitIROnly
      /\ InWay = world.faults \cap {"temp", "disk", "no clang", "clang"}
      /\ shown = Untold /\ executable = NoFile
  BY <1>1, AtMain
<1>3. Holding'
  BY <1>2, MainStep
<1>4. /\ Broken' = Broken /\ Untold' = Untold /\ NoFile' = NoFile /\ InWay' = InWay /\ \A f : Fault(f)' <=> Fault(f)
      /\ Says' = Says
  BY <1>1, SameClaims DEF Untold, Failed, Nothing, NoFile, Says, Message
<1>5. Compiled
  BY DEF Telling
<1>6. CASE CreateTemp
  <2>1. CASE Fault("temp") /\ Exit(1, <<>>, Says) /\ UNCHANGED Files
    <3>1. 1 \in Int /\ 1 % 256 = 1 /\ <<>> \in Seq(Messages) /\ Says \in Seq(Messages) /\ Says # <<>>
      BY MessageLists
    <3>2. shown'.status = 1 % 256 /\ shown'.out = <<>> /\ shown'.err = Says /\ stage' = "exited"
      BY <1>2, <2>1, <3>1, ExitShows
    <3>3. Typed' /\ executable' = NoFile
      BY <1>1, <1>2, <2>1, <3>2 DEF Typed, Files
    <3>4. InWay' # {} /\ world'.entry = "compile"
      BY <1>1, <1>2, <1>4, <2>1 DEF Fault
    <3>5. ~AsksHelp' /\ ~Misused'
      BY <1>1, <1>2, NeitherHelpNorMisuse
    <3>6. DriverTruth'
      BY <1>4, <3>1, <3>2, <3>3, <3>4, <3>5 DEF DriverTruth
    <3> QED
      BY <1>1, <1>2, <1>3, <3>2, <3>3, <3>6, TellsExited
  <2>2. CASE ~Fault("temp") /\ To("write") /\ UNCHANGED <<executable, clangOK, shown>>
    <3>1. stage' = "write"
      BY <2>2 DEF To
    <3>2. Compiled'
      BY <1>1, <1>2, <1>4, <2>2, <3>1 DEF Compiled, Pipeline, Stages
    <3> QED
      BY <1>1, <1>2, <1>3, <3>1, <3>2, TellsMain
  <2> QED
    BY <1>6, <2>1, <2>2 DEF CreateTemp
<1>7. CASE WriteIR
  <2>1. stage = "write" /\ ~Fault("disk") /\ stage' = "clang" /\ UNCHANGED <<executable, shown>>
    BY <1>7 DEF WriteIR, InMain, At, To
  <2>2. Compiled'
    BY <1>1, <1>2, <1>4, <1>5, <2>1 DEF Compiled, Pipeline, Stages
  <2> QED
    BY <1>1, <1>2, <1>3, <2>1, <2>2, TellsMain
<1>8. CASE WriteFails
  <2>1. stage' = "killed"
    BY <1>8 DEF WriteFails
  <2>2. Typed'
    BY <1>1, <1>2, <2>1 DEF Typed
  <2> QED
    BY <1>3, <2>1, <2>2, TellsKilled
<1>9. CASE InvokeClang
  <2>1. stage = "clang" /\ stage' = "remove"
    BY <1>9 DEF InvokeClang, InMain, At, To
  <2>2. temp = "written" /\ ~Fault("temp") /\ ~Fault("disk")
    BY <1>2, <1>5, <2>1 DEF Holding, FileHeld, Compiled
  <2>3. /\ clangOK' <=> ~Fault("no clang") /\ ~Fault("clang")
        /\ executable' = IF clangOK' THEN opts.outputPath ELSE NoFile
        /\ shown' = IF clangOK' THEN Untold ELSE [Untold EXCEPT !.err = Says]
    <3>1. CASE /\ Fault("no clang") \/ Fault("clang")
               /\ Tells(Says) /\ clangOK' = FALSE /\ UNCHANGED executable
      <4>1. <<>> \o Says = Says
        BY MessageLists, ConcatEmptySeq
      <4>2. shown' = [Untold EXCEPT !.err = <<>> \o Says]
        BY <1>2, <3>1 DEF Tells, Untold
      <4> QED
        BY <1>2, <3>1, <4>1, <4>2
    <3>2. CASE /\ ~Fault("no clang") /\ ~Fault("clang")
               /\ executable' = IF temp = "written" THEN opts.outputPath ELSE executable
               /\ clangOK' = TRUE /\ UNCHANGED shown
      BY <1>2, <2>2, <3>2
    <3> QED
      BY <1>9, <3>1, <3>2 DEF InvokeClang
  <2>4. Compiled'
    <3>1. stage' \notin Pipeline
      BY <2>1 DEF Pipeline, Stages
    <3> QED
      BY <1>1, <1>2, <1>4, <2>1, <2>2, <2>3, <3>1 DEF Compiled
  <2> QED
    BY <1>1, <1>2, <1>3, <2>1, <2>4, TellsMain
<1> QED
  BY <1>6, <1>7, <1>8, <1>9

(* The file is removed and main returns.                                    *)
LEMMA RemoveTempTells ==
  ASSUME Telling, RemoveTemp
  PROVE  Telling'
<1>1. /\ stage = "remove" /\ UNCHANGED <<world, opts, result, executable, clangOK>>
  BY DEF RemoveTemp, InMain, At, Exit, To
<1>2. /\ Typed /\ Holding /\ IsDriver /\ Parsed /\ world.entry = "compile" /\ ~EmitsIR
      /\ InWay = world.faults \cap {"temp", "disk", "no clang", "clang"}
  BY <1>1, AtMain
<1>3. /\ ~Fault("temp") /\ ~Fault("disk") /\ (clangOK <=> ~Fault("no clang") /\ ~Fault("clang"))
      /\ executable = IF clangOK THEN opts.outputPath ELSE NoFile
      /\ shown = IF clangOK THEN Untold ELSE [Untold EXCEPT !.err = Says]
  BY <1>1 DEF Telling, Compiled
<1>4. Holding'
  BY <1>2, MainStep
<1>5. InWay = {} <=> clangOK
  BY <1>2, <1>3 DEF Fault
<1>6. ~AsksHelp' /\ ~Misused' /\ InWay' = InWay /\ (EmitsIR' <=> EmitsIR) /\ Target' = Target /\ NoFile' = NoFile
  BY <1>1, <1>2, NeitherHelpNorMisuse, SameClaims, SameWorld DEF NoFile
<1>7. opts.outputPath = Target
  BY <1>2 DEF Parsed
<1>8. 0 \in Int /\ 1 \in Int /\ 0 % 256 = 0 /\ 1 % 256 = 1 /\ <<>> \in Seq(Messages) /\ Says \in Seq(Messages) /\ Says # <<>>
  BY MessageLists
<1>9. CASE clangOK /\ Exit(0, Says, <<>>)
  <2>1. shown = Untold
    BY <1>3, <1>9
  <2>2. shown'.status = 0 % 256 /\ shown'.out = Says /\ shown'.err = <<>> /\ stage' = "exited"
    BY <1>8, <1>9, <2>1, ExitShows
  <2>3. Typed'
    BY <1>1, <1>2, <2>2 DEF Typed
  <2>4. DriverTruth'
    BY <1>1, <1>2, <1>3, <1>5, <1>6, <1>7, <1>8, <1>9, <2>2 DEF DriverTruth
  <2> QED
    BY <1>1, <1>2, <1>4, <2>2, <2>3, <2>4, TellsExited
<1>10. CASE ~clangOK /\ Exit(1, <<>>, <<>>)
  <2>1. shown = [Untold EXCEPT !.err = Says]
    BY <1>3, <1>10
  <2>2. <<>> \o <<>> = <<>> /\ Says \o <<>> = Says
    BY <1>8, ConcatEmptySeq
  <2>3. shown' = [shown EXCEPT !.status = 1 % 256, !.out = @ \o <<>>, !.err = @ \o <<>>] /\ stage' = "exited"
    BY <1>10 DEF Exit, To
  <2>4. shown'.status = 1 % 256 /\ shown'.out = <<>> \o <<>> /\ shown'.err = Says \o <<>>
    BY <2>1, <2>3 DEF Untold
  <2>5. shown'.status = 1 /\ shown'.out = <<>> /\ shown'.err = Says
    BY <1>8, <2>2, <2>4
  <2>6. Typed'
    BY <1>1, <1>2, <2>3 DEF Typed
  <2>7. InWay' # {} /\ world'.entry = "compile" /\ executable' = NoFile'
    BY <1>1, <1>2, <1>3, <1>5, <1>6, <1>10
  <2>8. DriverTruth'
    BY <1>6, <1>8, <2>5, <2>7 DEF DriverTruth
  <2> QED
    BY <1>1, <1>2, <1>4, <2>3, <2>6, <2>8, TellsExited
<1> QED
  BY <1>9, <1>10 DEF RemoveTemp

-----------------------------------------------------------------------------
(* The worker.  After a throw there is no reply, and a fault of the module *)
(* to show for it.                                                         *)
LEMMA ThrowTells ==
  ASSUME Telling, Holding', world' = world, shown = Untold, InModule # {}, NEW error, Throw(error)
  PROVE  Telling'
<1>1. stage' = "free result" /\ shown' = [Untold EXCEPT !.err = <<Message(error, Nothing)>>]
  BY DEF Throw, To
<1>2. shown'.ok = FALSE /\ shown'.err # <<>>
  BY <1>1 DEF Untold
<1>3. InModule' # {}
  BY SameClaims
<1>4. WorkerTruth'
  BY <1>2, <1>3 DEF WorkerTruth
<1>5. Typed'
  BY <1>1 DEF Telling, Typed
<1> QED
  BY <1>1, <1>2, <1>4, <1>5, TellsAnswer

(* The worker up to the envelope.                                           *)
LEMMA ServingTells ==
  ASSUME Telling, AllocateSource \/ Trap \/ Envelope
  PROVE  Telling'
<1>1. /\ stage \in Pipeline \cup {"source"} /\ UNCHANGED <<world, opts, result, executable>>
  BY DEF AllocateSource, Trap, Envelope, InWorker, At, Throw, To, Files, Pipeline
<1>2. Holding /\ Typed /\ Compiled /\ Invoked
  BY DEF Telling
<1>3. Holding'
  BY <1>2, WorkerStep
<1>4. shown = Untold /\ executable = NoFile
  <2>1. CASE stage \in Pipeline
    BY <1>2, <2>1 DEF Compiled
  <2>2. CASE stage = "source"
    BY <1>2, <2>2 DEF Compiled
  <2> QED
    BY <1>1, <2>1, <2>2
<1>5. ~IsDriver
  <2>1. CASE AllocateSource
    <3>1. stage = "source"
      BY <2>1 DEF AllocateSource, InWorker, At
    <3> QED
      BY <1>2, <3>1 DEF Holding, Placed, DriverStages, Pipeline, Stages
  <2>2. CASE Trap \/ Envelope
    BY <2>2 DEF Trap, Envelope
  <2> QED
    BY <2>1, <2>2
<1>6. /\ ~IsDriver' /\ Untold' = Untold /\ NoFile' = NoFile /\ Failed' = Failed /\ \A f : Fault(f)' <=> Fault(f)
  BY <1>1, <1>5, SameClaims DEF Untold, NoFile, Failed, Nothing
<1>7. CASE AllocateSource
  <2>1. CASE Fault("source buffer") /\ Throw("worker")
    <3>1. InModule # {}
      BY <2>1 DEF InModule, Fault
    <3> QED
      BY <1>1, <1>3, <1>4, <2>1, <3>1, ThrowTells
  <2>2. CASE ~Fault("source buffer") /\ To("parse") /\ UNCHANGED shown
    <3>1. stage' = "parse" /\ stage' \in Pipeline /\ stage' # "returned"
      BY <2>2 DEF To, Pipeline, Stages
    <3>2. stage = "source"
      BY <1>7 DEF AllocateSource, InWorker, At
    <3>3. result' = Failed'
      BY <1>1, <1>6, <3>2 DEF Telling
    <3>4. Unbroken'
      BY <1>6, <3>1, <3>3 DEF Unbroken
    <3>5. Typed'
      BY <1>1, <1>2, <3>1 DEF Typed
    <3>6. executable' = NoFile /\ shown' = Untold
      BY <1>1, <1>4, <2>2
    <3>7. (IsDriver => Parsed)' /\ (~IsDriver => ~Fault("source buffer"))'
      BY <1>6, <2>2
    <3> QED
      BY <1>3, <3>1, <3>4, <3>5, <3>6, <3>7, TellsPipeline
  <2> QED
    BY <1>7, <2>1, <2>2 DEF AllocateSource
<1>8. CASE Trap
  <2>1. InModule # {} /\ Throw("trap")
    BY <1>8 DEF Trap, InModule, Fault
  <2> QED
    BY <1>1, <1>3, <1>4, <2>1, ThrowTells
<1>9. CASE Envelope
  <2>1. CASE Fault("result buffer") /\ Throw("worker")
    <3>1. InModule # {}
      BY <2>1 DEF InModule, Fault
    <3> QED
      BY <1>1, <1>3, <1>4, <2>1, <3>1, ThrowTells
  <2>2. CASE ~Fault("result buffer") /\ To("reply") /\ UNCHANGED shown
    <3>1. stage = "returned" /\ stage' = "reply" /\ ~Fault("trap")
      BY <1>9, <2>2 DEF Envelope, InWorker, At, To
    <3>2. stage \in AfterPipeline /\ stage \in Pipeline
      BY <3>1 DEF AfterPipeline, Pipeline
    <3>3. ResultTrue'
      BY <1>1, <3>2, SameResult DEF Telling
    <3>4. ~Fault("source buffer")
      BY <1>2, <1>5, <3>2 DEF Invoked
    <3>5. Invoked'
      BY <1>6, <2>2, <3>1, <3>4 DEF Invoked
    <3>6. stage' \notin Pipeline /\ stage' \notin Stages
      BY <3>1 DEF Pipeline, Stages
    <3>7. Compiled'
      BY <1>1, <1>4, <1>6, <2>2, <3>1, <3>6 DEF Compiled
    <3>8. Typed'
      BY <1>1, <1>2, <3>1 DEF Typed
    <3> QED
      BY <1>3, <1>6, <3>1, <3>3, <3>5, <3>6, <3>7, <3>8 DEF Telling
  <2> QED
    BY <1>9, <2>1, <2>2 DEF Envelope
<1> QED
  BY <1>7, <1>8, <1>9

(* What JSON.parse makes of the envelope is what the module put into it.   *)
LEMMA ParseReplyTells ==
  ASSUME Telling, ParseReply
  PROVE  Telling'
<1>1. /\ stage = "reply" /\ stage' = "free result" /\ UNCHANGED <<world, opts, result, executable>>
  BY DEF ParseReply, InWorker, At, Throw, To, Files
<1>2. Holding /\ Typed /\ ResultTrue /\ shown = Untold /\ Invoked
  BY <1>1 DEF Telling, Compiled, AfterPipeline
<1>3. Holding'
  BY <1>2, WorkerStep
<1>4. ~IsDriver
  BY <1>1, <1>2 DEF Holding, Placed, DriverStages, Pipeline, Stages
<1>5. result \in Results /\ stderrBuffer \in Seq(Nat)
  BY <1>2, DiagnosticsShown DEF ResultTrue
<1>6. /\ Decoded(jsonString(result.stdout)) = result.stdout
      /\ Decoded(jsonString(stderrBuffer)) = stderrBuffer
      /\ Decoded(jsonString(result.ast)) = result.ast
  <2>1. result.stdout \in Seq(Nat) /\ result.ast \in Seq(Nat)
    BY <1>5 DEF Results
  <2> QED
    BY <1>5, <2>1, JsonRoundTrip
<1>7. Malformed \notin {result.stdout, stderrBuffer, result.ast}
  <2>1. \A text \in Seq(Nat) : text # <<-1>>
    <3>1. ASSUME NEW text \in Seq(Nat), text = <<-1>> PROVE FALSE
      <4>1. Len(text) = 1 /\ text[1] = -1
        BY <3>1
      <4>2. text[1] \in Nat
        BY <4>1
      <4> QED
        BY <4>1, <4>2
    <3> QED
      BY <3>1
  <2> QED
    BY <1>5, <2>1 DEF Results, Malformed
<1> DEFINE exit == IF world.entry = "run" THEN result.exitCode ELSE IF result.success THEN 0 ELSE 1
           answer == [shown EXCEPT !.ok = TRUE, !.status = exit,
                        !.out = Buffer("program", result.stdout), !.err = Buffer("pipeline", stderrBuffer),
                        !.reply = [result EXCEPT !.stdout = result.stdout, !.ast = result.ast]]
<1>8. IF Fault("foreign") THEN Throw("worker") ELSE shown' = answer
  BY <1>6, <1>7 DEF ParseReply
<1>9. CASE Fault("foreign")
  <2>1. InModule # {} /\ Throw("worker")
    BY <1>8, <1>9 DEF InModule, Fault
  <2> QED
    BY <1>1, <1>2, <1>3, <2>1, ThrowTells
<1>10. CASE ~Fault("foreign")
  <2>1. shown'.ok = TRUE /\ shown'.status = exit /\ shown'.out = Buffer("program", result.stdout)
        /\ shown'.err = Buffer("pipeline", stderrBuffer)
        /\ shown'.reply.success = result.success /\ shown'.reply.ast = result.ast
    <3>1. shown'.ok = TRUE /\ shown'.status = exit /\ shown'.out = Buffer("program", result.stdout)
          /\ shown'.err = Buffer("pipeline", stderrBuffer)
          /\ shown'.reply = [result EXCEPT !.stdout = result.stdout, !.ast = result.ast]
      <4> HIDE DEF exit
      <4> QED
        BY <1>2, <1>8, <1>10 DEF Untold
    <3> QED
      BY <1>5, <3>1 DEF Results
  <2> HIDE DEF answer
  <2>2. InModule = {}
    <3>1. ~Fault("source buffer") /\ ~Fault("trap") /\ ~Fault("result buffer")
      BY <1>1, <1>2, <1>4 DEF Invoked
    <3> QED
      BY <1>10, <3>1 DEF InModule, Fault
  <2>3. world.entry \in {"parse", "run"}
    BY <1>2, <1>4, TypedWorld DEF IsDriver
  <2>4. InWay = Broken
    BY <1>2, <2>3, InWayIs
  <2>5. InWay' = InWay /\ InModule' = InModule
    BY <1>1, SameClaims
  <2>6. result.success <=> InWay = {}
    BY <1>2, <2>4 DEF ResultTrue
  <2>7. exit = IF InWay # {} THEN 1 ELSE IF world.entry = "run" THEN world.exit ELSE 0
    <3>1. CASE world.entry = "run"
      BY <1>2, <2>4, <2>6, <3>1 DEF ResultTrue, Compiles
    <3>2. CASE world.entry = "parse"
      BY <2>6, <3>2
    <3> QED
      BY <2>3, <3>1, <3>2
  <2>8. /\ stderrBuffer = <<>> <=> Broken = {}
        /\ Broken # {} => \E n \in 1..2 : stderrBuffer = FlattenSeq([i \in 1..n |-> Line(world.text)])
        /\ Buffer("pipeline", stderrBuffer) = <<>> <=> stderrBuffer = <<>>
        /\ stderrBuffer # <<>> => Buffer("pipeline", stderrBuffer) = <<Message("pipeline", stderrBuffer)>>
    <3>1. "pipeline" \in Sources
      BY DEF Sources
    <3> QED
      BY <1>2, <1>5, <3>1, DiagnosticsShown, MessageLists
  <2>9. WorkerTruth'
    <3> HIDE DEF exit
    <3> QED
      BY <1>1, <2>1, <2>2, <2>4, <2>5, <2>6, <2>7, <2>8 DEF WorkerTruth
  <2>10. OutputTrue'
    <3>1. shown'.out = IF world.entry = "parse" THEN <<>>
                       ELSE IF InWay \subseteq {"runtime"} THEN Buffer("program", world.text) ELSE <<>>
      <4>1. CASE world.entry = "parse"
        BY <1>2, <2>1, <4>1 DEF ResultTrue, Compiles, Buffer, Nothing
      <4>2. CASE world.entry = "run"
        BY <1>2, <2>1, <2>4, <4>2 DEF ResultTrue, Compiles, Buffer, Nothing
      <4> QED
        BY <2>3, <4>1, <4>2
    <3>2. shown'.err # <<>> =>
            \E n \in 1..2 : shown'.err = <<Message("pipeline", FlattenSeq([i \in 1..n |-> Line(world.text)]))>>
      BY <2>1, <2>8
    <3>3. world.entry = "parse" /\ InWay = {} => shown'.reply.ast = world.text
      BY <1>2, <2>1, <2>4 DEF ResultTrue
    <3> QED
      BY <1>1, <2>5, <3>1, <3>2, <3>3 DEF OutputTrue
  <2>11. Typed'
    BY <1>1, <1>2 DEF Typed
  <2> QED
    BY <1>1, <1>3, <2>9, <2>10, <2>11, TellsAnswer
<1> QED
  BY <1>9, <1>10

(* finally changes nothing of what will be posted.                          *)
LEMMA FreeingTells ==
  ASSUME Telling, FreeResult \/ FreeSource
  PROVE  Telling'
<1>1. /\ stage \in {"free result", "free source"} /\ stage' \in {"free source", "posted"}
      /\ UNCHANGED <<world, shown>>
  BY DEF FreeResult, FreeSource, InWorker, At, To
<1>2. Holding /\ Typed /\ WorkerTruth /\ (shown.ok => OutputTrue)
  BY <1>1 DEF Telling
<1>3. Holding'
  BY <1>2, WorkerStep
<1>4. WorkerTruth' /\ (shown.ok => OutputTrue)'
  BY <1>1, <1>2, SameTruth
<1>5. Typed'
  BY <1>1, <1>2 DEF Typed
<1> QED
  BY <1>1, <1>3, <1>4, <1>5, TellsAnswer

(* Nothing happens.                                                        *)
LEMMA StutterTells ==
  ASSUME Telling, UNCHANGED vars
  PROVE  Telling'
<1>1. UNCHANGED <<world, args, opts, stage, result, temp, executable, clangOK, heap, shown>>
  BY DEF vars
<1>2. /\ \A i : IsValue(i)' <=> IsValue(i)
      /\ \A i : Option(i)' <=> Option(i)
      /\ Inputs' = Inputs /\ Wrong' = Wrong /\ Helps' = Helps
      /\ (EmitsIR' <=> EmitsIR) /\ Target' = Target
  BY <1>1, SameWorld
<1>3. /\ InWay' = InWay /\ Broken' = Broken
      /\ (AsksHelp' <=> AsksHelp) /\ (Misused' <=> Misused)
      /\ (IsDriver' <=> IsDriver) /\ (Compiles' <=> Compiles)
      /\ \A f : Fault(f)' <=> Fault(f)
  BY <1>1, SameClaims
<1>4. Holding' /\ Typed'
  <2>1. Holding /\ Typed
    BY DEF Telling
  <2> QED
    BY <1>1, <1>3, <2>1 DEF Holding, Placed, FileHeld, BuffersHeld, Typed
<1>5. \A k : Consumed(k) => Consumed(k)'
  BY <1>1, <1>2 DEF Consumed
<1>6. (Parsed => Parsed') /\ (ResultTrue => ResultTrue')
  BY <1>1, SameParsed, SameResult
<1>7. (WorkerTruth => WorkerTruth') /\ (OutputTrue => OutputTrue')
  BY <1>1, SameTruth
<1>8. DriverTruth' <=> DriverTruth
  BY <1>1, <1>2, <1>3 DEF DriverTruth
<1>9. Failed' = Failed /\ Untold' = Untold /\ NoFile' = NoFile /\ Says' = Says
  BY DEF Failed, Nothing, Untold, NoFile, Says, Message
<1>10. Unbroken' <=> Unbroken
  BY <1>1, <1>3, <1>9 DEF Unbroken
<1>11. (Compiled' <=> Compiled) /\ (Invoked' <=> Invoked)
  BY <1>1, <1>3, <1>9 DEF Compiled, Invoked
<1> QED
  BY <1>1, <1>3, <1>4, <1>5, <1>6, <1>7, <1>8, <1>9, <1>10, <1>11 DEF Telling

-----------------------------------------------------------------------------
(* The inductive step.                                                     *)
LEMMA TellingNext == Telling /\ [Next]_vars => Telling'
<1> SUFFICES ASSUME Telling, [Next]_vars PROVE Telling'
  OBVIOUS
<1>1. CASE ArgHelp \/ ArgOutput \/ ArgEmitIR \/ ArgUnknown \/ ArgInput \/ ArgsDone
  BY <1>1, ArgTells
<1>2. CASE OpenInput \/ ParseSource \/ MergeImports \/ CheckTypes \/ DumpAst \/ Generate \/ Interpret
  BY <1>2, PipelineTells
<1>3. CASE ReturnRun
  BY <1>3, ReturnRunTells
<1>4. CASE ReturnCompiled
  BY <1>4, ReturnCompiledTells
<1>5. CASE CreateTemp \/ WriteIR \/ WriteFails \/ InvokeClang
  BY <1>5, CompilingTells
<1>6. CASE RemoveTemp
  BY <1>6, RemoveTempTells
<1>7. CASE Interrupt
  <2>1. stage' = "killed" /\ UNCHANGED world
    BY <1>7 DEF Interrupt
  <2>2. Holding'
    BY HoldingNext DEF Telling
  <2>3. Typed'
    BY <2>1 DEF Telling, Typed
  <2> QED
    BY <2>1, <2>2, <2>3, TellsKilled
<1>8. CASE AllocateSource \/ Trap \/ Envelope
  BY <1>8, ServingTells
<1>9. CASE ParseReply
  BY <1>9, ParseReplyTells
<1>10. CASE FreeResult \/ FreeSource
  BY <1>10, FreeingTells
<1>11. CASE Over \/ UNCHANGED vars
  <2>1. UNCHANGED vars
    BY <1>11 DEF Over
  <2> QED
    BY <2>1, StutterTells
<1> QED
  BY <1>1, <1>2, <1>3, <1>4, <1>5, <1>6, <1>7, <1>8, <1>9, <1>10, <1>11 DEF Next

(* main.cpp:132-192, api.cpp, worker.js:31: whatever the arguments, the    *)
(* program and the faults are, what the user is told is true.              *)
THEOREM TellsTheTruth == Spec => []Truthful
<1>1. Telling => Truthful
  BY DEF Telling, Truthful, DriverTruth, WorkerTruth, At
<1> QED
  BY <1>1, TellingInit, TellingNext, PTL DEF Spec

(* README.md:118-120: whatever the program prints, its output arrives as   *)
(* it was printed, and the diagnostics are those of the pipeline.          *)
THEOREM PreservesOutput == Spec => []OutputPreserved
<1>1. ASSUME Telling PROVE OutputPreserved
  <2> DEFINE Held == \/ At("exited") /\ world.entry = "interpret" /\ ~AsksHelp /\ ~Misused
                     \/ At("posted") /\ shown.ok
  <2>1. Held => OutputTrue
    BY <1>1 DEF Telling, At
  <2> HIDE DEF Held
  <2>2. OutputTrue =>
          /\ shown.out = IF world.entry = "parse" THEN <<>>
                         ELSE IF InWay \subseteq {"runtime"} THEN Buffer("program", world.text) ELSE <<>>
          /\ shown.err # <<>> =>
               \E n \in 1..2 : shown.err = <<Message("pipeline", FlattenSeq([i \in 1..n |-> Line(world.text)]))>>
          /\ world.entry = "parse" /\ InWay = {} => shown.reply.ast = world.text
    BY DEF OutputTrue
  <2> QED
    BY <2>1, <2>2 DEF OutputPreserved, Held
<1> QED
  BY <1>1, TellingInit, TellingNext, PTL DEF Spec
=============================================================================
